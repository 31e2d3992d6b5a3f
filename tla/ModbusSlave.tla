---------------------------- MODULE ModbusSlave ----------------------------
(***************************************************************************)
(* The Modbus slave of the controller: Modbus::poll (lib/ModbusSlave), and *)
(* the registers it serves (src/rtu/rtu.cpp).                              *)
(*                                                                         *)
(* The bytes of the master's frames arrive one at a time.  Each pass of    *)
(* loop() polls the receive buffer; when no byte has come for T35 the      *)
(* buffer is taken for one frame, checked, and carried out.  Silence is    *)
(* measured with micros(), which wraps.                                    *)
(*                                                                         *)
(* Time is counted in parts of a byte.  A byte is its frame, its position  *)
(* there and whether it arrived intact: the CRC is right exactly for the   *)
(* bytes of one intact frame.  An answer takes no time; what the callbacks *)
(* do to the controller is the subject of the other modules.               *)
(*                                                                         *)
(* Operators whose name ends in a fault, as in OutcomeNoCrc, are not part  *)
(* of the model.  Each is a plausible mistake in the operator that follows *)
(* it, kept to show that a property would notice it.                       *)
(***************************************************************************)
EXTENDS Integers, Sequences

CONSTANTS
    Scripts,    \* what the master may send: sequences of requests
    Garbled,    \* requests that bytes out of place, or damaged, may read as
    MaxIn,      \* MAX_BUFFER_IN, 32
    MaxRx,      \* bytes the receive buffer of the serial line holds, 63
    ByteTime,   \* time a byte takes on the line
    T35,        \* timeout, 3.5 bytes
    Wrap,       \* micros() wraps there, 2^32
    MaxLag,     \* bound: time between two polls
    Pause,      \* the master leaves the line idle for so long after a request
    MaxFaults,  \* bound: bytes lost or damaged on the line
    Faulty      \* bound: positions in a frame where they may be

Function == {"FC_READ_COILS", "FC_READ_DISCRETE_INPUT", "FC_READ_HOLDING_REGISTERS",
             "FC_READ_INPUT_REGISTERS", "FC_WRITE_COIL", "FC_WRITE_MULTIPLE_REGISTERS"}

\* own: addressed to this slave; index and register: the two bytes of the address.
Request == [own : BOOLEAN, function : Function \cup {"Unknown"},
            index : 0 .. 255, register : 0 .. 255, length : Nat]

ASSUME RequestsAssumption ==
    /\ Garbled \subseteq Request
    /\ Scripts # {} /\ \A script \in Scripts : script \in Seq(Request)
\* An answer of more registers than the configuration has would not fit bufOut, and
\* with no register at all the loop over the pack voltages does not end.
ASSUME LengthAssumption ==
    \A script \in Scripts : \A k \in DOMAIN script :
        script[k].function = "FC_READ_HOLDING_REGISTERS" =>
            script[k].length \in 1 .. 17 \/ script[k].length > MaxIn
ASSUME TimeAssumption ==
    /\ {ByteTime, T35, Wrap, MaxLag, Pause} \subseteq Nat \ {0}
    /\ T35 >= 3 * ByteTime /\ Wrap > 2 * T35 /\ {MaxIn, MaxRx, MaxFaults} \subseteq Nat
\* The master gives the slave time to notice the end of a request and answer it.
ASSUME PauseAssumption == Pause > T35 + 2 * MaxLag

VARIABLES
    script,           \* the master's requests, one frame each
    frame,            \* the frame being sent or sent last, 0 for none
    position,         \* how many of its bytes have been sent
    countdown,        \* time to the end of the byte or of the pause
    rx,               \* the receive buffer of the serial line
    clock,            \* micros()
    lastReceiveLen,   \* last_receive_len
    lastReceiveTime,  \* last_receive_time
    sincePoll,        \* time since the last poll
    answer,           \* what the last poll answered, <<>> or <<[frame, status]>>
    served,           \* auxiliary: the last frame carried out
    delivered,        \* auxiliary: the frames that arrived whole and undamaged
    faults,           \* auxiliary: bytes lost or damaged on the line so far
    spoiled,          \* auxiliary: a byte of this frame was lost or damaged
    missing,          \* auxiliary: how many bytes were lost in a row just now
    silence,          \* auxiliary: time since a byte was received, up to T35
    nearWrap,         \* auxiliary: micros() came near its end while bytes waited
    leftovers         \* auxiliary: since a request longer than bufIn, every frame
                      \* has begun before the buffer was empty

master == <<script, frame, position, countdown, delivered, faults, spoiled, missing>>
slave == <<rx, lastReceiveLen, lastReceiveTime, served>>
vars == <<master, slave, clock, sincePoll, answer, silence, nearWrap, leftovers>>

Least(a, b) == IF a <= b THEN a ELSE b
Largest(a, b) == IF a >= b THEN a ELSE b

----------------------------------------------------------------------------
(* The master and the line.                                                *)

Size(request) ==
    IF request.function = "FC_WRITE_MULTIPLE_REGISTERS" THEN 9 + 2 * request.length ELSE 8

Sending == frame > 0 /\ position < Size(script[frame])

\* The next frame, once the pause is over.
StartFrame ==
    /\ ~Sending
    /\ countdown = 0
    /\ frame < Len(script)
    /\ frame' = frame + 1
    /\ position' = 0
    /\ countdown' = ByteTime
    /\ spoiled' = FALSE /\ missing' = 0
    /\ answer' = <<>>
    /\ nearWrap' = (nearWrap /\ rx # <<>>)
    /\ leftovers' = (rx # <<>> /\ (leftovers \/ Size(script[frame]) > MaxIn))
    /\ UNCHANGED <<script, delivered, faults, slave, clock, sincePoll, silence>>

TimePassesWithoutWrap ==
    /\ sincePoll < MaxLag
    /\ sincePoll' = sincePoll + 1
    /\ clock' = clock + 1
    /\ nearWrap' = (nearWrap \/ (rx' # <<>> /\ clock' >= Wrap - T35))
    /\ answer' = <<>>
    /\ UNCHANGED <<script, frame, lastReceiveLen, lastReceiveTime, served, leftovers>>

TimePasses ==
    /\ sincePoll < MaxLag
    /\ sincePoll' = sincePoll + 1
    /\ clock' = (clock + 1) % Wrap
    /\ nearWrap' = (nearWrap \/ (rx' # <<>> /\ clock' >= Wrap - T35))
    /\ answer' = <<>>
    /\ UNCHANGED <<script, frame, lastReceiveLen, lastReceiveTime, served, leftovers>>

\* No byte is complete yet, or none is being sent.
NoByte ==
    /\ Sending => countdown > 1
    /\ countdown' = IF countdown = 0 THEN 0 ELSE countdown - 1
    /\ silence' = Least(silence + 1, T35)
    /\ UNCHANGED <<position, delivered, faults, spoiled, missing, rx>>
    /\ TimePasses

NextByte(intact) == [frame |-> frame, position |-> position + 1, intact |-> intact]

Fault ==
    /\ faults < MaxFaults /\ position + 1 \in Faulty
    /\ faults' = faults + 1
    /\ spoiled' = TRUE

ByteArrives ==
    /\ Len(rx) < MaxRx
    /\ \/ rx' = Append(rx, NextByte(TRUE)) /\ UNCHANGED <<faults, spoiled>>
       \/ rx' = Append(rx, NextByte(FALSE)) /\ Fault
    /\ missing' = 0
    /\ silence' = 0

\* On the line, or because the receive buffer is full.
ByteLost ==
    /\ rx' = rx
    /\ Fault \/ (Len(rx) = MaxRx /\ spoiled' = TRUE /\ UNCHANGED faults)
    /\ missing' = missing + 1
    /\ silence' = Least(silence + 1, T35)

\* The next byte arrives, intact or damaged, or not at all.
Byte ==
    /\ Sending /\ countdown = 1
    /\ ByteArrives \/ ByteLost
    /\ TimePasses
    /\ position' = position + 1
    /\ countdown' = IF position + 1 = Size(script[frame]) THEN Pause ELSE ByteTime
    /\ delivered' = IF position + 1 = Size(script[frame]) /\ ~spoiled'
                    THEN delivered \cup {frame} ELSE delivered

Tick == NoByte \/ Byte

----------------------------------------------------------------------------
(* The registers: CbReadRegisters and CbWriteRegisters.                    *)

CbReadRegisters(request) ==
    LET known == IF request.function = "FC_READ_HOLDING_REGISTERS" THEN 1 .. 5 ELSE 1 .. 2
        address == IF request.function = "FC_READ_HOLDING_REGISTERS"
                   THEN 256 * request.index + request.register ELSE request.register IN
    IF address \in known THEN "STATUS_OK" ELSE "STATUS_ILLEGAL_DATA_ADDRESS"

\* 255 is the configuration, 128 to 191 a rule's limits, 192 to 254 its relays, and
\* what ends in 15 the relay defaults.  A register that is not there is written in
\* silence.
CbWriteRegisters(request) ==
    IF request.register = 5 /\ request.index < 128 /\ request.index % 16 # 15
    THEN "STATUS_ILLEGAL_DATA_ADDRESS" ELSE "STATUS_OK"

\* RTU_TaskInit sets the callbacks for registers only.
Callback(request) ==
    CASE request.function \in {"FC_READ_COILS", "FC_READ_DISCRETE_INPUT", "FC_WRITE_COIL"} ->
             "STATUS_ILLEGAL_FUNCTION"
      [] request.function \in {"FC_READ_HOLDING_REGISTERS", "FC_READ_INPUT_REGISTERS"} ->
             CbReadRegisters(request)
      [] request.function = "FC_WRITE_MULTIPLE_REGISTERS" -> CbWriteRegisters(request)

----------------------------------------------------------------------------
(* Modbus::poll.                                                           *)

\* The first n bytes are those of frame k, undamaged.
AsSent(bytes, k, n) ==
    /\ n <= Len(bytes)
    /\ \A i \in 1 .. n : bytes[i] = [frame |-> k, position |-> i, intact |-> TRUE]

\* What unit, function, address and length the first six bytes read as.
Headers(bytes) ==
    {script[k] : k \in {n \in 1 .. frame : AsSent(bytes, n, 6)}} \cup
    (IF \E n \in 1 .. frame : AsSent(bytes, n, 6) THEN {} ELSE Garbled)

NoAnswer == <<>>
Answer(k, status) == <<[frame |-> k, status |-> status]>>

TooLong(request) == request.function # "FC_WRITE_COIL" /\ request.length > MaxIn

CrcRightFor(bytes, header) ==
    {k \in 1 .. frame : script[k] = header /\ AsSent(bytes, k, Size(header))}

OutcomeNoCrc(bytes, header) ==
    CASE ~header.own \/ Len(bytes) < 8   -> NoAnswer
      [] header.function = "Unknown"     -> Answer(0, "STATUS_ILLEGAL_FUNCTION")
      [] TooLong(header)                 -> Answer(0, "STATUS_ILLEGAL_DATA_ADDRESS")
      [] Len(bytes) < Size(header)       -> NoAnswer
      [] OTHER                           -> Answer(bytes[1].frame, Callback(header))

OutcomeLongerOnly(bytes, header) ==
    CASE ~header.own \/ Len(bytes) < 8   -> NoAnswer
      [] header.function = "Unknown"     -> Answer(0, "STATUS_ILLEGAL_FUNCTION")
      [] TooLong(header)                 -> Answer(0, "STATUS_ILLEGAL_DATA_ADDRESS")
      [] Len(bytes) <= Size(header)      -> NoAnswer
      [] CrcRightFor(bytes, header) = {} -> Answer(0, "STATUS_NEGATIVE_ACKNOWLEDGE")
      [] OTHER -> Answer(CHOOSE k \in CrcRightFor(bytes, header) : TRUE, Callback(header))

\* What is done with a frame: the checks in the code's order, then the callback.
Outcome(bytes, header) ==
    CASE ~header.own \/ Len(bytes) < 8   -> NoAnswer
      [] header.function = "Unknown"     -> Answer(0, "STATUS_ILLEGAL_FUNCTION")
      [] TooLong(header)                 -> Answer(0, "STATUS_ILLEGAL_DATA_ADDRESS")
      [] Len(bytes) < Size(header)       -> NoAnswer
      [] CrcRightFor(bytes, header) = {} -> Answer(0, "STATUS_NEGATIVE_ACKNOWLEDGE")
      [] OTHER -> Answer(CHOOSE k \in CrcRightFor(bytes, header) : TRUE, Callback(header))

Polled == sincePoll' = 0 /\ UNCHANGED <<master, clock, silence, nearWrap, leftovers>>

PollEmpty ==
    /\ rx = <<>>
    /\ answer' = NoAnswer
    /\ Polled
    /\ UNCHANGED slave

NewBytesAtEachPoll == rx # <<>>
NewBytes == rx # <<>> /\ Len(rx) # lastReceiveLen

\* More bytes than at the last poll: the silence is counted from now on.
PollNewBytes ==
    /\ NewBytes
    /\ lastReceiveLen' = Len(rx)
    /\ lastReceiveTime' = clock
    /\ answer' = NoAnswer
    /\ Polled
    /\ UNCHANGED <<rx, served>>

SilentLongNoWait == TRUE
SilentLongTwice == clock >= (lastReceiveTime + 2 * T35) % Wrap
\* Compared as unsigned 32-bit numbers.
SilentLong == clock >= (lastReceiveTime + T35) % Wrap

PollWait ==
    /\ rx # <<>> /\ ~NewBytes
    /\ ~SilentLong
    /\ answer' = NoAnswer
    /\ Polled
    /\ UNCHANGED slave

LengthInShort == Least(Len(rx), MaxIn - 1)
\* lengthIn: what readBytes takes at most.
LengthIn == Least(Len(rx), MaxIn)

\* The frame is read; what does not fit bufIn stays behind.
PollFrame ==
    /\ rx # <<>> /\ ~NewBytes
    /\ SilentLong
    /\ LET bytes == SubSeq(rx, 1, LengthIn) IN
       /\ \E header \in Headers(bytes) :
              /\ answer' = Outcome(bytes, header)
              /\ served' = IF answer' # NoAnswer /\ answer'[1].frame # 0
                           THEN answer'[1].frame ELSE served
       /\ rx' = SubSeq(rx, Len(bytes) + 1, Len(rx))
    /\ lastReceiveLen' = 0
    /\ lastReceiveTime' = 0
    /\ Polled

Poll == PollEmpty \/ PollNewBytes \/ PollWait \/ PollFrame

Init ==
    /\ script \in Scripts
    /\ frame = 0
    /\ position = 0
    /\ countdown = 0
    /\ rx = <<>>
    /\ clock = 0
    /\ lastReceiveLen = 0
    /\ lastReceiveTime = 0
    /\ sincePoll = 0
    /\ answer = NoAnswer
    /\ served = 0
    /\ delivered = {}
    /\ faults = 0
    /\ spoiled = FALSE
    /\ missing = 0
    /\ silence = T35
    /\ nearWrap = FALSE
    /\ leftovers = FALSE

Next == StartFrame \/ Tick \/ Poll

Spec == Init /\ [][Next]_vars

\* Time goes on and loop() does not block; the master need not send anything.
FairSpec == Spec /\ WF_vars(Tick) /\ WF_vars(Poll)

----------------------------------------------------------------------------
(* Properties.                                                             *)

TypeOK ==
    /\ script \in Scripts
    /\ frame \in 0 .. Len(script)
    /\ position \in 0 .. IF frame = 0 THEN 0 ELSE Size(script[frame])
    /\ countdown \in 0 .. Largest(Pause, ByteTime)
    /\ \A i \in DOMAIN rx :
           rx[i] \in [frame : 1 .. frame, position : Nat, intact : BOOLEAN]
    /\ Len(rx) <= MaxRx
    /\ clock \in 0 .. Wrap - 1
    /\ lastReceiveLen \in 0 .. Len(rx)
    /\ lastReceiveTime \in 0 .. Wrap - 1
    /\ sincePoll \in 0 .. MaxLag
    /\ served \in 0 .. frame
    /\ delivered \subseteq 1 .. frame
    /\ faults \in 0 .. MaxFaults /\ missing \in 0 .. position
    /\ silence \in 0 .. T35
    /\ spoiled \in BOOLEAN /\ nearWrap \in BOOLEAN /\ leftovers \in BOOLEAN

\* What becomes of requests: carried out only whole, at most once, in order, also
\* when lag, damage or the wrap of micros() run frames together or tear them.
Service == INSTANCE RequestService WITH Frame <- UNION {DOMAIN requests : requests \in Scripts}
RequestsInOrderOnce == Service!Spec

\* "wait for T35 microseconds": bytes are taken for a frame only when none has been
\* received for T35, as long as micros() was not about to wrap.
FramesEndInSilence ==
    [][PollFrame => silence = T35 \/ nearWrap]_vars

\* The slave never answers an earlier request than the one the master waits for, which
\* would take it for its own answer, and talks into a request only if three bytes of it
\* were lost in a row, which is silence as after its end.
AnswersTheLastRequest ==
    answer # NoAnswer /\ ~nearWrap /\ ~leftovers =>
        /\ answer[1].frame \in {0, frame}
        /\ ~Sending \/ missing >= 3

\* The pause is enough to read all there is: the bytes of a request never wait for
\* those of the next, unless the wrap or a request longer than bufIn delayed them.
FramesKeptApart ==
    [][StartFrame /\ rx # <<>> => nearWrap \/ leftovers']_vars

\* A request that is for this slave and that its buffer holds.
Accepted(request) ==
    /\ request.own /\ request.function # "Unknown"
    /\ ~TooLong(request) /\ Size(request) <= MaxIn

\* The pause is enough to carry out what was asked: when the master goes on to the
\* next request, the one before was carried out, if it arrived intact, whatever damage
\* others before it took.
RequestsServedInTime ==
    [][frame' # frame /\ frame \in delivered /\ Accepted(script[frame])
       /\ ~nearWrap /\ ~leftovers
           => served = frame]_vars

\* Time to the end of the wait lies so close to the wrap that a poll may miss it.
AtTheWrap == lastReceiveTime + T35 \in Wrap - MaxLag + 1 .. Wrap - 1

\* No byte stays in the buffer for good, unless the end of the wait falls into the
\* last moments before micros() wraps.
BytesAreRead == <>[](rx = <<>> \/ AtTheWrap)
============================================================================
