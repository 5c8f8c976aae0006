------------------------------ MODULE SerialGC ------------------------------
(***************************************************************************)
(* CAN frames as lines of text on a serial port: GridConnect.cpp and       *)
(* SerialGC.cpp.  One end sends frames, the other puts lines together from *)
(* characters, one in each pass of the loop.  The receiving end may be     *)
(* started in the middle of a line, and a character of each line can get   *)
(* lost, as when the buffer of the serial port is full.                    *)
(***************************************************************************)
EXTENDS Integers, Sequences, SequencesExt

CONSTANTS
  Frames,        \* frames that the CAN service asks to be sent
  Peers,         \* how the sender writes: subset of "SerialGC", "lower case"
                 \* (any other program) and "RTR with length"
  None,
  RXBUFFERSIZE,  \* characters in rxBuffer
  CountRange     \* values of the counters: unsigned int in the code

ASSUME SerialAssumption ==
  /\ \A f \in Frames : f.id \in Nat /\ f.ext \in BOOLEAN /\ f.rtr \in BOOLEAN
                         /\ f.data \in Seq(0 .. 255)
  /\ Peers \subseteq {"SerialGC", "lower case", "RTR with length"}
  /\ RXBUFFERSIZE \in Nat \ {0} /\ CountRange \in Nat \ {0}

VARIABLES
  peer,                               \* how this sender writes
  wire,                               \* characters on their way
  rxBuffer,                           \* rxBuffer up to rxIndex
  found,                              \* frame of the last available(), or None
  transmitCount, transmitErrorCount,  \* of the sender
  receivedCount, receiveErrorCount,   \* of the receiver
  intact                              \* history: frames on their way undamaged

sender   == <<peer, transmitCount, transmitErrorCount>>
receiver == <<rxBuffer, found, receivedCount, receiveErrorCount>>
vars     == <<sender, receiver, wire, intact>>

Bumped(counter) == (counter + 1) % CountRange

-----------------------------------------------------------------------------
(* GridConnect.cpp: a frame as a line.                                     *)
HexDigits == <<"0", "1", "2", "3", "4", "5", "6", "7",
               "8", "9", "A", "B", "C", "D", "E", "F">>
Lower == <<"0", "1", "2", "3", "4", "5", "6", "7",
           "8", "9", "a", "b", "c", "d", "e", "f">>

(* sprintf("%0<width>X") of a number that has no more digits.              *)
Hex(n, width) ==
  [k \in 1 .. width |-> HexDigits[((n \div 16 ^ (width - k)) % 16) + 1]]

(* Bits 28-21, 20-18 shifted by one, 17-16, and 15-0.                      *)
ExtendedId(id) ==
  Hex(id \div 2 ^ 21, 2) \o Hex(((id \div 2 ^ 18) % 8) * 2, 1)
    \o Hex((id \div 2 ^ 16) % 4, 1) \o Hex(id % (2 ^ 16), 4)

Encodable(frame) ==
  frame.id < (IF frame.ext THEN 2 ^ 29 ELSE 2 ^ 11) /\ Len(frame.data) <= 8

encodeGridConnect(frame) ==
  (IF frame.ext THEN <<":", "X">> \o ExtendedId(frame.id)
                ELSE <<":", "S">> \o Hex(frame.id * 2 ^ 5, 4))
    \o <<IF frame.rtr THEN "R" ELSE "N">>
    \o FlattenSeq([i \in DOMAIN frame.data |-> Hex(frame.data[i], 2)])
    \o <<";">>

(* and a line as a frame.                                                  *)
IsHex(s) == \A k \in DOMAIN s : s[k] \in ToSet(HexDigits)
Digit(c)  == SelectInSeq(HexDigits, LAMBDA d : d = c) - 1
Value(s)  == FoldLeft(LAMBDA n, c : 16 * n + Digit(c), 0, s)

IdWidth(line) == IF line[2] = "X" THEN 8 ELSE 4
IdPart(line)  == SubSeq(line, 3, 2 + IdWidth(line))
FlagAt(line)  == 3 + IdWidth(line)
Data(line)    == SubSeq(line, FlagAt(line) + 1, Len(line) - 1)

Decodable(line) ==
  /\ Len(line) >= 2 /\ line[1] = ":" /\ line[2] \in {"X", "S"}
  /\ Len(line) > FlagAt(line) /\ IsHex(IdPart(line)) /\ line[FlagAt(line)] \in {"R", "N"}
  /\ Len(Data(line)) % 2 = 0 /\ Len(Data(line)) <= 16
  /\ IsHex(Data(line)) /\ Last(line) = ";"

IdOf(line) ==
  LET registers == Value(SubSeq(line, 5, 6))
  IN  IF line[2] = "S" THEN Value(IdPart(line)) \div 2 ^ 5
      ELSE Value(SubSeq(line, 3, 4)) * 2 ^ 21 + (registers \div 2 ^ 5) * 2 ^ 18
             + (registers % 4) * 2 ^ 16 + Value(SubSeq(line, 7, 10))

decodeGridConnect(line) ==
  [id |-> IdOf(line), ext |-> line[2] = "X", rtr |-> line[FlagAt(line)] = "R",
   data |-> [i \in 1 .. Len(Data(line)) \div 2 |-> Value(SubSeq(Data(line), 2 * i - 1, 2 * i))]]

-----------------------------------------------------------------------------
(* The sender: SerialGC::sendCanFrame, or another program.                 *)
LowerCase(line) ==
  [k \in DOMAIN line |-> IF IsHex(<<line[k]>>) THEN Lower[Digit(line[k]) + 1] ELSE line[k]]

Line(frame) ==
  LET line == encodeGridConnect(frame)
  IN  CASE peer = "SerialGC"   -> line
        [] peer = "lower case" -> LowerCase(line)
        [] peer = "RTR with length" ->
             IF frame.rtr THEN Front(line) \o <<HexDigits[Len(frame.data) + 1], ";">> ELSE line

sendCanFrame(frame) ==
  /\ wire = <<>>
  /\ transmitCount' = Bumped(transmitCount)
  /\ \/ /\ ~Encodable(frame)
        /\ transmitErrorCount' = Bumped(transmitErrorCount)
        /\ UNCHANGED <<wire, intact>>
     \/ /\ Encodable(frame)
        /\ \/ wire' = Line(frame) /\ intact' = Append(intact, frame)
           \/ /\ \E k \in DOMAIN Line(frame) : wire' = RemoveAt(Line(frame), k)
              /\ UNCHANGED intact
        /\ UNCHANGED transmitErrorCount
  /\ UNCHANGED <<peer, receiver>>

(* A line that is too long, from a sender that is no SerialGC.             *)
SendTooLong ==
  /\ wire = <<>>
  /\ wire' = <<":", "S">> \o [k \in 1 .. RXBUFFERSIZE |-> "0"] \o <<";">>
  /\ UNCHANGED <<sender, receiver, intact>>

-----------------------------------------------------------------------------
(* SerialGC::available(), on a character c: what is in the buffer then.    *)
toupper(c) == IF c \in ToSet(Lower) THEN HexDigits[SelectInSeq(Lower, LAMBDA d : d = c)] ELSE c

BufferedOnly(c) ==                          \* mutant: a line starts only after an end
  LET longer == Append(rxBuffer, c)
  IN  CASE rxBuffer # <<>> -> IF Len(longer) < RXBUFFERSIZE THEN longer ELSE <<>>
        [] c = ":" -> <<":">>
        [] OTHER   -> <<>>

Buffered(c) ==
  LET longer == Append(rxBuffer, c)
  IN  CASE c = ":" -> <<":">>
        [] c # ":" /\ rxBuffer # <<>> /\ Len(longer) < RXBUFFERSIZE -> longer
        [] OTHER -> <<>>

(* The end of a line: it is decoded, and nothing is left of it.            *)
EndLine(line) ==
  /\ rxBuffer' = <<>>
  /\ receivedCount' = Bumped(receivedCount)
  /\ \/ /\ Decodable(line)
        /\ found' = decodeGridConnect(line)
        /\ intact' = IF intact # <<>> /\ Len(wire) = 1 THEN Tail(intact) ELSE intact
        /\ UNCHANGED receiveErrorCount
     \/ /\ ~Decodable(line)
        /\ found' = None
        /\ receiveErrorCount' = Bumped(receiveErrorCount)
        /\ UNCHANGED intact

available ==
  /\ wire # <<>> /\ wire' = Tail(wire)
  /\ LET c == toupper(Head(wire))
     IN  \/ c = ";" /\ rxBuffer # <<>> /\ EndLine(Buffered(c))
        \/ /\ c # ";" \/ rxBuffer = <<>>
           /\ rxBuffer' = Buffered(c) /\ found' = None
           /\ UNCHANGED <<receivedCount, receiveErrorCount, intact>>
  /\ UNCHANGED sender

(* The receiver starts while a line is on its way.                         *)
Init ==
  /\ peer \in Peers
  /\ \E frame \in Frames :
        /\ Encodable(frame)
        /\ \E k \in 2 .. Len(Line(frame)) + 1 : wire = SubSeq(Line(frame), k, Len(Line(frame)))
  /\ rxBuffer = <<>> /\ found = None /\ intact = <<>>
  /\ transmitCount = 0 /\ transmitErrorCount = 0
  /\ receivedCount = 0 /\ receiveErrorCount = 0

Next == (\E frame \in Frames : sendCanFrame(frame)) \/ SendTooLong \/ available

Spec == Init /\ [][Next]_vars /\ WF_vars(available)

-----------------------------------------------------------------------------
(* Every variable has its type; the buffer never overflows.                *)
Frame == [id : 0 .. 2 ^ 29 - 1, ext : BOOLEAN, rtr : BOOLEAN, data : Seq(0 .. 255)]
Count == 0 .. CountRange - 1

TypeOK ==
  /\ peer \in Peers
  /\ Len(rxBuffer) < RXBUFFERSIZE /\ (rxBuffer # <<>> => Head(rxBuffer) = ":")
  /\ found = None \/ (found \in Frame /\ Len(found.data) <= 8)
  /\ intact \in Seq(Frames)
  /\ {transmitCount, transmitErrorCount, receivedCount, receiveErrorCount} \subseteq Count

(* The serial line keeps the promise of a transport (CanTransport.h:38),   *)
(* although the receiver starts in mid-line and every line may lose a      *)
(* character: a damaged line yields no frame, and costs no other frame.    *)
(* The two counters tell how many frames came out.                         *)
Link == INSTANCE FrameLink WITH
  link <- intact, got <- found, count <- (receivedCount - receiveErrorCount) % CountRange

RefinesLink == Link!Spec

(* "Length field is a single ASCII decimal character" of an RTR message    *)
(* (GridConnect.cpp:26): a line that arrives whole yields its frame.       *)
WholeLinesCount == wire = <<>> => intact = <<>>
=============================================================================
