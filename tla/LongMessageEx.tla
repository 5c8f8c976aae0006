---------------------------- MODULE LongMessageEx ----------------------------
(***************************************************************************)
(* LongMessageServiceEx of LongMessageService.cpp: nodes that send several *)
(* long messages at a time, each from a context of its own and in round    *)
(* robin, and one node that receives several at a time and checks a CRC.   *)
(*                                                                         *)
(* The bus keeps the order of the frames.  A frame that is lost, on the    *)
(* bus or because the transport refuses it (process() ignores that), and a *)
(* sender that restarts in mid-message are faults.  A byte of a message is *)
(* <<id, i>>, the i-th byte of the id-th message sent.  The CRC of some    *)
(* bytes is those bytes: two messages with one CRC are left out.           *)
(***************************************************************************)
EXTENDS Integers, FiniteSets, SequencesExt

CONSTANTS
  Sender,         \* the sending nodes
  Stream,         \* stream identifiers
  Subscribed,     \* _stream_ids of the receiver
  Lens,           \* the message lengths that occur
  FirstZero,      \* where the first zero byte from a message's start on may be
  FragBytes,      \* payload bytes of a frame, 5 in the code
  SeqRange,       \* sequence numbers of a frame, 256 in the code
  BufferLen,      \* _receive_buffer_len
  NumSend,        \* _num_send_contexts
  NumReceive,     \* _num_receive_contexts
  CrcBySender,    \* _use_crc of the senders
  CrcByReceiver,  \* _use_crc of the receiver
  SharedStreams,  \* whether two nodes may send on one stream at a time
  MaxOnBus,       \* bound on the frames that are on their way
  MaxSends,       \* bound on messages
  MaxFaults       \* bound on lost frames and restarts

ASSUME LongMessageExAssumption ==
  /\ Subscribed \subseteq Stream
  /\ Lens \subseteq Nat /\ FirstZero \subseteq Nat \ {0}
  /\ FragBytes \in Nat \ {0} /\ SeqRange \in Nat \ {0, 1} /\ BufferLen \in Nat \ {0}
  /\ NumSend \in Nat \ {0} /\ NumReceive \in Nat \ {0}
  /\ {CrcBySender, CrcByReceiver, SharedStreams} \subseteq BOOLEAN
  /\ MaxOnBus \in Nat \ {0} /\ MaxSends \in Nat /\ MaxFaults \in Nat

VARIABLES
  sent,      \* stream and length of every message, by its id, and how many of
             \* its bytes were copied to the send context
  tx,        \* the send contexts of each sender
  turn,      \* the context that process() of a sender looks at next
  overrun,   \* a sender has written beyond its contexts
  bus,       \* frames on their way
  rx,        \* the receive contexts
  handed,    \* history: the calls of the user's callback
  refused,   \* history: messages whose header found no free context
  faults     \* frames lost and restarts so far

vars == <<sent, tx, turn, overrun, bus, rx, handed, refused, faults>>
sending   == <<sent, tx, turn, overrun>>
receiving == <<rx, handed, refused>>

SendContext    == 1 .. NumSend
ReceiveContext == 1 .. NumReceive

COMPLETE       == "COMPLETE"
TRUNCATED      == "TRUNCATED"
CRC_ERROR      == "CRC_ERROR"
SEQUENCE_ERROR == "SEQUENCE_ERROR"
TIMEOUT_ERROR  == "TIMEOUT_ERROR"

(* A byte of no message: the zeros that fill a last fragment, and whatever *)
(* lies behind a copy that is shorter than its message.                    *)
Foreign == <<0, 0>>

OtherCrc == <<<<0, 1>>>>              \* a CRC that no message has

Whole(id) == [i \in 1 .. sent[id].len |-> <<id, i>>]

(* A context that is not in use; what its other fields hold is never read. *)
FreeSend    == [id |-> 0, index |-> 0, seq |-> 0]
FreeReceive == [used |-> FALSE, id |-> 0, stream |-> "NONE", length |-> 0,
                crc |-> <<>>, expected |-> 0, held |-> <<>>]

InUse(s) == {c \in SendContext : tx[s][c].id # 0}
Sending(s, stream) == \E c \in InUse(s) : sent[tx[s][c].id].stream = stream

(* allocateContexts()                                                      *)
Init ==
  /\ sent = <<>>
  /\ tx = [s \in Sender |-> [c \in SendContext |-> FreeSend]]
  /\ turn = [s \in Sender |-> 1]
  /\ overrun = FALSE
  /\ bus = <<>>
  /\ rx = [c \in ReceiveContext |-> FreeReceive]
  /\ handed = <<>>
  /\ refused = {}
  /\ faults = 0

-----------------------------------------------------------------------------
(* Sending.                                                                *)
Transmit(f) ==
  \/ Len(bus) < MaxOnBus /\ bus' = Append(bus, f) /\ UNCHANGED faults
  \/ faults < MaxFaults /\ faults' = faults + 1 /\ UNCHANGED bus

(* id is history: the message that a frame belongs to.                     *)
Header(id, stream, len) ==
  [id |-> id, stream |-> stream, seq |-> 0, data |-> <<>>, len |-> len,
   crc |-> IF CrcBySender THEN [i \in 1 .. len |-> <<id, i>>] ELSE <<>>]

Fragment(id, seq, data) ==
  [id |-> id, stream |-> sent[id].stream, seq |-> seq % SeqRange, data |-> data,
   len |-> 0, crc |-> <<>>]

(* sendLongMessage().  A stream that this node is sending on is refused.   *)
(* When no context is free the code writes through a pointer after the     *)
(* last one: nothing can be said of what follows.  The copy is strdup's,   *)
(* which ends with the first zero byte, wherever the message ends; the CRC *)
(* is that of the message.                                                 *)
SendLongMessage(s, stream, len, zero) ==
  /\ Len(sent) < MaxSends
  /\ ~Sending(s, stream)
  /\ \A t \in Sender : Sending(t, stream) => SharedStreams
  /\ \/ /\ InUse(s) = SendContext
        /\ overrun' = TRUE
        /\ UNCHANGED <<sent, tx, turn, bus, faults>>
     \/ /\ InUse(s) # SendContext
        /\ LET c == Min(SendContext \ InUse(s))
               id == Len(sent) + 1
           IN  /\ sent' = Append(sent, [stream |-> stream, len |-> len,
                                     copied |-> Min({zero, len})])
               /\ tx' = [tx EXCEPT ![s][c] = [id |-> id, index |-> 0, seq |-> 1]]
               /\ Transmit(Header(id, stream, len))
        /\ UNCHANGED <<turn, overrun>>
  /\ UNCHANGED receiving

NextTurn(s) == turn' = [turn EXCEPT ![s] = IF @ = NumSend THEN 1 ELSE @ + 1]

(* A context after its next fragment: released with the last byte.         *)
Advanced(o) ==
  IF o.index + FragBytes >= sent[o.id].len
  THEN FreeSend ELSE [o EXCEPT !.index = @ + FragBytes, !.seq = @ + 1]

(* The i-th byte to be sent of a message.  What happens to be right behind *)
(* the copy is as if the first zero byte came later.                       *)
Buffered(id, i) == IF i <= sent[id].copied THEN <<id, i>> ELSE Foreign

(* process(), its sending half: a fragment of the context whose turn it is.*)
SendFragment(s) ==
  LET c == turn[s]
      o == tx[s][c]
      data == [i \in 1 .. FragBytes |-> Buffered(o.id, o.index + i)]
  IN  /\ c \in InUse(s)
      /\ Transmit(Fragment(o.id, o.seq, data))
      /\ tx' = [tx EXCEPT ![s][c] = Advanced(o)]
      /\ NextTurn(s)
      /\ UNCHANGED <<sent, overrun, receiving>>

(* The context is free, or its delay has not passed.                       *)
Skip(s) ==
  /\ InUse(s) # {}
  /\ NextTurn(s)
  /\ UNCHANGED <<sent, tx, overrun, bus, faults, receiving>>

(* A sender loses power and starts again: its messages are not resumed.    *)
Restart(s) ==
  /\ InUse(s) # {}
  /\ faults < MaxFaults
  /\ faults' = faults + 1
  /\ tx' = [tx EXCEPT ![s] = [c \in SendContext |-> FreeSend]]
  /\ turn' = [turn EXCEPT ![s] = 1]
  /\ UNCHANGED <<sent, overrun, bus, receiving>>

-----------------------------------------------------------------------------
(* Receiving.                                                              *)
Receiving == {c \in ReceiveContext : rx[c].used}
FreeContexts == ReceiveContext \ Receiving

Call(c, data, status) ==
  [id |-> rx[c].id, stream |-> rx[c].stream, data |-> data, status |-> status]

(* The callback is called and the context released.                        *)
HandOver(c, data, status) ==
  /\ handed' = Append(handed, Call(c, data, status))
  /\ rx' = [rx EXCEPT ![c] = FreeReceive]
  /\ UNCHANGED refused

(* A header opens the first free context; if there is none it is dropped.  *)
Open(f, len, crc) ==
  \/ /\ FreeContexts # {}
     /\ rx' = [rx EXCEPT ![Min(FreeContexts)] =
                 [used |-> TRUE, id |-> f.id, stream |-> f.stream, length |-> len,
                  crc |-> crc, expected |-> 1, held |-> <<>>]]
     /\ UNCHANGED <<handed, refused>>
  \/ /\ FreeContexts = {}
     /\ refused' = refused \cup {f.id}
     /\ UNCHANGED <<rx, handed>>

(* Number 0 says header, though a fragment whose number wrapped has it     *)
(* too: the flags of a header are then the last byte of its payload.       *)
ReceiveHeader(f) ==
  /\ f.seq = 0
  /\ \/ f.stream \in Subscribed /\ f.data = <<>> /\ Open(f, f.len, f.crc)
     \/ f.stream \in Subscribed /\ f.data # <<>> /\ \E len \in Lens, crc \in {<<>>, OtherCrc} :
          Open(f, len, crc)
     \/ /\ f.stream \notin Subscribed \/ f.data # <<>>
        /\ UNCHANGED receiving

(* The context of a fragment is found by its stream alone.                 *)
ContextsOf(f) == {c \in Receiving : rx[c].stream = f.stream}

ReceiveStray(f) ==
  /\ f.seq # 0 /\ ContextsOf(f) = {}
  /\ UNCHANGED receiving

OutOfSequence(f, c) == f.seq # rx[c].expected

ReceiveUnexpectedSilently(f, c) ==            \* mutant: the user is not told
  /\ OutOfSequence(f, c)
  /\ rx' = [rx EXCEPT ![c] = FreeReceive]
  /\ UNCHANGED <<handed, refused>>

ReceiveUnexpected(f, c) ==
  /\ OutOfSequence(f, c)
  /\ HandOver(c, rx[c].held, SEQUENCE_ERROR)

TakenPastTheEnd(c, data) ==       \* mutant: the length of the buffer is forgotten
  rx[c].held \o SubSeq(data, 1, Min({FragBytes, Max({1, rx[c].length - Len(rx[c].held)})}))

(* The bytes held after those of a fragment that belong to the message and *)
(* that the buffer has room for; one is taken even if there is none.       *)
Taken(c, data) ==
  LET n == Min({FragBytes, Max({1, rx[c].length - Len(rx[c].held)}),
                BufferLen - Len(rx[c].held)})
  IN  rx[c].held \o SubSeq(data, 1, n)

CrcUnchecked(c, held) == TRUE                        \* mutant

(* A CRC of 0 is none: that of an empty message too.                       *)
CrcMatches(c, held) ==
  rx[c].crc = IF CrcByReceiver /\ rx[c].crc # <<>> THEN held ELSE <<>>

ReceiveExpected(f, c) ==
  LET held == Taken(c, f.data)
  IN  /\ ~OutOfSequence(f, c)
      /\ \/ /\ Len(held) >= rx[c].length
            /\ HandOver(c, held, IF CrcMatches(c, held) THEN COMPLETE ELSE CRC_ERROR)
         \/ /\ Len(held) < rx[c].length /\ Len(held) >= BufferLen
            /\ HandOver(c, held, TRUNCATED)
         \/ /\ Len(held) < rx[c].length /\ Len(held) < BufferLen
            /\ rx' = [rx EXCEPT ![c].held = held, ![c].expected = @ + 1]
            /\ UNCHANGED <<handed, refused>>

ContextOfAny(f) == {c \in Receiving : c = Min(Receiving)}  \* mutant: stream not looked at

(* The first of the contexts that a fragment is taken for.                 *)
ContextFor(f) == {c \in ContextsOf(f) : c = Min(ContextsOf(f))}

(* processReceivedMessageFragment()                                        *)
Receive ==
  /\ bus # <<>>
  /\ bus' = Tail(bus)
  /\ LET f == Head(bus)
     IN  \/ ReceiveHeader(f) \/ ReceiveStray(f)
         \/ /\ f.seq # 0
            /\ \E c \in ContextFor(f) : ReceiveUnexpected(f, c) \/ ReceiveExpected(f, c)
  /\ UNCHANGED <<sending, faults>>

(* process(), its receiving half.  Five seconds without a fragment: the    *)
(* sender has stopped, as it waits 255 ms at most between two of them.     *)
UnderWay(id) ==
  \/ \E i \in DOMAIN bus : bus[i].id = id
  \/ \E s \in Sender : \E c \in InUse(s) : tx[s][c].id = id

TimedOut(c) == c \in Receiving /\ ~UnderWay(rx[c].id)

TimeOut(c) ==
  /\ TimedOut(c)
  /\ HandOver(c, rx[c].held, TIMEOUT_ERROR)
  /\ UNCHANGED <<sending, bus, faults>>

Next ==
  /\ ~overrun
  /\ \/ \E s \in Sender, stream \in Stream, len \in Lens, zero \in FirstZero :
          SendLongMessage(s, stream, len, zero)
     \/ \E s \in Sender : SendFragment(s) \/ Skip(s) \/ Restart(s)
     \/ Receive
     \/ \E c \in ReceiveContext : TimeOut(c)

Spec == Init /\ [][Next]_vars

-----------------------------------------------------------------------------
(* Properties.                                                             *)
Status == {COMPLETE, TRUNCATED, CRC_ERROR, SEQUENCE_ERROR, TIMEOUT_ERROR}

(* No buffer is filled beyond its end, and every variable has its type.    *)
TypeOK ==
  /\ sent \in Seq([stream : Stream, len : Lens, copied : Nat]) /\ Len(sent) <= MaxSends
  /\ \A s \in Sender : turn[s] \in SendContext /\ \A c \in InUse(s) :
       tx[s][c].id \in DOMAIN sent /\ tx[s][c].index <= sent[tx[s][c].id].len
  /\ overrun \in BOOLEAN
  /\ \A i \in DOMAIN bus : bus[i].id \in DOMAIN sent /\ bus[i].seq \in 0 .. SeqRange - 1
  /\ \A c \in Receiving : rx[c].stream \in Subscribed /\ Len(rx[c].held) < BufferLen
  /\ \A i \in DOMAIN handed :
       handed[i].status \in Status /\ Len(handed[i].data) <= BufferLen
  /\ refused \subseteq DOMAIN sent
  /\ faults \in 0 .. MaxFaults

CompleteCalls == {k \in DOMAIN handed : handed[k].status = COMPLETE}
Vouched == {k \in CompleteCalls : sent[handed[k].id].len > 0}

Frames(id) == 1 + (sent[id].len + FragBytes - 1) \div FragBytes
NumbersWrap == \E id \in DOMAIN sent : Frames(id) > SeqRange

(* What is reported complete is the whole of one message, sent on that     *)
(* stream, and no message is reported complete twice; however many frames  *)
(* are lost and whenever senders start again on a stream whose old message *)
(* still occupies a context.  Two things spoil it: the CRC of no bytes is  *)
(* 0, which counts as none, so that an empty message is handed over as a   *)
(* zero or a stray byte; and a fragment whose number has wrapped to 0 can  *)
(* look like a header without a CRC.                                       *)
CompleteIsWhole ==
  ~NumbersWrap =>
    /\ \A k \in Vouched : \E id \in DOMAIN sent :
         handed[k].data = Whole(id) /\ handed[k].stream = sent[id].stream
    /\ \A j, k \in Vouched : handed[j].data = handed[k].data => j = k

(* Messages on different streams do not disturb each other: while nothing  *)
(* is lost, and no message is long enough for its numbers to wrap, none    *)
(* ends in an error, however their fragments are interleaved, but for one: *)
(* a message that its sender did not copy whole may fail its CRC.  The     *)
(* messages that are sent around it are not affected.                      *)
CutShort(id) == sent[id].copied < sent[id].len

NoErrorWithoutFault ==
  faults = 0 /\ ~NumbersWrap =>
    \A k \in DOMAIN handed :
      \/ handed[k].status \in {COMPLETE, TRUNCATED}
      \/ handed[k].status = CRC_ERROR /\ CutShort(handed[k].id)

(* "copy the message to the send content" (LongMessageService.cpp:428):    *)
(* what nothing happens to on its way is not spoiled by its sender.        *)
MessageIsCopied ==
  faults = 0 /\ ~NumbersWrap => \A k \in DOMAIN handed : handed[k].status # CRC_ERROR

Quiet == bus = <<>> /\ Receiving = {} /\ \A s \in Sender : InUse(s) = {}
Expected == {id \in DOMAIN sent : sent[id].stream \in Subscribed}

(* Nothing is lost in silence: at rest, each message on a subscribed       *)
(* stream was reported complete, except at most as many as there were      *)
(* faults, errors reported, and headers that found every context in use.   *)
NothingLostInSilence ==
  Quiet => Cardinality(Expected) - Cardinality(CompleteCalls)
             <= faults + Cardinality(refused)
                  + Cardinality(DOMAIN handed \ CompleteCalls)
=============================================================================
