---------------------------- MODULE LongMessage ----------------------------
(***************************************************************************)
(* The long message protocol of LongMessageService.cpp: nodes that each    *)
(* send one long message at a time as a header and numbered fragments, and *)
(* one node that subscribes to some of the streams and hands what it       *)
(* receives to its user's callback.                                        *)
(*                                                                         *)
(* A CAN bus keeps the order of the frames.  A frame is lost when a queue  *)
(* overflows or a transmit buffer is full (process() ignores the result of *)
(* sendMessageFragment()), and a sender may lose power in mid-message:     *)
(* both are faults.  A byte of a message is <<id, i>>, the i-th byte of    *)
(* the id-th message sent, so that whose byte is where can be told.        *)
(***************************************************************************)
EXTENDS Integers, FiniteSets, SequencesExt

CONSTANTS
  Sender,       \* the sending nodes
  Stream,       \* stream identifiers
  Subscribed,   \* _stream_ids
  Lens,         \* the message lengths that occur
  FragBytes,    \* payload bytes of a frame, 5 in the code
  SeqRange,     \* sequence numbers of a frame, 256 in the code
  BufferLen,    \* _receive_buffer_len
  Concurrent,   \* whether one message may start while another is under way
  MaxSends,     \* bound on messages
  MaxFaults     \* bound on lost frames and power losses

ASSUME LongMessageAssumption ==
  /\ Subscribed \subseteq Stream
  /\ Lens \subseteq Nat \ {0}
  /\ FragBytes \in Nat \ {0} /\ SeqRange \in Nat \ {0} /\ BufferLen \in Nat \ {0}
  /\ MaxSends \in Nat /\ MaxFaults \in Nat
  /\ Concurrent \in BOOLEAN

VARIABLES
  sent,     \* history: stream and length of every message, by its id
  out,      \* the send state of each sender
  bus,      \* frames on their way
  rx,       \* the receive state
  handed,   \* history: the calls of the user's callback
  faults    \* frames and senders lost so far

vars == <<sent, out, bus, rx, handed, faults>>

COMPLETE       == "COMPLETE"
INCOMPLETE     == "INCOMPLETE"
SEQUENCE_ERROR == "SEQUENCE_ERROR"
TIMEOUT_ERROR  == "TIMEOUT_ERROR"

Pad == <<0, 0>>                       \* the zeros that fill a last fragment
MessageByte == {Pad} \cup ((1 .. MaxSends) \X (1 .. 65535))

Whole(id) == [i \in 1 .. sent[id].len |-> <<id, i>>]

(* _send_buffer, _send_buffer_index, _send_sequence_num; nothing at first. *)
NotSending == [id |-> 0, index |-> 0, seq |-> 0]
is_sending(s) == out[s].id # 0 /\ out[s].index < sent[out[s].id].len

(* No frame is under way or about to be sent.                              *)
Silence == bus = <<>> /\ \A s \in Sender : ~is_sending(s)

(* No message is being received.  What the other fields hold then is never *)
(* read again: a header sets them all.                                     *)
NotReceiving ==
  [receiving |-> FALSE, stream |-> "NONE", length |-> 0, received |-> 0,
   expected |-> 0, held |-> <<>>]

Init ==
  /\ sent = <<>>
  /\ out = [s \in Sender |-> NotSending]
  /\ bus = <<>>
  /\ rx = NotReceiving
  /\ handed = <<>>
  /\ faults = 0

-----------------------------------------------------------------------------
(* Sending.                                                                *)

(* A frame gets to the receiver or is lost.                                *)
Transmit(f) ==
  \/ bus' = Append(bus, f) /\ UNCHANGED faults
  \/ faults < MaxFaults /\ faults' = faults + 1 /\ UNCHANGED bus

Header(stream, len) ==
  [stream |-> stream, seq |-> 0, len |-> len, data |-> <<>>]

DataFrame(stream, seq, data) ==
  [stream |-> stream, seq |-> seq % SeqRange, len |-> 0, data |-> data]

(* sendLongMessage().  The code refuses while a message is being sent; a   *)
(* stream id is unique among the messages under way.                       *)
SendLongMessage(s, stream, len) ==
  /\ Len(sent) < MaxSends
  /\ ~is_sending(s)
  /\ \A t \in Sender : is_sending(t) => Concurrent /\ sent[out[t].id].stream # stream
  /\ sent' = Append(sent, [stream |-> stream, len |-> len])
  /\ out' = [out EXCEPT ![s] = [id |-> Len(sent) + 1, index |-> 0, seq |-> 1]]
  /\ Transmit(Header(stream, len))
  /\ UNCHANGED <<rx, handed>>

(* process(), its sending half: the next fragment, padded with zeros.      *)
SendFragment(s) ==
  /\ is_sending(s)
  /\ LET o == out[s]
         data == [i \in 1 .. FragBytes |->
                    IF o.index + i <= sent[o.id].len THEN <<o.id, o.index + i>> ELSE Pad]
     IN  /\ Transmit(DataFrame(sent[o.id].stream, o.seq, data))
         /\ out' = [out EXCEPT ![s].index = @ + FragBytes, ![s].seq = @ + 1]
  /\ UNCHANGED <<sent, rx, handed>>

(* A sender loses power: the rest of its message is never sent.            *)
PowerLoss(s) ==
  /\ is_sending(s)
  /\ faults < MaxFaults
  /\ faults' = faults + 1
  /\ out' = [out EXCEPT ![s] = NotSending]
  /\ UNCHANGED <<sent, bus, rx, handed>>

-----------------------------------------------------------------------------
(* Receiving.                                                              *)

Call(data, stream, status) ==
  [data |-> data, stream |-> stream, status |-> status]

(* The receive state once a header has been accepted: fragment 1 is next.  *)
StartedUncounted(stream, len) ==                         \* mutant: 0 is next
  [NotReceiving EXCEPT !.receiving = TRUE, !.stream = stream, !.length = len]

Started(stream, len) ==
  [NotReceiving EXCEPT !.receiving = TRUE, !.stream = stream, !.length = len,
                       !.expected = 1]

BufferOverfull(held) == Len(held) > BufferLen            \* mutant
BufferFull(held) == Len(held) >= BufferLen

(* One turn of the loop over a fragment's payload: a byte is put in the    *)
(* buffer, and the buffer is handed over at the end of the message, which  *)
(* ends the loop, or when it is full.                                      *)
TakeByte(acc, b) ==
  LET got    == acc.received + 1
      held   == Append(acc.held, b)
      handing(status) == Append(acc.calls, [data |-> held, status |-> status])
  IN  CASE acc.done -> acc
        [] ~acc.done /\ got >= acc.length ->
             [acc EXCEPT !.received = got, !.held = <<>>, !.done = TRUE,
                         !.calls = handing(COMPLETE)]
        [] ~acc.done /\ got < acc.length /\ BufferFull(held) ->
             [acc EXCEPT !.received = got, !.held = <<>>, !.calls = handing(INCOMPLETE)]
        [] OTHER -> [acc EXCEPT !.received = got, !.held = held]

TakeFragmentAfresh(data) ==           \* mutant: what was held is overwritten
  FoldLeft(TakeByte,
           [received |-> rx.received, length |-> rx.length, held |-> <<>>,
            calls |-> <<>>, done |-> FALSE],
           data)

TakeFragment(data) ==
  FoldLeft(TakeByte,
           [received |-> rx.received, length |-> rx.length, held |-> rx.held,
            calls |-> <<>>, done |-> FALSE],
           data)

(* Not receiving: a frame with number 0 on a subscribed stream is a header,*)
(* which it also seems to be when it is a data frame whose number wrapped  *)
(* and whose payload looks right.  Anything else is ignored.               *)
ReceiveHeader(f) ==
  /\ ~rx.receiving
  /\ \/ /\ f.seq = 0 /\ f.stream \in Subscribed
        /\ \E len \in (IF f.data = <<>> THEN {f.len} ELSE Lens) :
             rx' = Started(f.stream, len)
     \/ /\ ~(f.seq = 0 /\ f.stream \in Subscribed /\ f.data = <<>>)
        /\ UNCHANGED rx
  /\ UNCHANGED handed

(* The frame with the expected number of the stream being received.  The   *)
(* expected number is an unsigned int, the number in the frame a byte.     *)
ReceiveExpected(f) ==
  /\ rx.receiving /\ f.stream = rx.stream /\ f.seq = rx.expected
  /\ LET taken == TakeFragment(f.data)
     IN  /\ handed' = handed \o [i \in DOMAIN taken.calls |->
                         Call(taken.calls[i].data, rx.stream, taken.calls[i].status)]
         /\ rx' = IF taken.done THEN NotReceiving
                  ELSE [rx EXCEPT !.received = taken.received, !.held = taken.held,
                                  !.expected = @ + 1]

(* The message is given up and the user told.                              *)
GiveUp(status) ==
  /\ handed' = Append(handed, Call(rx.held, rx.stream, status))
  /\ rx' = NotReceiving

(* A frame of the stream with another number.                              *)
OutOfSequence(f) == rx.receiving /\ f.stream = rx.stream /\ f.seq # rx.expected

ReceiveSkipping(f) ==                             \* mutant: the gap is skipped
  OutOfSequence(f) /\ rx' = [rx EXCEPT !.expected = f.seq + 1] /\ UNCHANGED handed

ReceiveSilently(f) ==                             \* mutant: the user is not told
  OutOfSequence(f) /\ rx' = NotReceiving /\ UNCHANGED handed

ReceiveUnexpected(f) == OutOfSequence(f) /\ GiveUp(SEQUENCE_ERROR)

(* A frame of another stream is ignored, yet counted: the increment at the *)
(* end of processReceivedMessageFragment() is unconditional.               *)
ReceiveOther(f) ==
  /\ rx.receiving /\ f.stream # rx.stream
  /\ rx' = [rx EXCEPT !.expected = @ + 1]
  /\ UNCHANGED handed

(* processReceivedMessageFragment()                                        *)
Receive ==
  /\ bus # <<>>
  /\ bus' = Tail(bus)
  /\ LET f == Head(bus)
     IN  \/ ReceiveHeader(f) \/ ReceiveExpected(f)
         \/ ReceiveUnexpected(f) \/ ReceiveOther(f)
  /\ UNCHANGED <<sent, out, faults>>

(* process(), its receiving half: nothing has come for five seconds.  A    *)
(* sender leaves at most 255 ms between two fragments (setDelay()), so no  *)
(* sender is at work by then.                                              *)
TimedOutHolding == Silence /\ rx.receiving /\ rx.held # <<>>        \* mutant
TimedOut == Silence /\ rx.receiving

TimeOut ==
  /\ TimedOut
  /\ GiveUp(TIMEOUT_ERROR)
  /\ UNCHANGED <<sent, out, bus, faults>>

Next ==
  \/ \E s \in Sender, stream \in Stream, len \in Lens : SendLongMessage(s, stream, len)
  \/ \E s \in Sender : SendFragment(s) \/ PowerLoss(s)
  \/ Receive
  \/ TimeOut

Spec == Init /\ [][Next]_vars

(* The loops of all nodes keep turning: what is on the bus is received, a  *)
(* message begun is sent to its end, and the timeout is looked at.         *)
FairSpec ==
  /\ Spec
  /\ WF_vars(Receive) /\ WF_vars(TimeOut)
  /\ \A s \in Sender : WF_vars(SendFragment(s))

-----------------------------------------------------------------------------
(* Properties.                                                             *)

Status == {COMPLETE, INCOMPLETE, SEQUENCE_ERROR, TIMEOUT_ERROR}

(* The receive buffer never holds more than fits in it, fewer bytes have   *)
(* been received than the message has, and every value has its type.       *)
TypeOK ==
  /\ sent \in Seq([stream : Stream, len : Lens]) /\ Len(sent) <= MaxSends
  /\ \A s \in Sender : out[s] = NotSending \/ out[s].id \in DOMAIN sent
  /\ \A i \in DOMAIN bus : bus[i].stream \in Stream /\ bus[i].seq \in 0 .. SeqRange - 1
  /\ rx.held \in Seq(MessageByte) /\ Len(rx.held) < BufferLen
  /\ rx.receiving => rx.stream \in Subscribed /\ rx.received < rx.length
  /\ \A i \in DOMAIN handed :
       /\ handed[i].stream \in Subscribed /\ handed[i].status \in Status
       /\ handed[i].data \in Seq(MessageByte) /\ Len(handed[i].data) <= BufferLen
  /\ faults \in 0 .. MaxFaults

(* The calls that belong to one message: from just after the last call     *)
(* before k that ended one up to k; and the bytes they handed over.        *)
CallsUpTo(k) ==
  LET ends == {j \in 1 .. k - 1 : handed[j].status # INCOMPLETE}
      first == 1 + CHOOSE j \in ends \cup {0} : \A i \in ends : i <= j
  IN  SubSeq(handed, first, k)
BytesUpTo(k) == FlattenSeq([j \in DOMAIN CallsUpTo(k) |-> CallsUpTo(k)[j].data])

(* What the callback gets, piece by piece and whatever the status, is a    *)
(* prefix of one message, in order and without a gap: the sequence check   *)
(* detects every single fault.  (Two faults can cancel out: the fragment   *)
(* of one message and the header of the next.)                             *)
HandedIsPrefix ==
  faults <= 1 =>
    \A k \in DOMAIN handed : \E id \in DOMAIN sent : IsPrefix(BytesUpTo(k), Whole(id))

(* A message reported complete is the whole of a message that was sent on  *)
(* that stream, and none is reported twice or after a later one.           *)
CompleteCalls == {k \in DOMAIN handed : handed[k].status = COMPLETE}
CompleteIsWhole ==
  faults <= 1 =>
    /\ \A k \in CompleteCalls : \E id \in DOMAIN sent :
         BytesUpTo(k) = Whole(id) /\ handed[k].stream = sent[id].stream
    /\ \A j, k \in CompleteCalls : j < k => BytesUpTo(j)[1][1] < BytesUpTo(k)[1][1]

(* While nothing is lost, one message is sent at a time and has no more    *)
(* fragments than there are numbers, no message ends in an error: neither  *)
(* the numbering nor the timeout gives up a good message.  With several    *)
(* streams at a time, or numbers that wrap, the code does give some up     *)
(* (LongMessageService.cpp:261-262; README, Findings).                     *)
NoErrorWithoutFault ==
  faults = 0 => \A k \in DOMAIN handed : handed[k].status \in {COMPLETE, INCOMPLETE}

(* Nothing is lost in silence: when no frame is under way and the receiver *)
(* is at rest, each message on a subscribed stream was reported complete,  *)
(* except at most as many as there were faults, and one more for each      *)
(* error reported.  (This is for one subscribed stream: with two, a        *)
(* reception that is left waiting hides the headers of the other stream.)  *)
Quiet == Silence /\ ~rx.receiving
Expected == {id \in DOMAIN sent : sent[id].stream \in Subscribed}
NothingLostInSilence ==
  Quiet => Cardinality(Expected) - Cardinality(CompleteCalls)
             <= faults + Cardinality({k \in DOMAIN handed :
                                  handed[k].status \in {SEQUENCE_ERROR, TIMEOUT_ERROR}})

(* A message whose header arrived is not waited for without end.           *)
ReceptionEnds == rx.receiving ~> ~rx.receiving
=============================================================================
