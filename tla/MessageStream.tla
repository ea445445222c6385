---------------------------- MODULE MessageStream ----------------------------
(***************************************************************************)
(* One direction of a TCP connection as net::MessageStream frames it       *)
(* (common/net/src/framing.cpp): a sender that queues what the socket does *)
(* not take, the bytes the kernel holds, and a receiver that polls as      *)
(* TcpServer::poll does.  A frame is a cell for the payload's size, one    *)
(* for the type and one for each byte of the payload, so that a frame can  *)
(* be cut anywhere, inside its header too.                                 *)
(***************************************************************************)
EXTENDS Naturals, Sequences, SequencesExt

CONSTANTS Messages,          \* records of a type and a payload
          kMaxPayloadSize,
          Capacity,          \* cells the kernel holds between the two ends
          MaxSent            \* bound on messages sent

ASSUME StreamAssumption == /\ Messages \subseteq [type : Nat, payload : Seq(Nat)]
                           /\ Capacity \in Nat \ {0}
                           /\ kMaxPayloadSize \in Nat
                           /\ MaxSent \in Nat

VARIABLES mWriteBuffer, mWriteOffset,  \* the sender's stream
          kernel,                      \* accepted by the kernel, not yet received
          closed,                      \* the sender has closed the connection
          mReadBuffer,                 \* the receiver's stream
          reader,                      \* where the receiver's poll is
          sent, received               \* the calls of send, the results of next

writer == <<mWriteBuffer, mWriteOffset, closed, sent>>
streamVars == <<writer, kernel, mReadBuffer, reader, received>>

kHeaderSize == 2
Frame(m) == <<Len(m.payload), m.type>> \o m.payload
Fits(m) == Len(m.payload) <= kMaxPayloadSize

StreamInit ==
  /\ mWriteBuffer = <<>> /\ mWriteOffset = 0
  /\ kernel = <<>> /\ closed = FALSE
  /\ mReadBuffer = <<>> /\ reader = "idle"
  /\ sent = <<>> /\ received = <<>>
-----------------------------------------------------------------------------
(* The sender. *)

\* flush, on what the write buffer has become: the kernel takes what it has
\* room for, and the buffer is cleared once all of it is gone.
NewOffset(offset, size) == IF offset = size THEN 0 ELSE offset

flush(buffer) ==
  LET room == Capacity - Len(kernel)
      pending == Len(buffer) - mWriteOffset
      offset == mWriteOffset + (IF pending <= room THEN pending ELSE room)
  IN /\ kernel' = kernel \o SubSeq(buffer, mWriteOffset + 1, offset)
     /\ mWriteBuffer' = IF offset = Len(buffer) THEN <<>> ELSE buffer
     /\ mWriteOffset' = NewOffset(offset, Len(buffer))

\* Once the peer is gone the socket may report an error; send ignores it.
FlushFails(buffer) ==
  /\ reader = "closed"
  /\ mWriteBuffer' = buffer
  /\ UNCHANGED <<mWriteOffset, kernel>>

send(m) ==
  /\ ~closed
  /\ Len(sent) < MaxSent
  /\ \/ flush(mWriteBuffer \o Frame(m))
     \/ FlushFails(mWriteBuffer \o Frame(m))
  /\ sent' = Append(sent, m)
  /\ UNCHANGED <<closed, mReadBuffer, reader, received>>

\* Closing drops what is still in the write buffer.
Close ==
  /\ ~closed
  /\ closed' = TRUE
  /\ mWriteBuffer' = <<>> /\ mWriteOffset' = 0
  /\ UNCHANGED <<kernel, sent, mReadBuffer, reader, received>>
-----------------------------------------------------------------------------
(* The receiver: pump, then next until it has nothing more. *)

Claims(buffer) == Len(buffer) >= kHeaderSize /\ buffer[1] > kMaxPayloadSize
OneMoreArrived(buffer) == Len(buffer) >= kHeaderSize /\ Len(buffer) > kHeaderSize + buffer[1]
WholeArrived(buffer) == Len(buffer) >= kHeaderSize /\ Len(buffer) >= kHeaderSize + buffer[1]

\* pump drains the socket.  At the end of the stream, and on a size no sender
\* may claim, it fails and the connection is given up with what is buffered.
pump ==
  /\ reader = "idle"
  /\ kernel # <<>> \/ closed
  /\ kernel' = <<>>
  /\ mReadBuffer' = mReadBuffer \o kernel
  /\ reader' = IF closed \/ Claims(mReadBuffer') THEN "closed" ELSE "dispatch"
  /\ UNCHANGED <<writer, received>>

\* What stays buffered behind a message of that size.
HeaderErased(size) == SubSeq(mReadBuffer, kHeaderSize + 1, Len(mReadBuffer))
Erased(size) == SubSeq(mReadBuffer, size + 1, Len(mReadBuffer))

HasNext == WholeArrived(mReadBuffer) /\ ~Claims(mReadBuffer)

next ==
  LET size == kHeaderSize + mReadBuffer[1]
  IN /\ reader = "dispatch"
     /\ HasNext
     /\ received' = Append(received, [type |-> mReadBuffer[2],
                                      payload |-> SubSeq(mReadBuffer, kHeaderSize + 1, size)])
     /\ mReadBuffer' = Erased(size)
     /\ UNCHANGED <<writer, kernel, reader>>

NoMore ==
  /\ reader = "dispatch"
  /\ ~HasNext
  /\ reader' = "idle"
  /\ UNCHANGED <<writer, kernel, mReadBuffer, received>>

Receives == pump \/ next \/ NoMore

StreamNext == (\E m \in Messages : send(m)) \/ Close \/ pump \/ next \/ NoMore

StreamSpec == StreamInit /\ [][StreamNext]_streamVars

\* The receiving process polls again and again.  Nothing obliges the sending
\* one to send again or to close.
FairStreamSpec == StreamSpec /\ WF_streamVars(Receives)
-----------------------------------------------------------------------------
(* Correctness. *)

StreamTypeOK ==
  /\ mWriteBuffer \in Seq(Nat)
  /\ mWriteBuffer = <<>> => mWriteOffset = 0
  /\ mWriteBuffer # <<>> => mWriteOffset \in 0..(Len(mWriteBuffer) - 1) /\ ~closed
  /\ kernel \in Seq(Nat) /\ Len(kernel) <= Capacity
  /\ closed \in BOOLEAN
  /\ mReadBuffer \in Seq(Nat)
  /\ reader \in {"idle", "dispatch", "closed"}
  /\ sent \in Seq(Messages) /\ Len(sent) <= MaxSent
  /\ received \in Seq(Messages) /\ Len(received) <= Len(sent)

\* What the framing promises: whole messages, in order, none twice, wherever the
\* frames were cut on their way and however many came in one read.
Channel == INSTANCE FifoChannel
             WITH Messages <- Messages,
                  Deliverable <- {m \in Messages : Fits(m)},
                  transit <- SubSeq(sent, Len(received) + 1, Len(sent)),
                  handed <- received,
                  open <- reader # "closed"

ImplementsChannel == Channel!Spec

\* The kernel has all of the i-th message.
FramesOf(i) == FlattenSeq([j \in 1..i |-> Frame(sent[j])])
Accepted(i) ==
  /\ i <= Len(sent)
  /\ \A j \in 1..i : Fits(sent[j])
  /\ Len(FramesOf(i)) + (Len(mWriteBuffer) - mWriteOffset) <= Len(FramesOf(Len(sent)))

\* A message the kernel has taken whole is handed out, unless the connection
\* ends: no message waits in the read buffer for another one to push it.
AcceptedArrives ==
  \A i \in 1..MaxSent : Accepted(i) ~> (Len(received) >= i \/ reader = "closed")
-----------------------------------------------------------------------------
(* What a comment of flush says, and no caller does. *)

\* "socket full; retry when it drains": a message given to send leaves the
\* write buffer in the end, or the connection ends.
SentLeaves ==
  (mWriteBuffer # <<>>) ~> (mWriteBuffer = <<>> \/ reader = "closed")
=============================================================================
