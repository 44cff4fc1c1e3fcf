----------------------------- MODULE FrameStream -----------------------------
(***************************************************************************)
(* One direction of a connection: send_frame, recv_frame and the loops     *)
(* under them (src/transport.cpp).  Several threads write to the socket,   *)
(* the scheduler and the connection's own, each a whole frame at a time    *)
(* under the connection's write_mutex; send() and recv() move as much as   *)
(* they please.  The socket may be shut down or reset at any moment, and   *)
(* what was under way is then cut off anywhere.  What is in a payload is   *)
(* up to the codec of its message (see Wire).                              *)
(***************************************************************************)
EXTENDS Integers, Sequences, Functions

CONSTANTS
  Writers,     \* threads that write to the socket
  Catalogue,   \* Catalogue[m]: the message that number m stands for
  Scripts,     \* what the writers may have to send: functions from Writers
               \* to sequences of numbers
  SocketRoom,  \* cells the socket holds
  MaxLength,   \* the longest payload a reader accepts
  Nobody,
  EncodePayload(_),    \* the payload of a message
  DecodePayload(_, _)  \* what is read from a payload of a type: a set with
                       \* the one result, or none where its reader throws

(* Frames.  A cell says what it is, so that a reader out of step with its  *)
(* writer does not find a magic number by accident; the checksum is taken  *)
(* to tell apart any two frames.                                           *)
frame_crc(type, payload) == <<"crc", type, payload>>

encode_frame(m) ==
  LET payload == EncodePayload(m)
  IN  <<<<"magic">>, <<"version">>, <<"type", m.type>>, <<"length", Len(payload)>>>>
        \o [i \in DOMAIN payload |-> <<"data", payload[i]>>]
        \o <<frame_crc(m.type, payload)>>

ASSUME StreamAssumption ==
  /\ Nobody \notin Writers
  /\ SocketRoom \in Nat \ {0}
  /\ MaxLength \in Nat
  /\ Scripts \subseteq [Writers -> Seq(DOMAIN Catalogue)]

(* A message is a type and a body, and its payload a sequence of fields.   *)
ASSUME CatalogueAssumption ==
  \A m \in DOMAIN Catalogue :
    LET payload == EncodePayload(Catalogue[m])
    IN  /\ Catalogue[m] = [type |-> Catalogue[m].type, body |-> Catalogue[m].body]
        /\ Len(payload) \in Nat
        /\ payload = [i \in 1..Len(payload) |-> payload[i]]

VARIABLES
  script,      \* script[w]: messages w has still to send
  write_mutex, \* the writer inside send_frame
  left,        \* left[w]: cells of its frame w has not handed over yet
  order,       \* the messages, in the order their writers got the mutex
  open,        \* whether the socket still takes and gives data
  wire,        \* cells on their way
  got,         \* cells of the current frame the reader has
  reader,      \* "reading", "ended" or "failed"
  delivered    \* messages the reader has returned

streamVars == <<script, write_mutex, left, order, open, wire, got, reader, delivered>>

(* Frame[m]: what is sent for message m.  A cell under way is named by its *)
(* frame, in the order they were sent, and its place in the frame; the     *)
(* reader sees only what it holds.                                         *)
Frame == [m \in DOMAIN Catalogue |-> encode_frame(Catalogue[m])]

Cells(j, m) == [k \in 1..Len(Frame[m]) |-> <<j, k>>]

Held(cell) == Frame[order[cell[1]]][cell[2]]

StreamInit ==
  /\ script \in Scripts
  /\ write_mutex = Nobody
  /\ left = [w \in Writers |-> <<>>]
  /\ order = <<>>
  /\ open = TRUE
  /\ wire = <<>>
  /\ got = <<>>
  /\ reader = "reading"
  /\ delivered = <<>>

-------------------------------------------------------------------------------
(* Writers                                                                 *)

(* Faulty variant: the frame is sent without the mutex.                    *)
SendUnlocked(w) ==
  /\ left[w] = <<>>
  /\ script[w] # <<>>
  /\ left' = [left EXCEPT ![w] = Cells(Len(order) + 1, Head(script[w]))]
  /\ order' = Append(order, Head(script[w]))
  /\ write_mutex' = w
  /\ UNCHANGED <<script, open, wire, got, reader, delivered>>

(* A writer takes the mutex and encodes its frame.                         *)
SendFrame(w) ==
  /\ write_mutex = Nobody
  /\ script[w] # <<>>
  /\ write_mutex' = w
  /\ left' = [left EXCEPT ![w] = Cells(Len(order) + 1, Head(script[w]))]
  /\ order' = Append(order, Head(script[w]))
  /\ UNCHANGED <<script, open, wire, got, reader, delivered>>

(* One turn of send_all: the socket takes some of it.                      *)
SendSome(w) ==
  /\ left[w] # <<>>
  /\ open
  /\ \E n \in 1..Len(left[w]) :
       /\ Len(wire) + n <= SocketRoom
       /\ wire' = wire \o SubSeq(left[w], 1, n)
       /\ left' = [left EXCEPT ![w] = SubSeq(@, n + 1, Len(@))]
  /\ UNCHANGED <<script, write_mutex, order, open, got, reader, delivered>>

(* send() fails, and send_all gives up.  (It returns an error on Windows,  *)
(* the platform the project documents.  POSIX would raise SIGPIPE first,   *)
(* which nothing handles: send() is called without MSG_NOSIGNAL.)          *)
SendFails(w) ==
  /\ left[w] # <<>>
  /\ ~ open
  /\ left' = [left EXCEPT ![w] = <<>>]
  /\ UNCHANGED <<script, write_mutex, order, open, wire, got, reader, delivered>>

(* Faulty variant: the mutex is kept.                                      *)
NoUnlock(w) ==
  /\ write_mutex = w
  /\ left[w] = <<>>
  /\ script[w] # <<>>
  /\ script' = [script EXCEPT ![w] = Tail(@)]
  /\ UNCHANGED <<write_mutex, left, order, open, wire, got, reader, delivered>>

(* send_frame returns; nobody looks at what it returns.                    *)
Unlock(w) ==
  /\ write_mutex = w
  /\ left[w] = <<>>
  /\ write_mutex' = Nobody
  /\ script' = [script EXCEPT ![w] = Tail(@)]
  /\ UNCHANGED <<left, order, open, wire, got, reader, delivered>>

-------------------------------------------------------------------------------
(* The reader                                                              *)

HeaderLength == 4

LengthIn(cells) == Held(cells[4])[2]

(* Faulty variant: the checksum is not counted.                            *)
NeededWithoutChecksum(cells) ==
  IF Len(cells) < HeaderLength THEN HeaderLength - Len(cells)
  ELSE HeaderLength + LengthIn(cells) - Len(cells)

(* What recv_exact still waits for: the header first, then as many cells   *)
(* as it says and the checksum.                                            *)
Needed(cells) ==
  IF Len(cells) < HeaderLength THEN HeaderLength - Len(cells)
  ELSE HeaderLength + LengthIn(cells) + 1 - Len(cells)

GoodHeader(cells) ==
  /\ Held(cells[1]) = <<"magic">>
  /\ Held(cells[2]) = <<"version">>
  /\ LengthIn(cells) <= MaxLength

HeaderRead == Len(got) >= HeaderLength

(* One turn of recv_exact.                                                 *)
RecvSome ==
  /\ reader = "reading"
  /\ HeaderRead => GoodHeader(got)
  /\ \E n \in 1..Len(wire) :
       /\ n <= Needed(got)
       /\ got' = got \o SubSeq(wire, 1, n)
       /\ wire' = SubSeq(wire, n + 1, Len(wire))
  /\ UNCHANGED <<script, write_mutex, left, order, open, reader, delivered>>

(* The type, the payload and the checksum of a frame that is complete.     *)
TypeIn(cells) == Held(cells[3])[2]

Body(cells) == [i \in 1..LengthIn(cells) |-> Held(cells[HeaderLength + i])[2]]

GoodChecksum(cells) == Held(cells[Len(cells)]) = frame_crc(TypeIn(cells), Body(cells))

FrameRead == HeaderRead /\ GoodHeader(got) /\ Needed(got) = 0

(* recv_frame returns a frame and its payload is read.                     *)
Deliver ==
  /\ reader = "reading"
  /\ FrameRead
  /\ GoodChecksum(got)
  /\ \E read \in DecodePayload(TypeIn(got), Body(got)) :
       delivered' = Append(delivered, [type |-> TypeIn(got), body |-> read.rec])
  /\ got' = <<>>
  /\ UNCHANGED <<script, write_mutex, left, order, open, wire, reader>>

(* recv_frame throws: what came is not a frame, is too long for one, or is *)
(* not the frame sent.                                                     *)
Misread ==
  \/ HeaderRead /\ ~ GoodHeader(got)
  \/ FrameRead /\ ~ GoodChecksum(got)

RecvFails ==
  /\ reader = "reading"
  /\ Misread
  /\ reader' = "failed"
  /\ UNCHANGED <<script, write_mutex, left, order, open, wire, got, delivered>>

(* The stream has ended, between two frames or inside one.                 *)
StreamEnds ==
  /\ reader = "reading"
  /\ ~ open
  /\ wire = <<>>
  /\ ~ FrameRead
  /\ reader' = "ended"
  /\ UNCHANGED <<script, write_mutex, left, order, open, wire, got, delivered>>

(* Either side shuts the socket down or dies.                              *)
Break ==
  /\ open
  /\ open' = FALSE
  /\ \E n \in 0..Len(wire) : wire' = SubSeq(wire, 1, n)
  /\ UNCHANGED <<script, write_mutex, left, order, got, reader, delivered>>

Writing(w) == SendFrame(w) \/ SendSome(w) \/ SendFails(w) \/ Unlock(w)

Reading == RecvSome \/ Deliver \/ RecvFails \/ StreamEnds

StreamNext == (\E w \in Writers : Writing(w)) \/ Reading \/ Break

(* Threads that can move do; nothing says the connection breaks.           *)
StreamSpec ==
  /\ StreamInit
  /\ [][StreamNext]_streamVars
  /\ \A w \in Writers : WF_streamVars(Writing(w))
  /\ WF_streamVars(Reading)

-------------------------------------------------------------------------------
(* Type invariant; a frame is only written under the mutex.                *)
StreamTypeOK ==
  /\ write_mutex \in Writers \cup {Nobody}
  /\ \A w \in Writers : left[w] # <<>> => write_mutex = w
  /\ Len(wire) <= SocketRoom
  /\ reader \in {"reading", "ended", "failed"}

TooLong(m) == Len(EncodePayload(Catalogue[m])) > MaxLength

(* "So the scheduler thread and the connection thread cannot interleave    *)
(* their frames on the stream" (Conn): however sends and receives are cut  *)
(* into pieces, the reader never takes payload for a header, sees a frame  *)
(* that does not match its checksum or a payload it cannot read.  It fails *)
(* only on a message that recv_frame is not willing to take.               *)
NeverMisread ==
  /\ Misread \/ reader = "failed" => TooLong(order[Len(delivered) + 1])
  /\ FrameRead => DecodePayload(TypeIn(got), Body(got)) # {}

(* A payload that was cut short is refused by its reader, wherever it was  *)
(* cut, and never read as a shorter list (BinarySource::need).             *)
TruncationRefused ==
  FrameRead =>
    \A n \in 0..(Len(Body(got)) - 1) :
      DecodePayload(TypeIn(got), SubSeq(Body(got), 1, n)) = {}

(* The messages that will arrive: all that were sent while the connection  *)
(* stands, and those wholly under way once it has broken.                  *)
Arriving ==
  LET cells == got \o wire
      last  == cells[Len(cells)]
      whole == IF cells = <<>> THEN Len(delivered)
               ELSE IF last[2] = Len(Frame[order[last[1]]]) THEN last[1]
               ELSE last[1] - 1
  IN  SubSeq(order, Len(delivered) + 1, IF open THEN Len(order) ELSE whole)

Channel == INSTANCE FifoChannel
           WITH Messages <- Range(Catalogue),
                queue <- [i \in DOMAIN Arriving |-> Catalogue[Arriving[i]]],
                received <- delivered,
                up <- open

(* The byte stream, its framing and the codecs of both ends make up the    *)
(* channel of whole messages, in order and field by field as they were     *)
(* sent, that Coordinator is written over.                                 *)
ChannelImplemented == Channel!Spec

(* As long as the connection stands, everything every thread has to send   *)
(* arrives, unless the reader gives up on a message that is too long.      *)
AllDelivered ==
  <>( \/ ~ open
      \/ reader = "failed"
      \/ Len(delivered) = Len(order) /\ \A w \in Writers : script[w] = <<>> )
===============================================================================
