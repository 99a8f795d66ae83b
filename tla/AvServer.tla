------------------------------ MODULE AvServer ------------------------------
(***************************************************************************)
(* The AV source server of xiao-esp32s3-camera-stream (main/server.c): one *)
(* task around select() that serves one TCP client at a time, parses its   *)
(* handshakes and requests, captures one frame per request and writes it   *)
(* out in chunks, a slice of a message per turn of the loop.               *)
(*                                                                         *)
(* pc is the place of server_task in a turn: "select", then "recv" and     *)
(* "parse" (on_readable; one iteration of its loop is one step), "write"   *)
(* (on_writable) and "capture".  The client and the network move between   *)
(* any two of these steps.  A byte on either direction of the connection   *)
(* is a record [msg, pos]: byte number pos of message msg.                 *)
(***************************************************************************)
EXTENDS Integers, Sequences

CONSTANTS
    ReqIds,         \* request ids the client uses
    QueueLen,       \* SERVER_REQUEST_QUEUE_LEN
    HandshakesMax,  \* UINT8_MAX, where s_handshakes_due saturates
    HeaderLen,      \* SERVER_HEADER_LEN
    HandshakeLen,   \* SERVER_HANDSHAKE_LEN
    RequestLen,     \* SERVER_REQUEST_LEN
    DataHeaderLen,  \* SERVER_DATA_HEADER_LEN
    MaxRxPayload,   \* SERVER_MAX_RX_PAYLOAD
    MaxChunkData,   \* SERVER_MAX_CHUNK_DATA
    FrameLens,      \* sizes of the JPEGs the camera produces
    CaptureMayFail, \* whether cam_capture_jpeg can fail
    MaxSends,       \* bound: messages all the clients send
    MaxConns        \* bound: connections made

ASSUME ConstantsAssumption ==
    /\ QueueLen \in Nat \ {0}
    /\ HandshakesMax \in Nat \ {0}
    /\ HeaderLen \in Nat \ {0}
    /\ HandshakeLen \in Nat \ {0}
    /\ RequestLen \in Nat \ {0}
    /\ DataHeaderLen \in Nat
    /\ MaxRxPayload \in Nat
    /\ HandshakeLen <= MaxRxPayload
    /\ RequestLen <= MaxRxPayload
    /\ MaxChunkData \in Nat \ {0}
    /\ FrameLens \subseteq Nat \ {0}
    /\ CaptureMayFail \in BOOLEAN
    /\ MaxSends \in Nat
    /\ MaxConns \in Nat

VARIABLES
    pc, wset,                    \* server_task: place in the turn, write_fds
    client,                      \* s_client >= 0
    rx,                          \* s_rx, s_rx_len
    ring, head, count,           \* s_requests, s_request_head, s_request_count
    due,                         \* s_handshakes_due
    frame, frameSent, lastBuilt, \* s_frame (with its length and request id), ...
    chunk, frameNum,
    msg, off,                    \* s_msg and s_msg_len, s_msg_off
    heap,                        \* JPEG buffers allocated and not freed
    backlog, peer, sock, wire,   \* the network: see below
    conns, sends,                \* what the bounds count
    asked, delivered             \* history of the connection: handshakes accepted,
                                 \* messages sent to their last byte

taskVars  == <<pc, wset>>
queueVars == <<ring, head, count>>
frameVars == <<frame, frameSent, lastBuilt, chunk, heap>>
msgVars   == <<msg, off>>
histVars  == <<asked, delivered>>
netVars   == <<backlog, peer, sock, wire, conns, sends>>
vars == <<taskVars, client, rx, queueVars, due, frameVars, frameNum, msgVars,
          netVars, histVars>>

NoFrame == [len |-> 0]
NoMsg   == [kind |-> "none", size |-> 0]
NoReq   == "none"

-----------------------------------------------------------------------------
(* Messages. *)

\* What a client can send: every case on_readable tells apart.
ClientMsgs ==
    [kind : {"handshake", "newer"}, size : {HeaderLen + HandshakeLen}]
        \cup [kind : {"request"}, size : {HeaderLen + RequestLen}, id : ReqIds]
        \cup [kind : {"otherchannel"}, size : {HeaderLen + RequestLen}]
        \cup [kind : {"ignored"}, size : {HeaderLen, HeaderLen + MaxRxPayload}]
        \cup [kind : {"badmagic"}, size : {HeaderLen}]
        \cup [kind : {"oversize"}, size : {HeaderLen + MaxRxPayload + 1}]

HandshakeMsg == [kind |-> "handshake", size |-> HeaderLen + HandshakeLen]

DataMsg(id, num, k, from, n, isLast) ==
    [kind |-> "data", size |-> HeaderLen + DataHeaderLen + n,
     id |-> id, num |-> num, chunk |-> k, from |-> from, len |-> n, last |-> isLast]

Byte(m, p) == [msg |-> m, pos |-> p]

\* Bytes first..last of message m.
BytesOf(m, first, last) ==
    [i \in 1 .. (last - first + 1) |-> Byte(m, first + i - 1)]

RxCap == HeaderLen + MaxRxPayload

-----------------------------------------------------------------------------
(* The ring of requests. *)

Ring0 == [i \in 0 .. QueueLen - 1 |-> NoReq]

\* Mutant: the full ring is not noticed.
PushRequestUnchecked(id) ==
    /\ ring' = [ring EXCEPT ![(head + count) % QueueLen] = id]
    /\ count' = count + 1
    /\ UNCHANGED head

PushRequest(id) ==
    IF count = QueueLen
    THEN UNCHANGED queueVars
    ELSE /\ ring' = [ring EXCEPT ![(head + count) % QueueLen] = id]
         /\ count' = count + 1
         /\ UNCHANGED head

PopRequest ==
    /\ head' = (head + 1) % QueueLen
    /\ count' = count - 1
    /\ UNCHANGED ring

\* Mutant: s_last_built is left set.
ReleaseFrameKeepsLast ==
    /\ heap' = IF frame # NoFrame THEN heap - 1 ELSE heap
    /\ frame' = NoFrame
    /\ frameSent' = 0
    /\ chunk' = 0
    /\ msg' = NoMsg
    /\ off' = 0
    /\ UNCHANGED lastBuilt

ReleaseFrame ==
    /\ heap' = IF frame # NoFrame THEN heap - 1 ELSE heap
    /\ frame' = NoFrame
    /\ frameSent' = 0
    /\ lastBuilt' = FALSE
    /\ chunk' = 0
    /\ msg' = NoMsg
    /\ off' = 0

\* Mutant: the frame in flight is not released.
CloseClientKeepsFrame ==
    /\ client' = FALSE
    /\ rx' = <<>>
    /\ head' = 0
    /\ count' = 0
    /\ due' = 0
    /\ sock' = <<>>
    /\ peer' = "gone"
    /\ UNCHANGED <<ring, frameVars, msgVars, frameNum, backlog, wire, conns, sends,
                   histVars>>

\* Whatever was in the socket buffers goes with the socket.
CloseClient ==
    /\ client' = FALSE
    /\ rx' = <<>>
    /\ head' = 0
    /\ count' = 0
    /\ due' = 0
    /\ ReleaseFrame
    /\ sock' = <<>>
    /\ peer' = "gone"
    /\ UNCHANGED <<ring, frameNum, backlog, wire, conns, sends, histVars>>

-----------------------------------------------------------------------------
(* server_task. *)

\* Mutants: a frame, or an answer, is not counted as something to write.
TxPendingForgetsFrame == off < msg.size \/ due > 0

TxPendingForgetsAnswers == off < msg.size \/ frame # NoFrame

TxPending == off < msg.size \/ due > 0 \/ frame # NoFrame

Readable == sock # <<>> \/ peer \in {"closed", "reset"}

\* No client: only the listening socket is watched.  accept() or fcntl() may
\* fail, which gives the connection up.
AcceptFails ==
    /\ pc = "select" /\ ~client /\ backlog > 0
    /\ backlog' = backlog - 1
    /\ UNCHANGED <<taskVars, client, rx, queueVars, due, frameVars, frameNum,
                   msgVars, peer, sock, wire, conns, sends, histVars>>

\* Mutant: frames go on being numbered from where the last client left them.
AcceptClientKeepsNumber ==
    /\ pc = "select" /\ ~client /\ backlog > 0
    /\ client' = TRUE
    /\ rx' = <<>>
    /\ head' = 0
    /\ count' = 0
    /\ due' = 0
    /\ backlog' = backlog - 1
    /\ peer' = "open"
    /\ sock' = <<>>
    /\ wire' = <<>>
    /\ asked' = 0
    /\ delivered' = <<>>
    /\ UNCHANGED <<taskVars, ring, frameVars, frameNum, msgVars, conns, sends>>

AcceptClient ==
    /\ pc = "select" /\ ~client /\ backlog > 0
    /\ client' = TRUE
    /\ rx' = <<>>
    /\ head' = 0
    /\ count' = 0
    /\ due' = 0
    /\ frameNum' = 0
    /\ backlog' = backlog - 1
    /\ peer' = "open"
    /\ sock' = <<>>
    /\ wire' = <<>>
    /\ asked' = 0
    /\ delivered' = <<>>
    /\ UNCHANGED <<taskVars, ring, frameVars, msgVars, conns, sends>>

\* select() has no timeout: it returns once the client's socket is readable, or
\* writable with something to write.
Select(w) ==
    /\ pc = "select" /\ client
    /\ w => TxPending
    /\ Readable \/ w
    /\ wset' = w
    /\ pc' = IF Readable THEN "recv" ELSE "write"
    /\ UNCHANGED <<client, rx, queueVars, due, frameVars, frameNum, msgVars,
                   netVars, histVars>>

\* recv() hands over any part of what is there that fits in s_rx.
Recv(n) ==
    /\ pc = "recv" /\ n <= Len(sock) /\ n <= RxCap - Len(rx)
    /\ rx' = rx \o SubSeq(sock, 1, n)
    /\ sock' = SubSeq(sock, n + 1, Len(sock))
    /\ pc' = "parse"
    /\ UNCHANGED <<wset, client, queueVars, due, frameVars, frameNum, msgVars,
                   backlog, peer, wire, conns, sends, histVars>>

\* EAGAIN or EINTR.
RecvNothing ==
    /\ pc = "recv"
    /\ pc' = "write"
    /\ UNCHANGED <<wset, client, rx, queueVars, due, frameVars, frameNum,
                   msgVars, netVars, histVars>>

\* Mutant: recv() returning 0 is taken for nothing to read.
RecvEndsOnErrorOnly ==
    /\ pc = "recv" /\ peer = "reset"
    /\ CloseClient
    /\ pc' = "select"
    /\ UNCHANGED wset

\* recv() returns 0 at the end of the stream, and also when asked for 0 bytes.
\* A reset fails it.
RecvEnds ==
    /\ pc = "recv"
    /\ \/ peer = "closed" /\ sock = <<>>
       \/ peer = "reset"
       \/ Len(rx) = RxCap
    /\ CloseClient
    /\ pc' = "select"
    /\ UNCHANGED wset

-----------------------------------------------------------------------------
(* One iteration of the loop of on_readable. *)

HeaderIn == pc = "parse" /\ Len(rx) >= HeaderLen

\* The message the header at the front of s_rx announces.
Current == rx[1].msg

\* Mutant: a payload one byte too long is accepted.
BadFrameOffByOne ==
    Current.kind = "badmagic" \/ Current.size - HeaderLen > MaxRxPayload + 1

BadFrame == Current.kind = "badmagic" \/ Current.size - HeaderLen > MaxRxPayload

Whole == ~BadFrame /\ Len(rx) >= Current.size

\* Mutant: what follows the message in s_rx is thrown away with it.
ConsumeAll ==
    /\ rx' = <<>>
    /\ UNCHANGED <<taskVars, client, frameVars, frameNum, msgVars, netVars>>

Consume ==
    /\ rx' = SubSeq(rx, Current.size + 1, Len(rx))
    /\ UNCHANGED <<taskVars, client, frameVars, frameNum, msgVars, netVars>>

ParseDone ==
    /\ pc = "parse"
    /\ HeaderIn => ~BadFrame /\ ~Whole
    /\ pc' = "write"
    /\ UNCHANGED <<wset, client, rx, queueVars, due, frameVars, frameNum,
                   msgVars, netVars, histVars>>

\* Bad magic, a payload that is too long, or a newer major version.
ParseDrops ==
    /\ HeaderIn
    /\ BadFrame \/ (Whole /\ Current.kind = "newer")
    /\ CloseClient
    /\ pc' = "select"
    /\ UNCHANGED wset

HandleHandshake ==
    /\ HeaderIn /\ Whole /\ Current.kind = "handshake"
    /\ due' = IF due < HandshakesMax THEN due + 1 ELSE due
    /\ asked' = asked + 1
    /\ Consume
    /\ UNCHANGED <<queueVars, delivered>>

HandleRequest ==
    /\ HeaderIn /\ Whole /\ Current.kind = "request"
    /\ PushRequest(Current.id)
    /\ Consume
    /\ UNCHANGED <<due, histVars>>

IgnoreMsg ==
    /\ HeaderIn /\ Whole /\ Current.kind \in {"ignored", "otherchannel"}
    /\ Consume
    /\ UNCHANGED <<queueVars, due, histVars>>

-----------------------------------------------------------------------------
(* on_writable: at a message boundary builds the next message, then sends a *)
(* part of the current one.                                                 *)

AtBoundary == off = msg.size

\* Length of the next chunk's data.
NextLen ==
    LET remaining == frame.len - frameSent
    IN  IF remaining > MaxChunkData THEN MaxChunkData ELSE remaining

BuildHandshake ==
    [msg |-> HandshakeMsg, off |-> 0, due |-> due - 1,
     sent |-> frameSent, last |-> lastBuilt, chunk |-> chunk]

\* Mutant: a chunk is the last one when it is not full.
BuildChunkShortIsLast ==
    LET last == NextLen < MaxChunkData
    IN  [msg |-> DataMsg(frame.id, frameNum, chunk, frameSent, NextLen, last),
         off |-> 0, due |-> due,
         sent |-> frameSent + NextLen, last |-> last, chunk |-> chunk + 1]

BuildChunk ==
    LET last == NextLen = frame.len - frameSent
    IN  [msg |-> DataMsg(frame.id, frameNum, chunk, frameSent, NextLen, last),
         off |-> 0, due |-> due,
         sent |-> frameSent + NextLen, last |-> last, chunk |-> chunk + 1]

\* What is being sent, once the next message has been built where one is over.
Outgoing ==
    IF ~AtBoundary
    THEN [msg |-> msg, off |-> off, due |-> due,
          sent |-> frameSent, last |-> lastBuilt, chunk |-> chunk]
    ELSE IF due > 0 THEN BuildHandshake ELSE BuildChunk

\* select() said writable, and on_writable finds something to write.
Writing == pc = "write" /\ wset /\ TxPending

\* send() takes k bytes: none on EAGAIN or EINTR.
Put(k) ==
    /\ wire' = wire \o BytesOf(Outgoing.msg, Outgoing.off + 1, Outgoing.off + k)
    /\ delivered' = IF k > 0 /\ Outgoing.off + k = Outgoing.msg.size
                    THEN Append(delivered, Outgoing.msg) ELSE delivered
    /\ due' = Outgoing.due
    /\ pc' = "capture"
    /\ UNCHANGED <<wset, client, rx, queueVars, backlog, peer, sock, conns, sends,
                   asked>>

EndsFrame(k) == k > 0 /\ Outgoing.off + k = Outgoing.msg.size /\ Outgoing.last

SendSlice(k) ==
    /\ Writing /\ k <= Outgoing.msg.size - Outgoing.off /\ ~EndsFrame(k)
    /\ Put(k)
    /\ msg' = Outgoing.msg
    /\ off' = Outgoing.off + k
    /\ frameSent' = Outgoing.sent
    /\ lastBuilt' = Outgoing.last
    /\ chunk' = Outgoing.chunk
    /\ UNCHANGED <<frame, heap, frameNum>>

FinishFrame(k) ==
    /\ Writing /\ k <= Outgoing.msg.size - Outgoing.off /\ EndsFrame(k)
    /\ Put(k)
    /\ ReleaseFrame
    /\ frameNum' = frameNum + 1

\* send() fails otherwise; the connection was reset under us.
SendFails ==
    /\ Writing /\ peer \in {"closed", "reset"}
    /\ CloseClient
    /\ pc' = "select"
    /\ UNCHANGED wset

NotWritable ==
    /\ pc = "write" /\ ~(wset /\ TxPending)
    /\ pc' = "capture"
    /\ UNCHANGED <<wset, client, rx, queueVars, due, frameVars, frameNum,
                   msgVars, netVars, histVars>>

-----------------------------------------------------------------------------
(* The end of a turn: with no frame in hand the oldest request is taken off *)
(* the queue and one frame captured for it.                                 *)

\* Mutant: a turn that may write does not capture.
CapturingElse == pc = "capture" /\ ~wset /\ count > 0 /\ frame = NoFrame

Capturing == pc = "capture" /\ count > 0 /\ frame = NoFrame

\* Mutant: the message being sent is dropped along with the old frame's state.
CaptureDropsMessage(len) ==
    /\ Capturing
    /\ frame' = [len |-> len, id |-> ring[head]]
    /\ frameSent' = 0
    /\ lastBuilt' = FALSE
    /\ chunk' = 0
    /\ msg' = NoMsg
    /\ off' = 0
    /\ heap' = heap + 1
    /\ PopRequest
    /\ pc' = "select"
    /\ UNCHANGED <<wset, client, rx, due, frameNum, netVars, histVars>>

Capture(len) ==
    /\ Capturing
    /\ frame' = [len |-> len, id |-> ring[head]]
    /\ frameSent' = 0
    /\ lastBuilt' = FALSE
    /\ chunk' = 0
    /\ heap' = heap + 1
    /\ PopRequest
    /\ pc' = "select"
    /\ UNCHANGED <<wset, client, rx, due, frameNum, msgVars, netVars, histVars>>

\* The request is gone, and nothing was captured for it.
CaptureFails ==
    /\ Capturing /\ CaptureMayFail
    /\ PopRequest
    /\ pc' = "select"
    /\ UNCHANGED <<wset, client, rx, due, frameVars, frameNum, msgVars, netVars,
                   histVars>>

NothingToCapture ==
    /\ pc = "capture" /\ ~Capturing
    /\ pc' = "select"
    /\ UNCHANGED <<wset, client, rx, queueVars, due, frameVars, frameNum,
                   msgVars, netVars, histVars>>

-----------------------------------------------------------------------------
(* The client and the network. *)

\* A connection is made; it waits in the backlog.
Connect ==
    /\ conns < MaxConns
    /\ conns' = conns + 1
    /\ backlog' = backlog + 1
    /\ UNCHANGED <<taskVars, client, rx, queueVars, due, frameVars, frameNum,
                   msgVars, peer, sock, wire, sends, histVars>>

ClientSends(m) ==
    /\ peer = "open" /\ sends < MaxSends
    /\ sock' = sock \o BytesOf(m, 1, m.size)
    /\ sends' = sends + 1
    /\ UNCHANGED <<taskVars, client, rx, queueVars, due, frameVars, frameNum,
                   msgVars, backlog, peer, wire, conns, histVars>>

\* The client closes its end ("closed"), or the connection breaks ("reset").
ClientLeaves(how) ==
    /\ peer = "open" \/ (peer = "closed" /\ how = "reset")
    /\ peer' = how
    /\ UNCHANGED <<taskVars, client, rx, queueVars, due, frameVars, frameNum,
                   msgVars, backlog, sock, wire, conns, sends, histVars>>

-----------------------------------------------------------------------------
Init ==
    /\ pc = "select" /\ wset = FALSE
    /\ client = FALSE
    /\ rx = <<>>
    /\ ring = Ring0 /\ head = 0 /\ count = 0
    /\ due = 0
    /\ frame = NoFrame /\ frameSent = 0 /\ lastBuilt = FALSE /\ chunk = 0
    /\ frameNum = 0
    /\ msg = NoMsg /\ off = 0
    /\ heap = 0
    /\ backlog = 0 /\ peer = "gone" /\ sock = <<>> /\ wire = <<>>
    /\ conns = 0 /\ sends = 0
    /\ asked = 0 /\ delivered = <<>>

Turn ==
    \/ AcceptFails \/ AcceptClient
    \/ \E w \in BOOLEAN : Select(w)
    \/ \E n \in 1 .. RxCap : Recv(n)
    \/ RecvNothing \/ RecvEnds
    \/ ParseDone \/ ParseDrops
    \/ HandleHandshake \/ HandleRequest \/ IgnoreMsg
    \/ Writing /\ \E k \in 0 .. Outgoing.msg.size : SendSlice(k) \/ FinishFrame(k)
    \/ SendFails \/ NotWritable
    \/ \E len \in FrameLens : Capture(len)
    \/ CaptureFails \/ NothingToCapture

Environment ==
    \/ Connect
    \/ \E m \in ClientMsgs : ClientSends(m)
    \/ \E how \in {"closed", "reset"} : ClientLeaves(how)

Next == Turn \/ Environment

\* The task is always scheduled; a client that is owed something keeps reading,
\* so the socket keeps becoming writable and send() keeps taking bytes; recv()
\* does not find a readable socket empty for ever, nor does accept() fail for
\* ever, and the end of a stream is seen.
Fairness ==
    /\ WF_vars(Turn)
    /\ SF_vars(AcceptClient)
    /\ SF_vars(Select(TRUE))
    /\ SF_vars(\E n \in 1 .. RxCap : Recv(n))
    /\ SF_vars(RecvEnds)
    /\ SF_vars(Writing /\ \E k \in 1 .. Outgoing.msg.size :
                              SendSlice(k) \/ FinishFrame(k))

Spec == Init /\ [][Next]_vars

FairSpec == Spec /\ Fairness

-----------------------------------------------------------------------------
(* Properties. *)

InByte == [msg : ClientMsgs, pos : Nat \ {0}]

OutMsgs ==
    {HandshakeMsg} \cup
    [kind : {"data"}, size : Nat \ {0}, id : ReqIds, num : Nat, chunk : Nat,
     from : Nat, len : Nat, last : BOOLEAN]

OutByte == [msg : OutMsgs, pos : Nat \ {0}]

TypeOK ==
    /\ pc \in {"select", "recv", "parse", "write", "capture"}
    /\ wset \in BOOLEAN
    /\ client \in BOOLEAN
    /\ rx \in Seq(InByte) /\ Len(rx) <= RxCap
    /\ ring \in [0 .. QueueLen - 1 -> ReqIds \cup {NoReq}]
    /\ head \in 0 .. QueueLen - 1
    /\ count \in 0 .. QueueLen
    /\ due \in 0 .. HandshakesMax
    /\ frame \in [len : FrameLens, id : ReqIds] \cup {NoFrame}
    /\ frameSent \in 0 .. frame.len
    /\ lastBuilt \in BOOLEAN
    /\ chunk \in Nat /\ frameNum \in Nat
    /\ msg \in OutMsgs \cup {NoMsg} /\ off \in 0 .. msg.size
    /\ heap \in Nat
    /\ backlog \in Nat
    /\ peer \in {"gone", "open", "closed", "reset"}
    /\ sock \in Seq(InByte) /\ wire \in Seq(OutByte)
    /\ conns \in Nat /\ sends \in Nat
    /\ asked \in Nat /\ delivered \in Seq(OutMsgs)

\* From byte i of s its message runs on, and a new one starts where it ends, as
\* far as byte j shows it.
RunsOn(s, i, j) ==
    LET pos == s[i].pos + j - i
    IN  /\ pos <= s[i].msg.size => s[j] = Byte(s[i].msg, pos)
        /\ pos = s[i].msg.size + 1 => s[j].pos = 1

\* The bytes of s are whole messages one after the other, the last one perhaps
\* incomplete.
Framed(s) ==
    /\ s # <<>> => s[1].pos = 1
    /\ \A i \in 1 .. Len(s) :
         /\ s[i].pos <= s[i].msg.size
         /\ \A j \in i .. Len(s) : RunsOn(s, i, j)

\* Where a stream stands: at a message boundary, or just after byte p of m.
AtStart(s) == s = <<>> \/ s[Len(s)].pos = s[Len(s)].msg.size

After(s, m, p) == s # <<>> /\ s[Len(s)] = Byte(m, p)

\* The parser never loses its place: what is left in s_rx, followed by what is
\* still in the socket, starts at the first byte of a message (on_readable,
\* server.c:238-271; PROTOCOL.md "Connection handling").
ParserInSync == Framed(rx \o sock)

\* recv() is never asked for 0 bytes: its answer would be taken for the end of
\* the stream and the client dropped (server.c:221-226).
RecvHasRoom == pc = "recv" => Len(rx) < RxCap

\* Messages go out whole and never interleave, whatever is captured, parsed or
\* partially sent in between (PROTOCOL.md "Message framing"; server.c:289-291).
WireAtomic == Framed(wire)

\* s_last_built only holds while the last chunk of the frame is in flight, so
\* that an answer to a handshake is never taken for the end of a frame
\* (server.c:388-390).
LastBuiltInFlight ==
    lastBuilt => /\ frame # NoFrame /\ frameSent = frame.len
                 /\ msg.kind = "data" /\ msg.last
                 /\ off < msg.size

\* A connection leaves nothing to the next one: no frame, request, answer or
\* half-sent message survives it, and no JPEG buffer leaks or is freed twice.
NothingOutlivesClient ==
    /\ heap = IF frame = NoFrame THEN 0 ELSE 1
    /\ ~client => /\ frame = NoFrame /\ count = 0 /\ due = 0
                  /\ rx = <<>> /\ AtBoundary /\ pc = "select"

\* PROTOCOL.md "Type 4 - data": each frame arrives as chunks numbered from 0
\* whose data, put end to end, is the frame; no other frame's chunk comes in
\* between, though answers to handshakes may; frames are numbered from 0 on each
\* connection.
IsData(i) == delivered[i].kind = "data"

StartsFrame(m, num) == m.chunk = 0 /\ m.from = 0 /\ m.num = num

Follows(m, p) ==
    IF p.last THEN StartsFrame(m, p.num + 1)
    ELSE /\ m.id = p.id /\ m.num = p.num
         /\ m.chunk = p.chunk + 1
         /\ m.from = p.from + p.len

FramesReassemble ==
    \A j \in 1 .. Len(delivered) :
        IsData(j) =>
            \/ /\ \A i \in 1 .. j - 1 : ~IsData(i)
               /\ StartsFrame(delivered[j], 0)
            \/ \E i \in 1 .. j - 1 :
                  /\ IsData(i)
                  /\ \A k \in i + 1 .. j - 1 : ~IsData(k)
                  /\ Follows(delivered[j], delivered[i])

\* Every handshake accepted is answered, is being answered or is owed an answer:
\* server.c:211-212, "Saturates rather than wraps, so a client hammering us
\* never ends up owed fewer answers than it asked for".
NoAnswerForgotten ==
    client =>
        asked = due + Len(SelectSeq(delivered, LAMBDA m : m.kind = "handshake"))
                    + (IF msg.kind = "handshake" /\ ~AtBoundary THEN 1 ELSE 0)

\* A frame that was captured is sent to its end, or its client goes.
FramesFinish == frame # NoFrame ~> frame = NoFrame

\* Answers owed are given, or the client goes.
HandshakesAnswered == due > 0 ~> due = 0

\* PROTOCOL.md:79 "Requests are served in the order they arrive": a request in
\* the queue does not stay there.
RequestsServed == count > 0 ~> count = 0

\* A client that left is noticed, and its place is free for the next one.
DepartureNoticed == peer \in {"closed", "reset"} ~> peer \in {"gone", "open"}

-----------------------------------------------------------------------------
(* The inductive invariant behind the safety properties (AvServerProofs).  *)

\* What the client wrote and the parser has not consumed is whole messages.
StreamInv == Framed(rx \o sock) /\ AtStart(rx \o sock)

\* Whatever the parser leaves in s_rx is less than the longest message.
RoomInv == pc # "parse" => Len(rx) < RxCap

\* The wire stands where s_msg_off says.
WireInv ==
    /\ Framed(wire)
    /\ client => IF off \in 1 .. msg.size - 1
                 THEN After(wire, msg, off) ELSE AtStart(wire)

\* What waits in the ring are ids clients sent, never what was there before.
QueueInv == \A i \in 0 .. count - 1 : ring[(head + i) % QueueLen] \in ReqIds

\* Until its last chunk is built a frame has data left to send.
FrameInv ==
    /\ frame = NoFrame => frameSent = 0
    /\ frame # NoFrame /\ ~lastBuilt => frameSent < frame.len
    /\ LastBuiltInFlight
    /\ NothingOutlivesClient

IInv == TypeOK /\ StreamInv /\ RoomInv /\ QueueInv /\ WireInv /\ FrameInv
=============================================================================
