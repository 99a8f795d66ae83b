-------------------------- MODULE AvProtocolProofs --------------------------
(***************************************************************************)
(* What a client receives from the AV server, for every value of the       *)
(* constants: frames put together from their chunks arrive whole, and the  *)
(* server implements the wire protocol of AvProtocol.  The invariant says  *)
(* of the data message being sent, or of the next one to be built, that it *)
(* follows the last one delivered.                                         *)
(***************************************************************************)
EXTENDS AvServerProofs, MCAvServer

-----------------------------------------------------------------------------
(* What may follow a history of messages. *)

IsDataIn(s, i) == s[i].kind = "data"

\* s holds a data message at i, and none later.
LastData(s, i) == i \in 1 .. Len(s) /\ IsDataIn(s, i) /\ \A k \in i + 1 .. Len(s) : ~IsDataIn(s, k)

NoData(s) == \A i \in 1 .. Len(s) : ~IsDataIn(s, i)

\* Chunk k of frame number num, for request id, with the data from `from` on, is what
\* comes after s.
Fits(s, id, num, k, from) ==
    \/ NoData(s) /\ num = 0 /\ k = 0 /\ from = 0
    \/ \E i \in 1 .. Len(s) :
          /\ LastData(s, i)
          /\ IF s[i].last
             THEN num = s[i].num + 1 /\ k = 0 /\ from = 0
             ELSE /\ id = s[i].id /\ num = s[i].num
                  /\ k = s[i].chunk + 1 /\ from = s[i].from + s[i].len

\* A data message is on its way.
Pending == msg.kind = "data" /\ off < msg.size

\* Of frame f, chunk n ends at `sent`, and is the last or not.
Describes(m, f, num, n, sent, last) ==
    /\ f # NoFrame
    /\ m.id = f.id /\ m.num = num
    /\ n = m.chunk + 1 /\ sent = m.from + m.len /\ m.last = last

ChunkInv ==
    /\ frame = NoFrame => chunk = 0
    /\ client /\ Pending =>
          /\ Fits(delivered, msg.id, msg.num, msg.chunk, msg.from)
          /\ Describes(msg, frame, frameNum, chunk, frameSent, lastBuilt)
    /\ client /\ ~Pending => Fits(delivered, frame.id, frameNum, chunk, frameSent)

\* Every data message of s follows the one before it.
Reassembled(s) ==
    \A j \in 1 .. Len(s) :
        IsDataIn(s, j) =>
            \/ /\ \A i \in 1 .. j - 1 : ~IsDataIn(s, i)
               /\ StartsFrame(s[j], 0)
            \/ \E i \in 1 .. j - 1 :
                  /\ IsDataIn(s, i)
                  /\ \A k \in i + 1 .. j - 1 : ~IsDataIn(s, k)
                  /\ Follows(s[j], s[i])

-----------------------------------------------------------------------------
(* One more message delivered. *)

LEMMA Appended ==
    ASSUME NEW s \in Seq(OutMsgs), NEW m \in OutMsgs
    PROVE  /\ Len(s) \in Nat
           /\ Len(Append(s, m)) = Len(s) + 1
           /\ \A i \in 1 .. Len(s) : Append(s, m)[i] = s[i]
           /\ Append(s, m)[Len(s) + 1] = m
  OBVIOUS

\* An answer to a handshake comes in between without changing what is to follow.
LEMMA FitsAnswer ==
    ASSUME NEW s \in Seq(OutMsgs), NEW m \in OutMsgs, m.kind # "data",
           NEW id, NEW num, NEW k, NEW from, Fits(s, id, num, k, from)
    PROVE  Fits(Append(s, m), id, num, k, from)
<1> DEFINE t == Append(s, m)
<1>1. /\ Len(s) \in Nat /\ Len(t) = Len(s) + 1 /\ t[Len(s) + 1] = m
      /\ \A i \in 1 .. Len(s) : t[i] = s[i]
  BY Appended
<1> HIDE DEF t
<1>2. NoData(s) => NoData(t)
  BY <1>1 DEF NoData, IsDataIn
<1>3. \A i \in 1 .. Len(s) : LastData(s, i) => LastData(t, i) /\ i \in 1 .. Len(t)
  BY <1>1 DEF LastData, IsDataIn
<1>4. CASE NoData(s) /\ num = 0 /\ k = 0 /\ from = 0
  BY <1>2, <1>4 DEF Fits, t
<1>5. CASE ~(NoData(s) /\ num = 0 /\ k = 0 /\ from = 0)
  <2>1. PICK i \in 1 .. Len(s) :
          /\ LastData(s, i)
          /\ IF s[i].last
             THEN num = s[i].num + 1 /\ k = 0 /\ from = 0
             ELSE /\ id = s[i].id /\ num = s[i].num
                  /\ k = s[i].chunk + 1 /\ from = s[i].from + s[i].len
    BY <1>5 DEF Fits
  <2>2. t[i] = s[i] /\ LastData(t, i) /\ i \in 1 .. Len(t)
    BY <1>1, <1>3, <2>1
  <2> QED BY <2>1, <2>2 DEF Fits, t
<1> QED BY <1>4, <1>5

\* A chunk is followed by the next one of its frame, or by the first of the next.
LEMMA FitsChunk ==
    ASSUME NEW s \in Seq(OutMsgs), NEW m \in OutMsgs, m.kind = "data"
    PROVE  /\ ~m.last => Fits(Append(s, m), m.id, m.num, m.chunk + 1, m.from + m.len)
           /\ m.last => \A id : Fits(Append(s, m), id, m.num + 1, 0, 0)
<1> DEFINE t == Append(s, m)
           n == Len(s) + 1
<1>1. n \in 1 .. Len(t) /\ t[n] = m /\ Len(t) = n
  BY Appended
<1> HIDE DEF t, n
<1>2. LastData(t, n)
  BY <1>1 DEF LastData, IsDataIn
<1>3. ~m.last => Fits(t, m.id, m.num, m.chunk + 1, m.from + m.len)
  BY <1>1, <1>2 DEF Fits
<1>4. m.last => \A id : Fits(t, id, m.num + 1, 0, 0)
  BY <1>1, <1>2 DEF Fits
<1> QED BY <1>3, <1>4 DEF t

LEMMA ReassembledAppend ==
    ASSUME NEW s \in Seq(OutMsgs), NEW m \in OutMsgs, Reassembled(s),
           m.kind = "data" => Fits(s, m.id, m.num, m.chunk, m.from)
    PROVE  Reassembled(Append(s, m))
<1> DEFINE t == Append(s, m)
<1>1. /\ Len(s) \in Nat /\ Len(t) = Len(s) + 1 /\ t[Len(s) + 1] = m
      /\ \A i \in 1 .. Len(s) : t[i] = s[i]
  BY Appended
<1> HIDE DEF t
<1> DEFINE Good(q, j) ==
             \/ /\ \A i \in 1 .. j - 1 : ~IsDataIn(q, i)
                /\ StartsFrame(q[j], 0)
             \/ \E i \in 1 .. j - 1 :
                   /\ IsDataIn(q, i)
                   /\ \A k \in i + 1 .. j - 1 : ~IsDataIn(q, k)
                   /\ Follows(q[j], q[i])
<1>2. ASSUME NEW j \in 1 .. Len(t), IsDataIn(t, j)
      PROVE  Good(t, j)
  <2>1. CASE j \in 1 .. Len(s)
    <3>1. Good(s, j)
      BY <1>1, <1>2, <2>1 DEF Reassembled, IsDataIn
    <3>2. \A i \in 1 .. j : t[i] = s[i]
      BY <1>1, <2>1
    <3>3. \A i \in 1 .. j : IsDataIn(t, i) <=> IsDataIn(s, i)
      BY <3>2 DEF IsDataIn
    <3>4. t[j] = s[j]
      BY <2>1, <3>2
    <3>5. CASE /\ \A i \in 1 .. j - 1 : ~IsDataIn(s, i)
               /\ StartsFrame(s[j], 0)
      BY <3>3, <3>4, <3>5
    <3>6. CASE \E i \in 1 .. j - 1 :
                  /\ IsDataIn(s, i)
                  /\ \A k \in i + 1 .. j - 1 : ~IsDataIn(s, k)
                  /\ Follows(s[j], s[i])
      <4>1. PICK i \in 1 .. j - 1 :
                  /\ IsDataIn(s, i)
                  /\ \A k \in i + 1 .. j - 1 : ~IsDataIn(s, k)
                  /\ Follows(s[j], s[i])
        BY <3>6
      <4>2. IsDataIn(t, i) /\ \A k \in i + 1 .. j - 1 : ~IsDataIn(t, k)
        BY <2>1, <3>3, <4>1
      <4>3. Follows(t[j], t[i])
        BY <2>1, <3>2, <3>4, <4>1
      <4> QED BY <4>1, <4>2, <4>3
    <3> QED BY <3>1, <3>5, <3>6
  <2>2. CASE j = Len(s) + 1
    <3>1. t[j] = m /\ j - 1 = Len(s) /\ Fits(s, m.id, m.num, m.chunk, m.from)
      BY <1>1, <1>2, <2>2 DEF IsDataIn
    <3>2. \A i \in 1 .. j - 1 : t[i] = s[i] /\ (IsDataIn(t, i) <=> IsDataIn(s, i))
      BY <1>1, <3>1 DEF IsDataIn
    <3>3. CASE NoData(s) /\ m.num = 0 /\ m.chunk = 0 /\ m.from = 0
      BY <3>1, <3>2, <3>3 DEF NoData, StartsFrame
    <3>4. CASE ~(NoData(s) /\ m.num = 0 /\ m.chunk = 0 /\ m.from = 0)
      <4>1. PICK i \in 1 .. Len(s) :
              /\ LastData(s, i)
              /\ IF s[i].last
                 THEN m.num = s[i].num + 1 /\ m.chunk = 0 /\ m.from = 0
                 ELSE /\ m.id = s[i].id /\ m.num = s[i].num
                      /\ m.chunk = s[i].chunk + 1 /\ m.from = s[i].from + s[i].len
        BY <3>1, <3>4 DEF Fits
      <4>2. Follows(m, s[i])
        BY <4>1 DEF Follows, StartsFrame
      <4>3. /\ i \in 1 .. j - 1 /\ IsDataIn(t, i)
            /\ \A k \in i + 1 .. j - 1 : ~IsDataIn(t, k)
        BY <1>1, <3>1, <3>2, <4>1 DEF LastData
      <4> QED BY <3>1, <3>2, <4>2, <4>3
    <3> QED BY <3>3, <3>4
  <2> QED BY <1>1, <2>1, <2>2
<1>3. Reassembled(t)
  BY <1>2 DEF Reassembled
<1> QED BY <1>3 DEF t

-----------------------------------------------------------------------------
(* What is being sent. *)

LEMMA OutgoingFits ==
    ASSUME IInv, ChunkInv, Writing
    PROVE  /\ frame = NoFrame => Outgoing.chunk = 0
           /\ Outgoing.msg.kind = "data" =>
                /\ Fits(delivered, Outgoing.msg.id, Outgoing.msg.num,
                        Outgoing.msg.chunk, Outgoing.msg.from)
                /\ Describes(Outgoing.msg, frame, frameNum, Outgoing.chunk,
                             Outgoing.sent, Outgoing.last)
           /\ Outgoing.msg.kind # "data" =>
                /\ Fits(delivered, frame.id, frameNum, Outgoing.chunk, Outgoing.sent)
                /\ Outgoing.last = FALSE
<1>1. client
  BY OutgoingFacts
<1>2. /\ msg \in OutMsgs \cup {NoMsg} /\ off \in 0 .. msg.size /\ NoMsg.size = 0
      /\ lastBuilt \in BOOLEAN /\ (msg # NoMsg => msg.size \in Nat)
  BY OutMsgSize DEF IInv, TypeOK, NoMsg
<1>3. CASE ~AtBoundary
  <2>1. /\ Outgoing.msg = msg /\ Outgoing.off = off
        /\ Outgoing.sent = frameSent /\ Outgoing.last = lastBuilt /\ Outgoing.chunk = chunk
    BY <1>3 DEF Outgoing
  <2>2. off < msg.size
    BY <1>2, <1>3 DEF AtBoundary
  <2>3. Pending <=> msg.kind = "data"
    BY <2>2 DEF Pending
  <2>4. msg.kind # "data" => lastBuilt = FALSE
    BY <1>2 DEF IInv, FrameInv, LastBuiltInFlight
  <2> QED BY <1>1, <2>1, <2>3, <2>4 DEF ChunkInv
<1>4. CASE AtBoundary
  <2>1. ~Pending /\ lastBuilt = FALSE
    BY <1>2, <1>4 DEF AtBoundary, Pending, IInv, FrameInv, LastBuiltInFlight
  <2>2. Fits(delivered, frame.id, frameNum, chunk, frameSent)
    BY <1>1, <2>1 DEF ChunkInv
  <2>3. CASE due > 0
    <3>1. /\ Outgoing.msg = HandshakeMsg /\ Outgoing.sent = frameSent
          /\ Outgoing.last = lastBuilt /\ Outgoing.chunk = chunk
      BY <1>4, <2>3 DEF Outgoing, BuildHandshake
    <3>2. Outgoing.msg.kind # "data"
      BY <3>1 DEF HandshakeMsg
    <3> QED BY <2>1, <2>2, <3>1, <3>2 DEF ChunkInv
  <2>4. CASE ~(due > 0)
    <3> DEFINE last == NextLen = frame.len - frameSent
               d == DataMsg(frame.id, frameNum, chunk, frameSent, NextLen, last)
    <3>1. frame # NoFrame
      BY <1>2, <1>4, <2>4 DEF Writing, TxPending, AtBoundary
    <3>2. /\ Outgoing.msg = d /\ Outgoing.sent = frameSent + NextLen
          /\ Outgoing.last = last /\ Outgoing.chunk = chunk + 1
      BY <1>4, <2>4 DEF Outgoing, BuildChunk
    <3>3. /\ d.kind = "data" /\ d.id = frame.id /\ d.num = frameNum
          /\ d.chunk = chunk /\ d.from = frameSent /\ d.len = NextLen /\ d.last = last
      BY DEF DataMsg
    <3> HIDE DEF d, last
    <3>4. Fits(delivered, d.id, d.num, d.chunk, d.from)
      BY <2>2, <3>3
    <3>5. Describes(d, frame, frameNum, chunk + 1, frameSent + NextLen, last)
      BY <3>1, <3>3 DEF Describes
    <3> QED BY <3>1, <3>2, <3>3, <3>4, <3>5
  <2> QED BY <2>3, <2>4
<1> QED BY <1>3, <1>4

-----------------------------------------------------------------------------
(* The invariant, action by action. *)

OrderInv == ChunkInv /\ Reassembled(delivered)

\* Most actions see none of it.
LEMMA OrderKept ==
    ASSUME OrderInv,
           UNCHANGED <<client, delivered, frame, frameSent, lastBuilt, chunk, frameNum, msg, off>>
    PROVE  OrderInv'
  BY DEF OrderInv, ChunkInv, Pending, Fits, Describes

\* Without a client nothing is to follow.
LEMMA OrderClosed ==
    ASSUME OrderInv, client' = FALSE, frame' = NoFrame, chunk' = 0, delivered' = delivered
    PROVE  OrderInv'
  BY DEF OrderInv, ChunkInv

LEMMA OrderAccepted ==
    ASSUME IInv, OrderInv, AcceptClient
    PROVE  OrderInv'
<1>1. /\ frame' = NoFrame /\ chunk' = 0 /\ frameSent' = 0 /\ frameNum' = 0
      /\ msg' = msg /\ off' = off /\ delivered' = <<>>
  BY DEF AcceptClient, frameVars, msgVars, IInv, FrameInv, NothingOutlivesClient,
         OrderInv, ChunkInv
<1>2. ~Pending'
  <2>1. off = msg.size /\ off \in 0 .. msg.size
    BY DEF AcceptClient, IInv, TypeOK, FrameInv, NothingOutlivesClient, AtBoundary
  <2> QED BY <1>1, <2>1 DEF Pending
<1>3. NoData(<<>>) /\ Reassembled(<<>>)
  BY DEF NoData, Reassembled
<1>4. Fits(<<>>, frame'.id, 0, 0, 0)
  BY <1>3 DEF Fits
<1> QED BY <1>1, <1>2, <1>3, <1>4 DEF OrderInv, ChunkInv

\* A frame is captured when the last one has been sent to its end.
LEMMA OrderCaptured ==
    ASSUME IInv, OrderInv, NEW len, Capture(len)
    PROVE  OrderInv'
<1>1. /\ frame = NoFrame /\ chunk = 0 /\ frameSent = 0
      /\ frame' # NoFrame /\ chunk' = 0 /\ frameSent' = 0
      /\ UNCHANGED <<client, delivered, frameNum, msg, off>>
  <2>1. frame' # NoFrame
    BY DEF Capture, NoFrame
  <2> QED BY <2>1 DEF Capture, Capturing, msgVars, netVars, histVars, IInv, FrameInv, OrderInv, ChunkInv
<1>2. client => ~Pending
  BY <1>1 DEF OrderInv, ChunkInv, Describes
<1>3. Pending' <=> Pending
  BY <1>1 DEF Pending
<1>4. client => Fits(delivered, frame.id, frameNum, 0, 0)
  BY <1>1, <1>2 DEF OrderInv, ChunkInv
<1>5. client => Fits(delivered, frame'.id, frameNum, 0, 0)
  <2>1. delivered \in Seq(OutMsgs)
    BY DEF IInv, TypeOK
  <2>2. \A i \in 1 .. Len(delivered) : LastData(delivered, i) => delivered[i].chunk \in Nat
    <3>1. \A i \in 1 .. Len(delivered) : delivered[i] \in OutMsgs
      BY <2>1
    <3>2. \A m \in OutMsgs : m.kind = "data" => m.chunk \in Nat
      BY DEF OutMsgs, HandshakeMsg
    <3> QED BY <3>1, <3>2 DEF LastData, IsDataIn
  <2>3. \A i \in 1 .. Len(delivered) : LastData(delivered, i) => 0 # delivered[i].chunk + 1
    BY <2>2
  <2> QED BY <1>4, <2>3 DEF Fits
<1> QED BY <1>1, <1>2, <1>3, <1>5 DEF OrderInv, ChunkInv

LEMMA OrderSent ==
    ASSUME IInv, OrderInv, NEW k \in Nat, SendSlice(k)
    PROVE  OrderInv'
<1> DEFINE m == Outgoing.msg
<1>1. Writing /\ k <= m.size - Outgoing.off /\ ~EndsFrame(k) /\ Put(k)
  BY DEF SendSlice
<1>2. /\ m \in OutMsgs /\ m.size \in Nat
      /\ Outgoing.off \in Nat /\ Outgoing.off < m.size /\ Outgoing.last \in BOOLEAN
  BY <1>1, OutgoingFacts, OutMsgSize
<1>3. /\ msg' = m /\ off' = Outgoing.off + k
      /\ frameSent' = Outgoing.sent /\ lastBuilt' = Outgoing.last /\ chunk' = Outgoing.chunk
      /\ UNCHANGED <<frame, frameNum, client>>
  BY <1>1 DEF SendSlice, Put
<1>4. delivered' = IF k > 0 /\ Outgoing.off + k = m.size
                   THEN Append(delivered, m) ELSE delivered
  BY <1>1 DEF Put
<1>5. /\ frame = NoFrame => Outgoing.chunk = 0
      /\ m.kind = "data" =>
           /\ Fits(delivered, m.id, m.num, m.chunk, m.from)
           /\ Describes(m, frame, frameNum, Outgoing.chunk, Outgoing.sent, Outgoing.last)
      /\ m.kind # "data" =>
           /\ Fits(delivered, frame.id, frameNum, Outgoing.chunk, Outgoing.sent)
           /\ Outgoing.last = FALSE
  BY <1>1, OutgoingFits DEF OrderInv
<1>6. delivered \in Seq(OutMsgs) /\ Reassembled(delivered)
  BY DEF IInv, TypeOK, OrderInv
<1> HIDE DEF m
<1>7. CASE k > 0 /\ Outgoing.off + k = m.size
  <2>1. delivered' = Append(delivered, m) /\ ~Pending' /\ Outgoing.last = FALSE
    BY <1>1, <1>2, <1>3, <1>4, <1>7 DEF Pending, EndsFrame, m
  <2>2. Reassembled(delivered')
    BY <1>2, <1>5, <1>6, <2>1, ReassembledAppend
  <2>3. CASE m.kind = "data"
    <3>1. /\ ~m.last /\ m.id = frame.id /\ m.num = frameNum
          /\ Outgoing.chunk = m.chunk + 1 /\ Outgoing.sent = m.from + m.len
      BY <1>5, <2>1, <2>3 DEF Describes
    <3>2. Fits(delivered', frame.id, frameNum, Outgoing.chunk, Outgoing.sent)
      <4>1. Fits(Append(delivered, m), m.id, m.num, m.chunk + 1, m.from + m.len)
        BY <1>2, <1>6, <2>3, <3>1, FitsChunk
      <4> QED BY <2>1, <3>1, <4>1
    <3> QED BY <1>3, <1>5, <2>1, <2>2, <3>2 DEF OrderInv, ChunkInv
  <2>4. CASE m.kind # "data"
    <3>1. Fits(delivered', frame.id, frameNum, Outgoing.chunk, Outgoing.sent)
      <4> DEFINE id == frame.id
                 c == Outgoing.chunk
                 f == Outgoing.sent
      <4>1. Fits(delivered, id, frameNum, c, f)
        BY <1>5, <2>4
      <4> HIDE DEF id, c, f
      <4>2. Fits(Append(delivered, m), id, frameNum, c, f)
        BY <1>2, <1>6, <2>4, <4>1, FitsAnswer
      <4> QED BY <2>1, <4>2 DEF id, c, f
    <3> QED BY <1>3, <1>5, <2>1, <2>2, <3>1 DEF OrderInv, ChunkInv
  <2> QED BY <2>3, <2>4
<1>8. CASE ~(k > 0 /\ Outgoing.off + k = m.size)
  <2>1. delivered' = delivered /\ off' < msg'.size
    BY <1>1, <1>2, <1>3, <1>4, <1>8 DEF m
  <2>2. Pending' <=> m.kind = "data"
    BY <1>3, <2>1 DEF Pending
  <2>3. Reassembled(delivered')
    BY <1>6, <2>1
  <2> QED BY <1>3, <1>5, <2>1, <2>2, <2>3 DEF OrderInv, ChunkInv
<1> QED BY <1>7, <1>8

\* The last chunk is followed by the first one of the next frame.
LEMMA OrderFinished ==
    ASSUME IInv, OrderInv, NEW k \in Nat, FinishFrame(k)
    PROVE  OrderInv'
<1> DEFINE m == Outgoing.msg
<1>1. Writing /\ EndsFrame(k) /\ Put(k)
  BY DEF FinishFrame
<1>2. m \in OutMsgs /\ Outgoing.last \in BOOLEAN /\ Outgoing.last /\ m.kind = "data" /\ m.last
  BY <1>1, OutgoingFacts DEF EndsFrame
<1>3. /\ frame' = NoFrame /\ chunk' = 0 /\ frameSent' = 0 /\ msg' = NoMsg /\ off' = 0
      /\ frameNum' = frameNum + 1 /\ client' = client
      /\ delivered' = Append(delivered, m)
  BY <1>1 DEF FinishFrame, ReleaseFrame, Put, EndsFrame
<1>4. Fits(delivered, m.id, m.num, m.chunk, m.from) /\ m.num = frameNum
  BY <1>1, <1>2, OutgoingFits DEF OrderInv, Describes
<1>5. delivered \in Seq(OutMsgs) /\ Reassembled(delivered)
  BY DEF IInv, TypeOK, OrderInv
<1> HIDE DEF m
<1>6. Reassembled(delivered')
  BY <1>2, <1>3, <1>4, <1>5, ReassembledAppend
<1>7. Fits(delivered', frame'.id, frameNum', 0, 0)
  <2>1. \A id : Fits(Append(delivered, m), id, m.num + 1, 0, 0)
    BY <1>2, <1>5, FitsChunk
  <2> QED BY <1>3, <1>4, <2>1
<1>8. ~Pending'
  BY <1>3 DEF Pending, NoMsg
<1> QED BY <1>3, <1>6, <1>7, <1>8 DEF OrderInv, ChunkInv

LEMMA OrderNext == IInv /\ OrderInv /\ [Next]_vars => OrderInv'
<1> SUFFICES ASSUME IInv, OrderInv, [Next]_vars PROVE OrderInv'
  OBVIOUS
<1>1. CASE \/ AcceptFails \/ Connect \/ \E how \in {"closed", "reset"} : ClientLeaves(how)
           \/ \E m \in ClientMsgs : ClientSends(m)
  BY <1>1, OrderKept DEF AcceptFails, Connect, ClientLeaves, ClientSends, frameVars, msgVars, histVars
<1>2. CASE AcceptClient
  BY <1>2, OrderAccepted
<1>3. CASE \/ \E w \in BOOLEAN : Select(w)
           \/ \E n \in 1 .. RxCap : Recv(n)
           \/ RecvNothing \/ ParseDone \/ NotWritable \/ NothingToCapture \/ CaptureFails
  BY <1>3, OrderKept DEF Select, Recv, RecvNothing, ParseDone, NotWritable, NothingToCapture,
     CaptureFails, frameVars, msgVars, histVars
<1>4. CASE RecvEnds \/ ParseDrops \/ SendFails
  <2>1. CloseClient
    BY <1>4 DEF RecvEnds, ParseDrops, SendFails
  <2> QED BY <2>1, OrderClosed DEF CloseClient, ReleaseFrame, histVars
<1>5. CASE HandleHandshake \/ HandleRequest \/ IgnoreMsg
  BY <1>5, OrderKept DEF HandleHandshake, HandleRequest, IgnoreMsg, Consume, frameVars, msgVars, histVars
<1>6. CASE Writing /\ \E k \in 0 .. Outgoing.msg.size : SendSlice(k) \/ FinishFrame(k)
  <2>1. PICK k \in 0 .. Outgoing.msg.size : SendSlice(k) \/ FinishFrame(k)
    BY <1>6
  <2>2. Outgoing.msg \in OutMsgs
    BY <1>6, OutgoingFacts
  <2>3. k \in Nat
    BY <2>2, OutMsgSize
  <2> QED BY <2>1, <2>3, OrderSent, OrderFinished
<1>7. CASE \E len \in FrameLens : Capture(len)
  BY <1>7, OrderCaptured
<1>8. CASE UNCHANGED vars
  BY <1>8, OrderKept DEF vars, frameVars, msgVars, histVars
<1> QED
  BY <1>1, <1>2, <1>3, <1>4, <1>5, <1>6, <1>7, <1>8 DEF Next, Turn, Environment

LEMMA InitOrder == Init => OrderInv
<1> SUFFICES ASSUME Init PROVE OrderInv
  OBVIOUS
<1>1. client = FALSE /\ chunk = 0 /\ delivered = <<>>
  BY DEF Init
<1>2. Reassembled(<<>>)
  BY DEF Reassembled
<1> QED BY <1>1, <1>2 DEF OrderInv, ChunkInv

\* Frames arrive whole: their chunks in order and end to end, the frames numbered
\* from 0 on each connection, with at most answers to handshakes in between
\* (build_chunk, server.c:304-333; PROTOCOL.md "Type 4 - data").
THEOREM FramesArriveWhole == Spec => []FramesReassemble
<1>1. OrderInv => FramesReassemble
  BY DEF OrderInv, Reassembled, FramesReassemble, IsData, IsDataIn
<1> QED
  BY <1>1, InitOrder, OrderNext, Inductive, PTL DEF Spec

-----------------------------------------------------------------------------
(* The ring as a queue. *)

\* The c requests of ring r from place h on.
QueueOf(r, h, c) == [i \in 1 .. c |-> r[(h + i - 1) % QueueLen]]

Held(r, h, c) == \A i \in 0 .. c - 1 : r[(h + i) % QueueLen] \in ReqIds

Wrap(i) == IF i < QueueLen THEN i ELSE i - QueueLen

LEMMA ModOnce ==
    ASSUME NEW i \in 0 .. 2 * QueueLen - 1
    PROVE  i % QueueLen = Wrap(i)
<1>1. QueueLen \in Nat \ {0}
  BY ConstantsAssumption
<1>2. CASE i < QueueLen
  BY <1>1, <1>2 DEF Wrap
<1>3. CASE ~(i < QueueLen)
  <2>1. i - QueueLen \in 0 .. QueueLen - 1
    BY <1>1, <1>3
  <2>2. i = QueueLen + (i - QueueLen)
    BY <1>1
  <2>3. i % QueueLen = (i - QueueLen) % QueueLen
    BY <1>1, <2>1, <2>2
  <2> QED BY <1>1, <1>3, <2>1, <2>3 DEF Wrap
<1> QED BY <1>2, <1>3

LEMMA QueueFacts ==
    ASSUME NEW r, NEW h \in 0 .. QueueLen - 1, NEW c \in 0 .. QueueLen, Held(r, h, c)
    PROVE  /\ QueueOf(r, h, c) \in Seq(ReqIds)
           /\ Len(QueueOf(r, h, c)) = c
           /\ \A i \in 1 .. c : QueueOf(r, h, c)[i] = r[(h + i - 1) % QueueLen]
<1>1. QueueLen \in Nat \ {0} /\ c \in Nat
  BY ConstantsAssumption
<1>2. ASSUME NEW i \in 1 .. c
      PROVE  r[(h + i - 1) % QueueLen] \in ReqIds
  <2>1. i - 1 \in 0 .. c - 1 /\ h + (i - 1) = h + i - 1
    BY <1>1
  <2> QED BY <2>1 DEF Held
<1>3. QueueOf(r, h, c) \in [1 .. c -> ReqIds]
  BY <1>2 DEF QueueOf
<1>4. QueueOf(r, h, c) \in Seq(ReqIds)
  BY <1>1, <1>3, IsASeq
<1>5. Len(QueueOf(r, h, c)) = c
  BY <1>1, <1>3, <1>4, LenProperties
<1> QED
  BY <1>4, <1>5 DEF QueueOf

\* A request pushed goes to the end.
LEMMA QueuePush ==
    ASSUME NEW r \in [0 .. QueueLen - 1 -> ReqIds \cup {NoReq}],
           NEW h \in 0 .. QueueLen - 1, NEW c \in 0 .. QueueLen - 1, Held(r, h, c),
           NEW id \in ReqIds
    PROVE  QueueOf([r EXCEPT ![(h + c) % QueueLen] = id], h, c + 1)
             = Append(QueueOf(r, h, c), id)
<1> DEFINE p == (h + c) % QueueLen
           R == [r EXCEPT ![p] = id]
           q == QueueOf(r, h, c)
           Q == QueueOf(R, h, c + 1)
<1>1. QueueLen \in Nat \ {0} /\ p \in 0 .. QueueLen - 1 /\ c + 1 \in 0 .. QueueLen
      /\ c \in 0 .. QueueLen
  <2>1. QueueLen \in Nat \ {0} /\ c + 1 \in 0 .. QueueLen /\ c \in 0 .. QueueLen /\ h + c \in Nat
    BY ConstantsAssumption
  <2>2. p \in 0 .. QueueLen - 1
    BY <2>1, RingPlace, Zenon
  <2> QED BY <2>1, <2>2
<1>2. R[p] = id /\ \A j \in 0 .. QueueLen - 1 : j # p => R[j] = r[j]
  BY <1>1
<1>3. p = Wrap(h + c)
  <2>1. h + c \in 0 .. 2 * QueueLen - 1
    BY <1>1
  <2> QED BY <2>1, ModOnce, Zenon
<1> HIDE DEF p, R
<1>4. ASSUME NEW i \in 1 .. c
      PROVE  R[(h + i - 1) % QueueLen] = r[(h + i - 1) % QueueLen]
  <2>1. h + i - 1 \in 0 .. 2 * QueueLen - 1 /\ h + i - 1 \in Nat
    BY <1>1
  <2>2. (h + i - 1) % QueueLen \in 0 .. QueueLen - 1
    BY <2>1, RingPlace
  <2>3. (h + i - 1) % QueueLen = Wrap(h + i - 1)
    BY <2>1, ModOnce, Zenon
  <2>4. (h + i - 1) % QueueLen # p
    BY <1>1, <1>3, <2>3 DEF Wrap
  <2> QED BY <1>2, <2>2, <2>4
<1>5. Held(R, h, c + 1)
  <2> SUFFICES ASSUME NEW i \in 0 .. c PROVE R[(h + i) % QueueLen] \in ReqIds
    <3>1. (c + 1) - 1 = c
      BY <1>1
    <3> QED BY <3>1 DEF Held
  <2>1. CASE i = c
    BY <1>2, <2>1 DEF p
  <2>2. CASE i # c
    <3>1. i + 1 \in 1 .. c /\ i \in 0 .. c - 1 /\ h + (i + 1) - 1 = h + i
      BY <1>1, <2>2
    <3>2. R[(h + i) % QueueLen] = r[(h + i) % QueueLen]
      BY <1>4, <3>1
    <3> QED BY <3>1, <3>2 DEF Held
  <2> QED BY <2>1, <2>2
<1>6. /\ q \in Seq(ReqIds) /\ Len(q) = c
      /\ \A i \in 1 .. c : q[i] = r[(h + i - 1) % QueueLen]
  BY <1>1, QueueFacts
<1>7. /\ Q \in Seq(ReqIds) /\ Len(Q) = c + 1
      /\ \A i \in 1 .. c + 1 : Q[i] = R[(h + i - 1) % QueueLen]
  BY <1>1, <1>5, QueueFacts
<1> HIDE DEF q, Q
<1>8. /\ Append(q, id) \in Seq(ReqIds) /\ Len(Append(q, id)) = c + 1
      /\ \A i \in 1 .. c : Append(q, id)[i] = q[i]
      /\ Append(q, id)[c + 1] = id
  BY <1>6, AppendProperties
<1>9. ASSUME NEW i \in 1 .. c + 1
      PROVE  Q[i] = Append(q, id)[i]
  <2>1. CASE i = c + 1
    <3>1. h + i - 1 = h + c
      BY <1>1, <2>1
    <3> QED BY <1>2, <1>7, <1>8, <2>1, <3>1 DEF p
  <2>2. CASE i # c + 1
    <3>1. i \in 1 .. c
      BY <1>1, <2>2
    <3> QED BY <1>4, <1>6, <1>7, <1>8, <3>1
  <2> QED BY <2>1, <2>2
<1>10. Q = Append(q, id)
  BY <1>7, <1>8, <1>9, SeqEqual
<1> QED
  BY <1>10 DEF q, Q, R, p

\* A request popped is the oldest.
LEMMA QueuePop ==
    ASSUME NEW r, NEW h \in 0 .. QueueLen - 1, NEW c \in 1 .. QueueLen, Held(r, h, c)
    PROVE  /\ QueueOf(r, h, c) # <<>>
           /\ Head(QueueOf(r, h, c)) = r[h]
           /\ QueueOf(r, (h + 1) % QueueLen, c - 1) = Tail(QueueOf(r, h, c))
<1> DEFINE g == (h + 1) % QueueLen
           q == QueueOf(r, h, c)
           t == QueueOf(r, g, c - 1)
<1>1. /\ QueueLen \in Nat \ {0} /\ g \in 0 .. QueueLen - 1
      /\ c \in 0 .. QueueLen /\ c - 1 \in 0 .. QueueLen
  BY ConstantsAssumption, RingPlace
<1>2. g = IF h + 1 < QueueLen THEN h + 1 ELSE 0
  <2>1. h + 1 \in 0 .. 2 * QueueLen - 1
    BY <1>1
  <2>2. g = Wrap(h + 1)
    BY <2>1, ModOnce, Zenon
  <2> QED BY <1>1, <2>2 DEF Wrap
<1> HIDE DEF g
<1>3. ASSUME NEW i \in 0 .. c - 2
      PROVE  (g + i) % QueueLen = (h + (i + 1)) % QueueLen /\ i + 1 \in 0 .. c - 1
  <2>1. /\ g + i \in 0 .. 2 * QueueLen - 1 /\ h + (i + 1) \in 0 .. 2 * QueueLen - 1
        /\ i + 1 \in 0 .. c - 1 /\ i < QueueLen
    BY <1>1
  <2>2. (g + i) % QueueLen = Wrap(g + i) /\ (h + (i + 1)) % QueueLen = Wrap(h + (i + 1))
    BY <2>1, ModOnce, Zenon
  <2>3. Wrap(g + i) = Wrap(h + (i + 1))
    BY <1>1, <1>2, <2>1 DEF Wrap
  <2> QED BY <2>1, <2>2, <2>3
<1>4. Held(r, g, c - 1)
  <2> SUFFICES ASSUME NEW i \in 0 .. c - 2 PROVE r[(g + i) % QueueLen] \in ReqIds
    <3>1. c - 1 - 1 = c - 2
      OBVIOUS
    <3> QED BY <3>1, Zenon DEF Held
  <2> QED BY <1>3 DEF Held
<1>5. /\ q \in Seq(ReqIds) /\ Len(q) = c
      /\ \A i \in 1 .. c : q[i] = r[(h + i - 1) % QueueLen]
  BY <1>1, QueueFacts
<1>6. /\ t \in Seq(ReqIds) /\ Len(t) = c - 1
      /\ \A i \in 1 .. c - 1 : t[i] = r[(g + i - 1) % QueueLen]
  BY <1>1, <1>4, QueueFacts
<1> HIDE DEF q, t
<1>7. q # <<>> /\ q[1] = r[h]
  <2>1. 1 \in 1 .. c /\ h + 1 - 1 = h /\ h \in 0 .. 2 * QueueLen - 1
    BY <1>1
  <2>2. h % QueueLen = h
    BY <1>1
  <2> QED BY <1>5, <2>1, <2>2, EmptySeq
<1>8. /\ Head(q) = q[1] /\ Tail(q) \in Seq(ReqIds) /\ Len(Tail(q)) = c - 1
      /\ \A i \in 1 .. c - 1 : Tail(q)[i] = q[i + 1]
  BY <1>5, <1>7, HeadTailProperties
<1>9. ASSUME NEW i \in 1 .. c - 1
      PROVE  t[i] = Tail(q)[i]
  <2>1. /\ i - 1 \in 0 .. c - 2 /\ i + 1 \in 1 .. c
        /\ g + (i - 1) = g + i - 1 /\ h + ((i - 1) + 1) = h + (i + 1) - 1
    BY <1>1
  <2>2. (g + i - 1) % QueueLen = (h + (i + 1) - 1) % QueueLen
    BY <1>3, <2>1
  <2> QED BY <1>5, <1>6, <1>8, <2>1, <2>2
<1>10. t = Tail(q)
  BY <1>6, <1>8, <1>9, SeqEqual
<1> QED
  BY <1>7, <1>8, <1>10 DEF q, t, g

-----------------------------------------------------------------------------
(* The refinement of AvProtocol: the queue, the answers owed and the frame   *)
(* in flight, as MCAvServer maps them.                                       *)

QueueBar == QueueOf(ring, head, count)

OwedBar == IF InFlight("handshake") THEN due + 1 ELSE due

FrameBar ==
    IF frame = NoFrame THEN <<>>
    ELSE [id |-> frame.id, len |-> frame.len,
          sent  |-> IF InFlight("data") THEN msg.from ELSE frameSent,
          chunk |-> IF InFlight("data") THEN msg.chunk ELSE chunk]

\* Data from `from` on, in chunk k of the frame in flight, as the protocol cuts it.
NextChunk(k, from) ==
    LET left == frame.len - from
        n    == IF left < MaxChunkData THEN left ELSE MaxChunkData
    IN  DataMsg(frame.id, frameNum, k, from, n, n = left)

\* What is being sent is what the protocol sends next.
BuiltInv == client /\ Pending => msg = NextChunk(msg.chunk, msg.from)

RefInv == OrderInv /\ BuiltInv

-----------------------------------------------------------------------------
(* The actions of AvProtocol, on the mapped state. *)

LEMMA MapInit == Init => Protocol!Init
<1> SUFFICES ASSUME Init PROVE Protocol!Init
  OBVIOUS
<1>1. QueueBar = <<>>
  BY DEF Init, QueueBar, QueueOf
<1>2. OwedBar = 0 /\ FrameBar = <<>>
  BY DEF Init, OwedBar, FrameBar, InFlight, NoMsg
<1> QED
  BY <1>1, <1>2 DEF Init, Protocol!Init, Protocol!None, QueueBar, QueueOf, OwedBar, FrameBar

LEMMA MapStutter ==
    ASSUME UNCHANGED <<client, QueueBar, OwedBar, FrameBar, frameNum, delivered>>
    PROVE  UNCHANGED Protocol!vars
  BY DEF Protocol!vars, QueueBar, QueueOf, OwedBar, FrameBar

LEMMA MapConnect ==
    ASSUME client = FALSE, client' = TRUE, frameNum' = 0, delivered' = <<>>,
           UNCHANGED <<QueueBar, OwedBar, FrameBar>>
    PROVE  Protocol!Next
<1>1. Protocol!Connect
  BY DEF Protocol!Connect, QueueBar, QueueOf, OwedBar, FrameBar
<1> QED BY <1>1 DEF Protocol!Next

LEMMA MapDisconnect ==
    ASSUME client = TRUE, client' = FALSE, QueueBar' = <<>>, OwedBar' = 0, FrameBar' = <<>>,
           UNCHANGED <<frameNum, delivered>>
    PROVE  Protocol!Next
<1>1. Protocol!Disconnect
  BY DEF Protocol!Disconnect, Protocol!None, QueueBar, QueueOf, OwedBar, FrameBar
<1> QED BY <1>1 DEF Protocol!Next

LEMMA MapRequest ==
    ASSUME client, NEW id \in ReqIds, Len(QueueBar) < QueueLen, QueueBar' = Append(QueueBar, id),
           UNCHANGED <<client, OwedBar, FrameBar, frameNum, delivered>>
    PROVE  Protocol!Next
<1>1. Protocol!Request(id)
  BY DEF Protocol!Request, QueueBar, QueueOf, OwedBar, FrameBar
<1> QED BY <1>1 DEF Protocol!Next

LEMMA MapHandshake ==
    ASSUME client, OwedBar' = OwedBar + 1,
           UNCHANGED <<client, QueueBar, FrameBar, frameNum, delivered>>
    PROVE  Protocol!Next
<1>1. Protocol!Handshake
  BY DEF Protocol!Handshake, QueueBar, QueueOf, OwedBar, FrameBar
<1> QED BY <1>1 DEF Protocol!Next

LEMMA MapAnswer ==
    ASSUME client, OwedBar > 0, OwedBar' = OwedBar - 1,
           delivered' = Append(delivered, HandshakeMsg),
           UNCHANGED <<client, QueueBar, FrameBar, frameNum>>
    PROVE  Protocol!Next
<1>1. Protocol!Answer
  BY DEF Protocol!Answer, QueueBar, QueueOf, OwedBar, FrameBar
<1> QED BY <1>1 DEF Protocol!Next

LEMMA MapServe ==
    ASSUME client, QueueBar # <<>>, FrameBar = <<>>, QueueBar' = Tail(QueueBar),
           \/ \E len \in FrameLens :
                 FrameBar' = [id |-> Head(QueueBar), len |-> len, sent |-> 0, chunk |-> 0]
           \/ FrameBar' = <<>>,
           UNCHANGED <<client, OwedBar, frameNum, delivered>>
    PROVE  Protocol!Next
<1>1. Protocol!Serve
  BY DEF Protocol!Serve, Protocol!None, QueueBar, QueueOf, OwedBar, FrameBar
<1> QED BY <1>1 DEF Protocol!Next

LEMMA MapChunk ==
    ASSUME client, FrameBar # <<>>,
           LET left == FrameBar.len - FrameBar.sent
               n    == IF left < MaxChunkData THEN left ELSE MaxChunkData
           IN  /\ delivered' = Append(delivered, DataMsg(FrameBar.id, frameNum, FrameBar.chunk,
                                                         FrameBar.sent, n, n = left))
               /\ IF n = left
                  THEN FrameBar' = <<>> /\ frameNum' = frameNum + 1
                  ELSE /\ FrameBar' = [FrameBar EXCEPT !.sent = @ + n, !.chunk = @ + 1]
                       /\ frameNum' = frameNum,
           UNCHANGED <<client, QueueBar, OwedBar>>
    PROVE  Protocol!Next
<1>1. Protocol!Chunk
  BY DEF Protocol!Chunk, Protocol!None, QueueBar, QueueOf, OwedBar, FrameBar
<1> QED BY <1>1 DEF Protocol!Next

-----------------------------------------------------------------------------
(* The mapped state, by the part of the state it reads. *)

LEMMA BarKept ==
    ASSUME UNCHANGED <<queueVars, due, frame, frameSent, chunk, msg, off>>
    PROVE  UNCHANGED <<QueueBar, OwedBar, FrameBar>>
  BY DEF queueVars, QueueBar, QueueOf, OwedBar, FrameBar, InFlight

\* Only the queue changes, or only the answers owed.
LEMMA FrameBarKept ==
    ASSUME UNCHANGED <<frame, frameSent, chunk, msg, off>>
    PROVE  FrameBar' = FrameBar
  BY DEF FrameBar, InFlight

LEMMA OwedBarKept ==
    ASSUME UNCHANGED <<due, msg, off>>
    PROVE  OwedBar' = OwedBar
  BY DEF OwedBar, InFlight

LEMMA QueueBarKept ==
    ASSUME UNCHANGED <<ring, head, count>>
    PROVE  QueueBar' = QueueBar
  BY DEF QueueBar, QueueOf

\* The state of the frame in flight is never taken for the lack of one.
LEMMA FrameBarSome ==
    ASSUME frame # NoFrame
    PROVE  /\ FrameBar # <<>>
           /\ FrameBar = [id |-> frame.id, len |-> frame.len,
                          sent |-> FrameBar.sent, chunk |-> FrameBar.chunk]
<1>1. /\ DOMAIN FrameBar = {"id", "len", "sent", "chunk"}
      /\ FrameBar = [id |-> frame.id, len |-> frame.len,
                     sent |-> FrameBar.sent, chunk |-> FrameBar.chunk]
  BY DEF FrameBar
<1>2. DOMAIN <<>> = {}
  OBVIOUS
<1> QED BY <1>1, <1>2

LEMMA BarOutgoing ==
    ASSUME IInv, RefInv, Writing
    PROVE  /\ OwedBar = IF Outgoing.msg.kind = "handshake" THEN Outgoing.due + 1
                        ELSE Outgoing.due
           /\ FrameBar = IF frame = NoFrame THEN <<>>
                         ELSE [id |-> frame.id, len |-> frame.len,
                               sent  |-> IF Outgoing.msg.kind = "data" THEN Outgoing.msg.from
                                         ELSE Outgoing.sent,
                               chunk |-> IF Outgoing.msg.kind = "data" THEN Outgoing.msg.chunk
                                         ELSE Outgoing.chunk]
           /\ Outgoing.msg.kind = "data" =>
                 Outgoing.msg = NextChunk(Outgoing.msg.chunk, Outgoing.msg.from)
<1>1. /\ off \in 0 .. msg.size /\ (msg # NoMsg => msg \in OutMsgs /\ msg.size \in Nat)
      /\ NoMsg.size = 0 /\ due \in 0 .. HandshakesMax /\ client
  BY OutMsgSize, OutgoingFacts DEF IInv, TypeOK, NoMsg
<1>2. CASE ~AtBoundary
  <2>1. /\ Outgoing.msg = msg /\ Outgoing.due = due
        /\ Outgoing.sent = frameSent /\ Outgoing.chunk = chunk
    BY <1>2 DEF Outgoing
  <2>2. off < msg.size
    BY <1>1, <1>2 DEF AtBoundary
  <2>3. \A kind : InFlight(kind) <=> msg.kind = kind
    BY <2>2 DEF InFlight
  <2>4. msg.kind = "data" => msg = NextChunk(msg.chunk, msg.from)
    BY <1>1, <2>2 DEF RefInv, BuiltInv, Pending
  <2> QED BY <2>1, <2>3, <2>4 DEF OwedBar, FrameBar
<1>3. CASE AtBoundary
  <2>1. \A kind : ~InFlight(kind)
    BY <1>1, <1>3 DEF AtBoundary, InFlight
  <2>2. CASE due > 0
    <3>1. /\ Outgoing.msg = HandshakeMsg /\ Outgoing.due = due - 1
          /\ Outgoing.sent = frameSent /\ Outgoing.chunk = chunk
      BY <1>3, <2>2 DEF Outgoing, BuildHandshake
    <3>2. Outgoing.msg.kind = "handshake" /\ Outgoing.due + 1 = due
      BY <1>1, <3>1 DEF HandshakeMsg
    <3> QED BY <2>1, <3>1, <3>2 DEF OwedBar, FrameBar
  <2>3. CASE ~(due > 0)
    <3> DEFINE last == NextLen = frame.len - frameSent
               d == DataMsg(frame.id, frameNum, chunk, frameSent, NextLen, last)
    <3>1. Outgoing.msg = d /\ Outgoing.due = due
      BY <1>3, <2>3 DEF Outgoing, BuildChunk
    <3>2. d.kind = "data" /\ d.from = frameSent /\ d.chunk = chunk
      BY DEF DataMsg
    <3>3. d = NextChunk(chunk, frameSent)
      <4>1. frame # NoFrame
        BY <1>1, <1>3, <2>3 DEF Writing, TxPending, AtBoundary
      <4>2. frame.len - frameSent \in Int /\ MaxChunkData \in Int
        <5>1. frame.len \in Nat
          BY <4>1, ConstantsAssumption DEF IInv, TypeOK
        <5> QED BY <5>1, ConstantsAssumption DEF IInv, TypeOK
      <4>3. NextLen = IF frame.len - frameSent < MaxChunkData THEN frame.len - frameSent
                      ELSE MaxChunkData
        BY <4>2 DEF NextLen
      <4> QED BY <4>3 DEF NextChunk
    <3> HIDE DEF d
    <3> QED BY <2>1, <3>1, <3>2, <3>3 DEF OwedBar, FrameBar
  <2> QED BY <2>2, <2>3
<1> QED BY <1>2, <1>3

-----------------------------------------------------------------------------
(* The server's actions: each is a step of the protocol or none. *)

\* Most of them change nothing the client could tell.
LEMMA RefIdle ==
    ASSUME RefInv,
           UNCHANGED <<client, queueVars, due, frame, frameSent, chunk, msg, off, frameNum,
                       delivered>>
    PROVE  BuiltInv' /\ UNCHANGED Protocol!vars
<1>1. BuiltInv'
  BY DEF RefInv, BuiltInv, Pending, NextChunk
<1>2. UNCHANGED <<client, QueueBar, OwedBar, FrameBar, frameNum, delivered>>
  BY BarKept
<1> QED BY <1>1, <1>2, MapStutter

LEMMA RefAccept ==
    ASSUME IInv, RefInv, AcceptClient
    PROVE  BuiltInv' /\ Protocol!Next
<1>1. /\ client = FALSE /\ frame = NoFrame /\ count = 0 /\ due = 0
      /\ off = msg.size /\ off \in 0 .. msg.size
  BY DEF AcceptClient, IInv, TypeOK, FrameInv, NothingOutlivesClient, AtBoundary
<1>2. /\ client' = TRUE /\ count' = 0 /\ due' = 0 /\ frameNum' = 0 /\ delivered' = <<>>
      /\ UNCHANGED <<frame, frameSent, chunk, msg, off>>
  BY DEF AcceptClient, frameVars, msgVars
<1>3. BuiltInv'
  BY <1>1, <1>2 DEF BuiltInv, Pending
<1>4. QueueBar = <<>> /\ QueueBar' = <<>>
  BY <1>1, <1>2 DEF QueueBar, QueueOf
<1>5. UNCHANGED <<OwedBar, FrameBar>>
  BY <1>1, <1>2, FrameBarKept, OwedBarKept
<1> QED BY <1>1, <1>2, <1>3, <1>4, <1>5, MapConnect

LEMMA RefClose ==
    ASSUME client = TRUE, CloseClient
    PROVE  BuiltInv' /\ Protocol!Next
<1>1. /\ client' = FALSE /\ count' = 0 /\ due' = 0 /\ frame' = NoFrame /\ msg' = NoMsg /\ off' = 0
      /\ UNCHANGED <<frameNum, delivered>>
  BY DEF CloseClient, ReleaseFrame, histVars
<1>2. QueueBar' = <<>> /\ OwedBar' = 0 /\ FrameBar' = <<>>
  BY <1>1 DEF QueueBar, QueueOf, OwedBar, FrameBar, InFlight, NoMsg
<1> QED BY <1>1, <1>2, MapDisconnect DEF BuiltInv

LEMMA RefHandshake ==
    ASSUME IInv, RefInv, HandleHandshake
    PROVE  BuiltInv' /\ [Protocol!Next]_(Protocol!vars)
<1>1. /\ client /\ due \in Nat
      /\ UNCHANGED <<client, queueVars, frame, frameSent, chunk, msg, off, frameNum, delivered>>
      /\ due' = due + 1 \/ due' = due
  BY ConstantsAssumption
     DEF HandleHandshake, HeaderIn, Consume, frameVars, msgVars, IInv, TypeOK, FrameInv,
         NothingOutlivesClient
<1>2. BuiltInv'
  BY <1>1 DEF RefInv, BuiltInv, Pending, NextChunk
<1>3. UNCHANGED <<QueueBar, FrameBar>>
  BY <1>1, QueueBarKept, FrameBarKept DEF queueVars
<1>4. CASE due' = due + 1
  <2>1. OwedBar' = OwedBar + 1
    BY <1>1, <1>4 DEF OwedBar, InFlight
  <2> QED BY <1>1, <1>2, <1>3, <2>1, MapHandshake
<1>5. CASE due' = due
  BY <1>1, <1>5, RefIdle
<1> QED BY <1>1, <1>4, <1>5

LEMMA RefRequest ==
    ASSUME IInv, RefInv, HandleRequest
    PROVE  BuiltInv' /\ [Protocol!Next]_(Protocol!vars)
<1>1. /\ client /\ PushRequest(Current.id) /\ Current.id \in ReqIds
      /\ UNCHANGED <<client, due, frame, frameSent, chunk, msg, off, frameNum, delivered>>
  <2>1. HeaderIn /\ Current.kind = "request"
    BY DEF HandleRequest
  <2>2. Current.id \in ReqIds
    BY <2>1, CurrentType DEF ClientMsgs
  <2> QED
    BY <2>1, <2>2 DEF HandleRequest, HeaderIn, Consume, frameVars, msgVars, histVars, IInv, FrameInv,
       NothingOutlivesClient
<1>2. CASE count = QueueLen
  <2>1. UNCHANGED queueVars
    BY <1>1, <1>2 DEF PushRequest
  <2> QED BY <1>1, <2>1, RefIdle
<1>3. CASE count # QueueLen
  <2> DEFINE id == Current.id
  <2>1. /\ ring' = [ring EXCEPT ![(head + count) % QueueLen] = id]
        /\ count' = count + 1 /\ head' = head
    BY <1>1, <1>3 DEF PushRequest
  <2>2. /\ ring \in [0 .. QueueLen - 1 -> ReqIds \cup {NoReq}]
        /\ head \in 0 .. QueueLen - 1 /\ count \in 0 .. QueueLen - 1 /\ count \in 0 .. QueueLen
        /\ Held(ring, head, count) /\ count < QueueLen
    BY <1>3, ConstantsAssumption DEF IInv, TypeOK, QueueInv, Held
  <2>3. id \in ReqIds
    BY <1>1
  <2> HIDE DEF id
  <2>4. QueueBar' = Append(QueueBar, id)
    BY <2>1, <2>2, <2>3, QueuePush DEF QueueBar
  <2>5. Len(QueueBar) < QueueLen
    BY <2>2, QueueFacts DEF QueueBar
  <2>6. UNCHANGED <<OwedBar, FrameBar>>
    BY <1>1, OwedBarKept, FrameBarKept
  <2>7. BuiltInv'
    BY <1>1 DEF RefInv, BuiltInv, Pending, NextChunk
  <2> QED BY <1>1, <2>3, <2>4, <2>5, <2>6, <2>7, MapRequest
<1> QED BY <1>2, <1>3

\* The oldest request is served, with a frame or without.
LEMMA RefServe ==
    ASSUME IInv, RefInv, (\E len \in FrameLens : Capture(len)) \/ CaptureFails
    PROVE  BuiltInv' /\ Protocol!Next
<1>1. /\ count > 0 /\ frame = NoFrame /\ PopRequest
      /\ UNCHANGED <<client, due, frameNum, msg, off, delivered>>
  BY DEF Capture, CaptureFails, Capturing, msgVars, histVars
<1>2. client = TRUE
  BY <1>1 DEF IInv, TypeOK, FrameInv, NothingOutlivesClient
<1>3. ~Pending /\ ~Pending'
  <2>1. ~Pending
    BY <1>1, <1>2 DEF RefInv, OrderInv, ChunkInv, Describes
  <2> QED BY <1>1, <2>1 DEF Pending
<1>4. ~InFlight("data") /\ ~InFlight("data")'
  BY <1>3 DEF Pending, InFlight
<1>5. /\ head \in 0 .. QueueLen - 1 /\ count \in 1 .. QueueLen /\ Held(ring, head, count)
      /\ ring' = ring /\ head' = (head + 1) % QueueLen /\ count' = count - 1
  BY <1>1 DEF IInv, TypeOK, QueueInv, Held, PopRequest
<1>6. QueueBar # <<>> /\ Head(QueueBar) = ring[head] /\ QueueBar' = Tail(QueueBar)
  BY <1>5, QueuePop DEF QueueBar
<1>7. FrameBar = <<>> /\ OwedBar' = OwedBar
  BY <1>1, OwedBarKept DEF FrameBar
<1>8. \/ \E len \in FrameLens :
           FrameBar' = [id |-> Head(QueueBar), len |-> len, sent |-> 0, chunk |-> 0]
      \/ FrameBar' = <<>>
  <2>1. CASE CaptureFails
    <3>1. frame' = NoFrame
      BY <1>1, <2>1 DEF CaptureFails, frameVars
    <3> QED BY <3>1 DEF FrameBar
  <2>2. ASSUME NEW len \in FrameLens, Capture(len)
        PROVE  FrameBar' = [id |-> Head(QueueBar), len |-> len, sent |-> 0, chunk |-> 0]
    <3>1. frame' = [len |-> len, id |-> ring[head]] /\ frameSent' = 0 /\ chunk' = 0
      BY <2>2 DEF Capture
    <3>2. frame' # NoFrame
      BY <3>1 DEF NoFrame
    <3> QED BY <1>4, <1>6, <3>1, <3>2 DEF FrameBar
  <2> QED BY <2>1, <2>2
<1>9. BuiltInv'
  BY <1>3 DEF BuiltInv
<1> QED BY <1>1, <1>2, <1>6, <1>7, <1>8, <1>9, MapServe

\* A data message sent to its end is the protocol's next chunk.
LEMMA RefChunk ==
    ASSUME IInv, RefInv, Writing, Outgoing.msg.kind = "data",
           delivered' = Append(delivered, Outgoing.msg),
           due' = Outgoing.due, ~InFlight("handshake")', ~InFlight("data")',
           UNCHANGED <<client, queueVars>>,
           IF Outgoing.msg.last
           THEN frame' = NoFrame /\ frameNum' = frameNum + 1
           ELSE /\ frameSent' = Outgoing.sent /\ chunk' = Outgoing.chunk
                /\ UNCHANGED <<frame, frameNum>>
    PROVE  Protocol!Next
<1> DEFINE m == Outgoing.msg
           left == FrameBar.len - FrameBar.sent
           n    == IF left < MaxChunkData THEN left ELSE MaxChunkData
<1>1. client /\ m \in OutMsgs
  BY OutgoingFacts
<1>2. /\ frame # NoFrame /\ Outgoing.chunk = m.chunk + 1 /\ Outgoing.sent = m.from + m.len
  BY OutgoingFits DEF RefInv, OrderInv, Describes
<1>3. /\ FrameBar = [id |-> frame.id, len |-> frame.len, sent |-> m.from, chunk |-> m.chunk]
      /\ OwedBar = Outgoing.due /\ m = NextChunk(m.chunk, m.from)
  BY <1>2, BarOutgoing
<1>4. /\ FrameBar # <<>> /\ FrameBar.id = frame.id /\ FrameBar.len = frame.len
      /\ FrameBar.sent = m.from /\ FrameBar.chunk = m.chunk
  BY <1>2, <1>3, FrameBarSome
<1>5. m = DataMsg(FrameBar.id, frameNum, FrameBar.chunk, FrameBar.sent, n, n = left)
  BY <1>3, <1>4 DEF NextChunk
<1>6. m.len = n /\ m.last = (n = left)
  <2> HIDE DEF m, n, left
  <2> QED BY <1>5 DEF DataMsg
<1>7. OwedBar' = OwedBar
  BY <1>3 DEF OwedBar
<1>8. QueueBar' = QueueBar
  BY QueueBarKept DEF queueVars
<1>9. IF n = left
      THEN FrameBar' = <<>> /\ frameNum' = frameNum + 1
      ELSE /\ FrameBar' = [FrameBar EXCEPT !.sent = @ + n, !.chunk = @ + 1]
           /\ frameNum' = frameNum
  <2>1. CASE n = left
    <3>1. frame' = NoFrame /\ frameNum' = frameNum + 1
      BY <1>6, <2>1
    <3> QED BY <2>1, <3>1 DEF FrameBar
  <2>2. CASE n # left
    <3>1. /\ frameSent' = m.from + n /\ chunk' = m.chunk + 1
          /\ frame' = frame /\ frameNum' = frameNum
      BY <1>2, <1>6, <2>2
    <3>2. FrameBar' = [id |-> frame.id, len |-> frame.len,
                       sent |-> m.from + n, chunk |-> m.chunk + 1]
      BY <1>2, <3>1 DEF FrameBar
    <3>3. [FrameBar EXCEPT !.sent = @ + n, !.chunk = @ + 1]
            = [id |-> frame.id, len |-> frame.len, sent |-> m.from + n, chunk |-> m.chunk + 1]
      <4> DEFINE t == [FrameBar EXCEPT !.sent = @ + n, !.chunk = @ + 1]
      <4>1. DOMAIN FrameBar = {"id", "len", "sent", "chunk"}
        BY <1>3
      <4> HIDE DEF n, m
      <4>2. /\ DOMAIN t = DOMAIN FrameBar /\ t = [f \in DOMAIN FrameBar |-> t[f]]
            /\ t.id = frame.id /\ t.len = frame.len
            /\ t.sent = m.from + n /\ t.chunk = m.chunk + 1
        BY <1>4, <4>1
      <4>3. t = [f \in {"id", "len", "sent", "chunk"} |-> t[f]]
        BY <4>1, <4>2, Zenon
      <4> HIDE DEF t
      <4>4. t = [id |-> frame.id, len |-> frame.len, sent |-> m.from + n, chunk |-> m.chunk + 1]
        BY <4>2, <4>3
      <4> QED BY <4>4 DEF t
    <3> HIDE DEF n, m
    <3> QED BY <2>2, <3>1, <3>2, <3>3
  <2> QED BY <2>1, <2>2
<1> QED BY <1>1, <1>4, <1>5, <1>7, <1>8, <1>9, MapChunk

LEMMA RefSent ==
    ASSUME IInv, RefInv, NEW k \in Nat, SendSlice(k)
    PROVE  BuiltInv' /\ [Protocol!Next]_(Protocol!vars)
<1> DEFINE m == Outgoing.msg
<1>1. Writing /\ k <= m.size - Outgoing.off /\ ~EndsFrame(k)
  BY DEF SendSlice
<1>2. /\ m \in OutMsgs /\ m.size \in Nat /\ client /\ Outgoing.due \in Nat
      /\ Outgoing.off \in Nat /\ Outgoing.off < m.size /\ Outgoing.last \in BOOLEAN
  BY <1>1, OutgoingFacts, OutMsgSize, ConstantsAssumption
<1>3. /\ msg' = m /\ off' = Outgoing.off + k /\ due' = Outgoing.due
      /\ frameSent' = Outgoing.sent /\ chunk' = Outgoing.chunk
      /\ UNCHANGED <<frame, frameNum, client, queueVars>>
  BY DEF SendSlice, Put, queueVars
<1>4. delivered' = IF k > 0 /\ Outgoing.off + k = m.size
                   THEN Append(delivered, m) ELSE delivered
  BY DEF SendSlice, Put
<1>5. m.kind = "data" => m = NextChunk(m.chunk, m.from)
  BY <1>1, BarOutgoing
<1>6. BuiltInv'
  <2> HIDE DEF m
  <2> QED BY <1>3, <1>5 DEF BuiltInv, Pending, NextChunk
<1>7. QueueBar' = QueueBar
  BY <1>3, QueueBarKept DEF queueVars
<1>8. CASE k > 0 /\ Outgoing.off + k = m.size
  <2>1. \A kind : ~InFlight(kind)'
    BY <1>2, <1>3, <1>8 DEF InFlight
  <2>2. Outgoing.last = FALSE /\ delivered' = Append(delivered, m)
    BY <1>1, <1>2, <1>4, <1>8 DEF EndsFrame
  <2>3. CASE m.kind = "data"
    <3>1. ~m.last
      BY <1>1, <2>2, <2>3, OutgoingFits DEF RefInv, OrderInv, Describes
    <3> QED BY <1>1, <1>3, <1>6, <2>1, <2>2, <2>3, <3>1, RefChunk
  <2>4. CASE m.kind # "data"
    <3>1. m = HandshakeMsg /\ m.kind = "handshake"
      BY <1>2, <2>4 DEF OutMsgs, HandshakeMsg
    <3>2. OwedBar = Outgoing.due + 1 /\ OwedBar' = Outgoing.due
      BY <1>1, <1>3, <2>1, <3>1, BarOutgoing DEF OwedBar
    <3>3. FrameBar' = FrameBar
      <4>1. FrameBar = IF frame = NoFrame THEN <<>>
                       ELSE [id |-> frame.id, len |-> frame.len,
                             sent |-> Outgoing.sent, chunk |-> Outgoing.chunk]
        BY <1>1, <2>4, BarOutgoing
      <4> QED BY <1>3, <2>1, <4>1 DEF FrameBar
    <3>4. OwedBar > 0 /\ OwedBar' = OwedBar - 1
      BY <1>2, <3>2
    <3> QED BY <1>2, <1>3, <1>6, <1>7, <2>2, <3>1, <3>3, <3>4, MapAnswer
  <2> QED BY <2>3, <2>4
<1>9. CASE ~(k > 0 /\ Outgoing.off + k = m.size)
  <2>1. off' < msg'.size /\ delivered' = delivered
    BY <1>1, <1>2, <1>3, <1>4, <1>9
  <2>2. \A kind : InFlight(kind)' <=> m.kind = kind
    BY <1>3, <2>1 DEF InFlight
  <2>3. OwedBar' = OwedBar
    <3>1. OwedBar = IF m.kind = "handshake" THEN Outgoing.due + 1 ELSE Outgoing.due
      BY <1>1, BarOutgoing
    <3> QED BY <1>3, <2>2, <3>1 DEF OwedBar
  <2>4. FrameBar' = FrameBar
    <3>1. FrameBar = IF frame = NoFrame THEN <<>>
                     ELSE [id |-> frame.id, len |-> frame.len,
                           sent  |-> IF m.kind = "data" THEN m.from ELSE Outgoing.sent,
                           chunk |-> IF m.kind = "data" THEN m.chunk ELSE Outgoing.chunk]
      BY <1>1, BarOutgoing
    <3> QED BY <1>3, <2>2, <3>1 DEF FrameBar
  <2> QED BY <1>3, <1>6, <1>7, <2>1, <2>3, <2>4, MapStutter
<1> QED BY <1>8, <1>9

LEMMA RefFinished ==
    ASSUME IInv, RefInv, NEW k \in Nat, FinishFrame(k)
    PROVE  BuiltInv' /\ Protocol!Next
<1>1. Writing /\ EndsFrame(k) /\ Put(k)
  BY DEF FinishFrame
<1>2. Outgoing.msg.kind = "data" /\ Outgoing.msg.last
  BY <1>1, OutgoingFacts DEF EndsFrame
<1>3. /\ frame' = NoFrame /\ msg' = NoMsg /\ off' = 0
      /\ frameNum' = frameNum + 1 /\ due' = Outgoing.due
      /\ UNCHANGED <<client, queueVars>>
      /\ delivered' = Append(delivered, Outgoing.msg)
  BY <1>1 DEF FinishFrame, ReleaseFrame, Put, EndsFrame, queueVars
<1>4. ~Pending' /\ \A kind : ~InFlight(kind)'
  BY <1>3 DEF Pending, InFlight, NoMsg
<1>5. BuiltInv'
  BY <1>4 DEF BuiltInv
<1> QED BY <1>1, <1>2, <1>3, <1>4, <1>5, RefChunk

LEMMA RefNext == IInv /\ RefInv /\ [Next]_vars => RefInv' /\ [Protocol!Next]_(Protocol!vars)
<1> SUFFICES ASSUME IInv, RefInv, [Next]_vars
             PROVE  BuiltInv' /\ [Protocol!Next]_(Protocol!vars)
  BY OrderNext DEF RefInv
<1>1. CASE \/ AcceptFails \/ Connect \/ \E how \in {"closed", "reset"} : ClientLeaves(how)
           \/ \E m \in ClientMsgs : ClientSends(m)
  BY <1>1, RefIdle DEF AcceptFails, Connect, ClientLeaves, ClientSends, frameVars, msgVars, histVars
<1>2. CASE AcceptClient
  BY <1>2, RefAccept
<1>3. CASE \/ \E w \in BOOLEAN : Select(w)
           \/ \E n \in 1 .. RxCap : Recv(n)
           \/ RecvNothing \/ ParseDone \/ NotWritable \/ NothingToCapture
  BY <1>3, RefIdle DEF Select, Recv, RecvNothing, ParseDone, NotWritable, NothingToCapture,
     frameVars, msgVars, histVars
<1>4. CASE RecvEnds \/ ParseDrops \/ SendFails
  <2>1. CloseClient /\ client = TRUE
    BY <1>4 DEF RecvEnds, ParseDrops, SendFails, HeaderIn, Writing, IInv, TypeOK, FrameInv,
       NothingOutlivesClient
  <2> QED BY <2>1, RefClose
<1>5. CASE HandleHandshake
  BY <1>5, RefHandshake
<1>6. CASE HandleRequest
  BY <1>6, RefRequest
<1>7. CASE IgnoreMsg
  BY <1>7, RefIdle DEF IgnoreMsg, Consume, frameVars, msgVars, histVars
<1>8. CASE Writing /\ \E k \in 0 .. Outgoing.msg.size : SendSlice(k) \/ FinishFrame(k)
  <2>1. PICK k \in 0 .. Outgoing.msg.size : SendSlice(k) \/ FinishFrame(k)
    BY <1>8
  <2>2. Outgoing.msg \in OutMsgs
    BY <1>8, OutgoingFacts
  <2>3. k \in Nat
    BY <2>2, OutMsgSize
  <2> QED BY <2>1, <2>3, RefSent, RefFinished
<1>9. CASE (\E len \in FrameLens : Capture(len)) \/ CaptureFails
  BY <1>9, RefServe
<1>10. CASE UNCHANGED vars
  BY <1>10, RefIdle DEF vars, frameVars, msgVars, histVars
<1> QED
  BY <1>1, <1>2, <1>3, <1>4, <1>5, <1>6, <1>7, <1>8, <1>9, <1>10 DEF Next, Turn, Environment

\* The server implements the wire protocol: requests served oldest first and once,
\* each handshake answered once, the chunks of a frame in order and as long as they
\* may be, frames counted per connection, whatever the buffers, the partial writes
\* and the turns of the loop make of it (server_task and all it calls,
\* server.c:184-490; PROTOCOL.md).
THEOREM Refinement == Spec => ImplementsProtocol
<1>1. Init => RefInv
  BY InitOrder DEF Init, RefInv, BuiltInv
<1> QED
  BY <1>1, MapInit, RefNext, Inductive, PTL DEF Spec, ImplementsProtocol, Protocol!Spec

=============================================================================
