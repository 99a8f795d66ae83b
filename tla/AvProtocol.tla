----------------------------- MODULE AvProtocol -----------------------------
(***************************************************************************)
(* The AV source wire protocol as a client sees the device (PROTOCOL.md of *)
(* xiao-esp32s3-camera-stream): what the server of AvServer promises,      *)
(* without buffers, partial writes or a select loop.  The requests the     *)
(* device holds are served oldest first, one frame at a time, and out is   *)
(* everything the client has received on the connection.                   *)
(***************************************************************************)
EXTENDS Integers, Sequences

CONSTANTS ReqIds, QueueLen, MaxChunkData, FrameLens,
          HandshakeMsg,                 \* the answer to a handshake
          DataMsg(_, _, _, _, _, _)     \* id, frame, chunk, offset, length, last

VARIABLES
    up,      \* a client is connected
    queue,   \* requests held, oldest first
    owed,    \* handshakes to answer
    frame,   \* the frame in flight: [id, len, sent, chunk], or <<>>
    num,     \* its number
    out      \* messages received by the client

vars == <<up, queue, owed, frame, num, out>>

None == <<>>

Init ==
    /\ up = FALSE
    /\ queue = <<>> /\ owed = 0 /\ frame = None
    /\ num = 0
    /\ out = <<>>

Connect ==
    /\ ~up
    /\ up' = TRUE
    /\ num' = 0
    /\ out' = <<>>
    /\ UNCHANGED <<queue, owed, frame>>

\* At any time the connection may end; all that was pending is forgotten.
Disconnect ==
    /\ up
    /\ up' = FALSE
    /\ queue' = <<>> /\ owed' = 0 /\ frame' = None
    /\ UNCHANGED <<num, out>>

\* Requests beyond what the device can hold are discarded: no step.
Request(id) ==
    /\ up /\ Len(queue) < QueueLen
    /\ queue' = Append(queue, id)
    /\ UNCHANGED <<up, owed, frame, num, out>>

Handshake ==
    /\ up
    /\ owed' = owed + 1
    /\ UNCHANGED <<up, queue, frame, num, out>>

\* A handshake is answered once, and the device sends none on its own.
Answer ==
    /\ up /\ owed > 0
    /\ owed' = owed - 1
    /\ out' = Append(out, HandshakeMsg)
    /\ UNCHANGED <<up, queue, frame, num>>

\* The oldest request is taken; the camera has a frame for it or fails.
Serve ==
    /\ up /\ queue # <<>> /\ frame = None
    /\ queue' = Tail(queue)
    /\ \/ \E len \in FrameLens :
            frame' = [id |-> Head(queue), len |-> len, sent |-> 0, chunk |-> 0]
       \/ frame' = None
    /\ UNCHANGED <<up, owed, num, out>>

\* The next chunk of the frame in flight, never empty and never beyond its end.
Chunk ==
    /\ up /\ frame # None
    /\ LET left == frame.len - frame.sent
           n    == IF left < MaxChunkData THEN left ELSE MaxChunkData
       IN  /\ out' = Append(out, DataMsg(frame.id, num, frame.chunk,
                                         frame.sent, n, n = left))
           /\ IF n = left
              THEN frame' = None /\ num' = num + 1
              ELSE /\ frame' = [frame EXCEPT !.sent = @ + n, !.chunk = @ + 1]
                   /\ num' = num
    /\ UNCHANGED <<up, queue, owed>>

Next ==
    \/ Connect \/ Disconnect
    \/ \E id \in ReqIds : Request(id)
    \/ Handshake \/ Answer \/ Serve \/ Chunk

Spec == Init /\ [][Next]_vars
=============================================================================
