---------------------------- MODULE MCAvServer ----------------------------
(***************************************************************************)
(* AvServer on small instances, and its refinement of AvProtocol.          *)
(***************************************************************************)
EXTENDS AvServer

InFlight(kind) == msg.kind = kind /\ off < msg.size

\* A message counts once its last byte is out: what is being sent is still owed.
Protocol == INSTANCE AvProtocol WITH
    up    <- client,
    queue <- [i \in 1 .. count |-> ring[(head + i - 1) % QueueLen]],
    owed  <- IF InFlight("handshake") THEN due + 1 ELSE due,
    frame <- IF frame = NoFrame THEN <<>>
             ELSE [id |-> frame.id, len |-> frame.len,
                   sent  |-> IF InFlight("data") THEN msg.from ELSE frameSent,
                   chunk |-> IF InFlight("data") THEN msg.chunk ELSE chunk],
    num   <- frameNum,
    out   <- delivered

\* The server does what the wire protocol promises: requests served oldest
\* first and once, one answer for each handshake and none on its own, the chunks
\* of a frame in order, frames counted per connection.
ImplementsProtocol == Protocol!Spec
===========================================================================
