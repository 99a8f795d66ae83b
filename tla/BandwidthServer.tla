--------------------------- MODULE BandwidthServer ---------------------------
(***************************************************************************)
(* The servers of tcp-server: one task accepts a client, streams a fixed   *)
(* payload to it, closes and accepts the next.  The plain one             *)
(* (main/tcp_server.c) and the TLS one (main/tls_server.c) share nothing   *)
(* but the read-only payload, so kind says which of the two a behaviour is *)
(* about.                                                                  *)
(*                                                                         *)
(* A byte is its offset in the repeating pattern; the send buffer of the   *)
(* network stack has Room bytes, which the client empties as it reads.     *)
(* The TLS library is external: a record is carried as its plaintext, and  *)
(* one that did not go out whole is kept and must be asked for again.      *)
(***************************************************************************)
EXTENDS Integers, Sequences

CONSTANTS
    Clients,
    None,        \* no client
    Total,       \* PAYLOAD_TOTAL_BYTES
    Chunk,       \* PAYLOAD_CHUNK_BYTES
    Pattern,     \* PAYLOAD_PATTERN_LEN
    Record,      \* CONFIG_MBEDTLS_SSL_OUT_CONTENT_LEN
    Room,        \* CONFIG_LWIP_TCP_SND_BUF_DEFAULT
    Backlog,     \* TCP_SERVER_BACKLOG, TLS_SERVER_BACKLOG
    MaxIn,       \* bound: what a client has unread at the server
    MaxTalk      \* bound: what all clients say

Positive == Nat \ {0}

\* payload.h:37-38: a chunk is a whole number of patterns.
ConstantsAssumption ==
    /\ None \notin Clients
    /\ {Total, Chunk, Pattern, Record, Room, Backlog} \subseteq Positive
    /\ Chunk % Pattern = 0
    /\ {MaxIn, MaxTalk} \subseteq Nat

ASSUME ConstantsAssumption

VARIABLES
    kind,        \* "tcp" or "tls"
    pc,          \* place of _server_task
    backlog,     \* connections made and not accepted
    client,      \* what each client does: new, waiting, here, gone, ended
    cur,         \* client_fd's client
    fds,         \* client sockets the task holds
    sessions,    \* esp_tls contexts the task holds
    sent,        \* sent of _stream
    left,        \* left of _stream
    off,         \* p - chunk of _stream
    held,        \* what the TLS library has of an unfinished record
    wire,        \* history: bytes handed to the network on this connection
    read,        \* how many of them the client has read
    inq,         \* receive queue of client_fd
    aborted,     \* clients whose connection was reset with data under way
    late,        \* history: clients that spoke after the drain was over
    talks        \* what MaxTalk bounds

streamVars == <<sent, left, off, held>>
netVars    == <<wire, read, inq>>
holdVars   == <<cur, fds, sessions>>
histVars   == <<aborted, late, talks>>
vars == <<kind, pc, backlog, client, holdVars, streamVars, netVars, histVars>>

Lesser(a, b) == IF a < b THEN a ELSE b

\* What payload_init puts at offset o of the chunk.
PayloadByte(o) == o % Pattern

Piece(o, n) == [i \in 1 .. n |-> PayloadByte(o + i - 1)]

Free == Room - (Len(wire) - read)

Here == client[cur] = "here"

-----------------------------------------------------------------------------
(* Starting up and accepting. *)

\* socket(), bind() or listen() may fail, and the task ends.
Listen ==
    /\ pc = "start"
    /\ pc' \in {"accept", "stopped"}
    /\ UNCHANGED <<kind, backlog, client, holdVars, streamVars, netVars, histVars>>

Accepting == pc = "accept" /\ backlog # <<>>

\* The client of the oldest connection, which may have left meanwhile.
TakeClient ==
    /\ backlog' = Tail(backlog)
    /\ wire' = <<>> /\ read' = 0 /\ inq' = 0

Serve ==
    LET c == Head(backlog)
    IN  /\ cur' = c /\ fds' = fds + 1
        /\ client' = [client EXCEPT ![c] = IF @ = "waiting" THEN "here" ELSE @]

\* accept() reports a connection its client has reset.
AcceptFails ==
    /\ Accepting
    /\ client[Head(backlog)] = "gone"
    /\ backlog' = Tail(backlog)
    /\ UNCHANGED <<kind, pc, client, holdVars, streamVars, netVars, histVars>>

\* Mutant: the last chunk is as long as the others.
NextLeftRoundedUp(s) == IF s < Total THEN Chunk ELSE 0

NextLeft(s) == Lesser(Total - s, Chunk)

BeginStream ==
    /\ sent' = 0 /\ off' = 0 /\ held' = <<>>
    /\ left' = NextLeft(0)

AcceptTcp ==
    /\ Accepting /\ kind = "tcp"
    /\ TakeClient
    /\ Serve
    /\ BeginStream
    /\ pc' = "stream"
    /\ UNCHANGED <<kind, sessions, histVars>>

\* esp_tls_init has its context, and the handshake begins.
AcceptTls ==
    /\ Accepting /\ kind = "tls"
    /\ TakeClient
    /\ Serve
    /\ sessions' = sessions + 1
    /\ pc' = "handshake"
    /\ UNCHANGED <<kind, streamVars, histVars>>

\* esp_tls_init has no memory: the client is turned away.
InitFails ==
    /\ Accepting /\ kind = "tls"
    /\ TakeClient
    /\ client' = [client EXCEPT ![Head(backlog)] = IF @ = "gone" THEN @ ELSE "ended"]
    /\ UNCHANGED <<kind, pc, holdVars, streamVars, histVars>>

Handshake ==
    /\ pc = "handshake" /\ Here
    /\ BeginStream
    /\ pc' = "stream"
    /\ UNCHANGED <<kind, backlog, client, holdVars, netVars, histVars>>

\* What close() of client_fd leaves of the client.
Ended == [client EXCEPT ![cur] = IF @ = "here" THEN "ended" ELSE @]

\* Mutant: esp_tls_server_session_delete left out.
HandshakeFailsKeepsSession ==
    /\ pc = "handshake"
    /\ client' = Ended
    /\ cur' = None /\ fds' = fds - 1
    /\ pc' = "accept"
    /\ UNCHANGED <<kind, backlog, sessions, streamVars, netVars, histVars>>

\* The client left, does not speak TLS, or says nothing for as long as
\* TLS_SERVER_HANDSHAKE_TIMEOUT_MS.
HandshakeFails ==
    /\ pc = "handshake"
    /\ client' = Ended
    /\ cur' = None /\ fds' = fds - 1 /\ sessions' = sessions - 1
    /\ pc' = "accept"
    /\ UNCHANGED <<kind, backlog, streamVars, netVars, histVars>>

-----------------------------------------------------------------------------
(* _stream. *)

Closing == IF kind = "tcp" THEN "drain" ELSE "notify"

\* Mutant: after a short write the chunk is sent from its start again.
AdvanceRestarts(n) ==
    /\ sent' = sent + n
    /\ left' = NextLeft(sent + n) /\ off' = 0
    /\ pc' = IF sent + n < Total THEN "stream" ELSE Closing

\* p, left and sent move on; an empty chunk is followed by the next, if any.
Advance(n) ==
    /\ sent' = sent + n
    /\ IF n < left
       THEN left' = left - n /\ off' = off + n
       ELSE left' = NextLeft(sent + n) /\ off' = 0
    /\ pc' = IF sent + n < Total THEN "stream" ELSE Closing

\* send() takes all it was offered, or less.
Send(n) ==
    /\ pc = "stream" /\ kind = "tcp"
    /\ n <= Lesser(left, Free)
    /\ wire' = wire \o Piece(off, n)
    /\ Advance(n)
    /\ UNCHANGED <<kind, backlog, client, holdVars, held, read, inq, histVars>>

GiveUp ==
    /\ pc' = Closing
    /\ UNCHANGED <<kind, backlog, client, holdVars, streamVars, netVars, histVars>>

\* Mutant: without SO_SNDTIMEO send() waits for as long as the client stays.
SendTimesOutNever ==
    /\ pc = "stream" /\ kind = "tcp" /\ Free = 0
    /\ client[cur] = "gone"
    /\ GiveUp

\* No room for TCP_SERVER_SEND_TIMEOUT_MS.
SendTimesOut ==
    /\ pc = "stream" /\ kind = "tcp" /\ Free = 0
    /\ GiveUp

\* send() or esp_tls_conn_write() reports the connection broken.
SendFails ==
    /\ pc = "stream" /\ client[cur] = "gone"
    /\ GiveUp

\* Mutant: a write is asked for with a whole chunk again.
OfferWhole == Lesser(Total - sent, Chunk)

\* The length a write asks for.
Offer == left

\* A new record goes out as far as there is room; the library keeps the rest
\* and the write returns ESP_TLS_ERR_SSL_WANT_WRITE.
WriteRecord ==
    LET size == Lesser(Offer, Record)
        n    == Lesser(size, Free)
    IN  /\ pc = "stream" /\ kind = "tls" /\ held = <<>>
        /\ wire' = wire \o Piece(off, n)
        /\ IF n = size
           THEN held' = <<>> /\ Advance(size)
           ELSE /\ held' = Piece(off + n, size - n)
                /\ pc' = "delay"
                /\ UNCHANGED <<sent, left, off>>
        /\ UNCHANGED <<kind, backlog, client, holdVars, read, inq, histVars>>

\* A write with a record held flushes that one, and reports the length of what
\* it was asked for now.
WriteHeld ==
    LET n == Lesser(Len(held), Free)
    IN  /\ pc = "stream" /\ kind = "tls" /\ held # <<>>
        /\ wire' = wire \o SubSeq(held, 1, n)
        /\ held' = SubSeq(held, n + 1, Len(held))
        /\ IF n = Len(held)
           THEN Advance(Lesser(Offer, Record))
           ELSE pc' = "delay" /\ UNCHANGED <<sent, left, off>>
        /\ UNCHANGED <<kind, backlog, client, holdVars, read, inq, histVars>>

\* Mutant: a stalled client is given up.
DelayGivesUp ==
    /\ pc = "delay"
    /\ pc' = Closing
    /\ UNCHANGED <<kind, backlog, client, holdVars, streamVars, netVars, histVars>>

\* vTaskDelay(1) before the same write again.
Delay ==
    /\ pc = "delay"
    /\ pc' = "stream"
    /\ UNCHANGED <<kind, backlog, client, holdVars, streamVars, netVars, histVars>>

-----------------------------------------------------------------------------
(* _close_gracefully. *)

\* The close_notify is queued, or refused because the connection is broken.
\* Without room for it the loop goes round.
Notify ==
    /\ pc = "notify"
    /\ Free > 0 \/ client[cur] = "gone"
    /\ pc' = "drain"
    /\ UNCHANGED <<kind, backlog, client, holdVars, streamVars, netVars, histVars>>

Drain ==
    /\ pc = "drain" /\ inq > 0
    /\ inq' = 0
    /\ UNCHANGED <<kind, pc, backlog, client, holdVars, streamVars, wire, read, histVars>>

\* Mutant: one recv(), whatever else has arrived.
DrainEndsUnread ==
    /\ pc = "drain"
    /\ pc' = "close"
    /\ UNCHANGED <<kind, backlog, client, holdVars, streamVars, netVars, histVars>>

\* recv() has nothing for the length of its timeout, or the client is gone.
DrainEnds ==
    /\ pc = "drain"
    /\ inq = 0 \/ client[cur] = "gone"
    /\ pc' = "close"
    /\ UNCHANGED <<kind, backlog, client, holdVars, streamVars, netVars, histVars>>

\* Closing a socket with data unread resets the connection, and what was not
\* delivered yet is lost; otherwise the stack goes on delivering it.
Close ==
    /\ pc = "close"
    /\ aborted' = IF inq > 0 /\ Here THEN aborted \cup {cur} ELSE aborted
    /\ client' = Ended
    /\ cur' = None /\ fds' = fds - 1
    /\ sessions' = IF kind = "tls" THEN sessions - 1 ELSE sessions
    /\ pc' = "accept"
    /\ UNCHANGED <<kind, backlog, streamVars, netVars, late, talks>>

-----------------------------------------------------------------------------
(* The clients. *)

Connect(c) ==
    /\ client[c] = "new" /\ pc \notin {"start", "stopped"}
    /\ Len(backlog) < Backlog
    /\ backlog' = Append(backlog, c)
    /\ client' = [client EXCEPT ![c] = "waiting"]
    /\ UNCHANGED <<kind, pc, holdVars, streamVars, netVars, histVars>>

Leave(c) ==
    /\ client[c] \in {"waiting", "here"}
    /\ client' = [client EXCEPT ![c] = "gone"]
    /\ UNCHANGED <<kind, pc, backlog, holdVars, streamVars, netVars, histVars>>

Read ==
    /\ cur # None /\ Here /\ read < Len(wire)
    /\ read' = read + 1
    /\ UNCHANGED <<kind, pc, backlog, client, holdVars, streamVars, wire, inq, histVars>>

\* Whatever a client says once it is accepted is never more than discarded.
Talk ==
    /\ cur # None /\ Here /\ pc # "handshake"
    /\ inq < MaxIn /\ talks < MaxTalk
    /\ inq' = inq + 1 /\ talks' = talks + 1
    /\ late' = IF pc = "close" THEN late \cup {cur} ELSE late
    /\ UNCHANGED <<kind, pc, backlog, client, holdVars, streamVars, wire, read, aborted>>

-----------------------------------------------------------------------------
Init ==
    /\ kind \in {"tcp", "tls"}
    /\ pc = "start" /\ backlog = <<>>
    /\ client = [c \in Clients |-> "new"]
    /\ cur = None /\ fds = 0 /\ sessions = 0
    /\ sent = 0 /\ left = 0 /\ off = 0 /\ held = <<>>
    /\ wire = <<>> /\ read = 0 /\ inq = 0
    /\ aborted = {} /\ late = {} /\ talks = 0

Accept == AcceptFails \/ AcceptTcp \/ AcceptTls \/ InitFails \/ Handshake \/ HandshakeFails

Stream ==
    \/ \E n \in 1 .. Chunk : Send(n)
    \/ SendTimesOut \/ SendFails
    \/ WriteRecord \/ WriteHeld \/ Delay

Finish == Notify \/ Drain \/ DrainEnds \/ Close

Task == Accept \/ Stream \/ Finish

World == Read \/ Talk \/ \E c \in Clients : Connect(c) \/ Leave(c)

Next == Listen \/ Task \/ World

Spec == Init /\ [][Next]_vars

\* The task is scheduled, and a write on a connection whose client is gone fails
\* in the end, when the network stack gives up retransmitting.
FairSpec == Spec /\ WF_vars(Task) /\ SF_vars(SendFails)

-----------------------------------------------------------------------------
TypeOK ==
    /\ kind \in {"tcp", "tls"}
    /\ pc \in {"start", "stopped", "accept", "handshake", "stream", "delay",
               "notify", "drain", "close"}
    /\ backlog \in Seq(Clients) /\ Len(backlog) <= Backlog
    /\ client \in [Clients -> {"new", "waiting", "here", "gone", "ended"}]
    /\ cur \in Clients \cup {None}
    /\ fds \in 0 .. 1 /\ sessions \in 0 .. 1
    /\ sent \in 0 .. Total /\ left \in 0 .. Chunk /\ off \in 0 .. Chunk - 1
    /\ held \in Seq(0 .. Pattern - 1) /\ wire \in Seq(0 .. Pattern - 1)
    /\ read \in 0 .. Len(wire)
    /\ inq \in 0 .. MaxIn /\ talks \in 0 .. MaxTalk
    /\ aborted \subseteq Clients /\ late \subseteq Clients

\* payload.h:37-38, tcp_server.c:51-52: however the stack cuts the stream up,
\* what goes out is the pattern repeated without a break.
PatternUnbroken == \A i \in 1 .. Len(wire) : wire[i] = (i - 1) % Pattern

\* tls_server.c:60-67: the count the server logs is what went out; only a TLS
\* record under way is not in it yet, and never more than that one.
CountIsTrue ==
    pc \in {"stream", "delay", "notify", "drain", "close"} =>
        IF held = <<>> THEN sent = Len(wire)
        ELSE Len(wire) + Len(held) = sent + Lesser(left, Record)

\* Whichever way a client is let go (no memory, no handshake, a broken or a full
\* connection, an ordinary end), its socket and its TLS context are freed once.
NothingLeaks ==
    /\ pc \in {"start", "accept"} => fds = 0 /\ sessions = 0
    /\ pc \notin {"start", "stopped", "accept"} =>
          fds = 1 /\ sessions = IF kind = "tls" THEN 1 ELSE 0

\* tcp_server.c:79-81, tls_server.c:115-117: nothing a client sends while it is
\* being served makes the stack reset the connection and lose the tail of the
\* transfer; only what comes after the drain can.
TailSurvives == aborted \subseteq late

\* A stream that ends before the total.
EndsShort == pc \in {"stream", "delay"} /\ pc' = Closing /\ sent' < Total

\* tls_server.c:45-46, "short only when the peer went away mid-transfer": the TLS
\* stream ends short because its client left (the plain one also when its client
\* reads nothing for the send timeout, tcp_server.c:58-63).
TlsShortOnlyWhenGone == [][EndsShort /\ kind = "tls" => client[cur] = "gone"]_vars

\* A client that stays and reads nothing, with a full buffer.
Stalled == cur # None /\ kind = "tls" /\ Here /\ Free = 0

\* tcp_server.c:18-19: a client that stops reading, says nothing or leaves does
\* not keep the next one waiting for ever. The TLS server promises it only as
\* long as no client stops reading for good.
NextIsServed ==
    []<>~Stalled => \A c \in Clients : client[c] = "waiting" ~> client[c] # "waiting"

-----------------------------------------------------------------------------
(* The inductive invariant behind the safety properties (BandwidthProofs). *)

Streaming == {"stream", "delay", "notify", "drain", "close"}

\* A client is held from accept() to close(), and only then.
ClientInv ==
    /\ cur # None <=> pc \in Streaming \cup {"handshake"}
    /\ pc \in {"handshake", "delay", "notify"} => kind = "tls"
    /\ pc = "handshake" => wire = <<>>
    /\ Len(wire) - read <= Room
    /\ pc = "close" /\ inq > 0 /\ Here => cur \in late

\* Where the loops of _stream stand: the rest of the chunk or of the payload,
\* at the same place of the pattern in both.
LoopInv ==
    pc \in Streaming =>
        /\ left = Lesser(Total - sent, Chunk - off)
        /\ sent < Total => sent % Pattern = off % Pattern
        /\ pc \in {"stream", "delay"} => sent < Total

\* What the library holds is what comes next on the wire.
HeldInv ==
    pc \in Streaming =>
        /\ Len(held) <= Lesser(left, Record)
        /\ held # <<>> => kind = "tls"
        /\ \A i \in 1 .. Len(held) : held[i] = (Len(wire) + i - 1) % Pattern

IInv ==
    /\ TypeOK /\ ClientInv /\ LoopInv /\ HeldInv
    /\ PatternUnbroken /\ CountIsTrue /\ NothingLeaks /\ TailSurvives
=============================================================================
