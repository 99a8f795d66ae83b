--------------------------- MODULE BandwidthProofs ---------------------------
(***************************************************************************)
(* Safety of BandwidthServer for every payload, chunk, record and buffer   *)
(* size and any number of clients.                                         *)
(***************************************************************************)
EXTENDS BandwidthServer, TLAPS

USE DEF Positive

-----------------------------------------------------------------------------
(* Places in the pattern. *)

LEMMA Division ==
    ASSUME NEW P \in Positive, NEW a \in Nat
    PROVE  a = P * (a \div P) + (a % P) /\ a % P \in 0 .. P - 1 /\ a \div P \in Int
OBVIOUS

LEMMA Remainder ==
    ASSUME NEW P \in Positive, NEW q \in Int, NEW r \in 0 .. P - 1
    PROVE  (P * q + r) % P = r
OBVIOUS

\* Moving n bytes on depends only on the place in the pattern.
LEMMA Shift ==
    ASSUME NEW P \in Positive, NEW a \in Nat, NEW n \in Nat
    PROVE  (a + n) % P = ((a % P) + n) % P
<1> DEFINE q == a \div P  r == a % P
<1>1. a = P * q + r /\ r \in 0 .. P - 1 /\ q \in Int
  BY Division
<1> HIDE DEF q, r
<1> DEFINE p == (r + n) \div P  s == (r + n) % P
<1>2. r + n \in Nat
  BY <1>1
<1>3. r + n = P * p + s /\ s \in 0 .. P - 1 /\ p \in Int
  BY <1>2, Division
<1> HIDE DEF p, s
<1> DEFINE t == q + p
<1>4. a + n = P * t + s /\ t \in Int
  BY <1>1, <1>3
<1> HIDE DEF t
<1>5. (P * t + s) % P = s
  BY <1>3, <1>4, Remainder
<1> QED
  BY <1>4, <1>5 DEF s, r

LEMMA SamePlace ==
    ASSUME NEW P \in Positive, NEW a \in Nat, NEW b \in Nat, NEW n \in Nat,
           a % P = b % P
    PROVE  (a + n) % P = (b + n) % P
<1>1. a % P \in Nat /\ b % P \in Nat
  BY Division
<1>2. (a + n) % P = ((a % P) + n) % P
  BY Shift
<1>3. (b + n) % P = ((b % P) + n) % P
  BY Shift
<1> QED
  BY <1>2, <1>3

\* A piece of the chunk from off on is the pattern from off on.
LEMMA PieceType ==
    ASSUME NEW o \in Nat, NEW n \in Nat
    PROVE  /\ Piece(o, n) \in Seq(0 .. Pattern - 1)
           /\ Len(Piece(o, n)) = n
           /\ \A i \in 1 .. n : Piece(o, n)[i] = (o + i - 1) % Pattern
<1>1. \A i \in 1 .. n : o + i - 1 \in Nat /\ (o + i - 1) % Pattern \in 0 .. Pattern - 1
  <2> TAKE i \in 1 .. n
  <2>1. o + i - 1 \in Nat
    OBVIOUS
  <2>2. Pattern \in Positive
    BY ConstantsAssumption DEF ConstantsAssumption
  <2> HIDE DEF Positive
  <2> QED
    BY <2>1, <2>2, Division
<1> DEFINE B == 0 .. Pattern - 1
<1>2. Piece(o, n) = [i \in 1 .. n |-> (o + i - 1) % Pattern]
  BY DEF Piece, PayloadByte
<1>3. Piece(o, n) \in [1 .. n -> B]
  BY <1>1, <1>2
<1> HIDE DEF B
<1>4. Piece(o, n) \in Seq(B) /\ Len(Piece(o, n)) = n
  BY <1>3
<1> QED
  BY <1>2, <1>4 DEF B

\* The constants, as the proofs use them.
LEMMA Constants ==
    /\ None \notin Clients
    /\ Total \in Positive /\ Chunk \in Positive /\ Pattern \in Positive
    /\ Record \in Positive /\ Room \in Positive /\ Backlog \in Positive
    /\ MaxIn \in Nat /\ MaxTalk \in Nat
BY ConstantsAssumption DEF ConstantsAssumption

\* Accepting takes a client from the backlog.
LEMMA Taken ==
    ASSUME TypeOK, backlog # <<>>
    PROVE  /\ Head(backlog) \in Clients
           /\ Tail(backlog) \in Seq(Clients) /\ Len(Tail(backlog)) <= Backlog
<1>1. backlog \in Seq(Clients) /\ Len(backlog) <= Backlog /\ Backlog \in Nat
  BY Constants DEF TypeOK
<1> QED
  BY <1>1

-----------------------------------------------------------------------------
(* The initial states, and one lemma per action. *)

LEMMA InitInv == Init => IInv
<1> SUFFICES ASSUME Init PROVE IInv
  OBVIOUS
<1>1. TypeOK
  BY Constants DEF Init, TypeOK
<1>2. ClientInv /\ LoopInv /\ HeldInv
  BY Constants DEF Init, ClientInv, LoopInv, HeldInv, Streaming
<1>3. PatternUnbroken /\ CountIsTrue /\ NothingLeaks /\ TailSurvives
  BY DEF Init, PatternUnbroken, CountIsTrue, NothingLeaks, TailSurvives
<1> QED
  BY <1>1, <1>2, <1>3 DEF IInv

LEMMA ListenStep == ASSUME IInv, Listen PROVE IInv'
<1>1. TypeOK'
  BY Constants DEF Listen, holdVars, streamVars, netVars, histVars, IInv, TypeOK
<1>2. ClientInv'
  BY DEF Listen, holdVars, streamVars, netVars, histVars, IInv, TypeOK, ClientInv,
      Streaming, Here
<1>3. LoopInv'
  BY DEF Listen, holdVars, streamVars, netVars, histVars, IInv, TypeOK, LoopInv, Streaming
<1>4. HeldInv'
  BY DEF Listen, holdVars, streamVars, netVars, histVars, IInv, TypeOK, HeldInv, Streaming
<1>5. PatternUnbroken'
  BY DEF Listen, holdVars, streamVars, netVars, histVars, IInv, TypeOK, PatternUnbroken
<1>6. CountIsTrue'
  BY DEF Listen, holdVars, streamVars, netVars, histVars, IInv, TypeOK, CountIsTrue,
      Streaming
<1>7. (NothingLeaks /\ TailSurvives)'
  BY DEF Listen, holdVars, streamVars, netVars, histVars, IInv, TypeOK, ClientInv,
      NothingLeaks, TailSurvives, Streaming, Here
<1> QED
  BY <1>1, <1>2, <1>3, <1>4, <1>5, <1>6, <1>7 DEF IInv

LEMMA AcceptFailsStep == ASSUME IInv, AcceptFails PROVE IInv'
<1>1. TypeOK'
  BY Constants, Taken
  DEF AcceptFails, Accepting, holdVars, streamVars, netVars, histVars, IInv,
      TypeOK
<1>2. ClientInv'
  BY Taken
  DEF AcceptFails, Accepting, holdVars, streamVars, netVars, histVars, IInv,
      TypeOK, ClientInv, Streaming, Here
<1>3. LoopInv'
  BY Taken
  DEF AcceptFails, Accepting, holdVars, streamVars, netVars, histVars, IInv,
      TypeOK, LoopInv, Streaming
<1>4. HeldInv'
  BY Taken
  DEF AcceptFails, Accepting, holdVars, streamVars, netVars, histVars, IInv,
      TypeOK, HeldInv, Streaming
<1>5. PatternUnbroken'
  BY Taken
  DEF AcceptFails, Accepting, holdVars, streamVars, netVars, histVars, IInv,
      TypeOK, PatternUnbroken
<1>6. CountIsTrue'
  BY Taken
  DEF AcceptFails, Accepting, holdVars, streamVars, netVars, histVars, IInv,
      TypeOK, CountIsTrue, Streaming
<1>7. (NothingLeaks /\ TailSurvives)'
  BY Taken
  DEF AcceptFails, Accepting, holdVars, streamVars, netVars, histVars, IInv,
      TypeOK, ClientInv, NothingLeaks, TailSurvives, Streaming, Here
<1> QED
  BY <1>1, <1>2, <1>3, <1>4, <1>5, <1>6, <1>7 DEF IInv

LEMMA AcceptTcpStep == ASSUME IInv, AcceptTcp PROVE IInv'
<1>1. TypeOK'
  <2>1. TypeOK /\ Head(backlog) \in Clients
    BY Taken DEF AcceptTcp, Accepting, IInv
  <2>2. client' \in [Clients -> {"new", "waiting", "here", "gone", "ended"}]
    BY <2>1 DEF AcceptTcp, Serve, TypeOK
  <2>3. backlog' \in Seq(Clients) /\ Len(backlog') <= Backlog
    BY <2>1, Taken DEF AcceptTcp, Accepting, TakeClient
  <2>4. cur' \in Clients \cup {None} /\ fds' \in 0 .. 1 /\ sessions' \in 0 .. 1
    BY <2>1 DEF AcceptTcp, Serve, Accepting, NothingLeaks, IInv, TypeOK
  <2>5. UNCHANGED <<kind, aborted, late, talks>>
    BY DEF AcceptTcp, histVars
  <2>6. /\ sent' \in 0 .. Total /\ left' \in 0 .. Chunk /\ off' \in 0 .. Chunk - 1
        /\ held' \in Seq(0 .. Pattern - 1) /\ wire' \in Seq(0 .. Pattern - 1)
        /\ read' \in 0 .. Len(wire') /\ inq' \in 0 .. MaxIn
        /\ pc' = "stream"
    BY Constants DEF AcceptTcp, TakeClient, BeginStream, NextLeft, Lesser
  <2> QED
    BY <2>1, <2>2, <2>3, <2>4, <2>5, <2>6 DEF TypeOK
<1>2. ClientInv'
  <2>1. Head(backlog) \in Clients
    BY Taken DEF AcceptTcp, Accepting, IInv
  <2>2. cur' # None /\ pc' \in Streaming \cup {"handshake"}
    BY <2>1, Constants DEF AcceptTcp, Serve, Streaming
  <2>3. wire' = <<>> /\ read' = 0 /\ pc' # "close" /\ inq' = 0
    BY DEF AcceptTcp, TakeClient
  <2>4. pc' \in {"handshake", "delay", "notify"} => kind' = "tls"
    BY DEF AcceptTcp
  <2> QED
    BY <2>2, <2>3, <2>4, Constants DEF ClientInv
<1>3. LoopInv'
  <2>1. sent' = 0 /\ off' = 0 /\ left' = Lesser(Total - 0, Chunk)
    BY DEF AcceptTcp, BeginStream, NextLeft
  <2>2. Chunk - 0 = Chunk /\ 0 < Total
    BY Constants
  <2> QED
    BY <2>1, <2>2 DEF LoopInv
<1>4. HeldInv'
  BY Constants
  DEF AcceptTcp, Accepting, TakeClient, Serve, BeginStream, NextLeft, Lesser,
      NothingLeaks, histVars, IInv, TypeOK, HeldInv, Streaming
<1>5. PatternUnbroken'
  BY Constants
  DEF AcceptTcp, Accepting, TakeClient, Serve, BeginStream, NextLeft, Lesser,
      NothingLeaks, histVars, IInv, TypeOK, PatternUnbroken
<1>6. CountIsTrue'
  BY Constants
  DEF AcceptTcp, Accepting, TakeClient, Serve, BeginStream, NextLeft, Lesser,
      NothingLeaks, histVars, IInv, TypeOK, CountIsTrue, Streaming
<1>7. (NothingLeaks /\ TailSurvives)'
  BY Constants
  DEF AcceptTcp, Accepting, TakeClient, Serve, BeginStream, NextLeft, Lesser,
      NothingLeaks, histVars, IInv, TypeOK, ClientInv, TailSurvives, Streaming,
      Here
<1> QED
  BY <1>1, <1>2, <1>3, <1>4, <1>5, <1>6, <1>7 DEF IInv

LEMMA AcceptTlsStep == ASSUME IInv, AcceptTls PROVE IInv'
<1>1. TypeOK'
  <2>1. TypeOK /\ Head(backlog) \in Clients
    BY Taken DEF AcceptTls, Accepting, IInv
  <2>2. client' \in [Clients -> {"new", "waiting", "here", "gone", "ended"}]
    BY <2>1 DEF AcceptTls, Serve, TypeOK
  <2>3. backlog' \in Seq(Clients) /\ Len(backlog') <= Backlog
    BY <2>1, Taken DEF AcceptTls, Accepting, TakeClient
  <2>4. cur' \in Clients \cup {None} /\ fds' \in 0 .. 1 /\ sessions' \in 0 .. 1
    BY <2>1 DEF AcceptTls, Serve, Accepting, NothingLeaks, IInv, TypeOK
  <2>5. UNCHANGED <<kind, aborted, late, talks>>
    BY DEF AcceptTls, histVars
  <2>6. /\ sent' \in 0 .. Total /\ left' \in 0 .. Chunk /\ off' \in 0 .. Chunk - 1
        /\ held' \in Seq(0 .. Pattern - 1) /\ wire' \in Seq(0 .. Pattern - 1)
        /\ read' \in 0 .. Len(wire') /\ inq' \in 0 .. MaxIn
        /\ pc' = "handshake"
    BY <2>1, Constants DEF AcceptTls, TakeClient, streamVars, TypeOK
  <2> QED
    BY <2>1, <2>2, <2>3, <2>4, <2>5, <2>6 DEF TypeOK
<1>2. ClientInv'
  <2>1. Head(backlog) \in Clients
    BY Taken DEF AcceptTls, Accepting, IInv
  <2>2. cur' # None /\ pc' \in Streaming \cup {"handshake"}
    BY <2>1, Constants DEF AcceptTls, Serve, Streaming
  <2>3. wire' = <<>> /\ read' = 0 /\ pc' # "close" /\ inq' = 0
    BY DEF AcceptTls, TakeClient
  <2>4. pc' \in {"handshake", "delay", "notify"} => kind' = "tls"
    BY DEF AcceptTls
  <2> QED
    BY <2>2, <2>3, <2>4, Constants DEF ClientInv
<1>3. LoopInv'
  BY Constants
  DEF AcceptTls, Accepting, TakeClient, Serve, NothingLeaks, histVars, streamVars,
      IInv, TypeOK, LoopInv, Streaming
<1>4. HeldInv'
  BY Constants
  DEF AcceptTls, Accepting, TakeClient, Serve, NothingLeaks, histVars, streamVars,
      IInv, TypeOK, HeldInv, Streaming
<1>5. PatternUnbroken'
  BY Constants
  DEF AcceptTls, Accepting, TakeClient, Serve, NothingLeaks, histVars, streamVars,
      IInv, TypeOK, PatternUnbroken
<1>6. CountIsTrue'
  BY Constants
  DEF AcceptTls, Accepting, TakeClient, Serve, NothingLeaks, histVars, streamVars,
      IInv, TypeOK, CountIsTrue, Streaming
<1>7. (NothingLeaks /\ TailSurvives)'
  BY Constants
  DEF AcceptTls, Accepting, TakeClient, Serve, NothingLeaks, histVars, streamVars,
      IInv, TypeOK, ClientInv, TailSurvives, Streaming, Here
<1> QED
  BY <1>1, <1>2, <1>3, <1>4, <1>5, <1>6, <1>7 DEF IInv

LEMMA InitFailsStep == ASSUME IInv, InitFails PROVE IInv'
<1>1. TypeOK'
  <2>1. TypeOK /\ Head(backlog) \in Clients
    BY Taken DEF InitFails, Accepting, IInv
  <2>2. client' \in [Clients -> {"new", "waiting", "here", "gone", "ended"}]
    BY <2>1 DEF InitFails, TypeOK
  <2>3. backlog' \in Seq(Clients) /\ Len(backlog') <= Backlog
    BY <2>1, Taken DEF InitFails, Accepting, TakeClient
  <2>4. cur' \in Clients \cup {None} /\ fds' \in 0 .. 1 /\ sessions' \in 0 .. 1
    BY <2>1 DEF InitFails, holdVars, TypeOK
  <2>5. UNCHANGED <<kind, aborted, late, talks>>
    BY DEF InitFails, histVars
  <2>6. /\ sent' \in 0 .. Total /\ left' \in 0 .. Chunk /\ off' \in 0 .. Chunk - 1
        /\ held' \in Seq(0 .. Pattern - 1) /\ wire' \in Seq(0 .. Pattern - 1)
        /\ read' \in 0 .. Len(wire') /\ inq' \in 0 .. MaxIn
        /\ pc' = pc
    BY <2>1, Constants DEF InitFails, TakeClient, streamVars, TypeOK
  <2> QED
    BY <2>1, <2>2, <2>3, <2>4, <2>5, <2>6 DEF TypeOK
<1>2. ClientInv'
  BY Constants
  DEF InitFails, Accepting, TakeClient, ClientInv, histVars, streamVars, holdVars,
      IInv, TypeOK, Streaming, Here
<1>3. LoopInv'
  BY Constants
  DEF InitFails, Accepting, TakeClient, ClientInv, histVars, streamVars, holdVars,
      IInv, TypeOK, LoopInv, Streaming
<1>4. HeldInv'
  BY Constants
  DEF InitFails, Accepting, TakeClient, ClientInv, histVars, streamVars, holdVars,
      IInv, TypeOK, HeldInv, Streaming
<1>5. PatternUnbroken'
  BY Constants
  DEF InitFails, Accepting, TakeClient, ClientInv, histVars, streamVars, holdVars,
      IInv, TypeOK, PatternUnbroken
<1>6. CountIsTrue'
  BY Constants
  DEF InitFails, Accepting, TakeClient, ClientInv, histVars, streamVars, holdVars,
      IInv, TypeOK, CountIsTrue, Streaming
<1>7. (NothingLeaks /\ TailSurvives)'
  BY Constants
  DEF InitFails, Accepting, TakeClient, ClientInv, histVars, streamVars, holdVars,
      IInv, TypeOK, NothingLeaks, TailSurvives, Streaming, Here
<1> QED
  BY <1>1, <1>2, <1>3, <1>4, <1>5, <1>6, <1>7 DEF IInv

LEMMA HandshakeStep == ASSUME IInv, Handshake PROVE IInv'
<1>1. TypeOK'
  BY Constants, Constants
  DEF Handshake, BeginStream, NextLeft, Lesser, ClientInv, histVars, netVars,
      holdVars, IInv, TypeOK
<1>2. ClientInv'
  BY Constants
  DEF Handshake, BeginStream, NextLeft, Lesser, ClientInv, histVars, netVars,
      holdVars, IInv, TypeOK, Streaming, Here
<1>3. LoopInv'
  <2>1. sent' = 0 /\ off' = 0 /\ left' = Lesser(Total - 0, Chunk)
    BY DEF Handshake, BeginStream, NextLeft
  <2>2. Chunk - 0 = Chunk /\ 0 < Total
    BY Constants
  <2> QED
    BY <2>1, <2>2 DEF LoopInv
<1>4. HeldInv'
  BY Constants
  DEF Handshake, BeginStream, NextLeft, Lesser, ClientInv, histVars, netVars,
      holdVars, IInv, TypeOK, HeldInv, Streaming
<1>5. PatternUnbroken'
  BY Constants
  DEF Handshake, BeginStream, NextLeft, Lesser, ClientInv, histVars, netVars,
      holdVars, IInv, TypeOK, PatternUnbroken
<1>6. CountIsTrue'
  BY Constants
  DEF Handshake, BeginStream, NextLeft, Lesser, ClientInv, histVars, netVars,
      holdVars, IInv, TypeOK, CountIsTrue, Streaming
<1>7. (NothingLeaks /\ TailSurvives)'
  BY Constants
  DEF Handshake, BeginStream, NextLeft, Lesser, ClientInv, histVars, netVars,
      holdVars, IInv, TypeOK, NothingLeaks, TailSurvives, Streaming, Here
<1> QED
  BY <1>1, <1>2, <1>3, <1>4, <1>5, <1>6, <1>7 DEF IInv

LEMMA HandshakeFailsStep == ASSUME IInv, HandshakeFails PROVE IInv'
<1>1. TypeOK'
  BY Constants
  DEF HandshakeFails, Ended, ClientInv, NothingLeaks, holdVars, streamVars,
      netVars, histVars, IInv, TypeOK
<1>2. ClientInv'
  BY DEF HandshakeFails, Ended, ClientInv, NothingLeaks, holdVars, streamVars,
      netVars, histVars, IInv, TypeOK, Streaming, Here
<1>3. LoopInv'
  BY DEF HandshakeFails, Ended, ClientInv, NothingLeaks, holdVars, streamVars,
      netVars, histVars, IInv, TypeOK, LoopInv, Streaming
<1>4. HeldInv'
  BY DEF HandshakeFails, Ended, ClientInv, NothingLeaks, holdVars, streamVars,
      netVars, histVars, IInv, TypeOK, HeldInv, Streaming
<1>5. PatternUnbroken'
  BY DEF HandshakeFails, Ended, ClientInv, NothingLeaks, holdVars, streamVars,
      netVars, histVars, IInv, TypeOK, PatternUnbroken
<1>6. CountIsTrue'
  BY DEF HandshakeFails, Ended, ClientInv, NothingLeaks, holdVars, streamVars,
      netVars, histVars, IInv, TypeOK, CountIsTrue, Streaming
<1>7. (NothingLeaks /\ TailSurvives)'
  BY DEF HandshakeFails, Ended, ClientInv, NothingLeaks, holdVars, streamVars,
      netVars, histVars, IInv, TypeOK, TailSurvives, Streaming, Here
<1> QED
  BY <1>1, <1>2, <1>3, <1>4, <1>5, <1>6, <1>7 DEF IInv

-----------------------------------------------------------------------------
(* Steps of _stream. *)

\* However much a write took, the loops stand at the same place of the pattern.
LEMMA AdvanceLoop ==
    ASSUME TypeOK, LoopInv, pc = "stream", NEW n \in 1 .. left, Advance(n)
    PROVE  /\ LoopInv'
           /\ sent' = sent + n /\ sent' \in 0 .. Total
           /\ left' \in 0 .. Chunk /\ off' \in 0 .. Chunk - 1
           /\ pc' \in {"stream", Closing}
<1>1. /\ left = Lesser(Total - sent, Chunk - off) /\ sent < Total
      /\ sent % Pattern = off % Pattern
  BY DEF LoopInv, Streaming
<1>2. /\ sent \in Nat /\ off \in Nat /\ left \in Nat /\ n \in Nat
      /\ n <= Total - sent /\ n <= Chunk - off
  BY <1>1, Constants DEF TypeOK, Lesser
<1>3. sent' = sent + n /\ sent' \in 0 .. Total
  BY <1>2, Constants DEF Advance
<1>4. pc' \in {"stream", Closing} /\ (pc' = "stream" <=> sent' < Total)
  BY DEF Advance, Closing
<1>5. (sent + n) % Pattern = (off + n) % Pattern
  <2>1. Pattern \in Positive /\ sent \in Nat /\ off \in Nat /\ n \in Nat
    BY <1>2, Constants
  <2> HIDE DEF Positive
  <2> QED
    BY <1>1, <2>1, SamePlace, Zenon
<1>6. CASE n < left
  <2>1. left' = left - n /\ off' = off + n
    BY <1>6 DEF Advance
  <2>2. left' = Lesser(Total - sent', Chunk - off')
    BY <1>1, <1>2, <1>3, <2>1, Constants DEF Lesser
  <2>3. left' \in 0 .. Chunk /\ off' \in 0 .. Chunk - 1
    BY <1>1, <1>2, <1>6, <2>1, Constants DEF Lesser
  <2> QED
    BY <1>3, <1>4, <1>5, <2>1, <2>2, <2>3 DEF LoopInv, Closing
<1>7. CASE ~(n < left)
  <2>1. left' = Lesser(Total - sent', Chunk) /\ off' = 0 /\ n = left
    BY <1>2, <1>3, <1>7 DEF Advance, NextLeft
  <2>2. left' = Lesser(Total - sent', Chunk - off')
    BY <2>1, Constants
  <2>3. left' \in 0 .. Chunk /\ off' \in 0 .. Chunk - 1
    BY <1>3, <2>1, Constants DEF Lesser
  <2>4. sent' < Total => sent' % Pattern = off' % Pattern
    <3>1. SUFFICES ASSUME sent' < Total PROVE (off + n) % Pattern = 0 % Pattern
      BY <1>3, <1>5, <2>1
    <3>2. off + n = Chunk
      BY <1>1, <1>2, <1>3, <2>1, <3>1, Constants DEF Lesser
    <3>3. 0 % Pattern = 0
      BY Constants
    <3> QED
      BY <3>2, <3>3, ConstantsAssumption DEF ConstantsAssumption
  <2> QED
    BY <1>3, <1>4, <2>2, <2>3, <2>4 DEF LoopInv, Closing
<1> QED
  BY <1>6, <1>7

\* What comes next in the pattern may be appended to the wire.
LEMMA WireGrows ==
    ASSUME TypeOK, PatternUnbroken, NEW s \in Seq(0 .. Pattern - 1),
           \A i \in 1 .. Len(s) : s[i] = (Len(wire) + i - 1) % Pattern,
           wire' = wire \o s
    PROVE  /\ wire' \in Seq(0 .. Pattern - 1)
           /\ Len(wire') = Len(wire) + Len(s)
           /\ PatternUnbroken'
<1> DEFINE B == 0 .. Pattern - 1
<1>1. wire \in Seq(B) /\ s \in Seq(B)
  BY DEF TypeOK
<1> HIDE DEF B
<1>2. wire' \in Seq(B) /\ Len(wire') = Len(wire) + Len(s)
  BY <1>1
<1>3. ASSUME NEW i \in 1 .. Len(wire') PROVE wire'[i] = (i - 1) % Pattern
  <2>1. CASE i \in 1 .. Len(wire)
    BY <1>1, <2>1 DEF PatternUnbroken
  <2>2. CASE i \notin 1 .. Len(wire)
    <3> DEFINE j == i - Len(wire)
    <3>1. j \in 1 .. Len(s) /\ wire'[i] = s[j]
      BY <1>1, <1>2, <2>2
    <3>2. Len(wire) + j - 1 = i - 1
      BY <1>1
    <3> QED
      BY <3>1, <3>2
  <2> QED
    BY <2>1, <2>2
<1> QED
  BY <1>2, <1>3 DEF B, PatternUnbroken

\* With no record held, what p points at comes next.
LEMMA PieceIsNext ==
    ASSUME IInv, pc = "stream", held = <<>>, NEW k \in Nat, k <= left
    PROVE  \A i \in 1 .. k : (off + i - 1) % Pattern = (Len(wire) + i - 1) % Pattern
<1>1. sent = Len(wire) /\ sent % Pattern = off % Pattern
  BY DEF IInv, CountIsTrue, LoopInv, Streaming
<1>2. sent \in Nat /\ off \in Nat
  BY Constants DEF IInv, TypeOK
<1> TAKE i \in 1 .. k
<1>3. i - 1 \in Nat
  OBVIOUS
<1>4. (off + (i - 1)) % Pattern = (sent + (i - 1)) % Pattern
  <2>1. Pattern \in Positive
    BY Constants
  <2> HIDE DEF Positive
  <2> QED
    BY <1>1, <1>2, <1>3, <2>1, SamePlace, Zenon
<1> QED
  BY <1>1, <1>2, <1>4

\* Where a write that gave up, or ended the payload, goes on.
LEMMA AfterStream ==
    ASSUME TypeOK
    PROVE  /\ Closing \in {"drain", "notify"}
           /\ Closing = "notify" => kind = "tls"
BY DEF Closing, TypeOK

LEMMA SendStep == ASSUME IInv, NEW n \in 1 .. Chunk, Send(n) PROVE IInv'
<1>1. /\ TypeOK /\ LoopInv /\ ClientInv /\ PatternUnbroken /\ CountIsTrue /\ NothingLeaks
      /\ TailSurvives /\ HeldInv
      /\ pc = "stream" /\ kind = "tcp" /\ kind' = kind
  BY DEF IInv, Send
<1>2. n \in 1 .. left /\ n <= Room - (Len(wire) - read)
  BY <1>1, Constants DEF Send, Lesser, Free, TypeOK
<1>3. /\ LoopInv' /\ sent' = sent + n /\ sent' \in 0 .. Total
      /\ left' \in 0 .. Chunk /\ off' \in 0 .. Chunk - 1
      /\ pc' \in {"stream", Closing}
  BY <1>1, <1>2, AdvanceLoop DEF Send
<1>4. held = <<>>
  BY <1>1 DEF HeldInv, Streaming
<1>5. /\ wire' \in Seq(0 .. Pattern - 1) /\ Len(wire') = Len(wire) + n
      /\ PatternUnbroken'
  <2>1. off \in Nat /\ n \in Nat /\ n <= left
    BY <1>1, <1>2, Constants DEF TypeOK
  <2>2. /\ Piece(off, n) \in Seq(0 .. Pattern - 1) /\ Len(Piece(off, n)) = n
        /\ \A i \in 1 .. n : Piece(off, n)[i] = (off + i - 1) % Pattern
    BY <2>1, PieceType
  <2>3. \A i \in 1 .. n : (off + i - 1) % Pattern = (Len(wire) + i - 1) % Pattern
    BY <1>1, <1>4, <2>1, PieceIsNext
  <2> QED
    BY <1>1, <2>2, <2>3, WireGrows DEF Send
<1>6. /\ UNCHANGED <<backlog, client, cur, fds, sessions, held, read, inq, aborted, late, talks>>
      /\ pc' \in Streaming /\ pc' # "close" /\ pc' # "delay" /\ pc' # "handshake"
      /\ pc' = "notify" => kind = "tls"
  BY <1>1, <1>3, AfterStream DEF Send, holdVars, histVars, Streaming
<1>7. TypeOK'
  <2>1. pc' \in {"stream", "drain", "notify"} /\ read \in 0 .. Len(wire) /\ Len(wire) \in Nat
    BY <1>1, <1>3, Constants DEF Closing, TypeOK
  <2>2. read' \in 0 .. Len(wire')
    BY <1>5, <1>6, <2>1
  <2> QED
    BY <1>1, <1>3, <1>5, <1>6, <2>1, <2>2 DEF TypeOK
<1>8. ClientInv'
  <2>1. Len(wire') - read' <= Room
    BY <1>1, <1>2, <1>5, <1>6, Constants DEF TypeOK
  <2> QED
    BY <1>1, <1>6, <2>1 DEF ClientInv, Streaming
<1>9. HeldInv' /\ CountIsTrue'
  <2>1. held' = <<>>
    BY <1>4, <1>6
  <2>2. sent = Len(wire)
    BY <1>1, <1>4 DEF CountIsTrue
  <2>3. 0 <= Lesser(left', Record)
    BY <1>3, Constants DEF Lesser
  <2> QED
    BY <1>3, <1>5, <2>1, <2>2, <2>3 DEF HeldInv, CountIsTrue
<1>10. NothingLeaks' /\ TailSurvives'
  BY <1>1, <1>6 DEF NothingLeaks, TailSurvives, Streaming
<1> QED
  BY <1>3, <1>5, <1>7, <1>8, <1>9, <1>10 DEF IInv

\* A write that put n bytes of a record of size bytes on the wire and has the
\* rest of it, h, still to flush.
LEMMA RecordWaits ==
    ASSUME IInv, pc = "stream", kind = "tls", NEW s \in Seq(0 .. Pattern - 1),
           NEW h \in Seq(0 .. Pattern - 1),
           h # <<>>, Len(s) <= Free, Len(h) <= Lesser(left, Record),
           sent + Lesser(left, Record) = Len(wire) + Len(s) + Len(h),
           \A i \in 1 .. Len(s) : s[i] = (Len(wire) + i - 1) % Pattern,
           \A i \in 1 .. Len(h) : h[i] = (Len(wire) + Len(s) + i - 1) % Pattern,
           wire' = wire \o s, held' = h, pc' = "delay",
           UNCHANGED <<sent, left, off, kind, backlog, client, holdVars, read, inq, histVars>>
    PROVE  IInv'
<1>1. /\ TypeOK /\ LoopInv /\ ClientInv /\ PatternUnbroken /\ NothingLeaks /\ TailSurvives
  BY DEF IInv
<1>2. wire' \in Seq(0 .. Pattern - 1) /\ Len(wire') = Len(wire) + Len(s) /\ PatternUnbroken'
  BY <1>1, WireGrows
<1>3. UNCHANGED <<cur, fds, sessions, aborted, late, talks>>
  BY DEF holdVars, histVars
<1>4. Len(wire) \in Nat /\ Len(s) \in Nat /\ Len(h) \in Nat /\ read \in 0 .. Len(wire)
  BY <1>1 DEF TypeOK
<1>5. TypeOK'
  <2>1. read' \in 0 .. Len(wire')
    BY <1>2, <1>4
  <2> QED
    BY <1>1, <1>2, <1>3, <2>1 DEF TypeOK
<1>6. ClientInv'
  <2>1. Len(wire') - read' <= Room
    BY <1>2, <1>4, Constants DEF Free
  <2> QED
    BY <1>1, <1>3, <2>1 DEF ClientInv, Streaming
<1>7. LoopInv'
  BY <1>1 DEF LoopInv, Streaming
<1>8. HeldInv'
  BY <1>2 DEF HeldInv
<1>9. CountIsTrue'
  BY <1>2 DEF CountIsTrue
<1>10. NothingLeaks' /\ TailSurvives'
  BY <1>1, <1>3 DEF NothingLeaks, TailSurvives
<1> QED
  BY <1>2, <1>5, <1>6, <1>7, <1>8, <1>9, <1>10 DEF IInv

\* A write that put the rest of its record on the wire.
LEMMA RecordDone ==
    ASSUME IInv, pc = "stream", kind = "tls", NEW s \in Seq(0 .. Pattern - 1),
           Len(s) <= Free,
           sent + Lesser(left, Record) = Len(wire) + Len(s),
           \A i \in 1 .. Len(s) : s[i] = (Len(wire) + i - 1) % Pattern,
           wire' = wire \o s, held' = <<>>, Advance(Lesser(left, Record)),
           UNCHANGED <<kind, backlog, client, holdVars, read, inq, histVars>>
    PROVE  IInv'
<1>1. /\ TypeOK /\ LoopInv /\ ClientInv /\ PatternUnbroken /\ NothingLeaks /\ TailSurvives
  BY DEF IInv
<1>2. wire' \in Seq(0 .. Pattern - 1) /\ Len(wire') = Len(wire) + Len(s) /\ PatternUnbroken'
  BY <1>1, WireGrows
<1>3. UNCHANGED <<cur, fds, sessions, aborted, late, talks>>
  BY DEF holdVars, histVars
<1>4. Len(wire) \in Nat /\ Len(s) \in Nat /\ read \in 0 .. Len(wire)
  BY <1>1 DEF TypeOK
<1>5. Lesser(left, Record) \in 1 .. left
  <2>1. sent < Total /\ left = Lesser(Total - sent, Chunk - off)
    BY <1>1 DEF LoopInv, Streaming
  <2> QED
    BY <1>1, <2>1, Constants DEF Lesser, TypeOK
<1>6. /\ LoopInv' /\ sent' = sent + Lesser(left, Record) /\ sent' \in 0 .. Total
      /\ left' \in 0 .. Chunk /\ off' \in 0 .. Chunk - 1
      /\ pc' \in {"stream", "notify"}
  BY <1>1, <1>5, AdvanceLoop DEF Closing
<1>7. TypeOK'
  <2>1. read' \in 0 .. Len(wire') /\ held' \in Seq(0 .. Pattern - 1)
    BY <1>2, <1>4
  <2> QED
    BY <1>1, <1>2, <1>3, <1>6, <2>1 DEF TypeOK
<1>8. ClientInv'
  <2>1. Len(wire') - read' <= Room
    BY <1>2, <1>4, Constants DEF Free
  <2> QED
    BY <1>1, <1>3, <1>6, <2>1 DEF ClientInv, Streaming
<1>9. HeldInv' /\ CountIsTrue'
  <2>1. 0 <= Lesser(left', Record)
    BY <1>6, Constants DEF Lesser
  <2> QED
    BY <1>2, <1>6, <2>1 DEF HeldInv, CountIsTrue
<1>10. NothingLeaks' /\ TailSurvives'
  BY <1>1, <1>3, <1>6 DEF NothingLeaks, TailSurvives
<1> QED
  BY <1>2, <1>6, <1>7, <1>8, <1>9, <1>10 DEF IInv

LEMMA WriteRecordStep == ASSUME IInv, WriteRecord PROVE IInv'
<1> DEFINE size == Lesser(left, Record)
           n    == Lesser(size, Free)
<1>1. /\ pc = "stream" /\ kind = "tls" /\ held = <<>>
      /\ wire' = wire \o Piece(off, n)
      /\ n = size => held' = <<>> /\ Advance(size)
      /\ n # size => /\ held' = Piece(off + n, size - n) /\ pc' = "delay"
                     /\ UNCHANGED <<sent, left, off>>
      /\ UNCHANGED <<kind, backlog, client, holdVars, read, inq, histVars>>
  BY DEF WriteRecord, Offer
<1>2. TypeOK /\ ClientInv /\ sent = Len(wire) /\ sent < Total
      /\ left = Lesser(Total - sent, Chunk - off)
  BY <1>1 DEF IInv, CountIsTrue, LoopInv, Streaming
<1>3. /\ size \in 1 .. left /\ size <= Record
  BY <1>2, Constants DEF Lesser, TypeOK
<1>4. Len(wire) \in Nat /\ read \in 0 .. Len(wire) /\ Len(wire) - read <= Room
      /\ off \in Nat /\ left \in Nat
  BY <1>2, Constants DEF TypeOK, ClientInv
<1>5. n \in 0 .. size /\ n <= Free
  BY <1>3, <1>4, Constants DEF Free, Lesser
<1>6. \A i \in 1 .. size : (off + i - 1) % Pattern = (Len(wire) + i - 1) % Pattern
  <2>1. size \in Nat /\ size <= left
    BY <1>3, <1>4
  <2> HIDE DEF size
  <2> QED
    BY <1>1, <2>1, PieceIsNext
<1>7. /\ Piece(off, n) \in Seq(0 .. Pattern - 1) /\ Len(Piece(off, n)) = n
      /\ \A i \in 1 .. n : Piece(off, n)[i] = (Len(wire) + i - 1) % Pattern
  <2>1. n \in Nat /\ \A i \in 1 .. n : i \in 1 .. size
    BY <1>3, <1>4, <1>5
  <2> HIDE DEF n, size
  <2>2. \A i \in 1 .. n : Piece(off, n)[i] = (off + i - 1) % Pattern
    BY <1>4, <2>1, PieceType
  <2>3. Piece(off, n) \in Seq(0 .. Pattern - 1) /\ Len(Piece(off, n)) = n
    BY <1>4, <2>1, PieceType
  <2> QED
    BY <1>6, <2>1, <2>2, <2>3
<1>8. CASE n = size
  <2> HIDE DEF n
  <2>1. sent + Lesser(left, Record) = Len(wire) + Len(Piece(off, n))
    BY <1>2, <1>7, <1>8
  <2>2. /\ Len(Piece(off, n)) <= Free
        /\ \A i \in 1 .. Len(Piece(off, n)) :
              Piece(off, n)[i] = (Len(wire) + i - 1) % Pattern
    BY <1>5, <1>7
  <2>3. held' = <<>> /\ Advance(Lesser(left, Record))
    BY <1>1, <1>8
  <2> QED
    BY <1>1, <1>7, <2>1, <2>2, <2>3, RecordDone
<1>9. CASE n # size
  <2> DEFINE h == Piece(off + n, size - n)
  <2>1. off + n \in Nat /\ size - n \in Nat /\ size - n >= 1
    BY <1>3, <1>4, <1>5, <1>9
  <2> HIDE DEF n, size
  <2>2. /\ h \in Seq(0 .. Pattern - 1) /\ Len(h) = size - n
        /\ \A i \in 1 .. size - n : h[i] = (off + n + i - 1) % Pattern
    BY <2>1, PieceType
  <2>3. \A i \in 1 .. size - n : h[i] = (Len(wire) + n + i - 1) % Pattern
    <3> TAKE i \in 1 .. size - n
    <3>1. n + i \in 1 .. size
      BY <1>3, <1>4, <1>5, <2>1
    <3>2. (off + (n + i) - 1) % Pattern = (Len(wire) + (n + i) - 1) % Pattern
      BY <1>6, <3>1
    <3>3. off + (n + i) - 1 = off + n + i - 1
          /\ Len(wire) + (n + i) - 1 = Len(wire) + n + i - 1
      BY <1>4, <1>5, <1>3
    <3> QED
      BY <2>2, <3>2, <3>3
  <2>4. h # <<>> /\ Len(h) <= size
        /\ sent + size = Len(wire) + Len(Piece(off, n)) + Len(h)
    <3> HIDE DEF h
    <3> QED
      BY <1>2, <1>3, <1>4, <1>5, <1>7, <2>1, <2>2
  <2>5. /\ Len(Piece(off, n)) <= Free
        /\ \A i \in 1 .. Len(Piece(off, n)) :
              Piece(off, n)[i] = (Len(wire) + i - 1) % Pattern
        /\ \A i \in 1 .. Len(h) : h[i] = (Len(wire) + Len(Piece(off, n)) + i - 1) % Pattern
    BY <1>5, <1>7, <2>2, <2>3
  <2>6. held' = h /\ pc' = "delay" /\ UNCHANGED <<sent, left, off>>
    BY <1>1, <1>9
  <2> HIDE DEF h
  <2> QED
    <3>1. Len(h) <= Lesser(left, Record)
          /\ sent + Lesser(left, Record) = Len(wire) + Len(Piece(off, n)) + Len(h)
      BY <2>4 DEF size
    <3> QED
      BY <1>1, <1>7, <2>2, <2>4, <2>5, <2>6, <3>1, RecordWaits
<1> QED
  BY <1>8, <1>9

LEMMA WriteHeldStep == ASSUME IInv, WriteHeld PROVE IInv'
<1> DEFINE n == Lesser(Len(held), Free)
           s == SubSeq(held, 1, n)
           h == SubSeq(held, n + 1, Len(held))
<1>1. /\ pc = "stream" /\ kind = "tls" /\ held # <<>>
      /\ wire' = wire \o s /\ held' = h
      /\ n = Len(held) => Advance(Lesser(left, Record))
      /\ n # Len(held) => pc' = "delay" /\ UNCHANGED <<sent, left, off>>
      /\ UNCHANGED <<kind, backlog, client, holdVars, read, inq, histVars>>
  BY DEF WriteHeld, Offer
<1>2. /\ TypeOK /\ ClientInv
      /\ Len(wire) + Len(held) = sent + Lesser(left, Record)
      /\ Len(held) <= Lesser(left, Record)
      /\ \A i \in 1 .. Len(held) : held[i] = (Len(wire) + i - 1) % Pattern
  BY <1>1 DEF IInv, CountIsTrue, HeldInv, Streaming
<1> DEFINE B == 0 .. Pattern - 1
<1>3. /\ Len(wire) \in Nat /\ read \in 0 .. Len(wire) /\ Len(wire) - read <= Room
      /\ held \in Seq(B) /\ Len(held) \in Nat /\ sent \in Nat /\ left \in Nat
  BY <1>2, Constants DEF TypeOK, ClientInv
<1>4. n \in 0 .. Len(held) /\ n <= Free
  BY <1>3, Constants DEF Free, Lesser
<1> HIDE DEF n, B
<1>5. /\ s \in Seq(B) /\ Len(s) = n /\ \A i \in 1 .. n : s[i] = held[i]
  BY <1>3, <1>4
<1>6. /\ h \in Seq(B) /\ Len(h) = Len(held) - n
      /\ \A i \in 1 .. Len(held) - n : h[i] = held[n + i]
  BY <1>3, <1>4
<1> HIDE DEF s, h
<1>7. /\ Len(s) <= Free
      /\ \A i \in 1 .. Len(s) : s[i] = (Len(wire) + i - 1) % Pattern
  <2>1. \A i \in 1 .. n : i \in 1 .. Len(held)
    BY <1>3, <1>4
  <2> QED
    BY <1>2, <1>4, <1>5, <2>1
<1>8. CASE n = Len(held)
  <2>1. held' = <<>>
    BY <1>1, <1>6, <1>8
  <2>2. sent + Lesser(left, Record) = Len(wire) + Len(s)
    BY <1>2, <1>5, <1>8
  <2> QED
    BY <1>1, <1>5, <1>7, <1>8, <2>1, <2>2, RecordDone DEF B
<1>9. CASE n # Len(held)
  <2>1. Len(h) > 0 /\ Len(h) <= Len(held) /\ Len(s) + Len(h) = Len(held)
    BY <1>3, <1>4, <1>5, <1>6, <1>9
  <2>5. h # <<>>
    BY <2>1
  <2>2. \A i \in 1 .. Len(h) : h[i] = (Len(wire) + Len(s) + i - 1) % Pattern
    <3> TAKE i \in 1 .. Len(h)
    <3>1. n + i \in 1 .. Len(held) /\ h[i] = held[n + i]
      BY <1>3, <1>4, <1>6
    <3>2. held[n + i] = (Len(wire) + (n + i) - 1) % Pattern
      BY <1>2, <3>1
    <3>3. Len(wire) + (n + i) - 1 = Len(wire) + Len(s) + i - 1
      BY <1>3, <1>4, <1>5, <1>6
    <3> QED
      BY <3>1, <3>2, <3>3
  <2>3. sent + Lesser(left, Record) = Len(wire) + Len(s) + Len(h)
    BY <1>2, <1>3, <1>5, <1>6, <2>1, <1>4
  <2>4. Len(h) <= Lesser(left, Record)
    BY <1>2, <1>3, <1>4, <1>6, Constants DEF Lesser
  <2> QED
    BY <1>1, <1>5, <1>6, <1>7, <1>9, <2>1, <2>2, <2>3, <2>4, <2>5, RecordWaits DEF B
<1> QED
  BY <1>8, <1>9

LEMMA SendTimesOutStep == ASSUME IInv, SendTimesOut PROVE IInv'
<1>1. TypeOK'
  BY Constants
  DEF SendTimesOut, GiveUp, Closing, ClientInv, holdVars, streamVars, netVars,
      histVars, IInv, TypeOK
<1>2. ClientInv'
  BY DEF SendTimesOut, GiveUp, Closing, ClientInv, holdVars, streamVars, netVars,
      histVars, IInv, TypeOK, Streaming, Here
<1>3. LoopInv'
  BY DEF SendTimesOut, GiveUp, Closing, ClientInv, holdVars, streamVars, netVars,
      histVars, IInv, TypeOK, LoopInv, Streaming
<1>4. HeldInv'
  BY DEF SendTimesOut, GiveUp, Closing, ClientInv, holdVars, streamVars, netVars,
      histVars, IInv, TypeOK, HeldInv, Streaming
<1>5. PatternUnbroken'
  BY DEF SendTimesOut, GiveUp, Closing, ClientInv, holdVars, streamVars, netVars,
      histVars, IInv, TypeOK, PatternUnbroken
<1>6. CountIsTrue'
  BY DEF SendTimesOut, GiveUp, Closing, ClientInv, holdVars, streamVars, netVars,
      histVars, IInv, TypeOK, CountIsTrue, Streaming
<1>7. (NothingLeaks /\ TailSurvives)'
  BY DEF SendTimesOut, GiveUp, Closing, ClientInv, holdVars, streamVars, netVars,
      histVars, IInv, TypeOK, NothingLeaks, TailSurvives, Streaming, Here
<1> QED
  BY <1>1, <1>2, <1>3, <1>4, <1>5, <1>6, <1>7 DEF IInv

LEMMA SendFailsStep == ASSUME IInv, SendFails PROVE IInv'
<1>1. TypeOK'
  BY Constants
  DEF SendFails, GiveUp, Closing, ClientInv, holdVars, streamVars, netVars,
      histVars, IInv, TypeOK
<1>2. ClientInv'
  BY DEF SendFails, GiveUp, Closing, ClientInv, holdVars, streamVars, netVars,
      histVars, IInv, TypeOK, Streaming, Here
<1>3. LoopInv'
  BY DEF SendFails, GiveUp, Closing, ClientInv, holdVars, streamVars, netVars,
      histVars, IInv, TypeOK, LoopInv, Streaming
<1>4. HeldInv'
  BY DEF SendFails, GiveUp, Closing, ClientInv, holdVars, streamVars, netVars,
      histVars, IInv, TypeOK, HeldInv, Streaming
<1>5. PatternUnbroken'
  BY DEF SendFails, GiveUp, Closing, ClientInv, holdVars, streamVars, netVars,
      histVars, IInv, TypeOK, PatternUnbroken
<1>6. CountIsTrue'
  BY DEF SendFails, GiveUp, Closing, ClientInv, holdVars, streamVars, netVars,
      histVars, IInv, TypeOK, CountIsTrue, Streaming
<1>7. (NothingLeaks /\ TailSurvives)'
  BY DEF SendFails, GiveUp, Closing, ClientInv, holdVars, streamVars, netVars,
      histVars, IInv, TypeOK, NothingLeaks, TailSurvives, Streaming, Here
<1> QED
  BY <1>1, <1>2, <1>3, <1>4, <1>5, <1>6, <1>7 DEF IInv

LEMMA DelayStep == ASSUME IInv, Delay PROVE IInv'
<1>1. TypeOK'
  BY Constants DEF Delay, holdVars, streamVars, netVars, histVars, IInv, TypeOK
<1>2. ClientInv'
  BY DEF Delay, holdVars, streamVars, netVars, histVars, IInv, TypeOK, ClientInv,
      Streaming, Here
<1>3. LoopInv'
  BY DEF Delay, holdVars, streamVars, netVars, histVars, IInv, TypeOK, LoopInv, Streaming
<1>4. HeldInv'
  BY DEF Delay, holdVars, streamVars, netVars, histVars, IInv, TypeOK, HeldInv, Streaming
<1>5. PatternUnbroken'
  BY DEF Delay, holdVars, streamVars, netVars, histVars, IInv, TypeOK, PatternUnbroken
<1>6. CountIsTrue'
  BY DEF Delay, holdVars, streamVars, netVars, histVars, IInv, TypeOK, CountIsTrue,
      Streaming
<1>7. (NothingLeaks /\ TailSurvives)'
  BY DEF Delay, holdVars, streamVars, netVars, histVars, IInv, TypeOK, ClientInv,
      NothingLeaks, TailSurvives, Streaming, Here
<1> QED
  BY <1>1, <1>2, <1>3, <1>4, <1>5, <1>6, <1>7 DEF IInv

-----------------------------------------------------------------------------
(* Steps of _close_gracefully, and of the clients. *)

LEMMA NotifyStep == ASSUME IInv, Notify PROVE IInv'
<1>1. TypeOK'
  BY Constants DEF Notify, holdVars, streamVars, netVars, histVars, IInv, TypeOK
<1>2. ClientInv'
  BY DEF Notify, holdVars, streamVars, netVars, histVars, IInv, TypeOK, ClientInv,
      Streaming, Here
<1>3. LoopInv'
  BY DEF Notify, holdVars, streamVars, netVars, histVars, IInv, TypeOK, LoopInv, Streaming
<1>4. HeldInv'
  BY DEF Notify, holdVars, streamVars, netVars, histVars, IInv, TypeOK, HeldInv, Streaming
<1>5. PatternUnbroken'
  BY DEF Notify, holdVars, streamVars, netVars, histVars, IInv, TypeOK, PatternUnbroken
<1>6. CountIsTrue'
  BY DEF Notify, holdVars, streamVars, netVars, histVars, IInv, TypeOK, CountIsTrue,
      Streaming
<1>7. (NothingLeaks /\ TailSurvives)'
  BY DEF Notify, holdVars, streamVars, netVars, histVars, IInv, TypeOK, ClientInv,
      NothingLeaks, TailSurvives, Streaming, Here
<1> QED
  BY <1>1, <1>2, <1>3, <1>4, <1>5, <1>6, <1>7 DEF IInv

LEMMA DrainStep == ASSUME IInv, Drain PROVE IInv'
<1>1. TypeOK'
  BY Constants DEF Drain, holdVars, streamVars, netVars, histVars, IInv, TypeOK
<1>2. ClientInv'
  BY DEF Drain, holdVars, streamVars, netVars, histVars, IInv, TypeOK, ClientInv,
      Streaming, Here
<1>3. LoopInv'
  BY DEF Drain, holdVars, streamVars, netVars, histVars, IInv, TypeOK, LoopInv, Streaming
<1>4. HeldInv'
  BY DEF Drain, holdVars, streamVars, netVars, histVars, IInv, TypeOK, HeldInv, Streaming
<1>5. PatternUnbroken'
  BY DEF Drain, holdVars, streamVars, netVars, histVars, IInv, TypeOK, PatternUnbroken
<1>6. CountIsTrue'
  BY DEF Drain, holdVars, streamVars, netVars, histVars, IInv, TypeOK, CountIsTrue,
      Streaming
<1>7. (NothingLeaks /\ TailSurvives)'
  BY DEF Drain, holdVars, streamVars, netVars, histVars, IInv, TypeOK, ClientInv,
      NothingLeaks, TailSurvives, Streaming, Here
<1> QED
  BY <1>1, <1>2, <1>3, <1>4, <1>5, <1>6, <1>7 DEF IInv

LEMMA DrainEndsStep == ASSUME IInv, DrainEnds PROVE IInv'
<1>1. TypeOK'
  BY Constants DEF DrainEnds, holdVars, streamVars, netVars, histVars, IInv, TypeOK
<1>2. ClientInv'
  BY DEF DrainEnds, holdVars, streamVars, netVars, histVars, IInv, TypeOK, ClientInv,
      Streaming, Here
<1>3. LoopInv'
  BY DEF DrainEnds, holdVars, streamVars, netVars, histVars, IInv, TypeOK, LoopInv,
      Streaming
<1>4. HeldInv'
  BY DEF DrainEnds, holdVars, streamVars, netVars, histVars, IInv, TypeOK, HeldInv,
      Streaming
<1>5. PatternUnbroken'
  BY DEF DrainEnds, holdVars, streamVars, netVars, histVars, IInv, TypeOK, PatternUnbroken
<1>6. CountIsTrue'
  BY DEF DrainEnds, holdVars, streamVars, netVars, histVars, IInv, TypeOK,
      CountIsTrue, Streaming
<1>7. (NothingLeaks /\ TailSurvives)'
  BY DEF DrainEnds, holdVars, streamVars, netVars, histVars, IInv, TypeOK, ClientInv,
      NothingLeaks, TailSurvives, Streaming, Here
<1> QED
  BY <1>1, <1>2, <1>3, <1>4, <1>5, <1>6, <1>7 DEF IInv

LEMMA CloseStep == ASSUME IInv, Close PROVE IInv'
<1>1. TypeOK'
  <2>1. TypeOK /\ cur \in Clients /\ fds = 1 /\ (kind = "tls" => sessions = 1)
    BY Constants DEF Close, IInv, TypeOK, ClientInv, NothingLeaks, Streaming
  <2>2. fds' \in 0 .. 1 /\ sessions' \in 0 .. 1 /\ aborted' \subseteq Clients
    BY <2>1 DEF Close, TypeOK
  <2>3. client' \in [Clients -> {"new", "waiting", "here", "gone", "ended"}]
    BY <2>1 DEF Close, Ended, TypeOK
  <2> QED
    BY <2>1, <2>2, <2>3 DEF Close, TypeOK, streamVars, netVars
<1>2. ClientInv'
  BY DEF Close, Ended, ClientInv, NothingLeaks, holdVars, streamVars, netVars,
      histVars, IInv, TypeOK, Streaming, Here
<1>3. LoopInv'
  BY DEF Close, Ended, ClientInv, NothingLeaks, holdVars, streamVars, netVars,
      histVars, IInv, TypeOK, LoopInv, Streaming
<1>4. HeldInv'
  BY DEF Close, Ended, ClientInv, NothingLeaks, holdVars, streamVars, netVars,
      histVars, IInv, TypeOK, HeldInv, Streaming
<1>5. PatternUnbroken'
  BY DEF Close, Ended, ClientInv, NothingLeaks, holdVars, streamVars, netVars,
      histVars, IInv, TypeOK, PatternUnbroken
<1>6. CountIsTrue'
  BY DEF Close, Ended, ClientInv, NothingLeaks, holdVars, streamVars, netVars,
      histVars, IInv, TypeOK, CountIsTrue, Streaming
<1>7. (NothingLeaks /\ TailSurvives)'
  BY DEF Close, Ended, ClientInv, NothingLeaks, holdVars, streamVars, netVars,
      histVars, IInv, TypeOK, TailSurvives, Streaming, Here
<1> QED
  BY <1>1, <1>2, <1>3, <1>4, <1>5, <1>6, <1>7 DEF IInv

LEMMA ConnectStep == ASSUME IInv, NEW c \in Clients, Connect(c) PROVE IInv'
<1>1. TypeOK'
  BY Constants
  DEF Connect, ClientInv, holdVars, streamVars, netVars, histVars, IInv, TypeOK
<1>2. ClientInv'
  BY DEF Connect, ClientInv, holdVars, streamVars, netVars, histVars, IInv, TypeOK,
      Streaming, Here
<1>3. LoopInv'
  BY DEF Connect, ClientInv, holdVars, streamVars, netVars, histVars, IInv, TypeOK,
      LoopInv, Streaming
<1>4. HeldInv'
  BY DEF Connect, ClientInv, holdVars, streamVars, netVars, histVars, IInv, TypeOK,
      HeldInv, Streaming
<1>5. PatternUnbroken'
  BY DEF Connect, ClientInv, holdVars, streamVars, netVars, histVars, IInv, TypeOK,
      PatternUnbroken
<1>6. CountIsTrue'
  BY DEF Connect, ClientInv, holdVars, streamVars, netVars, histVars, IInv, TypeOK,
      CountIsTrue, Streaming
<1>7. (NothingLeaks /\ TailSurvives)'
  BY DEF Connect, ClientInv, holdVars, streamVars, netVars, histVars, IInv, TypeOK,
      NothingLeaks, TailSurvives, Streaming, Here
<1> QED
  BY <1>1, <1>2, <1>3, <1>4, <1>5, <1>6, <1>7 DEF IInv

LEMMA LeaveStep == ASSUME IInv, NEW c \in Clients, Leave(c) PROVE IInv'
<1>1. TypeOK'
  BY Constants DEF Leave, ClientInv, holdVars, streamVars, netVars, histVars, IInv, TypeOK
<1>2. ClientInv'
  BY DEF Leave, ClientInv, holdVars, streamVars, netVars, histVars, IInv, TypeOK,
      Streaming, Here
<1>3. LoopInv'
  BY DEF Leave, ClientInv, holdVars, streamVars, netVars, histVars, IInv, TypeOK,
      LoopInv, Streaming
<1>4. HeldInv'
  BY DEF Leave, ClientInv, holdVars, streamVars, netVars, histVars, IInv, TypeOK,
      HeldInv, Streaming
<1>5. PatternUnbroken'
  BY DEF Leave, ClientInv, holdVars, streamVars, netVars, histVars, IInv, TypeOK,
      PatternUnbroken
<1>6. CountIsTrue'
  BY DEF Leave, ClientInv, holdVars, streamVars, netVars, histVars, IInv, TypeOK,
      CountIsTrue, Streaming
<1>7. (NothingLeaks /\ TailSurvives)'
  BY DEF Leave, ClientInv, holdVars, streamVars, netVars, histVars, IInv, TypeOK,
      NothingLeaks, TailSurvives, Streaming, Here
<1> QED
  BY <1>1, <1>2, <1>3, <1>4, <1>5, <1>6, <1>7 DEF IInv

LEMMA ReadStep == ASSUME IInv, Read PROVE IInv'
<1>1. TypeOK'
  BY Constants
  DEF Read, Here, ClientInv, holdVars, streamVars, netVars, histVars, IInv, TypeOK
<1>2. ClientInv'
  <2>1. /\ ClientInv /\ UNCHANGED <<pc, kind, client, cur, wire, inq, late>>
        /\ read' = read + 1 /\ wire # <<>>
    BY DEF Read, IInv, TypeOK, holdVars, histVars
  <2>2. Len(wire) \in Nat /\ read \in Nat
    BY DEF IInv, TypeOK
  <2>3. Len(wire') - read' <= Room
    BY <2>1, <2>2, Constants DEF ClientInv
  <2> QED
    BY <2>1, <2>3 DEF ClientInv, Here
<1>3. LoopInv'
  BY DEF Read, Here, ClientInv, holdVars, streamVars, netVars, histVars, IInv,
      TypeOK, LoopInv, Streaming
<1>4. HeldInv'
  BY DEF Read, Here, ClientInv, holdVars, streamVars, netVars, histVars, IInv,
      TypeOK, HeldInv, Streaming
<1>5. PatternUnbroken'
  BY DEF Read, Here, ClientInv, holdVars, streamVars, netVars, histVars, IInv,
      TypeOK, PatternUnbroken
<1>6. CountIsTrue'
  BY DEF Read, Here, ClientInv, holdVars, streamVars, netVars, histVars, IInv,
      TypeOK, CountIsTrue, Streaming
<1>7. (NothingLeaks /\ TailSurvives)'
  BY DEF Read, Here, ClientInv, holdVars, streamVars, netVars, histVars, IInv,
      TypeOK, NothingLeaks, TailSurvives, Streaming
<1> QED
  BY <1>1, <1>2, <1>3, <1>4, <1>5, <1>6, <1>7 DEF IInv

LEMMA TalkStep == ASSUME IInv, Talk PROVE IInv'
<1>1. TypeOK'
  BY Constants
  DEF Talk, Here, ClientInv, holdVars, streamVars, netVars, histVars, IInv, TypeOK
<1>2. ClientInv'
  BY DEF Talk, Here, ClientInv, holdVars, streamVars, netVars, histVars, IInv,
      TypeOK, Streaming
<1>3. LoopInv'
  BY DEF Talk, Here, ClientInv, holdVars, streamVars, netVars, histVars, IInv,
      TypeOK, LoopInv, Streaming
<1>4. HeldInv'
  BY DEF Talk, Here, ClientInv, holdVars, streamVars, netVars, histVars, IInv,
      TypeOK, HeldInv, Streaming
<1>5. PatternUnbroken'
  BY DEF Talk, Here, ClientInv, holdVars, streamVars, netVars, histVars, IInv,
      TypeOK, PatternUnbroken
<1>6. CountIsTrue'
  BY DEF Talk, Here, ClientInv, holdVars, streamVars, netVars, histVars, IInv,
      TypeOK, CountIsTrue, Streaming
<1>7. (NothingLeaks /\ TailSurvives)'
  BY DEF Talk, Here, ClientInv, holdVars, streamVars, netVars, histVars, IInv,
      TypeOK, NothingLeaks, TailSurvives, Streaming
<1> QED
  BY <1>1, <1>2, <1>3, <1>4, <1>5, <1>6, <1>7 DEF IInv

-----------------------------------------------------------------------------
LEMMA NextInv == IInv /\ [Next]_vars => IInv'
<1> SUFFICES ASSUME IInv, [Next]_vars PROVE IInv'
  OBVIOUS
<1>1. CASE Listen
  BY <1>1, ListenStep
<1>2. CASE Accept
  BY <1>2, AcceptFailsStep, AcceptTcpStep, AcceptTlsStep, InitFailsStep, HandshakeStep,
     HandshakeFailsStep DEF Accept
<1>3. CASE Stream
  BY <1>3, SendStep, SendTimesOutStep, SendFailsStep, WriteRecordStep, WriteHeldStep,
     DelayStep DEF Stream
<1>4. CASE Finish
  BY <1>4, NotifyStep, DrainStep, DrainEndsStep, CloseStep DEF Finish
<1>5. CASE World
  BY <1>5, ReadStep, TalkStep, ConnectStep, LeaveStep DEF World
<1>6. CASE UNCHANGED vars
  BY <1>6
  DEF vars, holdVars, streamVars, netVars, histVars, IInv, TypeOK, ClientInv, LoopInv,
      HeldInv, PatternUnbroken, CountIsTrue, NothingLeaks, TailSurvives, Here
<1> QED
  BY <1>1, <1>2, <1>3, <1>4, <1>5, <1>6 DEF Next, Task

-----------------------------------------------------------------------------
\* The inductive invariant holds in every reachable state.
THEOREM Inductive == Spec => []IInv
BY InitInv, NextInv, PTL DEF Spec

\* Every count of the two loops stays within the payload, the chunk and the
\* record, and at most one client is held (_server_task, _stream).
THEOREM TypeCorrect == Spec => []TypeOK
<1>1. IInv => TypeOK
  BY DEF IInv
<1> QED
  BY <1>1, Inductive, PTL

\* tcp_server.c:51-52, payload.h:37-38: partial sends never break the pattern.
THEOREM PatternStaysUnbroken == Spec => []PatternUnbroken
<1>1. IInv => PatternUnbroken
  BY DEF IInv
<1> QED
  BY <1>1, Inductive, PTL

\* tls_server.c:60-67: asking for exactly the remainder keeps the count true.
THEOREM CountStaysTrue == Spec => []CountIsTrue
<1>1. IInv => CountIsTrue
  BY DEF IInv
<1> QED
  BY <1>1, Inductive, PTL

\* Every way out of a connection frees its socket and its TLS context once.
THEOREM NoLeak == Spec => []NothingLeaks
<1>1. IInv => NothingLeaks
  BY DEF IInv
<1> QED
  BY <1>1, Inductive, PTL

\* _close_gracefully: only what arrives after the drain can cost the tail.
THEOREM TailDelivered == Spec => []TailSurvives
<1>1. IInv => TailSurvives
  BY DEF IInv
<1> QED
  BY <1>1, Inductive, PTL

\* tls_server.c:45-46: the TLS stream ends before the total only on a client
\* that left.
THEOREM TlsShort == Spec => TlsShortOnlyWhenGone
<1>1. ASSUME IInv, [Next]_vars, EndsShort, kind = "tls"
      PROVE  client[cur] = "gone"
  <2>1. /\ TypeOK /\ LoopInv /\ pc \in {"stream", "delay"} /\ pc' = "notify"
        /\ kind # "tcp" /\ sent' < Total
    BY <1>1 DEF IInv, EndsShort, Closing
  <2>2. Next
    BY <1>1, <2>1 DEF vars
  <2>3. SendFails \/ WriteRecord \/ WriteHeld
    BY <2>1, <2>2
    DEF Next, Task, Accept, Stream, Finish, World, Listen, Accepting, AcceptFails, AcceptTcp,
        AcceptTls, InitFails, Handshake, HandshakeFails, Send, SendTimesOut, Delay, Notify,
        Drain, DrainEnds, Close, Connect, Leave, Read, Talk
  <2>4. ~WriteRecord /\ ~WriteHeld
    BY <2>1 DEF WriteRecord, WriteHeld, Advance
  <2> QED
    BY <2>3, <2>4 DEF SendFails
<1>2. IInv /\ [Next]_vars => [EndsShort /\ kind = "tls" => client[cur] = "gone"]_vars
  BY <1>1
<1> QED
  BY <1>2, Inductive, PTL DEF Spec, TlsShortOnlyWhenGone

-----------------------------------------------------------------------------
(* How long a client can keep the task. *)

\* The steps the task is from letting its client go, a write that takes all it was
\* offered counted as many as it has bytes.
StepsLeft ==
    CASE pc = "handshake" -> 2 * Total + 6
      [] pc = "delay"     -> 2 * (Total - Len(wire)) + 6
      [] pc = "stream"    -> 2 * (Total - Len(wire)) + 5
      [] pc = "notify"    -> 4
      [] pc = "drain"     -> IF inq > 0 THEN 3 ELSE 2
      [] pc = "close"     -> 1
      [] OTHER            -> 0

\* What alone can keep it longer: a TLS client with a full buffer, and a client that
\* goes on talking while it is drained.
ServiceBound ==
    /\ [](StepsLeft \in 0 .. 2 * Total + 6 /\ (cur # None <=> StepsLeft # 0))
    /\ [][ cur # None =>
              /\ Task => \/ StepsLeft' < StepsLeft
                         \/ kind = "tls" /\ Free = 0 /\ StepsLeft' = StepsLeft + 1
              /\ World => \/ StepsLeft' = StepsLeft
                          \/ pc = "drain" /\ Talk /\ StepsLeft' = 3 ]_vars

LEMMA WireWithin ==
    ASSUME IInv
    PROVE  /\ Len(wire) \in Nat /\ Total \in Nat /\ Free >= 0
           /\ pc \in {"stream", "delay"} => Len(wire) <= Total
<1>1. /\ Len(wire) \in Nat /\ Total \in Nat /\ read \in 0 .. Len(wire) /\ Room \in Nat
      /\ sent \in 0 .. Total /\ left \in Nat
      /\ off \in Nat /\ Chunk \in Nat /\ Record \in Nat /\ Len(held) \in Nat
  BY Constants DEF IInv, TypeOK
<1>2. Free >= 0
  BY <1>1 DEF IInv, ClientInv, Free
<1>3. ASSUME pc \in {"stream", "delay"} PROVE Len(wire) <= Total
  <2>1. left = Lesser(Total - sent, Chunk - off)
    BY <1>3 DEF IInv, LoopInv, Streaming
  <2>2. left <= Total - sent
    BY <1>1, <2>1 DEF Lesser
  <2>3. Lesser(left, Record) <= Total - sent
    BY <1>1, <2>2 DEF Lesser
  <2>4. Len(wire) = sent \/ Len(wire) + Len(held) = sent + Lesser(left, Record)
    BY <1>3 DEF IInv, CountIsTrue
  <2> QED BY <1>1, <2>3, <2>4 DEF Lesser
<1> QED
  BY <1>1, <1>2, <1>3

LEMMA StepsLeftType ==
    ASSUME IInv
    PROVE  StepsLeft \in 0 .. 2 * Total + 6 /\ (cur # None <=> StepsLeft # 0)
<1>1. /\ Len(wire) \in Nat /\ Total \in Nat
      /\ pc \in {"stream", "delay"} => Len(wire) <= Total
  BY WireWithin
<1>2. /\ pc \in {"start", "stopped", "accept", "handshake", "stream", "delay", "notify",
                 "drain", "close"}
      /\ cur # None <=> pc \in Streaming \cup {"handshake"}
  BY DEF IInv, TypeOK, ClientInv
<1> QED
  BY <1>1, <1>2 DEF StepsLeft, Streaming

LEMMA Longer ==
    ASSUME NEW B, NEW w \in Seq(B), NEW s \in Seq(B)
    PROVE  Len(w \o s) = Len(w) + Len(s)
OBVIOUS

LEMMA Prefix ==
    ASSUME NEW B, NEW h \in Seq(B), NEW n \in 0 .. Len(h)
    PROVE  SubSeq(h, 1, n) \in Seq(B) /\ Len(SubSeq(h, 1, n)) = n
OBVIOUS

\* A write puts n more bytes on the wire, and then the chunk goes on, the stream is
\* over, or the rest of the record is waited for.
LEMMA WriteNearer ==
    ASSUME IInv, pc = "stream", NEW n \in Nat, Len(wire') = Len(wire) + n,
           (pc' \in {"stream", Closing} /\ n > 0) \/ pc' = "delay"
    PROVE  StepsLeft' < StepsLeft \/ (n = 0 /\ StepsLeft' = StepsLeft + 1)
<1>1. Len(wire) \in Nat /\ Total \in Nat /\ Len(wire) <= Total
  BY WireWithin
<1>2. pc' \in {"stream", "drain", "notify", "delay"}
  BY DEF Closing
<1>3. StepsLeft = 2 * (Total - Len(wire)) + 5
  BY DEF StepsLeft
<1>4. pc' \in {"drain", "notify"} => StepsLeft' <= 4
  BY DEF StepsLeft
<1>5. pc' = "stream" => n > 0 /\ StepsLeft' = 2 * (Total - (Len(wire) + n)) + 5
  BY DEF StepsLeft
<1>6. pc' = "delay" => StepsLeft' = 2 * (Total - (Len(wire) + n)) + 6
  BY DEF StepsLeft
<1>7. StepsLeft' \in Int
  BY <1>1, <1>2 DEF StepsLeft
<1> QED
  BY <1>1, <1>2, <1>3, <1>4, <1>5, <1>6, <1>7

LEMMA SendNearer ==
    ASSUME IInv, NEW n \in 1 .. Chunk, Send(n)
    PROVE  StepsLeft' < StepsLeft
<1>1. n \in Nat /\ n > 0 /\ off \in Nat /\ wire \in Seq(0 .. Pattern - 1)
  BY Constants DEF IInv, TypeOK
<1>2. Piece(off, n) \in Seq(0 .. Pattern - 1) /\ Len(Piece(off, n)) = n
  BY <1>1, PieceType
<1>3. Len(wire') = Len(wire) + n
  <2>1. Len(wire \o Piece(off, n)) = Len(wire) + Len(Piece(off, n))
    BY <1>1, <1>2, Longer
  <2> QED BY <1>2, <2>1 DEF Send
<1>4. pc = "stream" /\ pc' \in {"stream", Closing}
  BY DEF Send, Advance
<1> QED
  BY <1>1, <1>3, <1>4, WriteNearer

LEMMA WriteRecordNearer ==
    ASSUME IInv, WriteRecord
    PROVE  StepsLeft' < StepsLeft \/ (Free = 0 /\ StepsLeft' = StepsLeft + 1)
<1> DEFINE size == Lesser(left, Record)
           n    == Lesser(size, Free)
<1>1. /\ pc = "stream" /\ wire' = wire \o Piece(off, n)
      /\ n = size => pc' \in {"stream", Closing}
      /\ n # size => pc' = "delay"
  BY DEF WriteRecord, Offer, Advance
<1>2. /\ off \in Nat /\ left \in Nat /\ wire \in Seq(0 .. Pattern - 1) /\ Record \in Nat
      /\ Record > 0 /\ read \in 0 .. Len(wire) /\ Room \in Nat
  BY Constants DEF IInv, TypeOK
<1>3. left > 0
  BY <1>1, Constants DEF IInv, TypeOK, LoopInv, Streaming, Lesser
<1>4. size \in Nat /\ size > 0
  BY <1>2, <1>3 DEF Lesser
<1>5. Free \in Nat
  BY <1>2, WireWithin DEF Free
<1> HIDE DEF size
<1>6. n \in Nat /\ (n = 0 => Free = 0) /\ (n = size => n > 0)
  BY <1>4, <1>5 DEF Lesser
<1> HIDE DEF n
<1>7. Piece(off, n) \in Seq(0 .. Pattern - 1) /\ Len(Piece(off, n)) = n
  BY <1>2, <1>6, PieceType
<1>8. Len(wire') = Len(wire) + n
  <2>1. Len(wire \o Piece(off, n)) = Len(wire) + Len(Piece(off, n))
    BY <1>2, <1>7, Longer
  <2> QED BY <1>1, <1>7, <2>1
<1> QED
  BY <1>1, <1>6, <1>8, WriteNearer

LEMMA WriteHeldNearer ==
    ASSUME IInv, WriteHeld
    PROVE  StepsLeft' < StepsLeft \/ (Free = 0 /\ StepsLeft' = StepsLeft + 1)
<1> DEFINE n == Lesser(Len(held), Free)
<1>1. /\ pc = "stream" /\ held # <<>> /\ wire' = wire \o SubSeq(held, 1, n)
      /\ n = Len(held) => pc' \in {"stream", Closing}
      /\ n # Len(held) => pc' = "delay"
  BY DEF WriteHeld, Advance
<1>2. /\ held \in Seq(0 .. Pattern - 1) /\ wire \in Seq(0 .. Pattern - 1)
      /\ read \in 0 .. Len(wire) /\ Room \in Nat
  BY Constants DEF IInv, TypeOK
<1>3. Len(held) \in Nat /\ Len(held) > 0
  BY <1>1, <1>2
<1>4. Free \in Nat
  BY <1>2, WireWithin DEF Free
<1>5. n \in 0 .. Len(held) /\ (n = 0 => Free = 0) /\ (n = Len(held) => n > 0)
  BY <1>3, <1>4 DEF Lesser
<1> HIDE DEF n
<1>6. SubSeq(held, 1, n) \in Seq(0 .. Pattern - 1) /\ Len(SubSeq(held, 1, n)) = n
  BY <1>2, <1>5, Prefix
<1>7. n \in Nat /\ Len(wire') = Len(wire) + n
  <2>1. Len(wire \o SubSeq(held, 1, n)) = Len(wire) + Len(SubSeq(held, 1, n))
    BY <1>2, <1>6, Longer
  <2> QED BY <1>1, <1>3, <1>5, <1>6, <2>1
<1> QED
  BY <1>1, <1>5, <1>7, WriteNearer

LEMMA TaskNearer ==
    ASSUME IInv, cur # None, Task
    PROVE  \/ StepsLeft' < StepsLeft
           \/ kind = "tls" /\ Free = 0 /\ StepsLeft' = StepsLeft + 1
<1>1. pc \in Streaming \cup {"handshake"} /\ (pc = "handshake" => wire = <<>>)
  BY DEF IInv, ClientInv
<1>2. /\ Len(wire) \in Nat /\ Total \in Nat
      /\ pc \in {"stream", "delay"} => Len(wire) <= Total
  BY WireWithin
<1>3. CASE Accept
  <2>1. Handshake \/ HandshakeFails
    BY <1>1, <1>3 DEF Accept, AcceptFails, AcceptTcp, AcceptTls, InitFails, Accepting, Streaming
  <2>2. CASE Handshake
    <3>1. pc = "handshake" /\ pc' = "stream" /\ wire' = wire
      BY <2>2 DEF Handshake, netVars
    <3>2. Len(wire) = 0
      BY <1>1, <3>1
    <3>3. StepsLeft = 2 * Total + 6 /\ StepsLeft' = 2 * (Total - 0) + 5
      BY <3>1, <3>2 DEF StepsLeft
    <3> QED BY <1>2, <3>3
  <2>3. CASE HandshakeFails
    BY <1>2, <2>3 DEF HandshakeFails, StepsLeft
  <2> QED BY <2>1, <2>2, <2>3
<1>4. CASE SendTimesOut \/ SendFails
  <2>1. pc = "stream" /\ pc' \in {"drain", "notify"}
    BY <1>4 DEF SendTimesOut, SendFails, GiveUp, Closing
  <2>2. StepsLeft' <= 4 /\ StepsLeft' \in Int
    BY <2>1 DEF StepsLeft
  <2>3. StepsLeft = 2 * (Total - Len(wire)) + 5
    BY <2>1 DEF StepsLeft
  <2> QED BY <1>2, <2>1, <2>2, <2>3
<1>5. CASE Delay
  <2>1. pc = "delay" /\ pc' = "stream" /\ wire' = wire
    BY <1>5 DEF Delay, netVars
  <2>2. StepsLeft = 2 * (Total - Len(wire)) + 6 /\ StepsLeft' = 2 * (Total - Len(wire)) + 5
    BY <2>1 DEF StepsLeft
  <2> QED BY <1>2, <2>2
<1>6. CASE \E n \in 1 .. Chunk : Send(n)
  BY <1>6, SendNearer
<1>7. CASE WriteRecord \/ WriteHeld
  BY <1>7, WriteRecordNearer, WriteHeldNearer DEF WriteRecord, WriteHeld
<1>8. CASE Finish
  <2>1. CASE Notify
    BY <2>1 DEF Notify, StepsLeft
  <2>2. CASE Drain
    BY <2>2 DEF Drain, StepsLeft
  <2>3. CASE DrainEnds
    BY <2>3 DEF DrainEnds, StepsLeft
  <2>4. CASE Close
    BY <2>4 DEF Close, StepsLeft
  <2> QED BY <1>8, <2>1, <2>2, <2>3, <2>4 DEF Finish
<1> QED
  BY <1>3, <1>4, <1>5, <1>6, <1>7, <1>8 DEF Task, Stream

LEMMA WorldKeeps ==
    ASSUME IInv, cur # None, World
    PROVE  StepsLeft' = StepsLeft \/ (pc = "drain" /\ Talk /\ StepsLeft' = 3)
<1>1. UNCHANGED <<pc, wire>> /\ (inq' = inq \/ Talk)
  BY DEF World, Read, Talk, Connect, Leave, netVars
<1>2. CASE pc = "drain" /\ Talk
  <2>1. inq' = inq + 1 /\ inq \in Nat
    BY <1>2, Constants DEF Talk, IInv, TypeOK
  <2>2. inq' > 0 /\ pc' = "drain"
    BY <1>1, <1>2, <2>1
  <2> QED BY <1>2, <2>2 DEF StepsLeft
<1>3. CASE ~(pc = "drain" /\ Talk)
  BY <1>1, <1>3 DEF StepsLeft
<1> QED
  BY <1>2, <1>3

\* No client keeps the task for more than its payload takes, except over TLS by
\* reading nothing, and by talking on while it is drained: whichever way the stack
\* cuts the stream up, every step towards a client brings its end nearer
\* (tcp_server.c:18-19, 58-63, 88; tls_server.c:69-76, 118-121).
THEOREM ServiceBounded == Spec => ServiceBound
<1>1. IInv => StepsLeft \in 0 .. 2 * Total + 6 /\ (cur # None <=> StepsLeft # 0)
  BY StepsLeftType
<1>2. IInv =>
        [ cur # None =>
            /\ Task => \/ StepsLeft' < StepsLeft
                       \/ kind = "tls" /\ Free = 0 /\ StepsLeft' = StepsLeft + 1
            /\ World => \/ StepsLeft' = StepsLeft
                        \/ pc = "drain" /\ Talk /\ StepsLeft' = 3 ]_vars
  BY TaskNearer, WorldKeeps
<1> QED
  BY <1>1, <1>2, Inductive, PTL DEF Spec, ServiceBound
=============================================================================
