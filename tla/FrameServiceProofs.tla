-------------------------- MODULE FrameServiceProofs --------------------------
(***************************************************************************)
(* Proofs about FrameService, for any number of callers, any heap and any  *)
(* number of codes.  Ownership is kept by three operations on the heap,    *)
(* allocating, freeing and moving, of which every step of a caller is      *)
(* made; that a caller allocates into empty variables only follows from    *)
(* where it is, and that the latest frames change under its own hands only *)
(* from the mutexes.                                                       *)
(***************************************************************************)
EXTENDS FrameService, TLAPS

-----------------------------------------------------------------------------
(* The heap. *)

Owned(h, g) ==
    /\ g \in [Places -> SUBSET h]
    /\ \A b \in h : \E p \in Places : b \in g[p]
    /\ \A b \in h : \A p \in Places : \A q \in Places : b \in g[p] /\ b \in g[q] => p = q

\* A new block in one place.
LEMMA OwnedAlloc ==
    ASSUME NEW h, NEW g, Owned(h, g), NEW p \in Places, NEW b, b \notin h
    PROVE  Owned(h \cup {b}, [g EXCEPT ![p] = @ \cup {b}])
<1> DEFINE k == [g EXCEPT ![p] = @ \cup {b}]
<1>1. k \in [Places -> SUBSET (h \cup {b})]
  BY DEF Owned
<1>2. k[p] = g[p] \cup {b} /\ \A q \in Places : q # p => k[q] = g[q]
  BY DEF Owned
<1> HIDE DEF k
<1>3. \A c \in h \cup {b} : \E q \in Places : c \in k[q]
  BY <1>2 DEF Owned
<1>4. \A q \in Places : b \notin g[q]
  BY DEF Owned
<1>5. ASSUME NEW c \in h \cup {b}, NEW q \in Places, NEW r \in Places, c \in k[q], c \in k[r]
      PROVE  q = r
  BY <1>2, <1>4, <1>5 DEF Owned
<1>6. Owned(h \cup {b}, k)
  BY <1>1, <1>3, <1>5 DEF Owned
<1> QED
  BY <1>6 DEF k

\* What is left when places are freed.
Rest(h, g, P) == h \ UNION {g[p] : p \in P}
Kept(g, P)    == [p \in Places |-> IF p \in P THEN {} ELSE g[p]]

LEMMA OwnedFree ==
    ASSUME NEW h, NEW g, Owned(h, g), NEW P \in SUBSET Places
    PROVE  Owned(Rest(h, g, P), Kept(g, P))
<1> DEFINE k == [p \in Places |-> IF p \in P THEN {} ELSE g[p]]
           n == h \ UNION {g[p] : p \in P}
<1>1. \A b : b \in n <=> b \in h /\ \A p \in P : b \notin g[p]
  OBVIOUS
<1>2. \A p \in Places : k[p] = IF p \in P THEN {} ELSE g[p]
  OBVIOUS
<1>3. DOMAIN k = Places /\ k = [p \in Places |-> k[p]]
  OBVIOUS
<1> HIDE DEF k, n
<1>4. \A p \in Places : k[p] \subseteq n
  BY <1>1, <1>2 DEF Owned
<1>5. k \in [Places -> SUBSET n]
  BY <1>3, <1>4
<1>6. \A b \in n : \E p \in Places : b \in k[p]
  BY <1>1, <1>2 DEF Owned
<1>7. \A b \in n : \A p \in Places : \A q \in Places : b \in k[p] /\ b \in k[q] => p = q
  BY <1>1, <1>2 DEF Owned
<1>8. Owned(n, k)
  BY <1>5, <1>6, <1>7 DEF Owned
<1> QED
  BY <1>8 DEF k, n, Rest, Kept

\* What one place points to, another does instead.
LEMMA OwnedMove ==
    ASSUME NEW h, NEW g, Owned(h, g), NEW p \in Places, NEW q \in Places, p # q, g[q] = {},
           NEW k, k \in [Places -> SUBSET h], k[q] = g[p], k[p] = {},
           \A r \in Places : r # p /\ r # q => k[r] = g[r]
    PROVE  Owned(h, k)
<1>1. \A b \in h : \E r \in Places : b \in k[r]
  BY DEF Owned
<1>2. ASSUME NEW b \in h, NEW r \in Places, NEW s \in Places, b \in k[r], b \in k[s]
      PROVE  r = s
  BY <1>2 DEF Owned
<1> QED
  BY <1>1, <1>2 DEF Owned

\* A block that can be allocated is a new one.
LEMMA NewIsNew ==
    ASSUME NEW t, NEW x, NEW h, CanAlloc(t, x, h)
    PROVE  New(t, x, h) \notin h
<1>1. \E b \in Blocks(t, x) : b \notin h
  BY DEF CanAlloc
<1> QED
  BY <1>1 DEF New

LEMMA OwnedOnce ==
    ASSUME Owned(heap, held)
    PROVE  BuffersOwnedOnce
<1>1. heap = UNION {held[p] : p \in Places}
  BY DEF Owned
<1>2. \A p \in Places : \A q \in Places : p # q => held[p] \cap held[q] = {}
  BY DEF Owned
<1> QED
  BY <1>1, <1>2 DEF BuffersOwnedOnce

-----------------------------------------------------------------------------
(* Where a caller is says what it may hold and which mutex it has. *)

Labels ==
    {"idle", "cam", "grab", "decode", "face", "detect", "work", "qr", "resize", "rgb", "gray",
     "codes", "format", "store", "replace", "keep", "send", "read", "look", "copy"}

HeldAt(x) ==
    CASE x = "jpeg" -> {"decode", "face", "detect", "work", "qr", "resize", "rgb", "gray",
                        "codes", "send"}
      [] x = "rgb" -> {"face", "detect", "gray"}
      [] x \in {"code", "data"} -> {"qr", "resize", "rgb", "gray", "codes"}
      [] x = "out" -> {"format", "store", "replace", "keep"}
      [] x = "codes" -> {"codes", "format", "store", "replace", "keep"}
      [] x = "reply" -> {"store", "replace", "keep", "send", "copy"}

Within(m) ==
    CASE m = "cam" -> {"grab"}
      [] m = "face" -> {"detect"}
      [] m = "qr" -> {"resize", "rgb", "gray", "codes"}
      [] m = "web" -> {"replace", "keep", "look", "copy"}

ServiceTypes ==
    /\ pc \in [Callers -> Labels]
    /\ req \in [Callers -> Requests \cup {"none"}]
    /\ mutex \in [Mutexes -> Callers \cup {NoOne}]
    /\ DOMAIN src = Callers

PcHolds == \A t \in Callers : \A x \in Names : held[<<t, x>>] # {} => pc[t] \in HeldAt(x)

PcMutex == \A t \in Callers : \A m \in Mutexes : pc[t] \in Within(m) => mutex[m] = t

\* Between freeing the latest frame and replacing it there is none.
KeepsIntoNone == \A t \in Callers : pc[t] = "keep" => Latest(t) = {}

Around == ServiceTypes /\ PcHolds /\ PcMutex /\ KeepsIntoNone /\ CopiedFromLatest

ServiceInv == Owned(heap, held) /\ Around

LEMMA PlacesOf ==
    /\ \A t \in Callers : \A x \in Names : <<t, x>> \in Places
    /\ \A t \in Callers : SlotOf(t) \in Slots
    /\ \A s \in Slots : \A x \in Frame : <<s, x>> \in Places
    /\ \A s \in Slots : \A t \in Callers : s # t
  BY ServiceAssumption DEF Places, SlotOf, Slots

-----------------------------------------------------------------------------
(* What holds of the others and of the mutexes in a caller's step. *)

\* The step of t leaves the variables of the others and the latest frames alone.
Private(t) ==
    /\ DOMAIN held = Places /\ DOMAIN held' = Places
    /\ \A p \in Places : p \notin {t} \X Names => held'[p] = held[p]

\* ... and what t holds after it may be held there.
Lawful(t) == \A x \in Names : held'[<<t, x>>] # {} => pc'[t] \in HeldAt(x)

\* The others keep their mutexes, and t has those of where it is.
Guarded(t) ==
    /\ mutex' \in [Mutexes -> Callers \cup {NoOne}]
    /\ \A m \in Mutexes : \A u \in Callers : u # t /\ mutex[m] = u => mutex'[m] = u
    /\ \A m \in Mutexes : pc'[t] \in Within(m) => mutex'[m] = t

\* t goes on, and may be asked for something.
Moves(t, to) ==
    /\ pc' = [pc EXCEPT ![t] = to]
    /\ \E r \in Requests \cup {"none"} : req' = [req EXCEPT ![t] = r]

OwnSource(t) == DOMAIN src' = Callers /\ \A u \in Callers : u # t => src'[u] = src[u]

LEMMA GoesMoves ==
    ASSUME Around, NEW t \in Callers, NEW from, NEW to, Goes(t, from, to)
    PROVE  Moves(t, to)
<1>1. (IF to = "idle" THEN "none" ELSE req[t]) \in Requests \cup {"none"}
  BY DEF Around, ServiceTypes
<1> QED
  BY <1>1 DEF Goes, Moves

\* A step of t that leaves the latest frames alone.
LEMMA PrivateStep ==
    ASSUME Around, NEW t \in Callers, NEW to \in Labels \ {"keep"},
           Moves(t, to), Private(t), Lawful(t), Guarded(t), OwnSource(t),
           to = "copy" => src'[t] = Latest(t)'
    PROVE  Around'
<1>1. /\ pc' \in [Callers -> Labels] /\ pc'[t] = to
      /\ \A u \in Callers : u # t => pc'[u] = pc[u]
  BY DEF Around, ServiceTypes, Moves
<1>2. /\ req' \in [Callers -> Requests \cup {"none"}]
      /\ \A u \in Callers : u # t => req'[u] = req[u]
  BY DEF Around, ServiceTypes, Moves
<1>3. DOMAIN src' = Callers /\ \A u \in Callers : u # t => src'[u] = src[u]
  BY DEF OwnSource
<1>4. ASSUME NEW u \in Callers, u # t
      PROVE  SlotOf(u)' = SlotOf(u) /\ Latest(u)' = Latest(u)
  <2>1. SlotOf(u)' = SlotOf(u)
    BY <1>2, <1>4 DEF SlotOf
  <2>2. \A x \in Frame : held'[<<SlotOf(u), x>>] = held[<<SlotOf(u), x>>]
    BY <1>4, PlacesOf DEF Private
  <2>3. "out" \in Frame /\ "codes" \in Frame
    BY DEF Frame
  <2> QED BY <2>1, <2>2, <2>3 DEF Latest
<1>5. ServiceTypes'
  BY <1>1, <1>2, <1>3 DEF ServiceTypes, Guarded
<1>6. PcHolds'
  <2> SUFFICES ASSUME NEW u \in Callers, NEW x \in Names, held'[<<u, x>>] # {}
               PROVE  pc'[u] \in HeldAt(x)
    BY DEF PcHolds, HeldAt
  <2>1. CASE u = t
    BY <2>1 DEF Lawful
  <2>2. CASE u # t
    <3>1. held'[<<u, x>>] = held[<<u, x>>]
      BY <2>2, PlacesOf DEF Private
    <3> QED BY <1>1, <2>2, <3>1 DEF Around, PcHolds
  <2> QED BY <2>1, <2>2
<1>7. PcMutex'
  <2> SUFFICES ASSUME NEW u \in Callers, NEW m \in Mutexes, pc'[u] \in Within(m)
               PROVE  mutex'[m] = u
    BY DEF PcMutex, Within
  <2>1. CASE u = t
    BY <2>1 DEF Guarded
  <2>2. CASE u # t
    BY <1>1, <2>2 DEF Guarded, Around, PcMutex
  <2> QED BY <2>1, <2>2
<1>8. KeepsIntoNone' /\ CopiedFromLatest'
  BY <1>1, <1>3, <1>4 DEF Around, KeepsIntoNone, CopiedFromLatest
<1> QED
  BY <1>5, <1>6, <1>7, <1>8 DEF Around

\* Taking a mutex, giving back the one that t is within, and neither.
LEMMA MutexSteps ==
    ASSUME Around, NEW t \in Callers, NEW m \in Mutexes
    PROVE  /\ UNCHANGED mutex /\ (\A n \in Mutexes : pc'[t] \in Within(n) => pc[t] \in Within(n))
              => Guarded(t)
           /\ Lock(m, t) /\ (\A n \in Mutexes : pc'[t] \in Within(n) => n = m)
              => Guarded(t)
           /\ Unlock(m) /\ pc[t] \in Within(m)
              /\ (\A n \in Mutexes : pc'[t] \notin Within(n))
              => Guarded(t)
<1>1. mutex \in [Mutexes -> Callers \cup {NoOne}] /\ NoOne \notin Callers
  BY ServiceAssumption DEF Around, ServiceTypes
<1>2. UNCHANGED mutex /\ (\A n \in Mutexes : pc'[t] \in Within(n) => pc[t] \in Within(n))
      => Guarded(t)
  BY <1>1 DEF Around, PcMutex, Guarded
<1>3. Lock(m, t) /\ (\A n \in Mutexes : pc'[t] \in Within(n) => n = m) => Guarded(t)
  BY <1>1 DEF Lock, Guarded
<1>4. Unlock(m) /\ pc[t] \in Within(m) /\ (\A n \in Mutexes : pc'[t] \notin Within(n)) => Guarded(t)
  BY <1>1 DEF Around, PcMutex, Unlock, Guarded
<1> QED
  BY <1>2, <1>3, <1>4

\* The three steps on the heap are private, and keep what is owned.
LEMMA SameHeapStep ==
    ASSUME ServiceInv, NEW t \in Callers, SameHeap
    PROVE  /\ Owned(heap, held)' /\ Private(t)
           /\ \A y \in Names : held'[<<t, y>>] = held[<<t, y>>]
  BY DEF SameHeap, ServiceInv, Owned, Private

LEMMA FreeHeapStep ==
    ASSUME ServiceInv, NEW t \in Callers, NEW X \in SUBSET Names, Free({t} \X X)
    PROVE  /\ Owned(heap, held)' /\ Private(t)
           /\ \A y \in Names : held'[<<t, y>>] = IF y \in X THEN {} ELSE held[<<t, y>>]
<1> DEFINE P == {t} \X X
<1>1. Owned(heap, held) /\ DOMAIN held = Places
  BY DEF ServiceInv, Owned
<1>2. P \in SUBSET Places
  BY PlacesOf
<1>3. /\ heap' = heap \ UNION {held[p] : p \in P}
      /\ held' = [p \in Places |-> IF p \in P THEN {} ELSE held[p]]
  BY DEF Free
<1>4. DOMAIN held' = Places /\ \A p \in Places : held'[p] = IF p \in P THEN {} ELSE held[p]
  BY <1>3
<1>5. \A p \in P : p \in {t} \X Names
  OBVIOUS
<1>6. \A y \in Names : <<t, y>> \in Places /\ (<<t, y>> \in P <=> y \in X)
  BY PlacesOf
<1> HIDE DEF P
<1>7. Owned(Rest(heap, held, P), Kept(held, P))
  BY <1>1, <1>2, OwnedFree
<1>8. Owned(heap, held)'
  BY <1>3, <1>7 DEF Rest, Kept
<1>9. Private(t)
  BY <1>1, <1>4, <1>5 DEF Private
<1> QED
  BY <1>4, <1>6, <1>8, <1>9

LEMMA MallocHeapStep ==
    ASSUME ServiceInv, NEW t \in Callers, NEW x \in Names, Malloc(t, x), held[<<t, x>>] = {}
    PROVE  /\ Owned(heap, held)' /\ Private(t)
           /\ \A y \in Names : y # x => held'[<<t, y>>] = held[<<t, y>>]
<1> DEFINE b == New(t, x, heap)
<1>1. Owned(heap, held) /\ DOMAIN held = Places
  BY DEF ServiceInv, Owned
<1>2. b \notin heap /\ <<t, x>> \in Places
  BY NewIsNew, PlacesOf DEF Malloc
<1>3. heap' = heap \cup {b} /\ held' = [held EXCEPT ![<<t, x>>] = {b}]
  BY DEF Malloc
<1> HIDE DEF b
<1>4. [held EXCEPT ![<<t, x>>] = @ \cup {b}] = [held EXCEPT ![<<t, x>>] = {b}]
  OBVIOUS
<1>5. Owned(heap, held)'
  BY <1>1, <1>2, <1>3, <1>4, OwnedAlloc
<1>6. Private(t)
  BY <1>1, <1>2, <1>3 DEF Private
<1>7. \A y \in Names : y # x => held'[<<t, y>>] = held[<<t, y>>]
  BY <1>1, <1>2, <1>3, PlacesOf
<1> QED BY <1>5, <1>6, <1>7

-----------------------------------------------------------------------------
(* The steps, by what they do to the heap. *)

\* What is held where t was may be held where it goes.
LEMMA SameStep ==
    ASSUME ServiceInv, NEW t \in Callers, NEW from, NEW to \in Labels \ {"keep", "copy"},
           Goes(t, from, to), SameHeap, Guarded(t), OwnSource(t),
           \A x \in Names : from \in HeldAt(x) => to \in HeldAt(x)
    PROVE  ServiceInv'
<1>1. Owned(heap, held)' /\ Private(t) /\ \A y \in Names : held'[<<t, y>>] = held[<<t, y>>]
  BY SameHeapStep
<1>2. pc[t] = from /\ pc'[t] = to
  BY DEF Goes, ServiceInv, Around, ServiceTypes
<1>3. Lawful(t)
  BY <1>1, <1>2 DEF Lawful, ServiceInv, Around, PcHolds
<1> QED
  BY <1>1, <1>3, GoesMoves, PrivateStep DEF ServiceInv

\* ... but for what is freed on the way.
LEMMA FreeStep ==
    ASSUME ServiceInv, NEW t \in Callers, NEW from, NEW to \in Labels \ {"keep", "copy"},
           NEW X \in SUBSET Names,
           Goes(t, from, to), Free({t} \X X), Guarded(t), OwnSource(t),
           \A x \in Names \ X : from \in HeldAt(x) => to \in HeldAt(x)
    PROVE  ServiceInv'
<1>1. /\ Owned(heap, held)' /\ Private(t)
      /\ \A y \in Names : held'[<<t, y>>] = IF y \in X THEN {} ELSE held[<<t, y>>]
  BY FreeHeapStep
<1>2. pc[t] = from /\ pc'[t] = to
  BY DEF Goes, ServiceInv, Around, ServiceTypes
<1>3. Lawful(t)
  BY <1>1, <1>2 DEF Lawful, ServiceInv, Around, PcHolds
<1> QED
  BY <1>1, <1>3, GoesMoves, PrivateStep DEF ServiceInv

\* ... and what is allocated may be held there, and was not held before.
LEMMA MallocStep ==
    ASSUME ServiceInv, NEW t \in Callers, NEW from, NEW to \in Labels \ {"keep", "copy"},
           NEW x \in Names,
           Goes(t, from, to), Malloc(t, x), Guarded(t), OwnSource(t),
           from \notin HeldAt(x), to \in HeldAt(x),
           \A y \in Names \ {x} : from \in HeldAt(y) => to \in HeldAt(y)
    PROVE  ServiceInv'
<1>2. pc[t] = from /\ pc'[t] = to
  BY DEF Goes, ServiceInv, Around, ServiceTypes
<1>0. held[<<t, x>>] = {}
  BY <1>2 DEF ServiceInv, Around, PcHolds
<1>1. /\ Owned(heap, held)' /\ Private(t)
      /\ \A y \in Names : y # x => held'[<<t, y>>] = held[<<t, y>>]
  BY <1>0, MallocHeapStep
<1>3. Lawful(t)
  BY <1>1, <1>2 DEF Lawful, ServiceInv, Around, PcHolds
<1> QED
  BY <1>1, <1>3, GoesMoves, PrivateStep DEF ServiceInv

LEMMA AloneOwnSource ==
    ASSUME ServiceInv, NEW t \in Callers, UNCHANGED src
    PROVE  OwnSource(t)
  BY DEF ServiceInv, Around, ServiceTypes, OwnSource

\* Where a step of t goes, for the mutexes.
LEMMA GoesGuarded ==
    ASSUME ServiceInv, NEW t \in Callers, NEW m \in Mutexes, NEW from, NEW to, Goes(t, from, to)
    PROVE  /\ UNCHANGED mutex /\ (\A n \in Mutexes : to \in Within(n) => from \in Within(n))
              => Guarded(t)
           /\ Lock(m, t) /\ (\A n \in Mutexes : to \in Within(n) => n = m) => Guarded(t)
           /\ Unlock(m) /\ from \in Within(m) /\ (\A n \in Mutexes : to \notin Within(n))
              => Guarded(t)
<1>1. pc[t] = from /\ pc'[t] = to
  BY DEF Goes, ServiceInv, Around, ServiceTypes
<1> QED
  BY <1>1, MutexSteps DEF ServiceInv

-----------------------------------------------------------------------------
(* The steps, one by one. *)

LEMMA TakeInv ==
    ASSUME ServiceInv, NEW t \in Callers,
           TakeCam(t) \/ TakeFace(t) \/ TakeQr(t) \/ TakeStore(t) \/ TakeRead(t)
    PROVE  ServiceInv'
<1> USE DEF Labels, Names, Mutexes
<1>1. ASSUME NEW m \in Mutexes, NEW from, NEW to \in Labels \ {"keep", "copy"},
             Takes(t, m, from, to),
             \A n \in Mutexes : to \in Within(n) => n = m,
             \A x \in Names : from \in HeldAt(x) => to \in HeldAt(x)
      PROVE  ServiceInv'
  <2>1. Goes(t, from, to) /\ Lock(m, t) /\ SameHeap /\ UNCHANGED src
    BY <1>1 DEF Takes
  <2>2. Guarded(t) /\ OwnSource(t)
    BY <1>1, <2>1, GoesGuarded, AloneOwnSource
  <2> QED BY <1>1, <2>1, <2>2, SameStep
<1>2. /\ \A n \in Mutexes : "grab" \in Within(n) => n = "cam"
      /\ \A n \in Mutexes : "detect" \in Within(n) => n = "face"
      /\ \A n \in Mutexes : "resize" \in Within(n) => n = "qr"
      /\ \A n \in Mutexes : "replace" \in Within(n) => n = "web"
      /\ \A n \in Mutexes : "look" \in Within(n) => n = "web"
  BY DEF Within
<1>3. /\ \A x \in Names : "cam" \in HeldAt(x) => "grab" \in HeldAt(x)
      /\ \A x \in Names : "face" \in HeldAt(x) => "detect" \in HeldAt(x)
      /\ \A x \in Names : "qr" \in HeldAt(x) => "resize" \in HeldAt(x)
      /\ \A x \in Names : "store" \in HeldAt(x) => "replace" \in HeldAt(x)
      /\ \A x \in Names : "read" \in HeldAt(x) => "look" \in HeldAt(x)
  BY DEF HeldAt
<1>4. CASE TakeCam(t)
  BY <1>1, <1>2, <1>3, <1>4 DEF TakeCam
<1>5. CASE TakeFace(t)
  BY <1>1, <1>2, <1>3, <1>5 DEF TakeFace
<1>6. CASE TakeQr(t)
  BY <1>1, <1>2, <1>3, <1>6 DEF TakeQr
<1>7. CASE TakeStore(t)
  BY <1>1, <1>2, <1>3, <1>7 DEF TakeStore
<1>8. CASE TakeRead(t)
  BY <1>1, <1>2, <1>3, <1>8 DEF TakeRead
<1> QED
  BY <1>4, <1>5, <1>6, <1>7, <1>8

LEMMA SameInv ==
    ASSUME ServiceInv, NEW t \in Callers,
           \/ GrabFails(t) \/ WorkerFails(t) \/ Resize(t) \/ NotServed(t)
           \/ FacesJson(t) \/ Copy(t)
    PROVE  ServiceInv'
<1> USE DEF Labels, Names, Mutexes
<1>1. ASSUME NEW m \in Mutexes, NEW from, NEW to \in Labels \ {"keep", "copy"},
             Goes(t, from, to), SameHeap, OwnSource(t), Unlock(m), from \in Within(m),
             \A n \in Mutexes : to \notin Within(n),
             \A x \in Names : from \in HeldAt(x) => to \in HeldAt(x)
      PROVE  ServiceInv'
  <2>1. Guarded(t)
    BY <1>1, GoesGuarded
  <2> QED BY <1>1, <2>1, SameStep
<1>2. UNCHANGED src => OwnSource(t)
  BY AloneOwnSource
<1>3. CASE GrabFails(t)
  <2>1. /\ "grab" \in Within("cam") /\ \A n \in Mutexes : "idle" \notin Within(n)
        /\ \A x \in Names : "grab" \in HeldAt(x) => "idle" \in HeldAt(x)
    BY DEF Within, HeldAt
  <2> QED BY <1>1, <1>2, <1>3, <2>1 DEF GrabFails, Gives
<1>4. CASE Resize(t)
  <2>1. /\ \A n \in Mutexes : "rgb" \in Within(n) => "resize" \in Within(n)
        /\ \A x \in Names : "resize" \in HeldAt(x) => "rgb" \in HeldAt(x)
    BY DEF Within, HeldAt
  <2>2. Goes(t, "resize", "rgb") /\ SameHeap /\ UNCHANGED mutex /\ OwnSource(t)
    BY <1>2, <1>4 DEF Resize
  <2>3. Guarded(t)
    BY <2>1, <2>2, GoesGuarded
  <2> QED BY <2>1, <2>2, <2>3, SameStep
<1>5. /\ "look" \in Within("web") /\ "copy" \in Within("web")
      /\ \A n \in Mutexes : "idle" \notin Within(n) /\ "send" \notin Within(n)
      /\ \A x \in Names : "look" \in HeldAt(x) => "idle" \in HeldAt(x) /\ "send" \in HeldAt(x)
      /\ \A x \in Names : "copy" \in HeldAt(x) => "send" \in HeldAt(x)
  BY DEF Within, HeldAt
<1>6. CASE NotServed(t)
  BY <1>1, <1>2, <1>5, <1>6 DEF NotServed, Gives
<1>7. CASE FacesJson(t)
  BY <1>1, <1>2, <1>5, <1>7 DEF FacesJson, Gives
<1>8. CASE Copy(t)
  <2>1. OwnSource(t)
    BY <1>8 DEF Copy, OwnSource, ServiceInv, Around, ServiceTypes
  <2> QED BY <1>1, <1>5, <1>8, <2>1 DEF Copy
<1>9. CASE WorkerFails(t)
  <2>1. /\ \A n \in Mutexes : "idle" \notin Within(n)
        /\ \A x \in Names : "cam" \in HeldAt(x) => "idle" \in HeldAt(x)
    BY DEF Within, HeldAt
  <2>2. Goes(t, "cam", "idle") /\ SameHeap /\ UNCHANGED mutex /\ OwnSource(t)
    BY <1>2, <1>9 DEF WorkerFails, Alone
  <2>3. Guarded(t)
    BY <2>1, <2>2, GoesGuarded
  <2> QED BY <2>1, <2>2, <2>3, SameStep
<1> QED
  BY <1>3, <1>4, <1>6, <1>7, <1>8, <1>9

\* A step that frees variables of t, and ends what it does or goes on with it.
LEMMA FreeInv ==
    ASSUME ServiceInv, NEW t \in Callers,
           DecodeFails(t) \/ Gray(t) \/ FormatFails(t) \/ Send(t)
    PROVE  ServiceInv'
<1> USE DEF Labels, Names, Mutexes
<1>1. ASSUME NEW from, NEW to \in Labels \ {"keep", "copy"}, NEW X \in SUBSET Names,
             Goes(t, from, to), Free({t} \X X), Alone,
             \A n \in Mutexes : to \in Within(n) => from \in Within(n),
             \A x \in Names \ X : from \in HeldAt(x) => to \in HeldAt(x)
      PROVE  ServiceInv'
  <2>1. Guarded(t) /\ OwnSource(t)
    BY <1>1, GoesGuarded, AloneOwnSource DEF Alone
  <2> QED BY <1>1, <2>1, FreeStep
<1>2. \A n \in Mutexes : "idle" \notin Within(n)
  BY DEF Within
<1>3. \A x \in Names : {<<t, x>>} = {t} \X {x}
  OBVIOUS
<1>4. CASE DecodeFails(t)
  <2>1. \A x \in Names \ {"jpeg"} : "decode" \in HeldAt(x) => "idle" \in HeldAt(x)
    BY DEF HeldAt
  <2>2. Goes(t, "decode", "idle") /\ Free({t} \X {"jpeg"}) /\ Alone
    BY <1>3, <1>4 DEF DecodeFails
  <2> QED BY <1>1, <1>2, <2>1, <2>2
<1>5. CASE Gray(t)
  <2>1. /\ \A x \in Names \ {"rgb"} : "gray" \in HeldAt(x) => "codes" \in HeldAt(x)
        /\ \A n \in Mutexes : "codes" \in Within(n) => "gray" \in Within(n)
    BY DEF HeldAt, Within
  <2>2. Goes(t, "gray", "codes") /\ Free({t} \X {"rgb"}) /\ Alone
    BY <1>3, <1>5 DEF Gray
  <2> QED BY <1>1, <2>1, <2>2
<1>6. CASE FormatFails(t)
  <2>1. \A x \in Names \ Frame : "format" \in HeldAt(x) => "idle" \in HeldAt(x)
    BY DEF HeldAt, Frame
  <2>2. Frame \in SUBSET Names
    BY DEF Frame
  <2> QED BY <1>1, <1>2, <1>6, <2>1, <2>2 DEF FormatFails
<1>7. CASE Send(t)
  <2>1. \A x \in Names \ {"jpeg", "reply"} : "send" \in HeldAt(x) => "idle" \in HeldAt(x)
    BY DEF HeldAt
  <2> QED BY <1>1, <1>2, <1>7, <2>1 DEF Send
<1> QED
  BY <1>4, <1>5, <1>6, <1>7

\* A scan that fails frees all that its caller has, and the mutex if it has it.
LEMMA AbandonsInv ==
    ASSUME ServiceInv, NEW t \in Callers,
           \/ AllocWorkFails(t) \/ ResizeFails(t) \/ RgbFails(t) \/ GrayFails(t)
           \/ PayloadFails(t)
    PROVE  ServiceInv'
<1> USE DEF Labels, Mutexes
<1>1. \A n \in Mutexes : "idle" \notin Within(n)
  BY DEF Within
<1>2. ASSUME NEW from, Abandons(t, from), Guarded(t), UNCHANGED src
      PROVE  ServiceInv'
  <2>1. Goes(t, from, "idle") /\ Free({t} \X Names)
    BY <1>2 DEF Abandons
  <2>2. OwnSource(t)
    BY <1>2, AloneOwnSource
  <2> QED BY <1>2, <2>1, <2>2, FreeStep
<1>3. ASSUME NEW from, Abandons(t, from), Gives("qr"), from \in Within("qr")
      PROVE  ServiceInv'
  <2>1. Guarded(t)
    BY <1>1, <1>3, GoesGuarded DEF Abandons, Gives
  <2> QED BY <1>2, <1>3, <2>1 DEF Gives
<1>4. CASE AllocWorkFails(t)
  <2>1. Guarded(t)
    BY <1>1, <1>4, GoesGuarded DEF AllocWorkFails, Abandons, Alone
  <2> QED BY <1>2, <1>4, <2>1 DEF AllocWorkFails, Alone
<1>5. {"resize", "rgb", "gray", "codes"} = Within("qr")
  BY DEF Within
<1>6. CASE ResizeFails(t)
  BY <1>3, <1>5, <1>6 DEF ResizeFails
<1>7. CASE RgbFails(t)
  BY <1>3, <1>5, <1>7 DEF RgbFails
<1>8. CASE GrayFails(t)
  BY <1>3, <1>5, <1>8 DEF GrayFails
<1>9. CASE PayloadFails(t)
  BY <1>3, <1>5, <1>9 DEF PayloadFails
<1> QED
  BY <1>4, <1>6, <1>7, <1>8, <1>9

LEMMA MallocInv ==
    ASSUME ServiceInv, NEW t \in Callers,
           Grab(t) \/ Decode(t) \/ AllocRgb(t) \/ Format(t)
    PROVE  ServiceInv'
<1> USE DEF Labels, Names, Mutexes
<1>1. ASSUME NEW from, NEW to \in Labels \ {"keep", "copy"}, NEW x \in Names,
             Goes(t, from, to), Malloc(t, x), Guarded(t), UNCHANGED src,
             from \notin HeldAt(x), to \in HeldAt(x),
             \A y \in Names \ {x} : from \in HeldAt(y) => to \in HeldAt(y)
      PROVE  ServiceInv'
  <2>1. OwnSource(t)
    BY <1>1, AloneOwnSource
  <2> QED BY <1>1, <2>1, MallocStep
<1>2. CASE Grab(t)
  <2> DEFINE to == Grabbed(req[t])
  <2>1. to \in {"decode", "work", "send"}
    BY DEF Grabbed
  <2>2. Goes(t, "grab", to) /\ Malloc(t, "jpeg") /\ Gives("cam")
    BY <1>2 DEF Grab
  <2> HIDE DEF to
  <2>3. \A n \in Mutexes : to \notin Within(n)
    BY <2>1 DEF Within
  <2>4. "grab" \in Within("cam")
    BY DEF Within
  <2>5. /\ "grab" \notin HeldAt("jpeg") /\ to \in HeldAt("jpeg")
        /\ \A y \in Names \ {"jpeg"} : "grab" \in HeldAt(y) => to \in HeldAt(y)
    BY <2>1 DEF HeldAt
  <2>6. Guarded(t)
    BY <2>2, <2>3, <2>4, GoesGuarded DEF Gives
  <2> QED BY <1>1, <2>1, <2>2, <2>5, <2>6 DEF Gives
<1>3. CASE Decode(t)
  <2>1. /\ \A n \in Mutexes : "face" \in Within(n) => "decode" \in Within(n)
        /\ "decode" \notin HeldAt("rgb") /\ "face" \in HeldAt("rgb")
        /\ \A y \in Names \ {"rgb"} : "decode" \in HeldAt(y) => "face" \in HeldAt(y)
    BY DEF Within, HeldAt
  <2>2. Goes(t, "decode", "face") /\ Malloc(t, "rgb") /\ Alone
    BY <1>3 DEF Decode
  <2>3. Guarded(t)
    BY <2>1, <2>2, GoesGuarded DEF Alone
  <2> QED BY <1>1, <2>1, <2>2, <2>3 DEF Alone
<1>4. CASE AllocRgb(t)
  <2>1. /\ \A n \in Mutexes : "gray" \in Within(n) => "rgb" \in Within(n)
        /\ "rgb" \notin HeldAt("rgb") /\ "gray" \in HeldAt("rgb")
        /\ \A y \in Names \ {"rgb"} : "rgb" \in HeldAt(y) => "gray" \in HeldAt(y)
    BY DEF Within, HeldAt
  <2>2. Goes(t, "rgb", "gray") /\ Malloc(t, "rgb") /\ Alone
    BY <1>4 DEF AllocRgb
  <2>3. Guarded(t)
    BY <2>1, <2>2, GoesGuarded DEF Alone
  <2> QED BY <1>1, <2>1, <2>2, <2>3 DEF Alone
<1>5. CASE Format(t)
  <2>1. /\ \A n \in Mutexes : "store" \in Within(n) => "format" \in Within(n)
        /\ "format" \notin HeldAt("reply") /\ "store" \in HeldAt("reply")
        /\ \A y \in Names : "format" \in HeldAt(y) => "store" \in HeldAt(y)
    BY DEF Within, HeldAt
  <2>2. Goes(t, "format", "store") /\ Alone /\ (Malloc(t, "reply") \/ SameHeap)
    BY <1>5 DEF Format
  <2>3. Guarded(t) /\ OwnSource(t)
    BY <2>1, <2>2, GoesGuarded, AloneOwnSource DEF Alone
  <2>4. CASE SameHeap
    BY <2>1, <2>2, <2>3, <2>4, SameStep
  <2>5. CASE Malloc(t, "reply")
    BY <1>1, <2>1, <2>2, <2>3, <2>5 DEF Alone
  <2> QED BY <2>2, <2>4, <2>5
<1> QED
  BY <1>2, <1>3, <1>4, <1>5

\* The buffers of a scan, two of them.
LEMMA AllocWorkInv ==
    ASSUME ServiceInv, NEW t \in Callers, AllocWork(t)
    PROVE  ServiceInv'
<1> USE DEF Labels, Names, Mutexes
<1> DEFINE c == New(t, "code", heap)
           d == New(t, "data", heap \cup {c})
           g == [held EXCEPT ![<<t, "code">>] = {c}]
<1>1. Goes(t, "work", "qr") /\ Alone
  BY DEF AllocWork
<1>2. /\ CanAlloc(t, "code", heap) /\ CanAlloc(t, "data", heap \cup {c})
      /\ heap' = heap \cup {c, d}
      /\ held' = [held EXCEPT ![<<t, "code">>] = {c}, ![<<t, "data">>] = {d}]
  BY DEF AllocWork
<1>3. c \notin heap /\ d \notin heap \cup {c}
  BY <1>2, NewIsNew
<1>4. <<t, "code">> \in Places /\ <<t, "data">> \in Places
  BY PlacesOf
<1> HIDE DEF c, d
<1>5. Owned(heap, held) /\ DOMAIN held = Places
  BY DEF ServiceInv, Owned
<1>6. pc[t] = "work" /\ "work" \notin HeldAt("code") /\ "work" \notin HeldAt("data")
  BY <1>1 DEF Goes, HeldAt
<1>7. held[<<t, "code">>] = {} /\ held[<<t, "data">>] = {}
  BY <1>6 DEF ServiceInv, Around, PcHolds
<1>8. Owned(heap \cup {c}, g)
  <2>1. g = [held EXCEPT ![<<t, "code">>] = @ \cup {c}]
    BY <1>7
  <2> HIDE DEF g
  <2> QED BY <1>3, <1>4, <1>5, <2>1, OwnedAlloc
<1>9. Owned((heap \cup {c}) \cup {d}, [g EXCEPT ![<<t, "data">>] = @ \cup {d}])
  <2> HIDE DEF g
  <2> QED BY <1>3, <1>4, <1>8, OwnedAlloc
<1>10. held' = [g EXCEPT ![<<t, "data">>] = @ \cup {d}]
  BY <1>2, <1>4, <1>5, <1>7
<1>11. Owned(heap, held)'
  BY <1>2, <1>9, <1>10
<1>12. /\ DOMAIN held' = Places
       /\ \A p \in Places \ {<<t, "code">>, <<t, "data">>} : held'[p] = held[p]
  BY <1>2, <1>5
<1>13. Private(t)
  BY <1>5, <1>12 DEF Private
<1>14. Lawful(t)
  <2>1. pc'[t] = "qr"
    BY <1>1 DEF Goes, ServiceInv, Around, ServiceTypes
  <2>2. /\ "qr" \in HeldAt("code") /\ "qr" \in HeldAt("data")
        /\ \A y \in Names : "work" \in HeldAt(y) => "qr" \in HeldAt(y)
    BY DEF HeldAt
  <2>3. \A y \in Names \ {"code", "data"} : held'[<<t, y>>] = held[<<t, y>>]
    BY <1>12, PlacesOf
  <2> QED BY <1>6, <2>1, <2>2, <2>3 DEF Lawful, ServiceInv, Around, PcHolds
<1>15. Guarded(t) /\ OwnSource(t)
  <2>1. \A n \in Mutexes : "qr" \notin Within(n)
    BY DEF Within
  <2> QED BY <1>1, <2>1, GoesGuarded, AloneOwnSource DEF Alone
<1> QED
  BY <1>1, <1>11, <1>13, <1>14, <1>15, GoesMoves, PrivateStep DEF ServiceInv

LEMMA PayloadInv ==
    ASSUME ServiceInv, NEW t \in Callers, Payload(t)
    PROVE  ServiceInv'
<1> USE DEF Labels, Names, Mutexes
<1> DEFINE b == New(t, "codes", heap)
<1>1. Goes(t, "codes", "codes") /\ Alone
  BY DEF Payload
<1>2. /\ b \notin heap /\ heap' = heap \cup {b}
      /\ held' = [held EXCEPT ![<<t, "codes">>] = @ \cup {b}]
  BY NewIsNew DEF Payload
<1>3. <<t, "codes">> \in Places
  BY PlacesOf
<1>4. Owned(heap, held) /\ DOMAIN held = Places
  BY DEF ServiceInv, Owned
<1> HIDE DEF b
<1>5. Owned(heap, held)'
  BY <1>2, <1>3, <1>4, OwnedAlloc
<1>6. Private(t)
  BY <1>2, <1>3, <1>4 DEF Private
<1>7. \A y \in Names \ {"codes"} : held'[<<t, y>>] = held[<<t, y>>]
  BY <1>2, <1>4, PlacesOf
<1>8. pc[t] = "codes" /\ pc'[t] = "codes" /\ "codes" \in HeldAt("codes")
  BY <1>1 DEF Goes, ServiceInv, Around, ServiceTypes, HeldAt
<1>9. Lawful(t)
  BY <1>7, <1>8 DEF Lawful, ServiceInv, Around, PcHolds
<1>10. Guarded(t) /\ OwnSource(t)
  BY <1>1, GoesGuarded, AloneOwnSource DEF Alone
<1> QED
  BY <1>1, <1>5, <1>6, <1>9, <1>10, GoesMoves, PrivateStep DEF ServiceInv

\* Some variables of t are freed, and its JPEG becomes its frame's.
HandsOver(t, X) ==
    /\ heap' = Rest(heap, held, {t} \X X)
    /\ held' = [p \in Places |-> held'[p]]
    /\ held'[<<t, "out">>] = held[<<t, "jpeg">>] /\ held'[<<t, "jpeg">>] = {}
    /\ \A p \in Places : p # <<t, "out">> /\ p # <<t, "jpeg">>
           => held'[p] = IF p \in {t} \X X THEN {} ELSE held[p]

LEMMA HandOverStep ==
    ASSUME ServiceInv, NEW t \in Callers, NEW from, from \notin HeldAt("out"),
           NEW X \in SUBSET Names, "jpeg" \notin X,
           Goes(t, from, "format"), Guarded(t), UNCHANGED src, HandsOver(t, X),
           \A x \in Names \ (X \cup {"jpeg"}) : from \in HeldAt(x) => "format" \in HeldAt(x)
    PROVE  ServiceInv'
<1> DEFINE P == {t} \X X
           g == Kept(held, P)
<1>1. Owned(heap, held) /\ DOMAIN held = Places
  BY DEF ServiceInv, Owned
<1>2. "jpeg" \in Names /\ "out" \in Names
  BY DEF Names
<1>3. P \in SUBSET Places /\ <<t, "jpeg">> \in Places /\ <<t, "out">> \in Places
  BY <1>2, PlacesOf
<1>4. pc[t] = from /\ pc'[t] = "format"
  BY DEF Goes, ServiceInv, Around, ServiceTypes, Labels
<1>5. held[<<t, "out">>] = {}
  BY <1>2, <1>4 DEF ServiceInv, Around, PcHolds
<1>6. \A x \in Names : <<t, x>> \in P <=> x \in X
  OBVIOUS
<1>7. \A p \in P : p \in {t} \X Names
  OBVIOUS
<1>8. /\ heap' = Rest(heap, held, P)
      /\ held' = [p \in Places |-> held'[p]]
      /\ held'[<<t, "out">>] = held[<<t, "jpeg">>] /\ held'[<<t, "jpeg">>] = {}
      /\ \A p \in Places : p # <<t, "out">> /\ p # <<t, "jpeg">>
             => held'[p] = IF p \in P THEN {} ELSE held[p]
  BY DEF HandsOver
<1> HIDE DEF P
<1>9. Owned(Rest(heap, held, P), g)
  BY <1>1, <1>3, OwnedFree
<1>10. \A p \in Places : g[p] = IF p \in P THEN {} ELSE held[p]
  BY DEF Kept
<1> HIDE DEF g
<1>11. g[<<t, "jpeg">>] = held[<<t, "jpeg">>] /\ g[<<t, "out">>] = {}
  BY <1>2, <1>3, <1>5, <1>6, <1>10
<1>12. <<t, "jpeg">> # <<t, "out">>
  OBVIOUS
<1>13. Owned(heap, held)'
  <2> DEFINE k == held'
             h == Rest(heap, held, P)
  <2>1. \A p \in Places : p # <<t, "out">> /\ p # <<t, "jpeg">> => k[p] = g[p]
    BY <1>8, <1>10
  <2>2. k[<<t, "out">>] = g[<<t, "jpeg">>] /\ k[<<t, "jpeg">>] = {}
    BY <1>8, <1>11
  <2>3. Owned(h, g)
    BY <1>9
  <2>4. k \in [Places -> SUBSET h]
    <3>1. k = [p \in Places |-> k[p]]
      BY <1>8
    <3> HIDE DEF h, k
    <3>2. \A p \in Places : k[p] \in SUBSET h
      BY <1>3, <2>1, <2>2, <2>3 DEF Owned
    <3> QED BY <3>1, <3>2
  <2>5. Owned(h, k)
    <3> HIDE DEF h, k
    <3> QED BY <1>3, <1>11, <1>12, <2>1, <2>2, <2>3, <2>4, OwnedMove
  <2> QED BY <1>8, <2>5
<1>14. DOMAIN held' = Places
  BY <1>8
<1>15. Private(t)
  <2>1. <<t, "jpeg">> \in {t} \X Names /\ <<t, "out">> \in {t} \X Names
    BY <1>2
  <2> QED BY <1>1, <1>7, <1>8, <1>14, <2>1 DEF Private
<1>16. Lawful(t)
  <2> SUFFICES ASSUME NEW x \in Names, held'[<<t, x>>] # {}
               PROVE  "format" \in HeldAt(x)
    BY <1>4 DEF Lawful
  <2>1. CASE x = "jpeg"
    BY <1>8, <2>1
  <2>2. CASE x = "out"
    BY <2>2 DEF HeldAt
  <2>3. CASE x # "jpeg" /\ x # "out"
    <3>1. <<t, x>> \in Places /\ <<t, x>> # <<t, "jpeg">> /\ <<t, x>> # <<t, "out">>
      BY <2>3, PlacesOf
    <3>2. x \notin X /\ held[<<t, x>>] # {}
      BY <1>6, <1>8, <3>1
    <3>3. pc[t] \in HeldAt(x)
      BY <3>2 DEF ServiceInv, Around, PcHolds
    <3> QED BY <1>4, <2>3, <3>2, <3>3
  <2> QED BY <2>1, <2>2, <2>3
<1>17. OwnSource(t)
  BY AloneOwnSource
<1>18. "format" \in Labels \ {"keep"} /\ "format" # "copy"
  BY DEF Labels
<1> QED
  BY <1>13, <1>15, <1>16, <1>17, <1>18, GoesMoves, PrivateStep DEF ServiceInv

LEMMA HandOverInv ==
    ASSUME ServiceInv, NEW t \in Callers, Detect(t) \/ Scanned(t)
    PROVE  ServiceInv'
<1>1. DOMAIN held = Places /\ held = [p \in Places |-> held[p]]
  BY DEF ServiceInv, Owned
<1>2. \A n \in Mutexes : "format" \notin Within(n)
  BY DEF Within, Mutexes
<1>3. \A x \in Names : <<t, x>> \in Places
  BY PlacesOf
<1>4. CASE Detect(t)
  <2>1. Goes(t, "detect", "format") /\ Gives("face")
    BY <1>4 DEF Detect
  <2>2. /\ "detect" \in Within("face") /\ "detect" \notin HeldAt("out") /\ "face" \in Mutexes
        /\ \A x \in Names \ {"rgb", "jpeg"} : "detect" \in HeldAt(x) => "format" \in HeldAt(x)
    BY DEF Within, HeldAt, Names, Mutexes
  <2>3. HandsOver(t, {"rgb"})
    <3>1. \A p : p \in {t} \X {"rgb"} <=> p = <<t, "rgb">>
      OBVIOUS
    <3>2. /\ heap' = heap \ held[<<t, "rgb">>]
          /\ held' = [held EXCEPT ![<<t, "rgb">>] = {}, ![<<t, "jpeg">>] = {},
                                  ![<<t, "out">>] = held[<<t, "jpeg">>]]
      BY <1>4 DEF Detect
    <3>3. heap' = Rest(heap, held, {t} \X {"rgb"})
      BY <3>1, <3>2 DEF Rest
    <3>4. held' = [p \in Places |-> held'[p]]
      BY <1>1, <3>2
    <3>5. <<t, "jpeg">> \in Places /\ <<t, "out">> \in Places
      BY <1>3 DEF Names
    <3> QED BY <1>1, <3>1, <3>2, <3>3, <3>4, <3>5 DEF HandsOver
  <2>4. Guarded(t)
    BY <1>2, <2>1, <2>2, GoesGuarded DEF Gives
  <2>5. {"rgb"} \in SUBSET Names
    BY DEF Names
  <2> QED BY <2>1, <2>2, <2>3, <2>4, <2>5, HandOverStep DEF Gives
<1>5. CASE Scanned(t)
  <2>1. Goes(t, "codes", "format") /\ Gives("qr")
    BY <1>5 DEF Scanned
  <2>2. /\ "codes" \in Within("qr") /\ "codes" \notin HeldAt("out") /\ "qr" \in Mutexes
        /\ \A x \in Names \ {"code", "data", "jpeg"} :
               "codes" \in HeldAt(x) => "format" \in HeldAt(x)
    BY DEF Within, HeldAt, Names, Mutexes
  <2>3. HandsOver(t, {"code", "data"})
    <3>1. \A p : p \in {t} \X {"code", "data"} <=> p = <<t, "code">> \/ p = <<t, "data">>
      OBVIOUS
    <3>2. /\ heap' = heap \ (held[<<t, "code">>] \cup held[<<t, "data">>])
          /\ held' = [held EXCEPT ![<<t, "code">>] = {}, ![<<t, "data">>] = {},
                                  ![<<t, "jpeg">>] = {}, ![<<t, "out">>] = held[<<t, "jpeg">>]]
      BY <1>5 DEF Scanned
    <3>3. heap' = Rest(heap, held, {t} \X {"code", "data"})
      BY <3>1, <3>2 DEF Rest
    <3>4. held' = [p \in Places |-> held'[p]]
      BY <1>1, <3>2
    <3>5. <<t, "jpeg">> \in Places /\ <<t, "out">> \in Places
      BY <1>3 DEF Names
    <3> QED BY <1>1, <3>1, <3>2, <3>3, <3>4, <3>5 DEF HandsOver
  <2>4. Guarded(t)
    BY <1>2, <2>1, <2>2, GoesGuarded DEF Gives
  <2>5. {"code", "data"} \in SUBSET Names
    BY DEF Names
  <2> QED BY <2>1, <2>2, <2>3, <2>4, <2>5, HandOverStep DEF Gives
<1> QED
  BY <1>4, <1>5

LEMMA LookInv ==
    ASSUME ServiceInv, NEW t \in Callers, Look(t)
    PROVE  ServiceInv'
<1> USE DEF Labels, Names, Mutexes
<1>1. Goes(t, "look", "copy") /\ Malloc(t, "reply") /\ UNCHANGED mutex
  BY DEF Look
<1>2. /\ "look" \notin HeldAt("reply") /\ "copy" \in HeldAt("reply")
      /\ \A y \in Names : "look" \in HeldAt(y) => "copy" \in HeldAt(y)
      /\ \A n \in Mutexes : "copy" \in Within(n) => "look" \in Within(n)
  BY DEF HeldAt, Within
<1>3. pc[t] = "look" /\ pc'[t] = "copy"
  BY <1>1 DEF Goes, ServiceInv, Around, ServiceTypes
<1>4. held[<<t, "reply">>] = {}
  BY <1>2, <1>3 DEF ServiceInv, Around, PcHolds
<1>5. /\ Owned(heap, held)' /\ Private(t)
      /\ \A y \in Names : y # "reply" => held'[<<t, y>>] = held[<<t, y>>]
  BY <1>1, <1>4, MallocHeapStep
<1>6. Lawful(t)
  BY <1>2, <1>3, <1>5 DEF Lawful, ServiceInv, Around, PcHolds
<1>7. Guarded(t)
  BY <1>1, <1>2, GoesGuarded
<1>8. OwnSource(t) /\ src'[t] = Latest(t)
  BY DEF Look, OwnSource, ServiceInv, Around, ServiceTypes
<1>9. Latest(t)' = Latest(t)
  <2>1. SlotOf(t)' = SlotOf(t)
    BY <1>1 DEF Goes, SlotOf, ServiceInv, Around, ServiceTypes
  <2>2. \A x \in Frame : held'[<<SlotOf(t), x>>] = held[<<SlotOf(t), x>>]
    BY <1>5, PlacesOf DEF Private
  <2>3. "out" \in Frame /\ "codes" \in Frame
    BY DEF Frame
  <2> QED BY <2>1, <2>2, <2>3 DEF Latest
<1> QED
  BY <1>1, <1>5, <1>6, <1>7, <1>8, <1>9, GoesMoves, PrivateStep DEF ServiceInv

\* Who is about the latest frame has its mutex, so that nobody else is.
LEMMA AloneAboutLatest ==
    ASSUME ServiceInv, NEW t \in Callers, pc[t] \in Within("web")
    PROVE  \A u \in Callers : u # t => pc[u] \notin Within("web")
  BY DEF ServiceInv, Around, PcMutex, Mutexes

\* A step of t on the latest frame.
LEMMA LatestStep ==
    ASSUME Around, NEW t \in Callers, NEW from, NEW to \in Labels \ {"idle", "copy"},
           Goes(t, from, to), Lawful(t), Guarded(t), OwnSource(t),
           \A u \in Callers : u # t => pc[u] \notin Within("web"),
           \A u \in Callers : u # t => \A x \in Names : held'[<<u, x>>] = held[<<u, x>>],
           to = "keep" => Latest(t)' = {}
    PROVE  Around'
<1>1. /\ pc' \in [Callers -> Labels] /\ pc'[t] = to
      /\ \A u \in Callers : u # t => pc'[u] = pc[u]
  BY DEF Around, ServiceTypes, Goes
<1>2. req' \in [Callers -> Requests \cup {"none"}]
  BY GoesMoves DEF Around, ServiceTypes, Moves
<1>3. ServiceTypes'
  BY <1>1, <1>2 DEF ServiceTypes, Guarded, OwnSource
<1>4. PcHolds'
  BY <1>1 DEF Around, PcHolds, Lawful
<1>5. PcMutex'
  BY <1>1 DEF Around, PcMutex, Guarded
<1>6. "keep" \in Within("web") /\ "copy" \in Within("web")
  BY DEF Within
<1>7. KeepsIntoNone'
  BY <1>1, <1>6 DEF KeepsIntoNone
<1>8. CopiedFromLatest'
  BY <1>1, <1>6 DEF CopiedFromLatest
<1> QED
  BY <1>3, <1>4, <1>5, <1>7, <1>8 DEF Around

LEMMA ReplaceInv ==
    ASSUME ServiceInv, NEW t \in Callers, Replace(t)
    PROVE  ServiceInv'
<1> DEFINE P == {SlotOf(t)} \X Frame
<1>1. Goes(t, "replace", "keep") /\ Free(P) /\ Alone
  BY DEF Replace
<1>2. pc[t] = "replace" /\ pc'[t] = "keep"
  BY <1>1 DEF Goes, ServiceInv, Around, ServiceTypes, Labels
<1>3. Owned(heap, held) /\ DOMAIN held = Places
  BY DEF ServiceInv, Owned
<1>4. P \in SUBSET Places
  <2>1. \A x \in Frame : <<SlotOf(t), x>> \in Places
    BY PlacesOf
  <2> QED BY <2>1
<1>5. \A u \in Callers : \A x \in Names : <<u, x>> \in Places /\ <<u, x>> \notin P
  BY PlacesOf
<1>6. <<SlotOf(t), "out">> \in P /\ <<SlotOf(t), "codes">> \in P
  BY DEF Frame
<1> HIDE DEF P
<1>7. Owned(Rest(heap, held, P), Kept(held, P))
  BY <1>3, <1>4, OwnedFree
<1>8. Owned(heap, held)'
  BY <1>1, <1>7 DEF Free, Rest, Kept
<1>9. \A p \in Places : held'[p] = IF p \in P THEN {} ELSE held[p]
  BY <1>1 DEF Free
<1>10. \A u \in Callers : \A x \in Names : held'[<<u, x>>] = held[<<u, x>>]
  BY <1>5, <1>9
<1>11. /\ \A x \in Names : "replace" \in HeldAt(x) => "keep" \in HeldAt(x)
       /\ \A n \in Mutexes : "keep" \in Within(n) => "replace" \in Within(n)
       /\ "replace" \in Within("web") /\ "web" \in Mutexes
  BY DEF HeldAt, Within, Names, Mutexes
<1>12. Lawful(t)
  BY <1>2, <1>10, <1>11 DEF Lawful, ServiceInv, Around, PcHolds
<1>13. Guarded(t) /\ OwnSource(t)
  BY <1>1, <1>11, GoesGuarded, AloneOwnSource DEF Alone
<1>14. \A u \in Callers : u # t => pc[u] \notin Within("web")
  BY <1>2, <1>11, AloneAboutLatest
<1>15. Latest(t)' = {}
  <2>1. SlotOf(t)' = SlotOf(t)
    BY <1>1 DEF Goes, SlotOf, ServiceInv, Around, ServiceTypes
  <2> QED BY <1>4, <1>6, <1>9, <2>1 DEF Latest
<1>16. "keep" \in Labels \ {"idle", "copy"}
  BY DEF Labels
<1> QED
  BY <1>1, <1>8, <1>10, <1>12, <1>13, <1>14, <1>15, <1>16, LatestStep DEF ServiceInv

LEMMA KeepInv ==
    ASSUME ServiceInv, NEW t \in Callers, Keep(t)
    PROVE  ServiceInv'
<1> DEFINE a == <<t, "out">>
           b == <<t, "codes">>
           c == <<SlotOf(t), "out">>
           d == <<SlotOf(t), "codes">>
           g == [held EXCEPT ![c] = held[a], ![a] = {}]
           k == held'
<1>1. Goes(t, "keep", "send") /\ Gives("web") /\ UNCHANGED heap
  BY DEF Keep
<1>2. k = [held EXCEPT ![c] = held[a], ![d] = held[b], ![a] = {}, ![b] = {}]
  BY DEF Keep
<1>3. pc[t] = "keep" /\ pc'[t] = "send"
  BY <1>1 DEF Goes, ServiceInv, Around, ServiceTypes, Labels
<1>4. Owned(heap, held)
  BY DEF ServiceInv
<1>5. /\ a \in Places /\ b \in Places /\ c \in Places /\ d \in Places
      /\ a # b /\ a # c /\ a # d /\ b # c /\ b # d /\ c # d
  <2>1. "out" \in Names /\ "codes" \in Names /\ "out" \in Frame /\ "codes" \in Frame
    BY DEF Names, Frame
  <2> QED BY <2>1, PlacesOf
<1>6. held[c] = {} /\ held[d] = {}
  BY <1>3 DEF ServiceInv, Around, KeepsIntoNone, Latest
<1>7. \A u \in Callers : \A x \in Names :
          u # t \/ x \notin {"out", "codes"}
              => <<u, x>> \in Places /\ <<u, x>> \notin {a, b, c, d}
  BY PlacesOf
<1>8. \A x \in Names : x \in {"out", "codes"} => <<t, x>> \in {a, b}
  OBVIOUS
<1> HIDE DEF a, b, c, d, k
<1>9. Owned(heap, g)
  <2>1. g \in [Places -> SUBSET heap] /\ g[c] = held[a] /\ g[a] = {}
    BY <1>4, <1>5 DEF Owned
  <2>2. \A r \in Places : r # a /\ r # c => g[r] = held[r]
    BY <1>4 DEF Owned
  <2> HIDE DEF g
  <2> QED BY <1>4, <1>5, <1>6, <2>1, <2>2, OwnedMove
<1>10. /\ g[d] = {} /\ g[b] = held[b] /\ g[c] = held[a] /\ g[a] = {}
       /\ \A r \in Places : r # a /\ r # c => g[r] = held[r]
  BY <1>4, <1>5, <1>6 DEF Owned
<1>11. /\ k \in [Places -> SUBSET heap]
       /\ k[d] = held[b] /\ k[b] = {} /\ k[c] = held[a] /\ k[a] = {}
       /\ \A r \in Places : r \notin {a, b, c, d} => k[r] = held[r]
  BY <1>2, <1>4, <1>5 DEF Owned
<1> HIDE DEF g
<1>12. Owned(heap, k)
  <2>1. \A r \in Places : r # b /\ r # d => k[r] = g[r]
    BY <1>10, <1>11
  <2>2. k[d] = g[b] /\ k[b] = {} /\ g[d] = {}
    BY <1>10, <1>11
  <2>3. k \in [Places -> SUBSET heap]
    BY <1>11
  <2> QED BY <1>5, <1>9, <2>1, <2>2, <2>3, OwnedMove
<1>13. Owned(heap, held)'
  BY <1>1, <1>12 DEF k
<1>14. \A u \in Callers : \A x \in Names :
           u # t \/ x \notin {"out", "codes"} => held'[<<u, x>>] = held[<<u, x>>]
  BY <1>7, <1>11 DEF k
<1>15. \A x \in Names : x \in {"out", "codes"} => held'[<<t, x>>] = {}
  BY <1>8, <1>11 DEF k
<1>16. /\ \A x \in Names \ {"out", "codes"} : "keep" \in HeldAt(x) => "send" \in HeldAt(x)
       /\ \A n \in Mutexes : "send" \notin Within(n)
       /\ "keep" \in Within("web") /\ "web" \in Mutexes
  BY DEF HeldAt, Within, Names, Mutexes
<1>17. Lawful(t)
  <2> SUFFICES ASSUME NEW x \in Names, held'[<<t, x>>] # {}
               PROVE  "send" \in HeldAt(x)
    BY <1>3 DEF Lawful
  <2>1. x \notin {"out", "codes"}
    BY <1>15
  <2>2. held[<<t, x>>] # {}
    BY <1>14, <2>1
  <2>3. "keep" \in HeldAt(x)
    BY <1>3, <2>2 DEF ServiceInv, Around, PcHolds
  <2> QED BY <1>16, <2>1, <2>3
<1>18. Guarded(t) /\ OwnSource(t)
  BY <1>1, <1>16, GoesGuarded, AloneOwnSource DEF Gives
<1>19. \A u \in Callers : u # t => pc[u] \notin Within("web")
  BY <1>3, <1>16, AloneAboutLatest
<1>20. "send" \in Labels \ {"idle", "copy"} /\ "send" # "keep"
  BY DEF Labels
<1> QED
  BY <1>1, <1>13, <1>14, <1>17, <1>18, <1>19, <1>20, LatestStep DEF ServiceInv

LEMMA BeginInv ==
    ASSUME ServiceInv, NEW t \in Callers, NEW r \in Offered, Begin(t, r)
    PROVE  ServiceInv'
<1> DEFINE to == Entry(r)
<1>1. to \in {"read", "cam"}
  BY DEF Entry
<1>2. pc[t] = "idle" /\ pc' = [pc EXCEPT ![t] = to] /\ req' = [req EXCEPT ![t] = r]
  BY DEF Begin
<1>3. SameHeap /\ Alone
  BY DEF Begin
<1> HIDE DEF to
<1>4. pc'[t] = to
  BY <1>2 DEF ServiceInv, Around, ServiceTypes
<1>5. Moves(t, to)
  BY <1>2, ServiceAssumption DEF Moves
<1>6. /\ Owned(heap, held)' /\ Private(t)
      /\ \A y \in Names : held'[<<t, y>>] = held[<<t, y>>]
  BY <1>3, SameHeapStep
<1>7. /\ \A x \in Names : "idle" \notin HeldAt(x)
      /\ \A n \in Mutexes : to \notin Within(n)
  BY <1>1 DEF HeldAt, Within, Names, Mutexes
<1>8. Lawful(t)
  BY <1>2, <1>6, <1>7 DEF Lawful, ServiceInv, Around, PcHolds
<1>9. Guarded(t) /\ OwnSource(t)
  BY <1>3, <1>4, <1>7, AloneOwnSource
     DEF Alone, Guarded, ServiceInv, Around, ServiceTypes, PcMutex
<1>10. to \in Labels \ {"keep"} /\ to # "copy"
  BY <1>1 DEF Labels
<1> QED
  BY <1>5, <1>6, <1>8, <1>9, <1>10, PrivateStep DEF ServiceInv

-----------------------------------------------------------------------------
(* The inductive invariant and the theorems. *)

LEMMA ServiceInit == Init => ServiceInv
<1> SUFFICES ASSUME Init PROVE ServiceInv
  OBVIOUS
<1>1. Owned(heap, held)
  BY DEF Init, Owned
<1>2. ServiceTypes
  BY DEF Init, ServiceTypes, Labels
<1>3. \A t \in Callers : \A x \in Names : held[<<t, x>>] = {}
  BY PlacesOf DEF Init
<1>4. PcHolds
  BY <1>3 DEF PcHolds
<1>5. PcMutex
  BY DEF Init, PcMutex, Within, Mutexes
<1>6. KeepsIntoNone /\ CopiedFromLatest
  BY DEF Init, KeepsIntoNone, CopiedFromLatest
<1> QED
  BY <1>1, <1>2, <1>4, <1>5, <1>6 DEF ServiceInv, Around

LEMMA ServiceStep == ServiceInv /\ [Next]_vars => ServiceInv'
<1> SUFFICES ASSUME ServiceInv, [Next]_vars PROVE ServiceInv'
  OBVIOUS
<1>1. ASSUME NEW t \in Callers, Work(t)
      PROVE  ServiceInv'
  <2>1. CASE TakeCam(t) \/ TakeFace(t) \/ TakeQr(t) \/ TakeStore(t) \/ TakeRead(t)
    BY <2>1, TakeInv
  <2>2. CASE \/ GrabFails(t) \/ WorkerFails(t) \/ Resize(t) \/ NotServed(t)
             \/ FacesJson(t) \/ Copy(t)
    BY <2>2, SameInv
  <2>3. CASE DecodeFails(t) \/ Gray(t) \/ FormatFails(t) \/ Send(t)
    BY <2>3, FreeInv
  <2>4. CASE \/ AllocWorkFails(t) \/ ResizeFails(t) \/ RgbFails(t) \/ GrayFails(t)
             \/ PayloadFails(t)
    BY <2>4, AbandonsInv
  <2>5. CASE Grab(t) \/ Decode(t) \/ AllocRgb(t) \/ Format(t)
    BY <2>5, MallocInv
  <2>6. CASE AllocWork(t)
    BY <2>6, AllocWorkInv
  <2>7. CASE Payload(t)
    BY <2>7, PayloadInv
  <2>8. CASE Detect(t) \/ Scanned(t)
    BY <2>8, HandOverInv
  <2>9. CASE Look(t)
    BY <2>9, LookInv
  <2>10. CASE Replace(t)
    BY <2>10, ReplaceInv
  <2>11. CASE Keep(t)
    BY <2>11, KeepInv
  <2> QED
    BY <1>1, <2>1, <2>2, <2>3, <2>4, <2>5, <2>6, <2>7, <2>8, <2>9, <2>10, <2>11
       DEF Work, FaceSteps, ScanSteps, WebSteps
<1>2. ASSUME NEW t \in Callers, NEW r \in Offered, Begin(t, r)
      PROVE  ServiceInv'
  BY <1>2, BeginInv
<1>3. CASE UNCHANGED vars
  <2>1. /\ Owned(heap, held)' /\ ServiceTypes'
    BY <1>3 DEF vars, ServiceInv, Around, ServiceTypes
  <2>2. PcHolds' /\ PcMutex'
    BY <1>3 DEF vars, ServiceInv, Around, PcHolds, PcMutex
  <2>3. \A t \in Callers : Latest(t)' = Latest(t)
    BY <1>3 DEF vars, Latest, SlotOf
  <2>4. KeepsIntoNone' /\ CopiedFromLatest'
    BY <1>3, <2>3 DEF vars, ServiceInv, Around, KeepsIntoNone, CopiedFromLatest
  <2> QED BY <2>1, <2>2, <2>4 DEF ServiceInv, Around
<1> QED
  BY <1>1, <1>2, <1>3 DEF Next

\* Whatever the callers ask for and wherever an allocation fails, every buffer is
\* pointed to from one place and no place points to a freed one (qr_scan.c:150-158,
\* web_server.c:98-101, 274-277).
THEOREM FramesOwnedOnce == Spec => []BuffersOwnedOnce
<1>1. ServiceInv => BuffersOwnedOnce
  BY OwnedOnce DEF ServiceInv
<1> QED
  BY <1>1, ServiceInit, ServiceStep, PTL DEF Spec

\* What serve_jpeg_slot and qr_codes_get_handler copy from is the latest frame until
\* they have copied it (web_server.c:106-133, 289-309).
THEOREM CopiesAreLatest == Spec => []CopiedFromLatest
<1>1. ServiceInv => CopiedFromLatest
  BY DEF ServiceInv, Around
<1> QED
  BY <1>1, ServiceInit, ServiceStep, PTL DEF Spec

\* A caller has the mutex of every section it is in, so that no two are in one:
\* what the headers call safe to call from multiple tasks (face_cam.h:55-58,
\* qr_scan.h:54-56).
THEOREM SectionsExclude ==
    Spec => [](\A t \in Callers : \A u \in Callers : \A m \in Mutexes :
                   pc[t] \in Within(m) /\ pc[u] \in Within(m) => t = u)
<1>1. ServiceInv => \A t \in Callers : \A u \in Callers : \A m \in Mutexes :
                        pc[t] \in Within(m) /\ pc[u] \in Within(m) => t = u
  BY DEF ServiceInv, Around, PcMutex
<1> QED
  BY <1>1, ServiceInit, ServiceStep, PTL DEF Spec

-----------------------------------------------------------------------------
(* Who has a mutex is in its section: no way out keeps one. *)

GivenBack == \A m \in Mutexes : \A t \in Callers : mutex[m] = t => pc[t] \in Within(m)

MutexInv == ServiceInv /\ GivenBack

\* A step of t that leaves no section, enters one, and leaves one.
LEMMA SectionSteps ==
    ASSUME MutexInv, NEW t \in Callers, NEW m \in Mutexes, NEW from, NEW to, Goes(t, from, to)
    PROVE  /\ UNCHANGED mutex /\ (\A n \in Mutexes : from \in Within(n) => to \in Within(n))
              => GivenBack'
           /\ Lock(m, t) /\ to \in Within(m) /\ (\A n \in Mutexes : from \notin Within(n))
              => GivenBack'
           /\ Unlock(m) /\ (\A n \in Mutexes : from \in Within(n) => n = m)
              => GivenBack'
<1>1. /\ pc[t] = from /\ pc'[t] = to
      /\ \A u \in Callers : u # t => pc'[u] = pc[u]
  BY DEF Goes, MutexInv, ServiceInv, Around, ServiceTypes
<1>2. DOMAIN mutex = Mutexes /\ NoOne \notin Callers
  BY ServiceAssumption DEF MutexInv, ServiceInv, Around, ServiceTypes
<1>3. \A n \in Mutexes : \A u \in Callers : mutex[n] = u => pc[u] \in Within(n)
  BY DEF MutexInv, GivenBack
<1>4. UNCHANGED mutex /\ (\A n \in Mutexes : from \in Within(n) => to \in Within(n))
      => GivenBack'
  BY <1>1, <1>3 DEF GivenBack
<1>5. Lock(m, t) /\ to \in Within(m) /\ (\A n \in Mutexes : from \notin Within(n))
      => GivenBack'
  BY <1>1, <1>2, <1>3 DEF GivenBack, Lock
<1>6. Unlock(m) /\ (\A n \in Mutexes : from \in Within(n) => n = m) => GivenBack'
  BY <1>1, <1>2, <1>3 DEF GivenBack, Unlock
<1> QED
  BY <1>4, <1>5, <1>6

\* No label is in two sections, and those of the steps outside the mutexes in none.
LEMMA SectionsApart ==
    /\ \A m \in Mutexes : \A n \in Mutexes : \A l \in Within(m) : l \in Within(n) => n = m
    /\ \A n \in Mutexes : \A l \in {"idle", "cam", "decode", "face", "work", "qr", "format",
                                    "store", "send", "read"} : l \notin Within(n)
  BY DEF Mutexes, Within

LEMMA TakeGiven ==
    ASSUME MutexInv, NEW t \in Callers,
           TakeCam(t) \/ TakeFace(t) \/ TakeQr(t) \/ TakeStore(t) \/ TakeRead(t)
    PROVE  GivenBack'
<1>1. ASSUME NEW m \in Mutexes, NEW to \in Within(m),
             NEW from \in {"cam", "face", "qr", "store", "read"}, Takes(t, m, from, to)
      PROVE  GivenBack'
  <2>1. Goes(t, from, to) /\ Lock(m, t)
    BY <1>1 DEF Takes
  <2>2. \A n \in Mutexes : from \notin Within(n)
    BY SectionsApart
  <2> QED BY <2>1, <2>2, SectionSteps
<1>2. /\ "grab" \in Within("cam") /\ "detect" \in Within("face")
      /\ "resize" \in Within("qr") /\ "replace" \in Within("web") /\ "look" \in Within("web")
  BY DEF Within
<1>3. {"cam", "face", "qr", "web"} = Mutexes
  BY DEF Mutexes
<1> QED
  BY <1>1, <1>2, <1>3 DEF TakeCam, TakeFace, TakeQr, TakeStore, TakeRead

LEMMA GiveGiven ==
    ASSUME MutexInv, NEW t \in Callers,
           \/ GrabFails(t) \/ Grab(t) \/ Detect(t) \/ ResizeFails(t) \/ RgbFails(t)
           \/ GrayFails(t) \/ PayloadFails(t) \/ Scanned(t) \/ Keep(t) \/ NotServed(t)
           \/ FacesJson(t) \/ Copy(t)
    PROVE  GivenBack'
<1>1. ASSUME NEW m \in Mutexes, NEW from \in Within(m), NEW to, Goes(t, from, to), Unlock(m)
      PROVE  GivenBack'
  <2>1. \A n \in Mutexes : from \in Within(n) => n = m
    BY SectionsApart
  <2> QED BY <1>1, <2>1, SectionSteps
<1>2. /\ Within("cam") = {"grab"} /\ Within("face") = {"detect"}
      /\ Within("qr") = {"resize", "rgb", "gray", "codes"}
      /\ Within("web") = {"replace", "keep", "look", "copy"}
  BY DEF Within
<1>3. {"cam", "face", "qr", "web"} = Mutexes
  BY DEF Mutexes
<1>4. CASE GrabFails(t) \/ Grab(t)
  BY <1>1, <1>2, <1>3, <1>4 DEF GrabFails, Grab, Gives
<1>5. CASE Detect(t)
  BY <1>1, <1>2, <1>3, <1>5 DEF Detect, Gives
<1>6. CASE ResizeFails(t) \/ RgbFails(t) \/ GrayFails(t) \/ PayloadFails(t)
  BY <1>1, <1>2, <1>3, <1>6
     DEF ResizeFails, RgbFails, GrayFails, PayloadFails, Abandons, Gives
<1>7. CASE Scanned(t)
  BY <1>1, <1>2, <1>3, <1>7 DEF Scanned, Gives
<1>8. CASE Keep(t)
  BY <1>1, <1>2, <1>3, <1>8 DEF Keep, Gives
<1>9. CASE NotServed(t) \/ FacesJson(t) \/ Copy(t)
  BY <1>1, <1>2, <1>3, <1>9 DEF NotServed, FacesJson, Copy, Gives
<1> QED
  BY <1>4, <1>5, <1>6, <1>7, <1>8, <1>9

LEMMA AloneGiven ==
    ASSUME MutexInv, NEW t \in Callers,
           \/ DecodeFails(t) \/ Decode(t) \/ WorkerFails(t) \/ AllocWork(t)
           \/ AllocWorkFails(t) \/ Resize(t) \/ AllocRgb(t) \/ Gray(t) \/ Payload(t)
           \/ Format(t) \/ FormatFails(t) \/ Replace(t) \/ Look(t) \/ Send(t)
    PROVE  GivenBack'
<1>1. ASSUME NEW from, NEW to, Goes(t, from, to), UNCHANGED mutex,
             \A n \in Mutexes : from \in Within(n) => to \in Within(n)
      PROVE  GivenBack'
  <2>1. "cam" \in Mutexes
    BY DEF Mutexes
  <2> QED BY <1>1, <2>1, SectionSteps
<1>2. ASSUME NEW from \in {"cam", "decode", "work", "format", "send"}, NEW to,
             Goes(t, from, to), UNCHANGED mutex
      PROVE  GivenBack'
  <2>1. \A n \in Mutexes : from \in Within(n) => to \in Within(n)
    BY SectionsApart
  <2> QED BY <1>1, <1>2, <2>1
<1>3. \A n \in Mutexes :
          /\ "resize" \in Within(n) => "rgb" \in Within(n)
          /\ "rgb" \in Within(n) => "gray" \in Within(n)
          /\ "gray" \in Within(n) => "codes" \in Within(n)
          /\ "replace" \in Within(n) => "keep" \in Within(n)
          /\ "look" \in Within(n) => "copy" \in Within(n)
  BY DEF Mutexes, Within
<1>4. CASE DecodeFails(t) \/ Decode(t) \/ WorkerFails(t) \/ AllocWorkFails(t)
  BY <1>2, <1>4 DEF DecodeFails, Decode, WorkerFails, AllocWorkFails, Abandons, Alone
<1>5. CASE AllocWork(t)
  BY <1>2, <1>5 DEF AllocWork, Alone
<1>6. CASE Format(t) \/ FormatFails(t) \/ Send(t)
  BY <1>2, <1>6 DEF Format, FormatFails, Send, Alone
<1>7. CASE Resize(t) \/ AllocRgb(t) \/ Gray(t)
  BY <1>1, <1>3, <1>7 DEF Resize, AllocRgb, Gray, Alone
<1>8. CASE Payload(t)
  <2>1. Goes(t, "codes", "codes") /\ UNCHANGED mutex
    BY <1>8 DEF Payload, Alone
  <2> QED BY <1>1, <2>1
<1>9. CASE Replace(t) \/ Look(t)
  BY <1>1, <1>3, <1>9 DEF Replace, Look, Alone
<1> QED
  BY <1>4, <1>5, <1>6, <1>7, <1>8, <1>9

LEMMA MutexStep == MutexInv /\ [Next]_vars => MutexInv'
<1> SUFFICES ASSUME MutexInv, [Next]_vars PROVE MutexInv'
  OBVIOUS
<1>1. ServiceInv'
  BY ServiceStep DEF MutexInv
<1>2. ASSUME NEW t \in Callers, Work(t)
      PROVE  GivenBack'
  BY <1>2, TakeGiven, GiveGiven, AloneGiven DEF Work, FaceSteps, ScanSteps, WebSteps
<1>3. ASSUME NEW t \in Callers, NEW r \in Offered, Begin(t, r)
      PROVE  GivenBack'
  <2>1. pc[t] = "idle" /\ \A n \in Mutexes : mutex[n] # t
    BY <1>3, SectionsApart DEF Begin, MutexInv, GivenBack
  <2>2. UNCHANGED mutex /\ pc' = [pc EXCEPT ![t] = Entry(r)]
    BY <1>3 DEF Begin, Alone
  <2>3. \A u \in Callers : u # t => pc'[u] = pc[u]
    BY <2>2 DEF MutexInv, ServiceInv, Around, ServiceTypes
  <2> QED BY <2>1, <2>2, <2>3 DEF MutexInv, GivenBack
<1>4. UNCHANGED vars => GivenBack'
  BY DEF vars, MutexInv, GivenBack
<1>5. GivenBack'
  BY <1>2, <1>3, <1>4 DEF Next
<1> QED
  BY <1>1, <1>5 DEF MutexInv

\* No way out of a capture, a scan or a reply keeps a mutex, and nobody waits for one
\* with another in hand, so that no circle of callers can wait for each other: a
\* caller has exactly the mutex of the section it is in (cam_capture.c:108-133,
\* face_cam.cpp:79-104, qr_scan.c:94-151, web_server.c:98-101, 110-150, 274-298).
THEOREM MutexesGivenBack ==
    Spec => [](\A t \in Callers : \A m \in Mutexes : mutex[m] = t <=> pc[t] \in Within(m))
<1>1. Init => MutexInv
  BY ServiceInit, ServiceAssumption DEF MutexInv, GivenBack, Init
<1>2. MutexInv => \A t \in Callers : \A m \in Mutexes : mutex[m] = t <=> pc[t] \in Within(m)
  BY DEF MutexInv, GivenBack, ServiceInv, Around, PcMutex
<1> QED
  BY <1>1, <1>2, MutexStep, PTL DEF Spec
=============================================================================
