---------------------------- MODULE FrameService ----------------------------
(***************************************************************************)
(* The frames of the XIAO camera (xiao-esp32s3-camera-stream/main): who    *)
(* owns each buffer of the heap while tasks capture, detect faces, scan    *)
(* for QR codes and serve the latest frame.  cam_capture.c, face_cam.cpp,  *)
(* qr_scan.c and web_server.c each have a mutex; the callers are the tasks *)
(* that serve web requests and the AV stream of server.c, which captures   *)
(* too.  A step ends where another task could see the difference: what a   *)
(* caller frees after it gave a mutex back is freed in the same step.      *)
(*                                                                         *)
(* A place is a variable of the program that can point to the heap: a      *)
(* local one of a caller, or the latest frame of web_server.c.  What the   *)
(* pixels and the answers say is left out; any allocation may fail.  The   *)
(* scan's worker is its caller, which waits for it to the end.             *)
(***************************************************************************)
EXTENDS Integers, FiniteSets

CONSTANTS
    Callers,    \* tasks
    Blocks(_, _), \* what the heap may give a caller for one of its variables
    Offered,    \* requests that are made
    MaxCodes,   \* QR_SCAN_MAX_CODES
    NoOne       \* has a free mutex

VARIABLES
    pc,     \* where each caller is
    req,    \* what it was asked for
    mutex,  \* who has each mutex
    heap,   \* the allocated buffers
    held,   \* the buffers each place points to
    src,    \* what a reader of the latest frame copies from
    sized   \* quirc has the size of the frames

vars == <<pc, req, mutex, heap, held, src, sized>>

FaceRequests == {"/capture", "/image.jpg", "/faces.json"}
Captures     == {"/capture", "/qr/capture", "stream"}
Reads        == {"/image.jpg", "/faces.json", "/qr/image.jpg", "/qr/codes.json"}
Requests     == Captures \cup Reads

Mutexes == {"cam", "face", "qr", "web"}
Slots   == {"s_latest", "s_latest_qr"}

\* out and codes are a frame's jpeg and the payloads of its codes; reply is the
\* copy or the JSON that is sent.
Names  == {"jpeg", "rgb", "code", "data", "out", "codes", "reply"}
Frame  == {"out", "codes"}
Places == (Callers \X Names) \cup (Slots \X Frame)

ASSUME ServiceAssumption ==
    /\ NoOne \notin Callers /\ Callers \cap Slots = {}
    /\ Offered \subseteq Requests
    /\ MaxCodes \in Nat

SlotOf(t) == IF req[t] \in FaceRequests THEN "s_latest" ELSE "s_latest_qr"

Init ==
    /\ pc = [t \in Callers |-> "idle"] /\ req = [t \in Callers |-> "none"]
    /\ mutex = [m \in Mutexes |-> NoOne]
    /\ heap = {} /\ held = [p \in Places |-> {}]
    /\ src = [t \in Callers |-> {}]
    /\ sized = FALSE

-----------------------------------------------------------------------------
(* The heap, the mutexes and the callers' progress. *)

\* A block for x of t, with h allocated.
New(t, x, h) == CHOOSE b \in Blocks(t, x) : b \notin h

CanAlloc(t, x, h) == ~ Blocks(t, x) \subseteq h

\* x = malloc(...), when it does not fail.
Malloc(t, x) ==
    /\ CanAlloc(t, x, heap)
    /\ heap' = heap \cup {New(t, x, heap)}
    /\ held' = [held EXCEPT ![<<t, x>>] = {New(t, x, heap)}]

\* What is freed is set to NULL or goes out of scope.
Free(P) ==
    /\ heap' = heap \ UNION {held[p] : p \in P}
    /\ held' = [p \in Places |-> IF p \in P THEN {} ELSE held[p]]

SameHeap == UNCHANGED <<heap, held>>

Lock(m, t) ==
    /\ mutex[m] = NoOne
    /\ mutex' = [mutex EXCEPT ![m] = t]

Unlock(m) == mutex' = [mutex EXCEPT ![m] = NoOne]

Goes(t, from, to) ==
    /\ pc[t] = from
    /\ pc' = [pc EXCEPT ![t] = to]
    /\ req' = [req EXCEPT ![t] = IF to = "idle" THEN "none" ELSE @]

\* A step of t on its own, and one that takes a mutex.
Alone == UNCHANGED <<mutex, src, sized>>

Takes(t, m, from, to) ==
    /\ Goes(t, from, to) /\ Lock(m, t)
    /\ SameHeap /\ UNCHANGED <<src, sized>>

\* A step that gives a mutex back.
Gives(m) == Unlock(m) /\ UNCHANGED <<src, sized>>

Entry(r) == IF r \in Reads THEN "read" ELSE "cam"

Begin(t, r) ==
    /\ pc[t] = "idle"
    /\ req' = [req EXCEPT ![t] = r]
    /\ pc' = [pc EXCEPT ![t] = Entry(r)]
    /\ SameHeap /\ Alone

-----------------------------------------------------------------------------
(* cam_capture_jpeg. *)

TakeCam(t) == Takes(t, "cam", "cam", "grab")

\* Mutant: a capture that fails is tried again.
GrabFailsRetries(t) ==
    /\ Goes(t, "grab", "cam")
    /\ SameHeap /\ Gives("cam")

GrabFails(t) ==
    /\ Goes(t, "grab", "idle")
    /\ SameHeap /\ Gives("cam")

Grabbed(r) == CASE r = "/capture" -> "decode" [] r = "/qr/capture" -> "work" [] OTHER -> "send"

Grab(t) ==
    /\ Goes(t, "grab", Grabbed(req[t]))
    /\ Malloc(t, "jpeg") /\ Gives("cam")

-----------------------------------------------------------------------------
(* face_cam_capture and what its handler does with the frame. *)

DecodeFails(t) ==
    /\ Goes(t, "decode", "idle")
    /\ Free({<<t, "jpeg">>}) /\ Alone

Decode(t) ==
    /\ Goes(t, "decode", "face")
    /\ Malloc(t, "rgb") /\ Alone

TakeFace(t) == Takes(t, "face", "face", "detect")

\* The image is freed under the mutex; then the JPEG is the frame's.
Detect(t) ==
    /\ Goes(t, "detect", "format")
    /\ heap' = heap \ held[<<t, "rgb">>]
    /\ held' = [held EXCEPT ![<<t, "rgb">>] = {}, ![<<t, "jpeg">>] = {},
                            ![<<t, "out">>] = held[<<t, "jpeg">>]]
    /\ Gives("face")

-----------------------------------------------------------------------------
(* qr_scan_capture: scan_frame, on a worker that is deleted when it is done. *)

\* Mutant: the payloads gathered before the failure are forgotten.
AbandonsPayloads(t, from) ==
    /\ Goes(t, from, "idle")
    /\ heap' = heap \ UNION {held[<<t, x>>] : x \in Names \ {"codes"}}
    /\ held' = [p \in Places |-> IF p \in {t} \X Names THEN {} ELSE held[p]]

\* err != ESP_OK: all that was gathered is freed.
Abandons(t, from) == Goes(t, from, "idle") /\ Free({t} \X Names)

\* No memory for the worker.
WorkerFails(t) ==
    /\ req[t] = "/qr/capture" /\ Goes(t, "cam", "idle")
    /\ SameHeap /\ Alone

\* What quirc works on, two blocks tried for before either is looked at.
AllocWork(t) ==
    /\ Goes(t, "work", "qr")
    /\ CanAlloc(t, "code", heap)
    /\ LET c == New(t, "code", heap)
           d == New(t, "data", heap \cup {c})
       IN  /\ CanAlloc(t, "data", heap \cup {c})
           /\ heap' = heap \cup {c, d}
           /\ held' = [held EXCEPT ![<<t, "code">>] = {c}, ![<<t, "data">>] = {d}]
    /\ Alone

AllocWorkFails(t) == Abandons(t, "work") /\ Alone

TakeQr(t) == Takes(t, "qr", "qr", "resize")

Resize(t) ==
    /\ Goes(t, "resize", "rgb")
    /\ sized' = TRUE
    /\ SameHeap /\ UNCHANGED <<mutex, src>>

ResizeFails(t) == ~sized /\ Abandons(t, "resize") /\ Gives("qr")

\* decode_to_gray
AllocRgb(t)  == Goes(t, "rgb", "gray") /\ Malloc(t, "rgb") /\ Alone
RgbFails(t)  == Abandons(t, "rgb") /\ Gives("qr")
Gray(t)      == Goes(t, "gray", "codes") /\ Free({<<t, "rgb">>}) /\ Alone
GrayFails(t) == Abandons(t, "gray") /\ Gives("qr")

\* One code more that can be decoded; the others have no payload.
MoreCodes(t) == pc[t] = "codes" /\ Cardinality(held[<<t, "codes">>]) < MaxCodes

Payload(t) ==
    /\ MoreCodes(t) /\ Goes(t, "codes", "codes")
    /\ CanAlloc(t, "codes", heap)
    /\ heap' = heap \cup {New(t, "codes", heap)}
    /\ held' = [held EXCEPT ![<<t, "codes">>] = @ \cup {New(t, "codes", heap)}]
    /\ Alone

PayloadFails(t) == MoreCodes(t) /\ Abandons(t, "codes") /\ Gives("qr")

\* The JPEG is the frame's.
Scanned(t) ==
    /\ Goes(t, "codes", "format")
    /\ heap' = heap \ (held[<<t, "code">>] \cup held[<<t, "data">>])
    /\ held' = [held EXCEPT ![<<t, "code">>] = {}, ![<<t, "data">>] = {},
                            ![<<t, "jpeg">>] = {}, ![<<t, "out">>] = held[<<t, "jpeg">>]]
    /\ Gives("qr")

-----------------------------------------------------------------------------
(* capture_get_handler and qr_capture_get_handler: the frame becomes the latest. *)

\* The JSON is on the stack for faces, on the heap for codes; either may fail.
Format(t) ==
    /\ Goes(t, "format", "store")
    /\ IF req[t] = "/qr/capture" THEN Malloc(t, "reply") ELSE SameHeap
    /\ Alone

FormatFails(t) == Goes(t, "format", "idle") /\ Free({t} \X Frame) /\ Alone

TakeStore(t) == Takes(t, "web", "store", "replace")

Replace(t) == Goes(t, "replace", "keep") /\ Free({SlotOf(t)} \X Frame) /\ Alone

Keep(t) ==
    /\ Goes(t, "keep", "send")
    /\ held' = [held EXCEPT ![<<SlotOf(t), "out">>]   = held[<<t, "out">>],
                            ![<<SlotOf(t), "codes">>] = held[<<t, "codes">>],
                            ![<<t, "out">>] = {}, ![<<t, "codes">>] = {}]
    /\ UNCHANGED heap /\ Gives("web")

-----------------------------------------------------------------------------
(* serve_jpeg_slot, faces_get_handler and qr_codes_get_handler. *)

Latest(t) == held[<<SlotOf(t), "out">>] \cup held[<<SlotOf(t), "codes">>]

\* Mutant: the latest frame is looked at without the mutex.
TakeReadUnlocked(t) == Goes(t, "read", "look") /\ SameHeap /\ Alone

TakeRead(t) == Takes(t, "web", "read", "look")

NotServed(t) ==
    /\ Goes(t, "look", "idle")
    /\ held[<<SlotOf(t), "out">>] = {} \/ req[t] # "/faces.json"
    /\ SameHeap /\ Gives("web")

FacesJson(t) ==
    /\ Goes(t, "look", "send")
    /\ held[<<SlotOf(t), "out">>] # {} /\ req[t] = "/faces.json"
    /\ SameHeap /\ Gives("web")

Look(t) ==
    /\ Goes(t, "look", "copy")
    /\ held[<<SlotOf(t), "out">>] # {} /\ req[t] # "/faces.json"
    /\ Malloc(t, "reply")
    /\ src' = [src EXCEPT ![t] = Latest(t)]
    /\ UNCHANGED <<mutex, sized>>

Copy(t) ==
    /\ Goes(t, "copy", "send")
    /\ src' = [src EXCEPT ![t] = {}]
    /\ Unlock("web") /\ SameHeap /\ UNCHANGED sized

\* The answer is out, or the stream's frame is, to its last chunk or its client's
\* end.
Send(t) == Goes(t, "send", "idle") /\ Free({t} \X {"jpeg", "reply"}) /\ Alone

-----------------------------------------------------------------------------
FaceSteps(t) == DecodeFails(t) \/ Decode(t) \/ TakeFace(t) \/ Detect(t)

ScanSteps(t) ==
    \/ WorkerFails(t) \/ AllocWork(t) \/ AllocWorkFails(t)
    \/ TakeQr(t) \/ Resize(t) \/ ResizeFails(t) \/ AllocRgb(t) \/ RgbFails(t)
    \/ Gray(t) \/ GrayFails(t) \/ Payload(t) \/ PayloadFails(t) \/ Scanned(t)

WebSteps(t) ==
    \/ Format(t) \/ FormatFails(t) \/ TakeStore(t) \/ Replace(t) \/ Keep(t)
    \/ TakeRead(t) \/ NotServed(t) \/ FacesJson(t) \/ Look(t) \/ Copy(t) \/ Send(t)

Work(t) ==
    TakeCam(t) \/ GrabFails(t) \/ Grab(t) \/ FaceSteps(t) \/ ScanSteps(t) \/ WebSteps(t)

Next == \E t \in Callers : Work(t) \/ \E r \in Offered : Begin(t, r)

Spec == Init /\ [][Next]_vars

\* FreeRTOS gives a mutex to its waiters of one priority in turn.
FairSpec == Spec /\ \A t \in Callers : SF_vars(Work(t))

-----------------------------------------------------------------------------
(* Properties. *)

\* However captures, scans and replies interleave and wherever an allocation fails,
\* a live buffer is pointed to from exactly one place, and no place points to a freed
\* one: nothing leaks and nothing is freed twice (qr_scan.c:150-158,
\* web_server.c:92, 99-100, 268, 275-276).
BuffersOwnedOnce ==
    /\ heap = UNION {held[p] : p \in Places}
    /\ \A p \in Places : \A q \in Places : p # q => held[p] \cap held[q] = {}

\* web_server.c:106-107, "Copies it out under the mutex so a concurrent capture
\* can't free it mid-send": what a reader copies from is the latest frame still.
CopiedFromLatest == \A t \in Callers : pc[t] = "copy" => src[t] = Latest(t)

\* face_cam.h:55-58, qr_scan.h:54-56, "safe to call from multiple tasks (serialized
\* internally)": every request comes to an end, whatever fails in it or beside it;
\* no way out of a capture keeps a mutex.
RequestsEnd == \A t \in Callers : pc[t] # "idle" ~> pc[t] = "idle"
=============================================================================
