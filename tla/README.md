# wendy-lite-native-apps: a verification development

TLA+ models of the stateful programs of this repository, the TLC runs that check
them on small instances and TLAPS proofs of their main invariants. Paths below
are relative to the root of the repository, line numbers to the commit the
models were written from.

- [The system](#the-system) - inventory: parts, state, interactions, what is hard
- [Modules](#modules) - how each model corresponds to the code
- [Runs](#runs) - what is checked, the bounds, the fairness
- [Proofs](#proofs) - what holds for every value of the constants, and why
- [Findings](#findings)
- [Left out](#left-out) and [Plan](#plan)

## The system

Ten ESP32 firmware applications share a repository and one SDK (`wendy_core`,
`wendy_com`: Wi-Fi, provisioning, the "sensor link"; not in this repository).
FreeRTOS schedules their tasks preemptively, on one or two cores.

| part | files | state | operations | who else touches the state |
| --- | --- | --- | --- | --- |
| AV source server | `xiao-esp32s3-camera-stream/main/server.c` | one client socket, receive buffer, ring of requests, answers owed, JPEG being sent, message being sent with its offset | accept, read and parse, write a slice, capture, drop the client | nobody: one task; the client and the network move between its steps |
| AV source protocol | `xiao-esp32s3-camera-stream/PROTOCOL.md` | what a client may rely on | handshake, request, data | - |
| Sensor-link demo loop | `sensor-link-demo/main/cam_loop.c`, `main.c` | event group, latched and active stream under a mutex, frame in flight | start, stop, the task's capture/send cycle | the SDK's thread (delegate, push and end callbacks) |
| XIAO sensor-link loop | `xiao-esp32s3-sensor-link/main/cam_loop.c`, `main.c`, `cam_capture.c`, `mic.c` | the same, two channels (camera, microphone), one control operation, driver buffers in `s_inflight` | the same, with refusal, and begin/end run by the SDK's thread | the SDK's thread |
| Capture service | `xiao-esp32s3-camera*/main/cam_capture.c` | JPEG copied under a mutex | init, capture | server task, web server, QR worker |
| Camera and microphone tasks | `camera.c`, `mic.c` | task handle, running flag, done semaphore | start, stop with a 5 s limit, task exit | callers of the public API |
| QR scanner, face detector, web server | `qr_scan.c`, `face_cam.cpp`, `web_server.c` | latest frames under a mutex, the detector and the scanner under one each, buffers of the heap, a worker task per scan | capture, detect, scan, serve, free | HTTP server task, worker, the AV server's task |
| Bandwidth server | `tcp-server/main/tcp_server.c`, `tls_server.c` | one client socket (and TLS context), place in chunk and payload | accept, handshake, stream, close | nobody: one task per port; the client reads, talks or leaves between its steps |
| StampFly | `m5-stamp-fly/main` | flight mode, debounce counters, flip sequence, motor duties; in `ctrl.c` the take-off and landing sequence, the pulse on the arming stick, the stop | one 400 Hz turn; sequence, `on`, escape key and `wait` on the other core | console task (the radio is disabled, `rc.cpp:34`) |
| Command console | `m5-stamp-fly/components/abc` | line buffer, registers, generators | polled | - |
| LED examples | `blink*` | an LED | toggle | - |

How they interact. In `camera-stream`, the server task calls the capture service
and talks to one TCP client; the web server and the QR worker call the same
capture service from other tasks. In the two sensor-link applications, the SDK's
thread calls the delegate of `main.c` one callback at a time; the delegate calls
`cam_loop_start` and `cam_loop_stop`, which change the shared description of the
stream under a mutex and then set a bit of an event group; `cam_loop_task` waits
for these bits, asks the SDK to begin and end the stream and to push frames, and
the SDK answers with callbacks that set other bits. On the StampFly, the console
and the sequence of `ctrl.c` (core 0, every 10 ms) write the sticks and the link
counter that `loop_400Hz` (core 1) reads.

What is hard here, and where no test of the repository reaches:

- recv() and send() cut the stream anywhere, so both parser and writer resume in
  the middle of a message, and a client may be dropped at any of these points
  (`server.c:126`);
- select() has no timeout, so anything the loop forgets to ask for waits for the
  client to speak (`server.c:422`);
- the mutex and the event group of the stream loops are not one: a bit may
  arrive long after the decision it tells of (`sensor-link-demo/main/cam_loop.c:70,180`);
- one bit says "a push is done" and says not which; the buffer must not go back
  to the driver too early nor stay out for good, on five exits from the stream;
- an SDK callback that never comes, a microphone that does not start or a stream
  that is refused must not leave the only stream reserved;
- a TLS write that stopped short leaves the library with a record half flushed,
  and the next call's length is taken for that record's (`tls_server.c:60-67`);
- modes, flip and link loss of the StampFly are decided several times per turn,
  a later decision overwriting an earlier one (`flight_control.cpp:340-347,527`);
- the arming button of the StampFly is a toggle that two debounced cores share:
  a pulse cut short by the escape key, or a landing pulse that finds the vehicle
  parked, has to be read in the other core's turns (`ctrl.c:37,84`);
- a captured frame changes hands four times, between tasks and across three
  mutexes, and every allocation on the way may fail (`qr_scan.c:76-160`,
  `web_server.c:80-133`).

`PROJECT.json` lists these hazards with their lines and the properties about
them.

What makes each part correct: the AV server stays in step with both directions
of the stream, sends whole messages, serves each request at most once and oldest
first, answers handshakes, sends each frame as its chunks in order, and forgets
everything with its client; the stream loops give the single stream to one owner,
keep a frame until it is sent, return every frame, end the stream when its owner
asks and never hang; the capture, scanner and web server own each frame exactly
once; the bandwidth server sends exactly the payload and always comes back to
accept; the StampFly stops its motors on over-G, leaves flight when the link is
lost, and completes or abandons a flip cleanly; its console changes the mode once
per press, ends flight on the escape key and lands what it took off.

## Modules

Each step of a module is a stretch of code between two points another thread (or
the network) can see. Names are the source's; `PROJECT.json` maps every
definition to its lines.

| module | models | extends / instantiates |
| --- | --- | --- |
| `AvServer` | `server_task` of `server.c` | - |
| `AvProtocol` | what `PROTOCOL.md` promises a client | - |
| `MCAvServer` | small instances of `AvServer`, its refinement of `AvProtocol` | `AvServer`, INSTANCE `AvProtocol` |
| `AvServerProofs` | safety proofs | `AvServer` |
| `AvProtocolProofs` | proofs of what a client receives, and of the refinement of `AvProtocol` | `AvServerProofs`, `MCAvServer` |
| `DemoCamLoop` | `cam_loop.c` of the demo | - |
| `DemoCamLoopProofs` | safety proofs | `DemoCamLoop` |
| `XiaoCamLoop` | `cam_loop.c` of the XIAO sensor link, with `s_inflight` and the microphone | - |
| `SensorStream` | the single stream as `cam_loop.h` promises it | - |
| `MCXiaoCamLoop` | refinement of `SensorStream` | `XiaoCamLoop`, INSTANCE `SensorStream` |
| `XiaoCamLoopProofs` | safety and refinement proofs | `MCXiaoCamLoop` |
| `FlightMode` | a turn of `loop_400Hz` | - |
| `FlightModeProofs` | safety proofs | `FlightMode` |
| `StampFly` | the same turns composed with the console's task: `_loop` of `ctrl.c`, `on`, the escape key, `wait` | `FlightMode` |
| `StampFlyProofs` | it implements `FlightMode`; safety proofs, the sequence | `StampFly`, `FlightModeProofs` |
| `FrameService` | the frames of the XIAO camera across `cam_capture.c`, `face_cam.cpp`, `qr_scan.c`, `web_server.c` | - |
| `MCFrameService` | a heap for TLC | `FrameService` |
| `FrameServiceProofs` | safety proofs | `FrameService` |
| `BandwidthServer` | `_server_task` of `tcp_server.c` and of `tls_server.c` | - |
| `BandwidthProofs` | safety proofs | `BandwidthServer` |

Definitions whose comment starts with "Mutant:" are wrong variants of the
definition that follows; no specification uses them. Each property is
accompanied by one that breaks it (`PROJECT.json`, "mutants").

### AvServer

`pc` is the place of `server_task` in a turn of its loop. `Select(w)` returns
from `select()` with the write set it asked for (`wset`) or not; `AcceptClient`
takes a connection or turns it away; `Recv(n)` appends n bytes to `s_rx`, and
then one iteration of `on_readable`'s loop is one step: `HandleHandshake`,
`HandleRequest`, `IgnoreMsg` (and `ParseDrops`, `ParseDone`). `on_writable` is
`SendSlice`/`FinishFrame` (what `send()` took, with the message built first if
none is in flight), `SendFails` or `NotWritable`; `Capture`/`CaptureFails` end
the turn. `close_client` and `release_frame` are operators used by every step
that calls them.

Bytes are kept apart only by the message they belong to and their position in it,
which is what staying in step with a stream means; payloads have no content. A
client sends any message `on_readable` tells apart: a handshake, one of a newer
version (answered, as the code does), a request, a request on another channel,
an ignored type of least and greatest size, a bad magic, an oversize length. The
malformed ones are ordinary inputs of the parser's error path. `EAGAIN` and
`EINTR`, and an error of `select()`, change nothing and are stutters. `heap`
counts JPEG buffers so that a leak or a second free shows. `asked` and
`delivered` are history.

`AvProtocol` is the client's view: a queue of requests served oldest first, one
frame at a time, chunks of it in order, one answer per handshake, all of it gone
with the connection. Under the refinement mapping a message counts as received
once its last byte was accepted by `send()`; until then the answer is still owed
and the chunk still to come.

### DemoCamLoop and XiaoCamLoop

`pc` walks `cam_loop_task` from one event-group or mutex operation to the next.
The mutex is not a variable: a critical section is one step. An event bit set
*after* the critical section is a step of its own (`SetBit`, from `raise`), since
the task runs in between. `cam_loop_start`, `cam_loop_stop`, an unsubscription of
both channels and a disconnection run in the SDK's thread one callback at a time
(`todo`, `raise`); push and end callbacks come at any time after the call they
answer. The SDK itself is external: it answers every push and every operation
once; a begin while a stream is open or ending is dropped by it
(`sensor-link-demo/main/cam_loop.c:121-122` says so).

In the XIAO loop begin and end are operations (`op`) the SDK's thread executes
(`StreamControlExec`) and the task waits for; `out` counts the slots of
`s_inflight`; `Camera` and `Microphone` are the two channels. `SensorStream` is
the reservation as a client sees it: free, reserved, open, closed.

### FlightMode

One turn of `loop_400Hz` is one step: the functions it calls are operators from
the controller's record `fc` to its next, composed in the code's order, so that
a later decision overwrites an earlier one exactly where it does in the code.
`in` is what the turn finds: buttons, throttle mode, over-G, ground, and what a
computed thrust comes to. `LinkAlive` is the other core's `Connect_flag = 0`; an
increment that overwrites a reset is the case in which `LinkAlive` did not
happen.

Thrust is kept as "below `Motor_on_duty_threshold`" or not: it is all the control
flow reads. A manual throttle and the computed thrusts of altitude control and
landing may come to either. The automatic take-off's is low for its first
`RampLow` turns, as the code computes it. The arming stick may move in any turn:
`ctrl.c`'s pulses are a special case, which `StampFly` singles out.

### StampFly

`FlyTurn` is a turn of `FlightMode` with the sticks as `ctrl.c` left them; the
other actions are the console's task: `Loop` is one call of `_loop` (pulse, link,
sequence, in this order), `On`, `Escape`, `SetSeq`, `SetStop`, `SetArm` (registers)
what a user types between two calls, `Wait`/`WaitEnds` the command during which `_loop` runs without
a pause and no key is read. `ctl` holds the statics of `ctrl.c` and its two
sticks, `hist` counts presses of the stick and changes of mode and remembers what
the last pulse was for and whether anything came in between (a command, over-G, a
lost link).

The ticks of the two cores are turned into one clock that counts turns: a cycle
of the console takes between `CycleTurns` (its `vTaskDelay(10)` is four turns) and
`MaxPace` of them. The delays of the sequence count turns as well. `KeepAlive` is
`Connect_flag = 0`, which an increment of the other core may overwrite. Every
step is a step of `FlightMode` or leaves its variables alone, so what is proved
there holds here (`FlyImplementsFlightMode`). The register `connect`
and those of the other sticks are left out.

### FrameService

A place is a variable of the program that can point to the heap: the local ones
of each caller (`jpeg`, `rgb`, `code`, `data`, the frame's `out` and `codes`, the
`reply`) and the two latest frames of `web_server.c`. `heap` is what is
allocated, `held` what each place points to. `pc` walks a request from one point
another task can see to the next; the four mutexes (`cam`, `face`, `qr`, `web`)
are explicit because a caller keeps one across steps. Requests are the six
handlers that touch frames and `stream`, the AV server's `capture_frame`. Every
allocation and every external call (driver, decoder) may fail, and the way out of
the code follows. The worker of a scan is its caller: that one only waits, without
a limit, and deletes it (`qr_scan.c:203-213`).

What the pixels are, what the answers say and the detectors are left out. A code
that cannot be decoded has no payload and takes no step. The first buffer size
`quirc_resize` gets is the only one: the camera's frame size never changes.

### BandwidthServer

The tasks of the two ports share only the read-only chunk, so a behaviour is
about one of them (`kind`). `pc` is the place of `_server_task`: accept,
handshake (TLS), the write of `_stream`, the `vTaskDelay` after a write that
could not finish (TLS), and the steps of `_close_gracefully`: close_notify (TLS),
drain, close. `sent`, `left` and `off` (`p - chunk`) are `_stream`'s; `Advance`
is the end of its inner loop with the outer loop's condition.

The network is a send buffer of `Room` bytes that the client empties by reading;
closing a socket with something unread resets the connection, as the comment of
`_close_gracefully` says lwIP does. The TLS library is external: `WriteRecord`
and `WriteHeld` are the contract the comment at `tls_server.c:56-67` describes.
One write makes one record; the code cannot tell that from a write that makes
several, since it resumes wherever the write stopped. `EINTR` is a stutter. Left
out: a `send()` of 0 bytes for a non-zero length ("not expected",
`tcp_server.c:65`), which the stack does not return.

## Runs

| run | question | result |
| --- | --- | --- |
| `av_server` | does the server stay in step with both streams, drop everything with its client and implement the protocol | holds, 1.3 million states |
| `av_server_live` | does `select()` never sleep on work | holds with a camera that does not fail |
| `av_server_stall` | are queued requests served when a capture fails | **violated**, finding 1 |
| `av_server_owed` | is every handshake answered or owed an answer | **violated**, finding 2 |
| `demo_loop` | frames, begin/end order, stops and latched streams of the demo | holds |
| `demo_loop_lost_stop` | does every stop take effect | **violated**, finding 3 |
| `xiao_loop` | buffers, slots, ownership, stops and progress of the XIAO loop | holds |
| `flight_mode` | does flight end when told, over-G stop the motors, a flip leave nothing behind | holds |
| `flight_mode_flips` | does the last stage of a flip keep flips apart | **violated**, finding 4 |
| `bandwidth` | does the payload go out unbroken and counted right, is everything freed, does the tail survive, is the next client served | holds, 140 thousand states |
| `stamp_fly` | does a press count once, the escape key end flight, an undisturbed sequence take off parked and land flying | holds, 196 thousand states |
| `frame_service` | is each buffer freed once by its one owner, is a reader's source still there, does each request end | holds, 134 thousand states |

### Bounds

`av_server`: handshakes and requests of a header and a body of one byte each, so
that every message is cut in every way; ignored messages from a bare header to
the longest payload (5), beside which one `recv()` can bring three short ones;
three messages in all wrap the ring of two or overfill it; frames of one and two
chunks tell a first, a last and an only chunk apart; two connections show what
one leaves to the next. `DataHeaderLen` 0 folds the data header into the message
header, which the code writes in one go as well. The liveness runs use one
request id and fewer messages, since the whole graph has to be searched for
cycles. The bounds of the environment are `MaxSends` and `MaxConns`; the server
has none.

The real constants (1404 bytes of payload, 8 requests, 255 answers) only change
how long it takes to reach a limit the small ones reach too, and the safety
proofs do not depend on them. Chunk numbers (23 bits) and frame numbers (32 bits)
are integers: a frame of 2^23 chunks does not fit the memory, and 2^32 frames take
years on one connection.

`demo_loop`, `xiao_loop`: two clients, so that one can subscribe, leave or be
refused while the other streams; five and four calls are one full
subscribe/stop/subscribe/stop cycle with one to spare in any interleaving. For
the XIAO loop each call may name either channel, and a disconnection stops both.

`flight_mode`: every debounce and stage lasts one to three turns instead of 10 to
200. What matters is which counters run out in the same turn and in which order,
and with arbitrary inputs every order occurs. The proofs hold for all lengths.

`bandwidth`: a payload of a chunk and a half, a chunk of a record and a third and
of two patterns, and a send buffer smaller than a record, so that writes stop in
the middle of a record, of a pattern and of a chunk, and end in a shorter last
chunk. Three clients: one served, one in the backlog, one that finds it full.
`MaxTalk` bounds what clients say: one that never stops keeps the drain
(`tcp_server.c:88`) going for ever, which the code has nothing against.

`stamp_fly`: debouncing over one turn, a pulse of three cycles of two turns each,
which is more than the debouncing needs, and a landing delay longer than a pulse
and its release: 9 turns is the least with which `UndisturbedSequenceLands` holds
here, as the theorem says it is (at 8 TLC finds the landing pulse reaching the
vehicle before the first is answered). Two
commands of the user at any point: an escape in the middle of a pulse and an `on`
after it, a restarted sequence under an escape, a stop undone, the stick moved by
hand in a pulse, a `wait` under any. `seq` is set to the three values that make
`_loop` act at once (`Steps`). The flip
button is left alone here (`FlipStick`); `flight_mode` has it. The proofs hold for
all lengths and delays.

`frame_service`: two callers. The web server has one task
and the AV stream is the other, so two is what the shipped program has; that the
capture functions may be called from any number of tasks is what their headers
say (`face_cam.h:55-58`, `qr_scan.h:54-56`), and the proofs cover it. Two blocks
per variable: one in a latest frame and one being gathered, so that an allocation
fails because the model says so and never for want of a name. Two codes in a
frame, so that a failure can fall between them. `/qr/image.jpg` is left out of the
run: it is `/image.jpg` on the other slot.

`CHECK_DEADLOCK FALSE` where the environment is bounded: once it is used up and
all work is done, nothing is left to do.

### Fairness

- `AvServer`: weak fairness of the task's turn (it is a FreeRTOS task that
  nothing else starves). Strong fairness of accepting a connection, of `select()`
  reporting a writable socket, of `recv()` and `send()` taking bytes: a client
  that is owed something goes on reading, and a socket reported ready is not
  empty for ever. `FramesFinish` rests on the client sending finitely many
  handshakes (`MaxSends`): an answer goes ahead of a chunk, and a client that
  never stops asking starves its own frame.
- `DemoCamLoop`, `XiaoCamLoop`: weak fairness of the task, of the callback that
  is running, and of the SDK's answers. There is no timeout in the loops, so
  without answers from the SDK nothing can be promised.
- `BandwidthServer`: weak fairness of the task; strong fairness of a write failing
  once the client is gone, since the network stack stops retransmitting some day.
  Nothing is assumed of a client of the plain port: the send timeout ends a stall.
  `NextIsServed` says openly what the TLS port needs: its writes are retried for
  ever (`tls_server.c:71-75`), so no client may stop reading for good.
- `FlightMode`: weak fairness of the turn; a hardware timer starts one every
  2.5 ms. Nothing is assumed of the pilot: `LinkLossEndsFlight` is checked
  against any use of the flip button.
- `StampFly`: weak fairness of the turn, of `_loop`, and of a `wait` being over
  (its time is finite). Nothing is assumed of the user.
- `FrameService`: strong fairness of each caller: a mutex is given to its waiters
  of one priority in turn, so that one that is free again and again is obtained
  one day. Calls of the driver and of the network are assumed to return.

## Proofs

TLAPS checks the theorems below for every value of the constants allowed by the
module's assumption (`ConstantsAssumption`, `DemoAssumption`, ...), for any number of messages,
connections, clients, calls and turns.

**AvServer** (`AvServerProofs`). `IInv` is the conjunction of types and:
`StreamInv`, `s_rx` followed by the socket is a sequence of whole messages (the
parser's place alone is not inductive: after consuming a message one needs to
know what comes next); `RoomInv`, the parser leaves less than a longest message,
so `recv()` is asked for at least one byte; `WireInv`, the wire ends exactly
where `s_msg_off` says; `QueueInv`, what the ring holds between head and
head + count are ids clients sent; `FrameInv`, a frame that has not had its last
chunk built has data left, so no chunk is empty. Every action preserves it
(`Inductive`), and `TypeOK`, `ParserInSync`, `RecvHasRoom`, `WireAtomic`,
`LastBuiltInFlight`, `NothingOutlivesClient` follow. Lemmas on `Framed` say what
appending to or consuming from a framed stream preserves.

Two more results are what the liveness of this loop turns on. `ToSend` counts the
bytes in hand: the rest of the message, the answers owed, the data not yet cut
into chunks, each byte of it with the header it may need. `PendingWhileInDebt`:
`tx_pending`, which decides whether `select()` watches for writability, is true
exactly when `ToSend` is not 0. `DebtIsPaid`: only a handshake (by one answer) and
a capture (by one frame) raise it, and every byte `send()` takes is off it, so
cutting a chunk never makes work (`ChunkPays`).

**AvServer, what a client receives** (`AvProtocolProofs`). `FramesReassemble` speaks
of the messages delivered; `s_frame` is ahead of them by the one in flight.
`OrderInv` links the two: the data message in flight, or the next to be built if
there is none, continues the last one delivered and describes `s_frame` as it
stands (`ChunkInv`). `BuiltInv` adds that the message in flight is the chunk the
protocol cuts at that place. `QueueBar`, `OwedBar` and `FrameBar` are the state of
`AvProtocol` read off the server's, the ring as a sequence (`QueuePush`,
`QueuePop`); with `RefInv` every action is a step of the protocol or a stutter, one
lemma per action (`Refinement`).

**XiaoCamLoop** (`XiaoCamLoopProofs`). `IInv` adds to the types who owns the
stream at each place of the task (`OwnerInv`), whose push the one `FRAME_DONE`
bit can be about (`BufferInv`), where each slot of `s_inflight` is (`SlotInv`),
what the SDK has open (`OpenInv`), and that a stop bit, set or about to be set,
was asked for by the stream's owner (`StopInv`). That last conjunct is what the
order of `cam_loop_start` (clear the stop bit, then latch) buys, and what the
demo lacks. The refinement of `SensorStream` is proved action by action from it
(`Refinement`).

`WaitsAreOwed`: whenever the task waits for a bit, somebody owes it that bit - the
SDK an answer or a buffer, a callback the bit it is about to set. `NineStepsToEnd`:
once a stop is set, `ToGo` (at most nine) counts down with each step of the task
until the stream is over, and no start, stop or callback puts it up again.

**FlightMode** (`FlightModeProofs`). `TypeOK` and `FlightStartsClean` are
inductive together. One lemma per function of the turn says which fields it can
change; one per mode composes them; `TurnStep` is their disjunction. The action
properties `OverGCutsMotors` and `FlightEndsWhenTold` follow from the same lemma,
and so does `LinkLossBound`: with the link down each turn lowers `TurnsLeft`, which
starts at 3 at most, so a lost link ends flight within three turns whatever the
pilot does. It needs `FlipDebounce # 0` (10 in the code): without debouncing a
flip could be asked for again in every turn.

**BandwidthServer** (`BandwidthProofs`). `IInv` adds: `LoopInv`, `left` is what is
left of the chunk or of the payload, whichever is less, and `sent` and `off` stand
at the same place of the pattern (which is why a chunk has to be a whole number of
patterns, `payload.h:37-38`); `HeldInv`, the record the library holds is the next
piece of the pattern and no longer than the remainder the code asks for again;
`ClientInv`, who is held when. `Shift` is the one lemma of arithmetic: moving on
by n bytes depends only on the place in the pattern. `AdvanceLoop`, `RecordWaits`
and `RecordDone` are shared by the three writing actions. `PatternUnbroken`,
`CountIsTrue`, `NothingLeaks`, `TailSurvives` and `TlsShortOnlyWhenGone` follow.
`ServiceBounded` says how long one client can keep the task: `StepsLeft` starts at
`2 * Total + 6` and each step of the task lowers it, with two exceptions, which are
the two ways the code leaves itself to a client: a TLS write against a full buffer
is tried again for ever, and during the drain each thing said costs a step.

**DemoCamLoop** (`DemoCamLoopProofs`). `DemoInv` adds to the types `FrameInv` and
`EndInv`: for every place of `cam_loop_task`, how far the two exchanges with the
SDK are - the frame is with the SDK or its `FRAME_DONE` bit is set, and the bit has
been cleared before the slot is taken again; the stream is open, or its end is on
its way or has been told by `STREAM_ENDED`. `FrameHeldUntilSent` and
`BeginNeverDropped` follow, that the open stream is the active client's,
`WaitsAreOwed` and, as in the XIAO loop, `EightStepsToEnd`. Here the latter speaks
of a stop bit the task can still see: that it may have cleared it is finding 3.

**StampFly** (`StampFlyProofs`). `FlyImplementsFlightMode` maps every step to a turn
with sticks `FlightMode` allows, to `LinkAlive`, or to a stutter, so the invariants
and action properties proved of `FlightMode` hold of the composition
(`FlyKeepsModes`). `PressTogglesOnce` alone is not inductive: a press may have been
taken and not yet answered. `PressesAhead` counts these too: one while
`judge_mode_change` waits for the release (`chatter`), one while the stick is down
and the debouncing has not accepted it.

`UndisturbedSequenceLands` is a matter of how the delays compare, and `SequenceLands`
proves it from `DelaysSuffice`: the averaging of the offsets is over before take-off
(802 <= 2400 turns in the code); the stick is down longer than the debouncing takes
from one end to the other (21 <= 99 * 4); the first press is debounced and seen
released before the landing is due (100 * `MaxPace` + 60 <= 1600, that is while a cycle
of the console takes at most 15 turns, against the four of its delay); nobody is at
the flip button. `SeqInv` is the argument: in each step of the sequence it relates
the turns that went by to what is left of the pulse, of the debouncing and of the
release (`BeforeTakeOff`, `TakingOff`, `TakenOff`, `ToLand`). `CountStep` is what one
turn counts, `LoopFields` what one call does; that an undisturbed flight is not left
is `StaysInFlight`.

`StopEndsFlightSoon` composes the console with `LinkLossBound`: for as long as
`stop` is set `_loop` leaves the link counter alone (`KeepAlive`), so `StopTurns`
falls with every turn flown and no cycle of the console puts it up again.

**FrameService** (`FrameServiceProofs`). `ServiceInv`: every live buffer is at
exactly one place (`Owned`), which places can hold something at each `pc`
(`PcHolds`), whose each mutex is (`PcMutex`), the slot is empty between `Replace`
and `Keep` (`KeepsIntoNone`), and what a reader copies is the latest frame.
`OwnedAlloc`, `OwnedFree` and `OwnedMove` are the three operations on the heap of
which every step is made. That an allocation goes to an empty variable is
`PcHolds`'s doing, that nobody changes a slot under a reader `PcMutex`'s.
`MutexesGivenBack` adds the converse (`GivenBack`): a mutex is held by the caller
in its section and by nobody else. So no way out of a capture, scan or reply keeps
one, and since no section waits for another there is no circle to wait in.

**Liveness.** Five leads-to properties are theorems, each from the fairness of its
module and one hypothesis about enabling:

| theorem | property | hypothesis | what counts down |
| --- | --- | --- | --- |
| `LinkLossEnds` | `LinkLossEndsFlight` | `[]TurnEnabled` | `TurnsLeft`, 3 to 0 |
| `StopEnds` | `StopRaisedEndsStream` | `[]OnlyBitsAwaited` | the places of the task up to the end |
| `LatchedRuns` | `LatchedStreamRuns` | `[]OnlyBitsAwaited` | unset, raised, latched, taken |
| `StopsTakeEffect` | `StopTakesEffect` | `[]OnlyBitsAwaited` | the same for the XIAO loop |
| `SubscriptionsSettle` | `SubscriptionSettles` | `[]OnlyBitsAwaited` | the same for the XIAO loop |

The prover treats ENABLED as an unknown. The hypotheses say of it what the guards
of the actions say: that a step of the task not waiting for an event bit
(`TaskWaits`), a callback that is due, a turn in flight, can be taken. They are
state predicates of `FlightMode`, `DemoCamLoop` and `XiaoCamLoop`; TLC evaluates
ENABLED, and has found them invariant on the instances of `flight_mode`,
`demo_loop` and `xiao_loop` (add them to a cfg as INVARIANT to repeat it). No
state is excluded by them; what they leave unproved is that reading of the guards.
Everything else - that the task's progress is not undone by another thread's
step, that each wait is for something that is owed - is proved.

Only model-checked, and what is proved beside it:

- `FramesFinish`, `HandshakesAnswered`: induction over the bytes left, whose step
  is `DebtIsPaid`; `RequestsServed`, `DepartureNoticed`: the same over the queue and
  the bytes received.
- `StopEndsFlight`: `StopEndsFlightSoon` bounds the turns by `LinkLimit + 3` from
  the escape key on; that turns go on is left.
- `NextIsServed`: `ServiceBounded` bounds the service of each client before.
- `RequestsEnd`: each caller needs each mutex in turn, strong fairness under a
  quantifier; `MutexesGivenBack` is its other half.

## Findings

1. `av_server_stall`. A capture that fails (`server.c:283-287`) consumes its
   request and ends the turn. With another request queued, `select()` is then
   entered with no timeout, no frame and nothing to write, and the queued request
   waits until the client sends something else. `PROTOCOL.md:79`: "Requests are
   served in the order they arrive."
2. `av_server_owed`. `s_handshakes_due` saturates at 255 (`server.c:213`): from
   there a handshake is accepted and never answered. The comment at
   `server.c:211-212` says that saturating is what keeps a client from being owed
   fewer answers than it asked for.
3. `demo_loop_lost_stop`. In the demo the task clears the stop bit after it made
   the stream active (`cam_loop.c:51-70`); a stop in between is lost and the
   stream runs on for a client that left. `cam_loop.h:20-22`: "as soon as
   possible".
4. `flight_mode_flips`. In the last stage of a flip the normal control runs; with
   the automatic take-off still ramping up, its low-thrust branch
   (`flight_control.cpp:994-996`) zeroes `Flip_counter`, and since the mode is
   still FLIP the flip starts over, with `Ahrs_reset_flag` still set so that the
   second one is not levelled. `flight_control.cpp:512` calls that stage the
   suppression of consecutive flips. It takes a flip that starts in manual
   throttle and switches to automatic during it, or one begun in the first 100 turns
   of the automatic take-off; the counter of the ramp then advances by one turn
   per flip.

Three more observations:

- A client of the plain port that does not read for 10 s gets a transfer that is
  cut short although it is still there (`tcp_server.c:58-63`); the comment at
  `tcp_server.c:38-39` says that happens only "when the peer went away
  mid-transfer". For the TLS port the same comment is right, and proved
  (`TlsShort`).
- The landing pulse of the sequence (`ctrl.c:84`) is a press like any other. If
  over-G or the user parked the vehicle before it is due, it arms it again;
  `UndisturbedSequenceLands` therefore speaks of a sequence nothing came into.
- A stop that was decided for one stream of the demo and raised late
  (`sensor-link-demo/main/cam_loop.c:180`) can end the stream latched next: the
  other half of finding 3. The model has the step (`SetBit`).

## Left out

- Start-up of every application (sockets, mDNS, driver configuration, task
  creation) runs once before the tasks exist.
- No keepalive: a client that vanishes without closing holds the server's only
  slot for ever. There is no mechanism to state a property about.
- `camera.c` and `mic.c` of `xiao-esp32s3-camera-stream` (start, stop within 5 s,
  exit of the task) are built and never called: the one call is commented out
  (`main.c:38`). What a model of them would turn on, which of the driver's calls
  block and whether it may be torn down under its user, is not in this repository.
- Of the registers of the StampFly's console that a user may set at any time,
  `connect` (an arbitrary count of lost packets) and the sticks other than `arm`.
- Two clients of the web page: a capture of one between `/capture` and `/image.jpg`
  of the other gives that one a pair that does not match. Nothing promises it.
- Control laws, filters, attitude estimation, detectors: floating point.
- `Range0flag` lowers the automatic thrust by 0.02 and would lengthen the ramp by
  20 turns; battery and telemetry have no effect on the mode.
- The console's line editor and registers, the LED examples, vendored code. The
  vendored code (FastLED, the sensor drivers of the StampFly, a Madgwick filter) is
  almost all of the repository's lines, so what the models cover is a small share of
  these and most of the control flow of the repository's own programs.

## Plan

Every safety invariant, action property and refinement that a run checks is proved,
and five of the twelve liveness properties from the reading of the guards above.
What could be added, in this order:

1. The other sticks and `connect` among the registers of the console, so that
   `FlightMode`'s inputs come from the console alone.
2. `camera.c` and `mic.c` of the XIAO sensor link, once they are called again.
