# Formal models of ankerctl

ankerctl is a long-running server between a user's browser or slicer and an
AnkerMake M5 printer. It talks to the printer over two links (MQTT through a
broker, and PPPP, a UDP peer-to-peer protocol on the LAN), keeps a set of
background services running, and records what was printed in SQLite. These
modules model the parts in which several goroutines, two machines or a lossy
network meet. TLC checks them on small instances, and TLAPS proves every safety
property that a passing run checks, for every instance.

## 1. The system

| component | state it keeps | operations | what makes it correct |
|---|---|---|---|
| Worker lifecycle (`service/worker.go`) | run state, wanted, contexts, holdoff | Start, Stop, Restart, Shutdown; one loop goroutine calling four hooks | hooks in order, nothing leaked, retried while wanted, ends on Shutdown |
| Service manager (`service/manager.go`) | registration order, reference counts | Borrow, Return, RestartAll, Shutdown | counts exact, a service runs exactly while someone needs it |
| PPPP channel (`pppp/protocol/channel.go`, `cyclic.go`) | backlog, window, 16-bit counters, reorder queue | Write, Poll, RXAck, RXDrw, ResetTx, Close | a reliable byte stream over UDP |
| PPPP client (`pppp/client`) | handshake state, eight channels | Run, Close, Healthy | a closed or silent session ends |
| PPPP service (`service/pppp.go`) | the client, handler lists | Upload, light, live video, drain, probe | an upload that reports success was accepted, and prints once |
| File transfer (`service/filetransfer.go`) | queue of 8 | SendFile, WorkerRun | every caller gets an answer |
| MQTT queue (`service/mqttqueue.go`) | the print state machine, last values | one handler per message type | each print recorded once, under its name, and closed |
| Stored files (`service/mqttqueue_files.go`, `handler/files.go`) | taps, the pending start | list, preview, start | a tap takes what is of its kind; the pending mark is the latest start's |
| Z offset (`mqttqueue.go`, `handler/zoffset.go`) | last report, one wakeup | set, nudge, refresh | a success says where the printer is, a wakeup is not lost |
| Print history (`db/history.go`) | table `print_history` | RecordStart/Finish/Fail, SetArchiveInfo, deletion, pruning | one open row, final outcomes |
| Video queue (`service/videoqueue.go`) | enabled, profile, frames | WorkerStart against PPPP, stalls | video while it is wanted and no longer |
| MJPEG hub (`service/mjpeghub.go`, `handler/camera.go`) | the reader's buffer | cut pictures out of ffmpeg's pipe | pictures come out whole |
| Power saving (`power_saving.go`, `power_controller.go`) | printActive, idleSince, awakeUntil | events, 15 s evaluation, switch | never cuts the power of a known print |
| Print monitor (`print_monitor.go`) | streaks, a pending countdown | check, verdict, countdown, cancel | cuts only what the user is shown |
| Timelapse (`timelapse*.go`) | active capture, resume window, directories | start, finish, fail, recover | a directory found at a start is settled |
| Filament swap (`handler/filament_service.go`) | one record, its goroutines | start, confirm, cancel, two stages | stages end, and move their own swap on |
| Home Assistant (`homeassistant.go`) | merged state, two queues | update, publish, reconnect | the status shown is the last one |
| Notifications (`notifications.go`) | last state, last percent, count | tap, tell | a print's story in order |
| Configuration (`config/manager.go`, handlers) | one JSON file | Load, Save, Modify, login, import, logout | no lost update |
| Logging, alerts (`logging/ringbuffer.go`, `handler/printer_state.go`) | the last lines | append, poll | every line is read, or a gap is told |

How they interact: `main` registers the services with the manager; HTTP and
websocket handlers borrow and return them; services hold references to each
other (VideoQueue starts PPPPService, FileTransfer uploads through it, MqttQueue
forwards events to power saving, print monitor, timelapse, Home Assistant,
notifications and the websockets, and writes to the history database);
everything runs on its own goroutine and the only guards are each component's
own mutex, and channels that drop what does not fit.

Where the behaviour is hard: the loop of a worker acts on a copy of its state;
the manager calls a service after its unlock; the PPPP counters wrap; replies of
an upload carry no number; a stored-file reply names no request; the printer
never says that a print is over; several handlers write the same history rows;
a switch is decided, then asked for over the network. `PROJECT.json` lists each
hazard at its line, with the properties that cover it.

## 2. The modules

One module per component, one action per operation or step under a lock; a
goroutine that unlocks between two looks at shared state has a step for each.

### Services and their callers

- **WorkerContract, BaseWorker.** A variable for each field of the struct the
  loop decides on, and a program counter for the loop. Every API call is one
  step (it holds `w.mu` throughout). An iteration of `runLoop` is three:
  `LoopRead` copies state, wanted and holdoff (worker.go:253-259), one of the
  `Dispatch…` actions acts on the copy, and a hook may then be pending until it
  returns, so a call can fall between the copy and the action, and during any
  hook. `live` (WorkerStart succeeded and no WorkerStop since) and `asked` are
  history variables. `WorkerContract` is what a service's author may rely on,
  the order of the hooks; `ContractHolds` says that the loop refines it.
- **ServiceManager.** Borrow and Return are two steps each: the count under
  `m.mu`, then the Start or Stop it calls for (`call`, the call a client still
  owes). RestartAll and SetVideoEnabled owe calls likewise. A service is reduced
  to what those calls decide. Shutdown is the main goroutine's two passes, with
  the five-second wait of each join ending either way.
- **VideoStream.** Browser tabs, the switch on `/ws/ctrl`, the worker of the
  video queue, and the PPPP service it starts but never borrows, which an upload
  may stop under it. Of the frames only their number is kept.
- **TransferQueue.** The handlers that upload, the channel of requests, the
  worker, and RestartAll: a request nobody waits for any more stays in the
  channel, across a stop of the worker too.

### The link to the printer

- **CyclicU16, ReliableStream, DrwChannel.** Both ends of one logical channel
  and the UDP packets between them, sets from which a packet may be lost, or
  delivered and kept (so delivered again), in any order. Counters have `Mod`
  values, the code's 65536, and compare as `cyclic.go` does. `ReliableStream` is
  the abstract specification: chunks come out in order, each once. Time is left
  out: any chunk in flight may be due at a poll.
- **PppSession.** One client with its Run goroutine, the service that opens,
  watches and closes it, the probe beside it, and a neighbour's printer on the
  LAN. Run and its owner look at the shared state in one step and act in a later
  one. Time is the two deadlines: connecting, and 15 s of silence.
- **FileUpload.** One uploader, the printer, and the session between them as two
  sequences, justified by `DrwChannel`: a session is a reliable stream each way
  until it ends. Frames are BEGIN, the DATA blocks and END. The reply tap is a
  channel of one slot that drops a reply when it is full. A session may end at
  any time; the printer may refuse any frame and be as late as it likes. A frame
  that has arrived is `sent` until the writer has looked: it looks at `closed`
  before it looks at the acknowledgement, so it may hear of a closed channel
  although the printer has handled the frame. `late` and `behind` note that a
  wait for a reply was given up, in this session or this attempt, `cut` that a
  session ended while an END was `sent`.
- **StoredFiles.** Requests that ask something over MQTT and take from a tap
  what is of the kind they wait for: lists, previews, starts and the dumps of
  the printer's state. The queue's handler runs after the taps have seen a
  message. It ignores a "printing" under the latch of a completed print, as the
  state machine of `MqttQueue` does. There is one mark of a pending start for
  all; `shield` is a history variable: the start that set it last, while it
  waits.
- **ZOffset.** The printer takes relative moves only; a request computes its
  move from the last report and is woken by one channel of capacity 1 that all
  requests share. `alone` and `sole` are history: since a move began, did
  nothing else move the printer, and was there no other request, a refresh
  included?

### What a print leaves behind

- **PrintHistory, MqttQueue.** `PrintHistory` is the table, one transaction per
  operation. `MqttQueue` extends it with the print state machine. Reports are
  handled one after the other; a handler decides under `q.mu` and calls the
  database after the unlock, so those calls wait in `todo` and calls of the HTTP
  handlers may come between. The printer reports each change, in any order among
  name, state and progress, and repeats itself; when a print starts it may for a
  while report the last one's progress (mqttqueue.go:616). At the end of a print
  it keeps saying "printing" at 100 %, which the code's completion latch is for.
  Progress is on the printer's own scale and normalised as the code does it,
  twice.
- **Timelapse.** The worker's commands, one active and one resumable capture,
  and directories on disk that outlive the process, with crashes and restarts.
- **Notifications.** The tap of the queue, a channel that drops, and the notice
  on its way, by Apprise or by Home Assistant, while which events wait.

### The house, the user and the file

- **PowerSaving, PrintMonitor.** The two workers that may cut the printer's
  power. Both hear of the print through bounded queues, decide, and reach the
  socket over the network in a later step, which may fail. Countdowns of the
  monitor sleep and are told apart by a generation. The power cycle of a stuck
  upload and the user's own switch are steps of `PowerSaving`.
- **HomeAssistant.** The bridge's worker and the MQTT library's own goroutine,
  which publish the same retained state in any order.
- **FilamentSwap.** The handlers look at the one record of a swap and let its
  lock go between two looks; each stage is a goroutine; a token says whose swap
  an update is about.
- **ConfigStore.** The file and its lock, every handler that saves, login,
  import, logout, the address search; a write truncates the file first, so a
  crash may leave it torn. It also has the server's copy of the settings and the
  printer index the process started with.
- **LogWindow, RingBuffer, MjpegStream.** `LogWindow` is the window on an
  endless log and the browser that polls it, which the alerts implement
  literally; `RingBuffer`, the console's log, implements the same window in a
  circle of slots (`LogIsWhole`). `MjpegStream` is ffmpeg, its pipe, the reader
  that cuts at the markers and the channel to the browser.

### Compositions

`MqttQueue` is composed with `PrintHistory` step by step, which is also a
refinement: it changes the table by that module's operations only. The other
interfaces are contracts: `FileUpload` uses the stream that `DrwChannel`
provides, `VideoStream` and `TransferQueue` the loop of `BaseWorker` and the
two-step calls of `ServiceManager`.

`MCLive`, `MCStreams`, `MCUpload`, `MCHome`, `MCTasks` and `MCWeb` each
hold parts that share nothing and are checked side by side: a behaviour is one
of a single part (`part` is chosen in the initial state), the variables of the
others stay as they are, and the number of states is a sum, not a product.
Since only one part ever moves, fairness of a disjunction with one action of
each part is fairness of each of them. The proofs are about the parts' own
specifications.

## 3. What is checked

| run | properties | what it shows |
|---|---|---|
| `live` | StateIsHonest, StoppedIsDark, ContractHolds, ShutdownEndsLoop, WantedIsRetried, VideoFlows, BlockedReturns, EverythingArrives | the worker's hooks in order, its state honest, its loop ends on Shutdown and tries again while wanted; video flows while it is wanted and leaves no stream behind; blocked writers return and what is written arrives |
| `streams` | IsReliableStream, FramesAreWhole, LatestStartIsPending, NoticesMakeSense, LogIsWhole | the channel is a reliable stream; pictures come out whole; of two stored-file starts the latest keeps the mark; notices tell a print's story; log readers miss nothing unnoticed |
| `upload` | PrintsOnce, SuccessIsTrue, NeverPrintsPart, UploadReturns, WaitersAreAnswered | one print per upload, of the whole file; a success is one; uploads return and every caller gets an answer |
| `mqtt_queue` | StartIsNeverLost, OneRowPerPrint, RowsAreOwn, PrintIsSeen, EndIsSeen | prints recorded and closed, once more only for a report that misread, under their own name where nothing crossed them |
| `home` | CutsWhatIsShown, KnownPrintKeepsPower, ChecksGoOn, IdleSocketGoesOff, StatusIsShown | power is cut only as shown, never from a known print; checks go on; an idle socket goes off; Home Assistant shows the last status |
| `tasks` | AwaitMeansUnloaded, LeftoversSettle, StageEnds, CloseReturns, SilentSessionEnds | swaps do not move each other on and their stages end; a capture's directory found at a start is removed or captures again; sessions end when closed or silent |
| `web` | SerialUseIsCounted, ShutdownLeavesNone, OneOpen, OutcomeIsFinal, SettingsSurvive, LogoutIsFinal, AnswerIsTrue | counts decide what runs; nothing left after Shutdown; one open row, final outcomes; no lost update of the settings, no login after a logout; a Z-offset move that succeeds is where it says, and the only request loses no wakeup |

Five runs each exhibit a behaviour that differs from what a comment or the page
says:

| run | property | what happens |
|---|---|---|
| `manager_borrow` | BorrowedIsWanted | the Stop of a Return overtakes the Start of the next Borrow: a borrowed service is stopped |
| `upload_late` | SuccessIsDelivery | after a reply timeout each frame takes the answer to the one before; a refused END is reported as success |
| `mqtt_upload` | BackfillIsOwn | uploading another file marks the row of the running print interrupted |
| `config_switch` | ServicesFollowSwitch | the services keep the printer index the process started with |
| `stored_pending` | PendingIsInFlight | of two stored-file starts past the guard, the second takes the mark over and fails: nothing is pending while the first one's command is under way |

Several properties therefore name what they leave out:

- `SuccessIsTrue` and `NeverPrintsPart`: unless a wait for a reply was given up.
- `PrintsOnce`: unless a session ended between the arrival of the END and the
  writer's look at its acknowledgement (`cut`); the upload is then repeated, and
  the file printed twice.
- `OneRowPerPrint`: a print has one row, and one more for each report that read
  as complete before its end (`misread`): the last print's 100 % repeated at the
  start of the next, or one percent on the documented scale of hundredths
  (mqttqueue.go:1326). The code closes the row on such a report and records the
  print again below 100. A reset of the queue may add others.
- `RowsAreOwn`: not for a print during which the queue was reset, another file
  was uploaded or a stored file was started, nor for one whose state is reported
  before its name, which the code records under the previous one.
- `LatestStartIsPending`: of the start that set the mark last; an earlier start
  of another file has lost it, and `stored_pending` shows what comes of that.
- `AnswerIsTrue`: of a move while nothing else moves the printer; that a failed
  one lost no wakeup only when there is no other request, since a refresh drains
  the channel and may take the token (mqttqueue.go:868, 890).
- `LeftoversSettle`: of the directories found at a start. Their frames may be
  removed without a video (timelapse.go:357, 505), and a start over an active
  capture forgets a directory until the next process start.
- `SerialUseIsCounted`: while calls on the service do not overlap.
- `ChecksGoOn`: of a monitor enabled from the beginning; `IdleSocketGoesOff`: of
  an idle printer that power saving has been told of.

### Bounds

- `BaseWorker` has no bound. `VideoStream` has one tab, which comes and goes
  again, the user's switch beside it, and a frame channel of one; that a stopped
  worker leaves no stream is proved for any number of tabs.
- `DrwChannel`: `Mod` 8 with a wrap limit and a window of 2 chunks, writes of
  one and two chunks, at most `MaxSpan` 2 unacknowledged, a packet at most
  `MaxAge` 2 chunks late, 10 chunks, so both counters wrap. In the code `Mod` is
  65536, the wrap limit 256 and the window 64; `MaxSpan` counts what is written
  and not acknowledged in order, which for an upload, whose frame waits for its
  acknowledgement, is 33 chunks. `MaxAge` is the premise of every
  protocol with wrapping counters. `MaxOvertake` bounds what other writers send
  past a blocked caller; in the code it would take 32768 chunks in 250 ms. The
  liveness part in `live` has 4 chunks and `MaxAge` 1: it is about
  retransmission, not about the wrap.
- `FileUpload`: two DATA blocks, two uploads in a row, two drops, one retry and
  one power cycle (3 and 3 in the code), the code's own two repeats of a frame.
  `TransferQueue`: two callers, a channel of one, two restarts, which is what it
  takes to leave a request behind and serve it after a restart.
- `MqttQueue`: three names of which one is a placeholder, two prints, one lost
  connection, one upload or stored file, a table of two rows (500 in the code),
  five insertions, which no behaviour of these bounds exceeds, progress 50, 100,
  10000 in hundredths: the code reads 50 as 50 %, 100 (which is 1 %) as complete
  and 10000 as the end, so it also covers what percents would do. `PrintHistory`
  alone also has tasks and two archives.
- `StoredFiles`: two requests, two storages, one unanswered command.
  `ZOffset`: heights 0 and 1, nudges by one, one move and two reports under way.
- `MjpegStream`: a body that begins like an end marker and one that holds
  `d8 d9 ff 00`, longer than a read (4) and than the buffer (5), so markers are
  cut by reads and buffers overflow; three pictures. `RingBuffer`: three slots
  and eight lines, so the circle turns twice, and limits below and above it (the
  console asks for at most 1000 of 2000 lines, the alerts for 100 of 100).
  `Notifications`: a channel of one, thirds of a print, at most two notices.
- `PppSession`: a neighbour, two datagrams under way. `HomeAssistant`: queues of
  one. `PowerSaving` and `PrintMonitor`: queues of two and one, two countdowns
  asleep at a time. `Timelapse`: two names, two directories. `FilamentSwap`: two
  requests, two swaps. `ServiceManager`: two services, one of them the video
  queue (the only one the code treats apart), two clients. `ConfigStore`: two
  requests, one account with two printers.

Requests, clients and storages are symmetric in `streams` and `web`, which check
no liveness. Deadlock is not checked where a bound ends every behaviour.

### Fairness

Weak fairness of a goroutine's own steps says that it is scheduled and that its
calls return, which they do because each has a timeout. Strong fairness is used
where a step is disabled and enabled again: a network that does not lose every
copy of one thing, and a `select` that does not overlook a ready case for ever.
No user has to call anything, and the printer may refuse what it likes.

- `BaseWorker`: the loop runs, WorkerStart and WorkerStop return, WorkerRun
  returns once its context is cancelled, deadlines pass. `VideoStream`: the same
  in short, with the handlers of a tab; a session comes up when nothing disturbs
  it and a live printer sends frames; registering a handler and the stall timer
  are strong.
- `DrwChannel`: the client polls (every 25 ms), the network does not lose for
  ever every copy of the oldest chunk or of its acknowledgement (strong), a
  blocked writer wakes every 250 ms.
- `PppSession`: Run goes on, silence grows old; its owner gets the lock, and Run
  sees that its context has ended (strong).
- `FileUpload`: each wait of an upload has a deadline. `TransferQueue`: the
  worker's loop goes on, and whoever is answered takes the answer.
- `MqttQueue`: a client connects in the end and the database answers; the state
  is queried every few seconds, so state, name and progress reports keep coming,
  and the last print's progress is reported "briefly" only. Weak fairness is
  enough.
- `PowerSaving`, `PrintMonitor`: timers tick and queues are read (strong, one
  `select` serves both), calls to the socket and to the model return.
- `HomeAssistant`: the worker and the library's goroutine go on, the printer
  reports its temperatures again and again; updates are read (strong). That the
  connection comes back is the property's premise.
- `Timelapse`: WorkerStart returns, rendering ends; commands are read and the
  resume window closes (strong). `FilamentSwap`: handlers and stages go on.

## 4. What is proved

Each theorem holds for every value of the constants that satisfies the named
assumptions, and uses no fairness.

**The worker loop** (`Live_proofs`). HookOrder is not inductive: hooks are called
on a copy made before an unlock. `CopyIsRight` says that a copy that shows
Running was made of a live worker, `CopyIsFresh` that of all calls only Restart
changes what was copied, and that it leaves its mark. From this
`StateIsHonestHolds`, `HookOrderHolds`, `NoHotRetryHolds` and
`ImplementsContract`: every step of the loop is one step of the contract or none.
**Live video**: `StoppedIsDarkHolds`, because only the worker starts a stream,
and only in a step before it runs.

**The channel** (`DrwChannel_proofs`). The invariant ties each wrapped counter to
the unwrapped one it stands for and places every packet under way in the window
around it; within that window `Greater` orders as the numbers do, which rests on
`MaxSpan` and `MaxAge` being at most the wrap limit and four wrap limits fitting
into the counter. That bound is tight: with a wider window `Greater` errs. From
it `ImplementsReliableStream`, a refinement: whatever is lost, repeated and
reordered, chunks come out in order, each once.

**The upload** (`FileUpload_proofs`). While no wait was given up there is one
thing under way at a time: the frame, its reply, or the reply in the tap
(`OneUnderWay`, `InStep`); a session with nothing given up starts the next upload
with nothing under way (`Clean`). From it `SuccessIsTrueHolds`,
`NeverPrintsPartHolds`. `PrintsOnceHolds` rests on the END being the last frame:
once it has arrived, an upload that is not cut waits for its reply, and ends.

**The history and its writer** (`MqttQueue_proofs`). One lemma per operation says
what it does to a row: the row descends from one that was there and keeps what
may not change, or is the new one, in a table whose open rows were closed. Then
`OneOpenHolds`, `OutcomeIsFinalHolds`, `ArchiveIsKeptHolds`; and they hold of the
queue by `QueueImplementsHistory`. `StartIsNeverLostHolds`,
`OneRowPerPrintHolds` and `RowsAreOwnHolds` rest on what the printer still owes
(a print that is over is active only while the report that says so is under
way) and on each pending call being about the print of its report. A start is
recorded when the print becomes active: at first, and again after each report
that misread (`Counted`).

**Power** (`Home_proofs`). `CutsWhatIsShownHolds`: a countdown of the present
generation is the one the user sees, since whatever clears the pending power-off
raises the generation. `KnownPrintKeepsPowerHolds`: between decision and switch
the worker takes no event, and no report that a print is over comes after one of
the next (`EndsComeBefore`, `HeardIsKnown`).

**Filament** (`FilamentSwap_proofs`). `AwaitMeansUnloadedHolds`: two swaps may
pass the conflict check, and the loser's goroutine goes on; its updates carry
its own token.

**The web server** (`Web_proofs`). `RefsExactHolds` by the cardinality of the set
of holders. `SerialUseIsCountedHolds` needs what the one open call on a service
is: a start owed means that the count is above zero, a stop that it is zero.
`ShutdownLeavesNoneHolds`: the loops that the walk has passed are gone, for any
order of registration. `SettingsSurviveHolds` and `LogoutIsFinalHolds`: nobody
writes between a request's read and its write, and who holds the lock is the
writer. `AnswerIsTrueHolds`: a move that is alone knows where the printer is
before it and after it, and so what each report under way may say (`Knows`),
whoever refreshes meanwhile; the only request's token is there or on its way once
the reading is its goal (`Wakes`).

**What is passed on** (`Streams_proofs`). `NoticesMakeSenseHolds`: what the
service remembers runs ahead of what the user was told by the notice on its way,
and by that one only. `LatestStartIsPendingHolds`: whoever sets the mark also takes
the shield, and a failing start clears the mark of its own file only. `LogIsWholeHolds`: the
circle read from its head is the window, a refinement, and the window's numbers
follow one another, so an answer that is not marked truncated holds all since the
last. `FramesAreWholeHolds`: the bytes read and not yet cut out are a stretch of
the pictures laid end to end; a marker in that stretch is the beginning or the
end of one of them; so each cut is a picture, the next one that was not left
out, and only one larger than the buffer is left out.

Typing is proved for the channel, the upload, the queue, the monitor and the
swap (`TypeCorrect`), and for the others as part of their invariants.

### Assumptions

- `CyclicAssumption`, `DrwAssumption`: the counter's width is even, windows and
  delays are at most the wrap limit, and four wrap limits fit (256 and 65536 in
  `cyclic.go`; the window is 64).
- `HistoryAssumption`: "no task" and "no archive" are not tasks or archives;
  the table keeps at least one row. `MqttAssumption`: the unnamed file is a
  placeholder, and a print's last report says that it is complete (100, or 10000
  and more); what the others say, on either scale, is left open.
- `PictureAssumption`: within a picture's data `ff` stands before `00` only, as
  JPEG has it (restart markers, which the parser would pass over too, are left
  out). `LogAssumption`, `NoticesAssumption`, `UploadAssumption`,
  `SwapAssumption`, `OffsetAssumption`, `MonitorAssumption`: numbers are
  numbers, and a queue or a ring holds something.
- `ClientsAssumption`: finitely many goroutines. `OrderAssumption`: every service
  was registered. `VideoAssumption`, `RequestAssumption`, `RequestsAssumption`:
  the video queue is a service, and "nobody" is not a request.

### Only model-checked

Every liveness property, because fairness is out of the prover's reach:
ShutdownEndsLoop, WantedIsRetried, VideoFlows, BlockedReturns, EverythingArrives,
UploadReturns, WaitersAreAnswered, PrintIsSeen, EndIsSeen, CloseReturns,
SilentSessionEnds, StatusIsShown, ChecksGoOn, IdleSocketGoesOff, LeftoversSettle,
StageEnds. `PppSession`, `HomeAssistant`, `Timelapse` and `TransferQueue` have
liveness properties only and so no theorem. The five violations are
counterexamples of TLC's.

## 5. What is not modelled

`PROJECT.json` lists every component with what is left out. Left out for good:
framing, encryption and G-code processing (sequential functions of bytes), cloud
requests, the archive's files, access control of single requests, the browser
code. Left out within modelled parts: the subscriber lists of Tap and Notify, the
`Wire` between a channel and its reader, the light, the choice of ffmpeg
arguments, the texts of notices, values that are only shown.

Hazards without a property, each in `PROJECT.json`:

- worker.go:308: a Stop between the copy and `newRunContext` is lost until the
  next call; what the loop owes then is nowhere stated.
- history.go:230: two reprints may both pass the idle check.
- videoqueue.go:204: a switch-off that finds the video queue in Starting leaves
  it running until the next call that stops it; `VideoStream` has it, and what is
  owed then is nowhere stated.
- client.go:476: a neighbour's answer moves the remote address.

## 6. What is left

1. Safety properties, and theorems, for the modules that have liveness only:
   in `PppSession` one client with one open socket at a time, in `Timelapse`
   that active and resumable capture are never the same directory, in
   `TransferQueue` that no answer goes to another caller.
2. The steps between modules that are contracts now: `VideoStream` and
   `TransferQueue` against `WorkerContract`, `FileUpload`'s session against
   `ReliableStream`.
3. The `Wire` behind a channel, and the subscriber lists of Tap and Notify.
