# A TLA+ model of nicett6

`nicett6` talks to a Nice TT6 control unit over a serial line, and comes with an
emulator of that unit. Both halves are asyncio programs: one thread, many coroutines,
and every `await` is a place where something else may run. This directory holds

- TLA+ modules, each a translation of one component of `src/nicett6`, or of several
  that interact;
- TLC configurations that check them on small instances;
- theorems about seven of the components, with proofs that `tlapm` checks;
- `PROJECT.json`: which definition models which lines, what every run checks, a
  mutation of the model that breaks each property, findings, hazards and theorems.

Contents: [1 inventory](#1-inventory-of-the-system) ·
[2 modules](#2-modules-and-how-they-correspond-to-the-code) ·
[3 runs](#3-runs-and-what-they-show) · [4 findings](#4-where-the-code-does-not-do-what-it-says) ·
[5 fairness](#5-fairness) · [6 proofs](#6-what-is-proved) ·
[7 limits](#7-what-is-only-model-checked-and-what-is-not-modelled) · [8 plan](#8-plan)

## 1 Inventory of the system

```
   user code, Home Assistant                       emulator process
 +-----------------------------+         +-----------------------------------------+
 | CIWHelper, position logger  |         | config, main, ServerController          |
 |     | observe               |         |     | covers                            |
 | CoverManager                |         | Controller, handle_messages             |
 |  message_tracker            |         |  one listener + one task per line,      |
 |     |                       |         |  per connection                         |
 | TT6Cover -> Cover           |         |     |                                   |
 |     |        PostMovement-  |         |  LineHandler      WriterManager         |
 |     |        Notifier       |         |     |               ^ write_all         |
 |  TT6Writer   TT6Reader      |         |  DeviceManager   WebPosManager          |
 |     |            ^          |         |     |               ^ update            |
 | SerialConnection / protocol |         |  TT6CoverEmulator (MoverManager)        |
 |  MessageBuffer, Decode      |         |                                         |
 +-------|------------|--------+         +-----------------------------------------+
         +------------+-------- lines of text ----------+
```

Everything shares one event loop per process; there is no thread and no persistent
state, so the hard behaviours are interleavings at awaits, cancellations, sleeps that
expire as they are cancelled, exceptions in one of several coroutines, and links that
come and go. Nothing survives a restart.

| component | its state | its operations | what makes it correct |
|---|---|---|---|
| **Cover, PostMovementNotifier** (`cover.py`, `utils.py`) | `_pos`, `_prev_pos`, `_prev_movement`, `idle_event`; the notifier's `_task` and `_task_lock` | `set_pos`, `moved`, `set_going_up/down`, `set_target_pos_hint`, `set_idle`, `stop_notifier`, `wait_idle`, `wait_for_motion_to_complete`; the task `_set_idle_after_delay` | one idle task at a time, none orphaned; never idle before a whole delay without movement; always idle in the end |
| **TT6CoverEmulator, MoverManager** (`emulator/cover_emulator.py`) | `pos`, `presets`, `next_mover_lock`, `current_mover_lock`, `stop_event` | absolute movement, step, preset (go, store, delete), stop; legs of a movement, each told to the observers | one movement at a time; a stop within one leg; ends exactly at the target; the last request wins |
| **SerialConnection, SerialProtocol, readers** (`serial.py`) | `_protocol`, each link's transport and `send_lock`, the `WeakSet` of readers, their queues and sentinels | `connect`, `disconnect`, `close`, `write`, `process_request`, `add_reader`, `remove_reader`, iteration; `connection_made`, `data_received`, `connection_lost` | lines on a link spaced by the delay; readers get every message once, in order, over reconnections, then the end; no link left behind |
| **Controller** (`emulator/controller/*`) | the connections, their listener and pending handlers, the set of writers, `web_on`, the server | accept, read a line, start a task for it, end of input, QUIT, a handler that fails, broadcast of positions, the end of the process | writers are the open connections'; no command cut off; a broadcast reaches every writer (it does not: section 4) |
| **CoverManager** (`cover_manager.py`) | connection, writer, the tracker's reader, the dict of covers | `open`, `close`, `reconnect`, `add_cover`, `remove_covers`, `message_tracker` | no message missed; no cover without connection; removed covers leave nothing behind; the tracker ends |
| **Protocol codec** (`encode.py`, `decode.py`, `line_handler.py`, `command_code.py`) | none | encode a command, read it, word a reply, decode it | understood as meant; every reply decodes for the right cover; roundings agree |
| **Client and controller in dialogue** (`tt6_cover.py`, `tt6_connection.py`, `line_handler.py`, `web_pos_manager.py`) | lines under way; what the client shows | commands, acknowledgements, reports of legs | the client shows what was reported, and not the wrong direction |
| **Client, line and cover in time** (the same, with the intervals of `cover.py`, `movement_timing_logger.py`, `example3.py`) | the device's movement, messages and their age, the client's clocks, what the user waits for | a command and a wait for it, commands of others | a movement is shown as long as it lasts; a wait covers it and returns |
| **Observers, CIW geometry, position logger** (`utils.py`, `ciw_helper.py`, `image_def.py`, `ciw_position_logger.py`) | the observers of each cover, who is being told | `attach`, `detach`, `notify_observers`, `start_logging`, `stop_logging`; image height, aspect ratio and what they imply | who stays attached knows; what is logged is current; the mask shows the ratio that was asked for |
| **MessageBuffer** (`buffer.py`) | the rest of the last chunk | `append_chunk` | the cutting into chunks does not matter |
| **Emulator configuration, device registry, entry point** (`emulator/config.py`, `main.py`, `server_controller.py`, `device_manager.py`) | the covers to serve | read the configuration and `-i`, construct covers, register them, look one up | what is served is what was configured, or nothing is |
| Example scripts | | as above | their waits and the order of their calls: see `Motion` |
| `open()`, serial parameters, choice of the port | none | | configuration |
| `ttbus_device.py`, `consts.py` | none | | values |

How they interact. A chunk of bytes goes from the transport to `MessageBuffer`, is
decoded and put on every reader's queue (a callback, no await). `message_tracker`
takes messages from its reader's queue and calls the `TT6Cover` of the address, which
calls `Cover`; that awaits the notifier's lock and its observers, so the tracker may be
anywhere in there while users call `remove_covers()`, `close()` or move the cover.
Writers meet in `write()` at the link's `send_lock`. On the other side each line is
handled by a task of its own; tasks that move a cover meet in `MoverManager`, whose
mover awaits `WebPosManager.update()` after each leg, which awaits a `drain()` for each
client in turn.

The hazards that follow from this are listed in `PROJECT.json`, each at the line where
it bites, with the properties that would catch it or the reason why none does.

## 2 Modules and how they correspond to the code

Conventions. An action is what one coroutine, callback or task does between two
suspensions; `pc[c]` (or a task's state) says at which `await` it is suspended. An
`await` that cannot suspend is no boundary. Operators keep the source's names where
TLA+ allows it. A definition `X_Something` marked *Mutant* is a plausible bug in `X`;
nothing uses it, it is there to show that a property depends on what `X` does.

- **`AsyncioLock`** (external: CPython's `asyncio.Lock`). A record of owner and FIFO of
  waiters, with what the callers can observe: a newcomer does not overtake a waiter,
  `release()` only wakes the first waiter, nobody holds the lock until it has run, and a
  cancelled waiter leaves the queue. Used by the next three.
- **`Cover`**. Callers are the coroutines that use a cover (the tracker, the user's).
  `Notifier(c, o)` is `async with self._task_lock` in `moved()` and `cancel_task()`;
  `UnderLock`, `CancelAndJoin`, `FinishOperation` are `_cancel_task()` and what follows;
  `Task(t)` is `_set_idle_after_delay()`. Time is counted in ticks and passes only when
  nothing is ready to run (`Quiescent`), as in the event loop. `TaskEnds` and
  `ObserversRaise` let observers raise. A caller cancelled while it waits for the task it
  has cancelled goes on, because `except CancelledError: pass` takes its cancellation for
  the task's. `stopped` is history: the last operation on the notifier was a stop.
- **`CoverEmulator`** and the abstract **`Motor`**. A request waits for `nextLock`, sets
  `stopEvent`, waits for `currentLock`, clears the event and moves leg by leg
  (`BecomeNext`, `BecomeMover`, `Expire`, `MoveLeg`, `LegNotified`, `Halt`). `Expire` is a
  step of its own: `wait_for()`'s timer may fire just before the event is set. `Motor` says
  what the class promises: one target or none, movement towards it only, never past it.
  The refinement maps its `target` to the goal of the owner of `currentLock`.
- **`SerialConnection`**. A *link* is one `SerialProtocol` with its transport. Messages are
  numbered in the order in which they are decoded, so a reader's queue is a sequence of
  numbers with 0 as the sentinel. `DataReceived(p, n)` hands n messages on; the chunk may
  end there or the next line may be refused, whose exception loses the rest of it.
  `ConnectsCancelled` allows `connect()` to be cancelled, which leaks a link.
- **`StartUp`**. Nothing in the emulator's start suspends, so it is a function of the
  configuration file and the arguments: `ItemOf` (the last item of a name, `LastNamed`),
  `ArgumentsOK`, `InitialPos`, `CoverOK` (the constructor's division and `check_pos()`),
  `DistinctAddresses`, and `Devices`, what is registered when the server starts.
  `Controller` extends it.
- **`Controller`**. The process from its configuration to its end. `Start` is
  `make_tt6controller()` and `start_server()`, or the error that ends the process; `Quit`
  and `Stop` are `stop_server()` and the end of `main()`, which cancels every task that is
  left. A handler is the task of one line. A movement is abstracted to its legs,
  each followed by a broadcast; `HandleLine`, `EndOfInput`, `Fail`, `Continue` are the loop
  of `handle_messages()`; `WriteNext` is one turn of `write_all()`, with the
  `RuntimeError` of a set that changes while it is iterated and, with `DrainRaises`, the
  `OSError`s other than `ConnectionResetError` that `WriterWrapper` lets through.
- **`CoverManager`**. A connection is abstracted to the tracker's reader (a queue with a
  sentinel) and whether its link is open, a cover to whether its notifier has a task, live
  or failed; `Arm` is the moment at which `moved()` starts that task. An observer may raise in
  the task (`SetIdle`); from then on `moved()` raises in the tracker and `stop_notifier()` in
  whoever removes the covers, because `_cancel_task()` awaits the failed task again. `Proceed`
  is one turn of `remove_covers()` up to the next notifier that makes it wait or that raises;
  `RemovalRaises` is the end of the call by an exception, from there or from a dict that has
  changed. A task that is cancelled is taken not to fail: that an observer answers its
  cancellation with another exception is left out. `Reconnect` and
  `Reconnected` are `reconnect()`, which may find that the manager has been closed
  meanwhile (`orphaned`). `dict`, `visited` and `stale` are what a removal iterates over:
  the dict that it began with, even if another removal has replaced it. `missed` is
  history. A manager is opened again only after the tracker of the session before has
  ended, as in the README's example.
- **`LineCodec`**. Lines as first word, mark and words of digits, because the widths of
  numbers matter: `HexText` is a byte in one digit or two, `PctText` a position in four;
  `Encode`, `Read`, `Reply`, `Decode` and the two conversions of positions, whose rounding
  is Python's, half to even. `IsCommand` says what `TT6Writer`'s methods can be called with.
- **`Dialogue`** composes `LineCodec` with an abstract controller and cover on one side,
  and the part of `TT6Cover` and `Cover` that keeps position and direction on the other.
  Lines keep their order and none is lost (the queues of `SerialConnection` and
  `Controller`); requests become the mover in the order in which they were read (what
  `LastRequestWins` says of `CoverEmulator`). `told`, `sure`, `underWay`, `asked`, `calm`
  are history.
- **`Motion`** composes the device, the line, `Cover` and a user **in time**. Ticks pass
  when nothing is due. `Obey` is a command at the device, this client's or another's;
  `Leg` the end of a leg with its report; `Handled` is `handle_response_message()` down to
  `moved()`; `Send`, `Written`, `Look` are a command and one of the two waits the examples
  use: `wait_for_motion_to_complete()` on `is_moving`, and the timing logger's on the time
  of the last report. `TimingAssumption` names what the intervals have to satisfy; the
  code's (0.05 s, 0.2 s, 2.7 s, 2.75 s, 5 s, with legs of 1.25 s) do. `untold` is history:
  a step has moved the cover, and no report of where it is has reached the client since.
- **`Observers`**. `Move` is `set_pos()` or `moved()` up to the notifier, for which it waits
  (stage `"arriving"`); `Moved` and `SetCoverIdle` are the two callers' way into
  `notify_observers()`, `UpdateReturns` one turn of its loop; loggers' `update()` do not
  suspend and do not raise, watchers' may do both. `UpdateRaises` ends the loop: whoever
  comes after the one that raised is not told. `Cancelled` is `stop_notifier()`, which cancels
  the task that tells the observers, or the cancellation of who has called `moved()`; nobody
  tells the rest. A movement cancels that task as well, but then tells them all
  (`IdleCancelled`). A task that has failed raises in every later `moved()`
  (`MovedRaises`). All that ends a telling early is `CutShort`, which takes those that were
  not told from `due`. When the task sleeps and wakes is `Cover`'s; here it may call
  `set_idle()` whenever no other one does. `Change` is `attach()` and `detach()`, by
  watchers or by a position logger that starts or stops; a teller that finds a set of
  another size raises. `knows` and `due` are history.
  `ImageHeight`, `AspectRatio` and `ImpliedImageHeight` are the geometry of a screen and
  its mask, over whole numbers, ratios as pairs.
- **`MessageBuffer`**. `AppendChunk` as in the code, over sequences of bytes; `Rounds(b)` is
  what the loop has after each of its rounds, and `Cut(b)` what it has in the end.
- **`CoverProofs`, `CoverEmulatorProofs`, `SerialConnectionProofs`, `CoverManagerProofs`,
  `ControllerProofs`, `DialogueProofs`, `MotionProofs`, `AsyncioLockProofs`**: theorems and
  lemmas. `SerialConnectionProofs` is also about `MessageBuffer`, which every link of the
  connection has, and `CoverManagerProofs` about `Observers`, those of the covers that a
  manager owns; the names of these two components carry theirs (`BufferSpec`,
  `ObserversSpec`), so that one module can extend both.
- **`MC...`**: what TLC instantiates; the values of the constants are in the `.cfg` files.

## 3 Runs and what they show

No run turns the deadlock check off. The models that may come to an end say when
(`Terminated`), and stutter there.

| run | configuration and bounds | distinct states |
|---|---|---|
| `cover` | 2 callers, 2 task identities, positions 0..1, threshold 2, delay 3 ticks, observers may raise; fairness | 290,784 |
| `emulator` | 3 requests, 1 preset, positions 0..3, steps of 1, legs of 2, observers may raise; fairness | 438,250 |
| `serial_calls` | 3 clients, one of which connects, 2 links, 1 reader, 1 message; fairness | 86,441 |
| `serial_readers` | 2 clients, both connect, connects may be cancelled, 2 links, 2 readers, chunks of 2, 3 messages; symmetry | 1,053,467 |
| `controller` | configurations of up to 2 items and 2 arguments; 2 connections, 2 handlers, movements of up to 2 legs, `drain()` may raise; fairness | 347,048 |
| `manager` | 2 users, 2 covers, 2 messages a session; fairness | 844,740 |
| `dialogue` | 1 cover with 3 commands out of 10, 4 with 1 command out of all, start at 0 or 400; or 7 bytes out of 3, end of line of 2, in chunks of up to 4 | 612,544 |
| `motion` | 3 positions, legs of 1 step, 2 ticks a step, latency 1, 3 commands; fairness | 1,250,782 |
| `observers` | 2 notifiers, 1 logger, 2 watchers, 3 positions, 3 movements, 2 changes of the observers, 2 images, 11 aspect ratios; symmetry | 4,176,072 |

- **`cover`** — `OneIdleTask`: however moves and stops interleave, no task is left
  behind that `_task` does not name, so none can later set a moving cover idle.
  `NotIdleEarly`: a task sets the cover idle only a whole delay after the last movement
  that *any* coroutine reported, although movements are noted before the lock is taken.
  `KeptUntilRaised`: a movement is never forgotten, unless an observer has raised in the
  task. `NotifierReturns`, `SettlesIdle`: no operation waits for ever, and the cover becomes
  idle. Two callers are enough for each pair of operations to meet at each await, with the
  task as third party; safety is also proved for any number (section 6).
- **`emulator`** — `OneMover`; `OnTrack`: what is left to move always adds up to the goal;
  `StopEventOwned`: the event never stays behind; `StopsWithinALeg`; `LastRequestWins`;
  `MovesAsAMotor` (the refinement); `EveryRequestEnds`. Three requests put one in each of
  the two queues' places while the third moves; a fourth only lengthens the first queue.
- **`serial_calls`** — `LinkInv` (`Spaced`): who is in the delay after a write holds the
  link's lock. It is about each link: after a reconnection the new link has a lock of its
  own, and its first line may follow the last on the old link at once. `LinkOwned`: an open
  link is the connection's or is being opened; that takes connects which do not overlap and
  are not cancelled, hence one connector. `CallsReturn`, `ReadersStop`.
- **`serial_readers`** — `ReaderInv`: what a reader has returned and will return
  is exactly the interval of messages from when it was added until it was stopped, then the
  sentinel, once (`ReaderStream`), and an iteration that has ended has returned everything
  (`EndedLast`). `RequestListens`: a request has its own reader, registered from before its
  line is written, until `close()` stops it.
- **`controller`** — `StartsAsConfigured`: each name once, as it is listed last, at the
  position asked for last, able to move, its presets in range; `ConnectionInv` (the
  writers are those of the open connections), `CommandsAwaited` (a connection closed in good order has no handler left),
  `ConnectionEnds` (end of input, failure or QUIT). The items are right and wrong ones: same
  name, same address, a step too short for the drop, positions and presets out of range.
- **`manager`** — `ManagerInv`: "All messages from this moment on are captured", over
  reconnections and a tracker that has failed, and a closed manager has no covers.
  `RemovedOrMissed`: a removed cover keeps a live task in the two cases of section 4 only.
  `ManagerEnds`: the tracker of a closed manager ends, and removals and `close()` end; they
  return, or raise and leave the manager open.
- **`dialogue`** — `LinesUnderstood` over every command, every hexadecimal position,
  positions of every number of digits, and addresses with one and two digits in either half;
  `HexPosSticks`: a cover sent to hexadecimal position h and arrived reads as h;
  `DialogueInv`: the client shows what it was told; `NeverWrongWay`: no reply or report lets
  the client show the direction opposite to the movement's, if it knew where the cover was.
  Three commands are enough for a movement, one that replaces it and one more on its way.
  In a behaviour of its own, since the bytes have no bearing on the dialogue, `BufferInv`: the
  messages that lines are decoded from do not depend on the chunks, and each ends with its
  only end of line. Chunks are shorter and longer than the end of line, and inputs hold up to
  three messages.
- **`motion`** — `MovementShown`: from its acknowledgement to its end a commanded movement
  has `is_moving` true and the cover not idle, whatever the messages' delays and others'
  commands. `WaitsCoverMovement`: both waits end after the movement. `MotionInv`: when all
  has come to rest the client knows where the cover is, wherever it was when the client
  came. `WaitsReturn`. A whole way takes two legs, so there is a gap between two
  reports. Two commands let one interrupt the other, of the same client or of another; with
  the third two steps, and then a movement to where the client still believes the cover to
  be, can follow each other. The latency is as long as the write's delay, and the threshold
  the least one `TimingAssumption` allows, so that the properties have no slack the code
  lacks.
- **`observers`** — `ObserverInv`: overlapping notifications leave no observer that stayed
  with an old position, although a cover has its new position while it still waits for its
  notifier. Left out, until they are told again, are the observers that had not been told
  when a telling was cut short: by an `update()` that raised, a set that changed, or a
  cancellation; who *had* been told is not. `LogIsCurrent`: the drops of both covers and the
  aspect ratio in the last line of a logger are the current ones, though each line is about
  one cover, with the same exception. `ImpliedIsShown`: a mask at the height implied by a
  sensible aspect ratio shows that ratio, except where the definition's caps apply; one image
  is wider than high, the other so narrow that the image of a wide ratio is too low to be
  seen, and the ratios are within, at and beyond what is sensible. Two notifiers are the
  tracker and one notifier's task; three movements let one notification begin and another end while a third goes on, and two
  changes let the task fail and the observers come and go after that. Notifiers and
  watchers are interchangeable, and there is no liveness: symmetry is sound.

The three other runs each show one violation; they are the findings.

## 4 Where the code does not do what it says

Three runs end in a counterexample that the code follows:

| run | what happens | what says otherwise |
|---|---|---|
| `serial_write_discard` | A write waits for `send_lock` while the connection is disconnected, then finds `_transport` to be `None`: `AttributeError`. | "writers will discard any messages sent" |
| `controller_broadcast` | A client connects or leaves while `write_all()` drains: "Set changed size during iteration", and the other clients miss the message. | "Outbound messages from the controller are sent to all writers" |
| `manager_close` | An observer raises in the task of a cover's notifier. `close()` awaits that task again, in `stop_notifier()`, and raises the same exception before it has removed the reader or closed the connection; so does each later `close()`, and the tracker never ends. | "Close the connection" (`README.md`, `close()`) and "Remove all covers and clean up" |

Other behaviours that the models have, as the code does, and that a property names as
its exception or that no run refutes. In the client:

- An observer raises in the notifier's task: `_cancel_task()` awaits that task again in each
  later `moved()`, which raises the same exception; the cover is never idle again
  (the exception in `KeptUntilRaised`). In `moved()` that ends the message tracker.
- An observer raises in `update()`, or `stop_notifier()` or a cancelled `moved()` ends a
  telling in the middle: the observers after it are not told of the position until the
  cover is set idle or moves again: only when it moves, if the notifier's task was
  cancelled, and never, if it has failed (the exceptions in `ObserverInv` and
  `LogIsCurrent`).
- `remove_covers()` stops a notifier while the tracker is in `moved()` of that cover: a new
  task starts and outlives the cover. And of two removals that overlap the second iterates
  over a dict that is no longer the manager's, so that a cover added in between is
  dropped with its task (the exceptions in `RemovedOrMissed`).
- `attach()` or `detach()` while observers are being told raises in the teller, which is the
  message tracker or the notifier's task (another exception in `ObserverInv`). If it was the
  task, every later movement of that cover raises before it tells anybody.
- Steps are not reported. Until a report of where they took the cover has arrived, an
  acknowledgement of a movement to the position the client still believes in shows no
  movement, and a wait returns at once; and even the first report of a movement may leave
  the client with the wrong direction until the next.
- `reconnect()` does not turn the web commands on again; a manager closed meanwhile leaves
  the link that it then opens to nobody.
- `is_connected` stays true after `connection_lost()`, until `disconnect()`. `close()` during
  a `connect()` is undone when the connect ends; a connect that is cancelled, or two that
  overlap, leave a link open that the connection does not know.
- `process_request()` raises `KeyError` if `close()` has removed its reader.

In the emulator:

- `_move_increment()` computes its target before the movement in progress stops: a step up
  asked for while the cover moves up may take it down again. A step at the end of the way,
  where the increment is zero, does not stop a movement in progress.
- QUIT cancels the commands of every client. From Python 3.12 on `wait_closed()` also waits
  for the connections, that of the QUIT among them; the models follow 3.11, which the tox
  configuration tests.

And outside the models: the README and `example2.py` call `process_request` on a writer; it
is a method of the connection. `wait_for_motion_to_complete()` has no "side effect of
notifying observers", it only looks. `wait_idle()` called right after a command, before its
acknowledgement has come, returns at once.

## 5 Fairness

Weak fairness only, and only of what the event loop or the operating system does by
itself; nothing makes a user, a client or the device do anything.

- `Cover`: a coroutine that was given the lock runs, one whose task is done resumes, tasks
  run and time passes; the observers of a task return or raise.
- `CoverEmulator`: a request that is under way goes on; sleeps end, observers return.
- `SerialConnection`: woken writers run, delays and time windows end, a port opens or
  fails, callbacks of the transport are called, and who holds a reader goes on iterating.
- `Controller`: the loop of a connection runs when something is ready for it, handlers
  go on, and a server that was closed comes to its end. This takes `drain()` to return: a
  client that never reads stops the covers it is told about, and the code has no timeout
  that would change that.
- `CoverManager`: a `stop_notifier()` that waits returns or raises (this is `NotifierReturns`
  of `Cover`), and the tracker goes on. That a port opens is not assumed.
- `Motion`: time passes, messages arrive within the latency, what is due happens. Nobody is
  made to send a command; `WaitsReturn` is about what happens once no more come.

`Observers`, `Dialogue` and `MessageBuffer` state no fairness and no liveness.

## 6 What is proved

For any number of callers, requests, tasks, clients, links, readers, users, covers,
connections and handlers, any positive step, any delay and any range of positions; for any
number of lines under way, any address, command and hexadecimal or other position; for all
intervals and latencies that satisfy `TimingAssumption`. Assumptions are the modules' named
`ASSUME`s (null values are not members of the sets they complete, times and sizes are
natural numbers, a step is not zero, connections and observers are finite sets, an end of
line is not empty, commands are those that `TT6Writer` can be asked for), which TLC evaluates in the runs.

Each theorem follows from an inductive invariant `IInv`: `Init => IInv`, every action
preserves it (one lemma per action or group of actions), and it implies the property.

**`CoverProofs`.** `IInv` adds to `TypeOK` and `OneIdleTask`

- `LockInv`: the lock is held across a suspension only by the coroutine that waits for the
  current task to end;
- `CancelInv`: a pending task has been cancelled exactly if somebody holds the lock;
- `TimerInv`: what is left of the task's sleep is at least what is left of the delay since
  the last movement;
- `WokenInv`: while a waiter has been woken and has not run, a sleeping task has not slept.

`OneIdleTask` alone is not inductive: it needs to be known that a coroutine that comes out
of `_cancel_task()` finds no other pending task, which is `LockInv` and `CancelInv`;
`NotIdleEarly` needs `TimerInv`, and that needs `WokenInv`, since a movement is noted
before its task is replaced. Theorems: `TypeCorrect`, `AtMostOneIdleTask`, `NeverIdleEarly`
(an action property). `MovementRemembered` (`[]KeptUntilRaised`) adds `SettleInv`, what the
releaser of the lock leaves to the waiter, and `FailInv`, that a failed task stays the
current one, so that the exemption once true stays true.

**`CoverEmulatorProofs`.** `IInv` adds to `TypeOK` and `OnTrack` which request owns which lock
(`LockInv`), that the event is set on behalf of the owner of `nextLock` and no mover sleeps
on while it is (`StopInv`), that a leg moved after that was the mover's last (`LegsInv`), and
that a request without goal only yields (`GoalInv`). Theorems: `TypeCorrect`, `AtMostOneMover`,
`AlwaysOnTrack`, `NoStaleStopEvent`, `StopIsPrompt`, and `ImplementsMotor`: initial states
map to initial states of `Motor` and each step to a step or a stutter.
`LastRequestPrevails` (`[]LastRequestWins`) needs the order of the requests, `OrderInv`:
those that wait for `nextLock` are in its queue once each (`Waiting`); the latest request is
the last of that queue, or else the lock's owner, or else the mover, and it carries the last
goal until the cover has got there (`LastInv`); and a mover is told to stop only by a request
that comes after it (`HaltInv`), so that the latest is not.

**`SerialConnectionProofs`.** With connects that overlap and are cancelled. Two halves:

- `LinkIInv` adds `Placed` to `LinkInv`: who connects, waits for a lock or is in its delay
  does so at some link; without it the owner of a lock need not be at that lock's link when
  it releases. Theorem: `WritesAreSpaced`.
- `ReadIInv` restates `ReaderStream` message by message. `StreamInv` says that the numbers
  run on from what a reader has returned to what is queued for it, with the sentinel
  where the queue of a stopped reader ends; `Registered`, that a reader somebody has is
  registered until it is stopped, and that a forgotten one is as good as new.
  `ReaderStream` itself is an equation of concatenated sequences, on which the solvers make
  no progress; the last lemmas lead back from `StreamInv` to it. Theorems:
  `ReadersMissNothing`, `RequestsListen`.

- About `MessageBuffer`, `MessagesComeWhole` (`[]BufferInv`): for every end of line, one that
  overlaps itself included, and every way of cutting the bytes into chunks. The provers have
  no induction over data, but `Nat` is well-founded, so that a set of round numbers has a
  least member: `Upwards` is induction over a set, by which the rounds of the loop are
  followed. `FindGrows`: what is found in `b` is found in the same place in `b \o x`, so a
  round of the loop is the same whatever comes later (`RoundAhead`); `LoopStays`: `Len(b)`
  rounds are enough; `LoopRestarts`, `LoopReaches` and `CutTwice`: cutting `b \o x` is cutting
  `b` and then what is left of it with `x`. `FlattenedIs` gives the library's fold over the
  messages as a sum of its first and its others, in the same way. The inductive invariant is
  `BufferIInv`, the equation of `ChunksDoNotMatter`; that nothing is lost, and each message
  has one end of line, then follows from what the loop keeps (`NothingLost`, `LoopIs`).

`NoLinkLeftBehind` (`[]LinkOwned`) has the hypothesis `ConnectsInTurn`: one client connects,
and its connects are not cancelled. Without it the property is false, in the code as in the
model (section 4). The invariant adds `Connecting`: while a link is being made the connection
has none, so that the end of `connect()` replaces none.

**`CoverManagerProofs`.** `IInv` adds `QueueInv` (a live reader's queue has no sentinel, a
stopped one's has it at its end only, so that nothing is handled after it), `OpenInv` (one
user opens at a time, and nothing is open then) and `VisitedInv` (of the covers that a
removal has dealt with only those that moved meanwhile have a task). `RemovedOrMissed`
needs the last one: when the dict is replaced, what is known of its covers is what the
removal has seen. A removal that raises has not replaced the dict (`RaisesStep`). Theorems:
`NoMessageMissed` (`[]ManagerInv`), `OnlyMissedTasksStay`.

About `Observers`, for any number of notifiers, loggers and watchers, any units, positions,
definitions and ratios. `ObserversIInv` adds to the types

- `SilentInv`: who has something to tell tells it of a cover, and has told nobody when it
  arrives;
- `AttachedInv`: the loggers among a cover's observers are those that log, and who is to be
  told is attached;
- `ReachedInv`: either everybody who is to be told of a cover knows, or somebody is telling,
  and *all those that this one has told* know. That is what overlapping notifications keep:
  a movement makes everybody ignorant, but the one that made it has told nobody yet. A
  telling that is cut short leaves among those to be told only the ones that it has told,
  and these know, unless another one is telling since a later movement (`CutShortKeeps`);
- `LoggedInv`: what a logger logged last is right for each cover of which it knows.

`ToldOfLast` alone says nothing while somebody is telling. Theorems: `WhoStaysKnows`
(`[]ObserverInv`), `LoggersAreCurrent` (`[]LogIsCurrent`), and `MaskShowsTheRatio`
(`[]ImpliedIsShown`), which is arithmetic: products of unknowns, compared in
`ProductsCompare` and `ImpliedGap`.

**`ControllerProofs`.** `IInv` adds `OwnerInv` (a handler in use belongs to a connection) and
`MovingInv` (a movement that goes on has a leg left) to `ConnectionInv` and
`CommandsAwaited`. Theorems: `WritersOfOpenConnections`, `NoCommandForgotten`.
About `StartUp`: `ServesItsConfiguration`, that for every file and all arguments for
which the emulator starts it serves each name once, as it is listed last and at the position
asked for last, and that such a cover can move and its presets are in range; `StartsRight` (`[]StartsAsConfigured`)
follows. That a name which is listed is listed for a last time takes a well-founded order,
since there is no induction over the list: the positions of a name are a set of natural
numbers below the list's length, which has a greatest element.

**`DialogueProofs`.** First the codec, where every lemma is about all values. Numbers:
`HexOfText` and `PctOfText` (what is parsed is what was formatted, in each width),
`HexAndPos` (the two roundings are inverse to each other on all 256 hexadecimal positions,
since each is at most a half off). Lines: `ReadAsMeant` (of every command, for every address)
and `DecodesAsMeant` (of every reply). Then the dialogue. What `DialogueInv` and
`NeverWrongWay` say of a client that has heard everything is not inductive, because most of
the time lines are under way; `ViewInv` says it of the end of a run of the client, `Ends`,
over the lines that are still to be heard: it ends at the position told last, after a
position from which the cover's movement does not lead back. That needs of the other side

- `SureInv`, `CalmInv`: the position told last is not further on the way to the goal than
  the cover, if it was where the cover stood when it began to move;
- `InsideInv`: a cover that has reported a leg of its movement is at neither end of the way,
  so that no step is acknowledged and ignored, with the wrong direction, during it.

Theorems: `NoneMisunderstood` (`[]LinesUnderstood`), `HexPosReturns` (`[]HexPosSticks`),
`ShowsWhatItWasTold` (`[]DialogueInv`), `NeverShownTheWrongWay` (`[]NeverWrongWay`).

**`MotionProofs`.** For all intervals that satisfy `TimingAssumption`. `IInv` adds to `TypeOK`

- `KnownInv`: when all messages under way are handled the client knows where the cover is,
  unless a step is untold, or the first question of a client that has just come is not yet
  answered;
- `ShownInv`: of a movement that this client commanded, an acknowledgement is under way that
  will show it; or the client shows it, and will until the next report: one under way arrives
  before the client's clock comes to the threshold, or what the clock has, what is left of
  the leg and the latency together stay below it;
- `ElapsedInv`: commands and acknowledgements under way are at least as old as the user's
  last command, so that none is left when the user looks;
- `QuietInv`: what `ShownInv` says, for the clock of the timing logger's wait.

`MovementShown` and `WaitsCoverMovement` compare a clock with a threshold; they are kept
only by such sums, in which a tick takes from one term what it adds to the other. Theorems:
`Settles` (`[]MotionInv`), `ShownWhileMoving` (`[]MovementShown`), and `WaitsLongEnough`
(the action property `WaitsCoverMovement`), which adds `WaitInv`, about the time between a
command's write and the first look.

**`AsyncioLockProofs`.** Lemmas on the lock's operators: types, owners, queues and their
order.

## 7 What is only model-checked, and what is not modelled

Liveness under fairness stays with TLC (`NotifierReturns`, `SettlesIdle`,
`EveryRequestEnds`, `CallsReturn`, `ReadersStop`, `ConnectionEnds`, `ManagerEnds`,
`WaitsReturn`): it is out of the prover's reach. Every invariant and every safety property of
an action that a passing run checks is also proved.

Assumptions the models make of their surroundings: `drain()` returns; a link loses no
line and keeps their order; covers of one controller do not disturb each other;
a reply is handed to the transport without a suspension (`Dialogue`); one cover and one
client in `Dialogue`, in `Motion` one client whose tracker is idle when a message arrives.
Lengths are whole numbers, ratios of an image whole tenths, and times whole ticks, where
the code has floats. A preset that is not set, to which the emulator does not move, is left
out of `Motion` (`Dialogue` has it).

Not modelled: `open()` and the choice of a port (configuration), `TTBusDeviceAddress` and the
constants (values), what `example2.py` does besides sending commands at fixed times; log
messages, the wording of errors, white space and letter case of lines; the physical
geometry behind a leg's duration; the diagonal and the area of an image, which only compute.

## 8 Plan

The order was: the notifier (`Cover`), the emulated cover with `Motor`, the connection, the
controller, the manager, the codec and the dialogue, the buffer; then the composition in
time, observers and geometry, start-up, reconnection, and the proofs of the connection, the
manager and the controller; then the proofs of the order of requests, of the links, of the
start, of the dialogue and of the composition in time, and last those of the buffer and of
the observers. What is left, in order:

1. An abstract broadcast channel that `SerialConnection`'s readers implement.
2. `CoverManager` composed with `Cover`, with callers that are cancelled.
3. `Dialogue` with two clients that command one cover.
