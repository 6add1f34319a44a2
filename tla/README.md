# A TLA+ model of the concurrency of JavaFX

JavaFX is a user interface toolkit of about 1.3 million lines of Java, beside
native parts most of which are vendored (WebKit, GStreamer, GLib). Almost all of
the Java is sequential: scene graph, controls, CSS and collections belong to one
thread, the *FX application thread*. What is hard is where that thread meets
others: background work that reports to it (`javafx.concurrent`), the render
thread and pulse timer that it shares scenes with (the Quantum toolkit), and the
native media engine, whose buffers, pipeline and message loop run on threads of
their own. These three are modelled. Java paths below are relative to
`src/modules/javafx.graphics/src/main/java/`, native ones to
`src/modules/javafx.media/src/main/native/`; `PROJECT.json` maps each definition
to its lines.

## Inventory

| Component | State | Operations | Meets others through | Hard because |
|---|---|---|---|---|
| Task update channel (`javafx/concurrent/Task.java`) | one `AtomicReference` per property, the property | `updateMessage`, `updateTitle`, `updateValue`, `updateProgress` | `Platform.runLater` | any thread, any time; coalescing |
| Task life cycle (`Task.java`, `Worker.java`) | state, running, value, exception; the `FutureTask` | `run`, `call`, `cancel`, `setState`, events | `runLater`, listeners, handlers | two deciders of the outcome; callbacks in mid-step |
| Service (`Service.java`) | task, bound properties, `startedOnce` | `start`, `restart`, `reset`, `cancel` | tasks, executor, listeners | re-entrant calls; first start on any thread |
| Pulse and paint hand-over (`com/sun/javafx/tk/quantum/`: `QuantumToolkit`, `PaintCollector`, `GlassScene`, `ViewScene`, painters; `tk/RenderJob`, `javafx/scene/Scene`) | pulse flags, dirty scenes, latch, `painting`, render lock, jobs | `postPulse`, `pulse`, `renderAll`, `repaint`, `done`, `exit` | three threads, a lock, a latch, volatile flags | lost wake-ups, double pulses, waits without timeout |
| Progress buffer and file cache (`gstreamer/plugins/progressbuffer/progressbuffer.c`, `posix/filecache.c`) | a file with a write and a read position, the segment, one pending event, the flow result | `chain`, `sink_event`, `loop`, seek, disposal | source's thread, its own task, the player's thread; a lock, a condition, stream locks | flushes racing pushes; one pending event for all |
| Java source (`gstreamer/plugins/javasource/javasource.c`) | position, pending event, flow result | `loop`, `perform_seek`, (de)activation | the connection (Java), the buffer | blocks lost in a flush, refused seeks |
| HLS buffer (`progressbuffer/hlsprogressbuffer.c`) | a ring of three files, read and write index, flags | as above, plus segments | as above, a second condition | a full ring, flush against segment |
| Player on GStreamer (`jfxmedia/platform/gstreamer/GstAudioPlaybackPipeline.cpp`, `MediaManagement/Media.cpp`) | the state shown, the pending state, stall flags, the callback content | `Play`, `Pause`, `Stop`, `Seek`, `SetRate`, `Finish`, `BusCallback`, `Dispose` | application, timer and main loop; messages of the pipeline | state known only from late messages; disposal against callbacks |
| GStreamer core (`gstreamer/gstreamer-lite/gstreamer/gst`) | current, next and pending state of the pipeline; tasks of pads | `gst_element_set_state`, async start and done, tasks | streaming threads | asynchronous state changes |
| ScheduledService | period, delay, back-off | repeated restart | Service, a timer thread | timers racing cancel |
| Platform startup, `runLater`, exit (`PlatformImpl`, `LauncherImpl`) | started, pending runnables, exit listeners | `startup`, `runLater`, `runAndWait`, `exit` | all threads | idle detection against late runnables |
| Nested event loops, `InvokeLaterDispatcher` (glass) | stack of loops, queue of runnables | enter, leave, invokeLater | dispatcher thread | leaving loops out of order |
| Master timer, timelines | receivers, pause | add, remove, pause, resume | pulse | a paused timer's delayed runnable |
| Properties and bindings, collections | listeners, lazily valid values, changes | add, remove, fire | callbacks | listeners changed while notified |
| Scene graph, CSS, layout, controls, FXML, event dispatch | large | large | FX thread only | volume, not concurrency |
| Prism, other media engines and decoders, web, Swing, SWT, packager, apps, build | native or third-party engines, tools | - | - | out of scope |

What makes the modelled ones correct:

* the channel loses nothing but intermediate values and posts one runnable at a time;
* a task's state, outcome, events and Future tell the same story, in the
  documented order, whoever cancels it and whenever;
* a service has one task at a time, shows that task in all its properties, and ends;
* there is exactly one pulse when there should be one, one job per scene, the FX
  thread never waits for a job that does not exist, and changes get painted;
* what a media buffer hands on is the media, block for block and in order, its
  end comes last, and no thread sleeps through a flush;
* the player shows the state the pipeline is in, stalls end, and disposal frees
  everything once, after the last callback.

The 40 hazards under `"hazards"` in `PROJECT.json` are these points, each at the
line where it bites, with the properties that watch it.

## Modules

| Module | Models |
|---|---|
| `LatestValue` | abstract: calls are numbered, the shown one only grows and catches up |
| `TaskUpdates` | `updateMessage`, `updateTitle`, `updateValue`, implementing `LatestValue` |
| `TaskProgress` | `updateProgress`: the same channel, carrying two numbers to three properties |
| `Task` | life cycle of tasks |
| `Service` | a service, EXTENDS `Task` (composition of service, tasks, executor and FX queue) |
| `QuantumPulse` | pulse, synchronization, rendering, exit |
| `FileCache` | operators: the backing file of both buffers |
| `ProgressBuffer` | the progress buffer, EXTENDS `FileCache` |
| `JavaSource` | the source of a progressive download, EXTENDS `ProgressBuffer` (composition of connection, source, buffer and the player's thread) |
| `HLSProgressBuffer` | the HLS buffer with its source, EXTENDS `FileCache` |
| `GstPipelineState` | operators: state changes of the pipeline |
| `PlaybackPipeline` | the player, EXTENDS `GstPipelineState` |
| `TaskUpdatesProofs`, `TaskProgressProofs`, `TaskProofs`, `ServiceProofs`, `QuantumPulseProofs`, `JavaSourceProofs`, `HLSProgressBufferProofs`, `PlaybackPipelineProofs` | theorems |
| `MC...` | the modules TLC runs |

Operators introduced by a comment `Mutant` are wrong on purpose: each stands
for a plausible mistake in the definition after it, and is not part of the
model. `"mutants"` says which property notices it.

### TaskUpdates

`pending` is the `AtomicReference`. `Update(t)` is a caller's `getAndSet`;
whoever finds null must `Post(t)` a lambda, in a step of its own because any
thread may run in between. The FX thread's lambda is two steps, `Take`
(`getAndSet(null)`) and `SetProperty`. `UpdateOnFx` is the branch taken on the
FX thread, which sets the property at once. The n-th call passes n, so that
values are distinguishable; the lambdas are all alike, so the queue is a number.
`AllowNull` and `FxOvertakes` say what callers do: pass null; call on the FX
thread while an earlier value is in flight. (`succeeded()`, `failed()` and other
handlers call when all that the background thread posted is delivered.)

### TaskProgress

The arguments are brought in range by the caller (`InRange`, `Clamp`), travel
as one `ProgressUpdate`, and are assigned to `totalWork`, `workDone` and
`progress` in three steps because listeners run after each. Numbers are integers
or NaN (which stands for the infinities too, treated alike by the code); a
quotient is the pair of its terms.

### Task

The background thread is a program counter `pc[t]` through `FutureTask.run` and
`TaskCallable.call`; `FutureTask` is external, its outcome a compare-and-set on
`future[t]`. Each `runLater` appends to `queue` a lambda, that is, a sequence of
operations. The FX thread takes a lambda and works off its operations from the
stack `fx`. A property that changes, or an event, pushes a `callback`: the point
where application code runs, and may call `cancel()` or, in `Service`, any
method, whose operations are pushed in front of what is left. So `setState` is
the state change, its listeners, the running flag, its listeners, the event and
its handlers, with everything that these may do in between. `CancelSites` says
at which of these points `cancel()` is called. A lambda is taken when the stack is
empty: `runLater` (`PlatformImpl`) hands it to the toolkit's queue. (A handler that
enters a nested event loop would run lambdas in its middle; that is not modelled.)

### Service

`start`, `restart` and `reset` are operations on the same stack. `bound` is what
the state property is bound to and `rest` what the others are. `reset()` unbinds
one property after the other, and listeners are called after each, which may call
the service: first the state (`Reset`), then value, exception and the numbers
(`UnbindValues`), then running, message and title (`UnbindRest`). Within a group
the properties do not bear on each other, and the listeners of one stand for
those of all. `start()` binds in one step. A method that
throws (`IllegalStateException`, or `NullPointerException` for a missing task)
drops what is left of it up to the callback it was called from. `AnyThread`
allows the first `start()` on a thread other than the FX thread.

### QuantumPulse

Program counters: `poster` for the timer and for the render thread inside
`postPulse` (test, `getAndSet`, `invokeLater`), `fx` for the FX thread in
`pulse`, in `Scene`'s pulse listener, in `renderAll` and in `exit`, `rt` for the
render thread in `RenderJob.run`, the painter and `PaintCollector.done`. A scene
is in or out of the sets `attached` (on a stage), `hasView`, `unsynced` (changed,
not yet copied to the render graph), `unpainted` (copied, not yet on screen),
`entireSceneDirty`, `painting`, `dirtyScenes`. `latch` is the count of the latch
that the field currently refers to: `renderAll` replaces it. `fullWanted` is a
history variable: full repaints asked for and not yet done. `Happens` says what
application and platform do: change scenes, animate, expose windows, hide them,
lose the device, exit.

### FileCache, ProgressBuffer, JavaSource

The unit is a block: what the source reads and what `cache_read_buffer` returns
at a time. Block n of the media has content n, so a shift between file and
offset shows. `cache` is the file with its two positions, `offset` is
`cache_read_offset`, `seg` the sink segment, `pending` the one pending event.

Three threads, each with a program counter: `spc` for `java_source_loop`, `pc`
for `progress_buffer_loop` under `gst_task_func`, `user` for the player's thread
in a seek or in disposal. A step is one section under `element->lock`, or one push. The
stream locks are the predicates `LoopStreams` and `UserStreams` and the `"parked"`
of the source. Waiting on `add_cond` is `pc = "waiting"`; a signal moves a waiting
loop back to its test and is lost on any other. The first buffer creates the pad and starts its
task. A seek is either *instant* (the target is stored, or will be soon enough:
`Tolerances` is the product of bandwidth and tolerance) or handed to the source.
Whether storing a buffer signals the loop depends on the percentage downloaded
and is left open (`sig`). Downstream either takes a buffer, wants no more
(`PushResults`), or is flushing. The connection may end early or fail (`Truncates`), and it
answers seeks or refuses them all, as a server without ranges does (`SeekAnswers`).
`RefusalLoses` says whether the flush of a seek that is then refused may meet a push
of the source (`Meets`): that is the case of `progress_buffer_hole`, and FALSE in
`progress_buffer`, so that the other properties are checked with refusals too.

### HLSProgressBuffer

The same three threads. The ring of files is `slots`, with `wi` and `ri` its
indices; `wi` is -1 after a flush as in the code. The handler of SEGMENT is a step for
each of its sections, and for each assignment that it makes without the lock: the
test of the result (`SendSegment`), `is_eos` (`ClearEos`), the result
(`RestartResult`), the task (`RestartTask`), the refusal of an empty segment
(`RefuseEmpty`), the event downstream (`AnnounceSegment`), the claim (`ClaimSlot`), and
between test and wait the message to the player (`"full"`), then the wait on
`del_cond`. A signal that arrives during the message takes `"full"` to `"missed"`, from
where the source falls asleep; one that arrives in the wait wakes it. The chain
function is the test of its flags without the lock (`PushBlock`) and what it does
with it (`StoreBlock`). A seek goes through the buffer as FLUSH_START and FLUSH_STOP.
Streams are not live, and a seek goes to the start of a segment, as
`HLSConnectionHolder` makes it.

Four things fail, `MaxFaults` times: a push downstream (`"failed"` is every result
but OK and FLUSHING, which the code does not tell apart further), a read of the
source (`ReadError`), a seek (`SeekData`), and a segment may be empty
(`PushEmptySegment`). `astray` is a history variable: the last seek failed. A block
stored with the index -1 ends the process (`NoFile`, `Crash`): the field before
`cache[0]` is the end of `del_cond`, which is 0, and `cache_write_buffer` follows it.

### GstPipelineState, PlaybackPipeline

`gst` is the pipeline as `gst_element_set_state` and the bins keep it: current,
next, pending and target state, the last return, and whether
`gst_bin_continue_func` is on its way. The operators return the new state with
the STATE_CHANGED messages that have no pending state, the only ones the player
looks at. `queue` is the bus; going to NULL empties it and it takes nothing there.

`m` holds the members of the player. Threads are `java` (the application,
serialized by Java's lock; it calls nothing before Ready), `pulse` (the timer that calls
`Finish`) and `bus` (the main loop). `m_StateLock` makes a step, `m_DisposeLock`
is `BusHolds` and `DisposeHolds`. Methods that call one another use `pc` and a
return place `ret`. `Updated` is the table of `UpdatePlayerState`. The main loop holds a
reference to the callback data during a dispatch: `g_source_destroy` therefore
runs the destroy notification inside `Dispose`, or leaves it to the end of the
dispatch. Both drop their reference by `g_source_callback_unref` of the vendored
GLib 2.42.1 (`gmain.c:1549-1561`, called at 1198-1199 and 3169-3170), which decrements
without a lock. So that is three steps: the count is read (`UnrefRead`), written
(`UnrefWrite`), and tested (`UnrefTest`), where the test may use what was written or read
again. `overlapped` is a history variable: two threads were in these steps at
once. `upset` is a history variable: a state change failed, was
made on a decision that had become wrong in between, or what is pending was
settled by a message that answers another call (`Misread`; see the observations).

## Runs

Passing runs (TLC explores all reachable states):

| Run | Instance | Shows |
|---|---|---|
| `updates` | 3 threads, 6 calls | `AtMostOneInFlight`, `LastUpdateShown`; `EventuallyLatest`: the channel implements `LatestValue` with its fairness |
| `progress` | 2 threads, 3 calls, numbers -2, 0, 1, 3, NaN | `NotTorn`, `WorkBounded` (nothing below -1 is ever shown) |
| `task` | 1 task, cancel from every site | `InOrder`, `OutcomeAvailable`, `StateAgreesWithFuture`, `HandlersTold`, `Concludes` |
| `service` | 2 tasks, calls in FX events, first start on any thread | `NoOrphan`, `BoundTogether`, `ServiceInOrder`, `ServiceConcludes` |
| `service_reentrant` | 2 tasks, calls in listeners of state and values too, cancel in events | `StateAgreesWithFuture` survives re-entrance |
| `pulse` | 1 scene, everything happens | `OnePulse`, `DirtyAgrees` |
| `pulse_frames` | 2 scenes, changes and exit | `PaintingHasJob`, `LatchCovered`, `FullRepaintKept`, `WaitEnds`, `ChangesArePainted` |
| `progress_buffer` | 3 blocks, 2 seeks, tolerance 0 or 1, downstream may refuse, connection may end, fail, or refuse seeks | `DataIntact`, `InSequence`, `EosAtEnd`, `NoLostWakeup`, `NoStrandedData`, `LoopStops` |
| `hls_buffer` | 3 segments of 1 block, ring of 2, 2 seeks, 1 failure | `InOrder`, `FileClaimed`, `EosAfterData`, `AllDelivered`, `FlushEnds` |
| `player` | 2 calls, 2 progress messages, 1 trouble, disposal | `TypeOK`, `FreedLast`, `DisposedQuietly`, `StateAgrees`, `StatusInOrder`, `StallEnds`, `DisposeEnds` |

The runs check what takes several steps to go wrong. The type invariants of
`TaskUpdates`, `Service`, `QuantumPulse` and both media buffers are proved instead (see
Proofs); those of `TaskProgress` and `Task` state the types of the variables for
the reader.

Runs that end in a counterexample, each a disagreement between the code and what
the repository says of it:

| Run | What happens |
|---|---|
| `task_end_is_final` | The lambda that shows SUCCEEDED runs before `FutureTask` has recorded the outcome; a `cancel()` on another thread still wins the future and turns SUCCEEDED into CANCELLED, a transition that a comment in `Service` says is not allowed. |
| `progress_buffer_hole` | A block is lost because a seek flushes the pads while the source pushes it, but counted as sent (`javasource.c:665`). The server then refuses the seek, the source reads on behind the lost block, and the buffer stores, and the demuxer gets, everything later one block off. `ConnectionHolder.java:287` counts on the buffer then holding "all data". |

Further observations follow from the models without a run of their own. Of
javafx.concurrent and the toolkit:

* `cancel()` in a listener of a task's state property: the nested `setState(CANCELLED)`
  clears running, the outer `setState` goes on and sets it again, for good
  (`Task.java:700`; compare `Worker.java:74-75`).
* `restart()` in the handler of the CANCELLED that `restart()` itself causes: the
  outer one forgets the new task without cancelling it, and starts a third
  (`Service.java:590`). `NoOrphan` fails with three tasks and calls in listeners.
* `start()` in a handler of the READY that `reset()` causes: `reset()` goes on to unbind value,
  running and the others from the new task (`Service.java:627`), so that the service shows
  SCHEDULED and is not running. `BoundTogether` fails with calls in state listeners.
* `restart()` of a service that has succeeded or failed sets CANCELLED on the way to READY (`Service.java:601-602`), so that handlers see
  CANCELLED follow SUCCEEDED. A comment in the same file has it that "the Service
  specification does not allow to transition from a terminal state (SUCCEEDED) to
  another terminal state (CANCELLED)" (`Service.java:696-698`). `ServiceInOrder` is strict
  about this but for two steps, `CancelledAfterEnd`: this one, and the late cancel of
  `task_end_is_final`.
* `start()` off the FX thread and `reset()` before its lambda runs: the lambda
  finds `task` null (`Service.java:678`).
* A frame begins, and replaces the latch, while a job of the previous frame has
  reset `painting` but not counted down; it then counts down the new latch, and
  `exit()` stops waiting while that frame is still to be painted
  (`QuantumToolkit.java:767-769`, `PaintCollector.java:423`).
* `AllowNull = TRUE` violates `LastUpdateShown`: null means "nothing in flight" too, so
  after `updateMessage(null)` a second lambda is posted, which shows null last.
* `FxOvertakes = TRUE` violates it as well: a call on the FX thread is
  overwritten by the older one in flight, although the documentation says that
  calls on the FX thread are coalesced too (`Task.java:1124-1127`).
* `updateProgress(0, 0)` makes progress NaN (`Quotient`; compare `Worker.java:85-86`),
  and between two assignments `workDone` may exceed a shrunk `totalWork`.
* `FullRepaintKept` fails when `Happens` contains `"window"`: a window's request
  for a full repaint is made without the render lock and may be cleared between
  the painter's test and its `clearEntireSceneDirty`. A request that arrives when
  the paint is over but `painting` not yet reset is not answered by a job either.
* An `UploadingPainter` that finds the device not ready asks for no repaint
  (`UploadingPainter.java:92`, `PaintNothing`), unlike `PresentingPainter`: the change is shown
  when something else dirties the scene.
* A service's `start()` sets SCHEDULED and `TaskCallable.call` sets it again, so that
  `HandlersTold` holds for a task but not for a service's: SCHEDULED is fired twice.

Of the media buffers:

* The loop stores the result of a push over the FLUSHING of a seek or disposal
  (`progressbuffer.c:898`); if the source has nothing more to send, the loop then sleeps and
  the player's thread waits for its stream lock for ever. `LoopStops` excuses
  just this state, `Starved`: the player's thread waits for the lock or the task, the
  loop sleeps with the result OK, and the source is parked.
* The source's EOS clears the pending event (`progressbuffer.c:593`). If that is
  the loop's EOS, downstream is never told the end; if it is the SEGMENT of
  an instant seek, buffers arrive without one.
* A second seek before the SEGMENT of the first has arrived ends where the
  first went; an EOS from before the seek that arrives between `reset_eos` and the source's
  flush makes the buffer drop the new SEGMENT.
* The HLS source tests, sends the message "full" without the lock, and then waits
  (`hlsprogressbuffer.c:511-516`): a signal in between is lost and the source, or a
  seek that waits for it, hangs. `AllDelivered` and `FlushEnds` excuse this state,
  `SignalLost`: a source that fell asleep after it had missed a signal, though its file is
  free or the pad is flushing. A signal that is never sent is no excuse.
* A SEGMENT handler that races a flush claims file 0 after the flush. If it is the
  first SEGMENT after an EOS, it also sets the result to OK, or starts the loop's
  task, in the middle of a second seek or a disposal (`hlsprogressbuffer.c:470-475`): the loop
  waits again, or spins because `is_flushing` keeps it from pausing, and the
  seek waits for the loop. `FlushEnds` excuses these states (`FlushUndone`).
* Unlike the progress buffer, the HLS loop does not store an OK over FLUSHING, but it
  does store a failure (`hlsprogressbuffer.c:428`). `hls_progress_buffer_chain` looks for
  FLUSHING only (line 319): after a push that failed during a flush or a disposal,
  the next block is written with the index -1.
* A seek that the playlist refuses (a position beyond the end) while the source is in
  the middle of a segment: the flush has reset the index, `java_source_perform_seek`
  asks for no SEGMENT (`javasource.c:468`), and the next block is written with the
  index -1, too. If a handler of SEGMENT has overtaken the flush and claimed
  a file, the block is stored there, and is pushed without a segment before it.
  `FileClaimed` says that these two are the only ways, and `InOrder` is about the
  time until such a seek (`astray`).

Of the player (the first six are the cases marked `upset`, the seventh the one marked
`overlapped`):

* The main loop decides to resume from a stall; the application pauses and stops
  before `Play` changes the state: the player shows Stopped and plays.
* `Finish` in the middle of a seek: PAUSED to PAUSED is not counted, the player
  shows Playing and is paused.
* `Play` has passed its test when an error puts the pipeline to NULL: it starts again.
* A failed state change leaves the state shown behind that of the pipeline.
* `UpdatePlayerState` settles the pending state with the next message that fits,
  whichever call that answers (lines 1666-1682). After `pause()`, `stop()` and at
  once `play()`, the pending Stopped is settled by PAUSED to PLAYING: the player
  shows Stopped while it plays. It takes four calls (`play()` comes first).
* From there an EOS makes a player that shows Stopped or Paused Finished, which
  `Follows` excludes; calls piled up before their messages
  arrive (pause, play, pause) end in a shown Playing of a paused pipeline.
* The decrements in `Dispose` and at the end of a dispatch may overlap
  (`gmain.c:1554`): one is lost, no notification comes and `sBusCallbackContent` is
  leaked; or both find zero and it is freed twice. A comment counts on the notification:
  "it will be always called when no more BusCallbacks is expected"
  (`GstAudioPlaybackPipeline.cpp:1480`). `FreedLast` and `DisposeEnds` are about executions in
  which they do not (`overlapped`). Builds against a system GLib have its
  implementation.
* `SetRate` computes `rateWasZero` after it has assigned the new rate (lines
  765, 784), so that a player paused by rate 0 is never resumed by it.

### Bounds

* `updates`: three threads are the fewest with one inside `getAndSet`-`runLater`, one
  overtaking and one starting anew; the state depends on the calls only through
  their order, and six calls are more than the places a value can be in (reference,
  lambda, property). The theorems remove both bounds.
* `progress`: two threads and the FX thread; every sign and order of two numbers occurs.
* `task`: tasks do not interact except through the queue; `Service` has two.
  The number of cancels is limited by the future itself.
* `service`: the current task and one that was let go of.
* `pulse`: one scene keeps the full set of happenings small; `pulse_frames` has two,
  the fewest for a frame that begins while a job of the last one is under way,
  and for jobs of one frame that wait for each other.
* `progress_buffer`: three blocks are the fewest with one played, one stored and
  one to come; two seeks so that one meets what the other left. The theorems
  remove size, seeks and tolerances. `progress_buffer_hole` needs a fourth block.
* `hls_buffer`: one segment more than the ring has files, so that it becomes full and a file
  is reused; two seeks so that one meets what the other left; one failure of any
  kind. The code's ring has three files; the theorems are about every size.
  Runs too long to keep: three files, four segments of two blocks, a seek
  and a failure (2.5 million states), which has segments that are half read, and the same with
  two files and three segments (0.8 million).
* `player`: two calls of the application make every pair of methods meet with all
  messages in flight; one trouble at a time (an underrun, a call of `Finish`, an
  element's error, a failed state change or seek); of two progress messages the
  last carries the end of the download. The theorems remove the bounds. This
  matters here: the misread messages above need four calls, more than the run
  has, and it was the proof of `StateAgrees` that led to them. Runs too long to
  keep agree with the theorems: six calls without troubles, five calls of all
  kinds, four with a trouble, and three of `Play`, `Seek` and `Pause` with two
  progress messages and two troubles.

`CHECK_DEADLOCK FALSE` everywhere: tasks end, bounded calls run out, the toolkit exits.

### Fairness

* `TaskUpdates`: a thread inside an update method leaves it; the FX thread serves its queue.
* `Task`, `Service`: the FX thread serves its queue and callbacks return (weak
  fairness of its steps together); pool threads run what they are given. `call()`
  may update its value as often as it likes and returns all the same: therefore
  strong fairness on the steps that lead to its end. Nobody has to call anything.
* `QuantumPulse`: the timer is periodic; the FX thread runs queued pulses and
  finishes what it began; the render thread works off its queue. The lock needs
  only weak fairness: the FX thread takes it after waiting for the latch, and
  neither holder waits for the other while holding it. No event has to happen.
* `JavaSource`, `HLSProgressBuffer`: the task of each element and the player's
  thread, once it is in a call, run when they can; downstream answers a push; the
  connection delivers, ends or fails. Weak fairness per thread is enough: no
  step of a thread is taken away by another for ever. Nobody has to seek.
* `PlaybackPipeline`: each thread in the player, the main loop, the prerolling of sinks and
  GStreamer's continuing thread go on, and the download makes progress. The
  stream need not end, nothing has to fail and the application need not call.

## Proofs

All for every value of the constants that the named assumptions allow
(`UpdatesAssumption`, `ProgressAssumption`, `SitesAssumption`, `ServiceAssumption`, `PulseAssumption`,
`BufferAssumption`, `SourceAssumption`, `RefusalAssumption`, `HLSAssumption`, `PlayerAssumption`): any set of
threads or tasks, any number of calls and seeks, any finite set of scenes, any size
of the media, of the ring and of its segments. Three groups of theorems have a
hypothesis of their own, named where it is used. Each proof of an invariant
has a lemma on the step with one case per action; the larger invariants have one such
lemma per conjunct.

`TaskUpdatesProofs`

* `TypeCorrect`: `TypeOK`, which is inductive.
* `Coalesced` (no nulls, FX calls at will): `AtMostOneInFlight` and
  `LambdaFindsValue`. Neither is inductive: that no second lambda is posted depends on
  the reference being non-null whenever a lambda is due. `OneTicket` adds just
  that: the reference is non-null *iff* one thread is about to post or one lambda is
  queued.
* `LastShown` (no nulls, no overtaking FX calls): `OrderedInv` adds to `OneTicket`
  that call numbers grow from the property over the value taken to the
  reference, and that the newest is in the last of these that is occupied.
* `ImplementsLatestValue`: with the same invariant each step is a `Call`, a
  `Show`, a `CallAndShow` or a stutter of `LatestValue`.

`TaskProgressProofs`

* `NeverTorn` and `WorkStaysBounded`: `NotTorn` and `WorkBounded`, which speak of a
  thread at rest. In between, `IInv` says that whatever is in the reference or taken
  out of it was asked for by one call and is in bounds (`Travelling`, from a lemma on
  the clamping of any two numbers), and which of the three properties already show
  the update in hand (`Shown`).

`TaskProofs`

* `OutcomeIsAvailable`, `StateFollowsFuture`, `HandlersAreTold` and the action property
  `StatesInOrder`, with `cancel()` at any of the callback sites. The difficulty is the
  stack of the FX thread, of any height, for callbacks nest. Seen from its
  end it is simple: the last one or two operations are what a lambda of the queue has
  left to do, all others are harmless (`Stack`), and that is kept by everything
  that pushes. With it `Progress` tells, from where the lambdas of a task still are,
  the state it can be in; `FutureShown` that an outcome decided by the future is on its way
  or shown; `Outcomes` that value or exception precede the state and no update
  comes after; `Fired` that each state reached has its event fired or on the stack.

`ServiceProofs`

Application code called back by `start()`, `restart()` and `reset()` may call these
methods again, so that what is left of several calls nests on the stack.

* `NothingOrphaned` and `PropertiesTogether`: `NoOrphan` and `BoundTogether`, for
  calls that do not overlap. The hypothesis is a specification of its own,
  `OrderlySpec`: `SSpec` with `restart()`, `reset()` and `start()` called only while none of them
  is on the stack; listeners and handlers of a task's outcome may call them. Without it
  both are false (see the observations). `NothingOrphanedByEvents` and
  `PropertiesTogetherInEvents` state the same of `SSpec` itself when calls are made in FX
  events (`CallSites \subseteq {"event"}`), as in the run `service`. Neither property is inductive,
  as both speak of an empty stack. `Base` describes the stack: the operations of a method lie together and in
  their order, on top of the callback that made the call (`Method`); what each of them
  relies on while listeners run before it (`Stage`: the task to be let go of was
  cancelled, `reset()` finds it ended, the task to be executed was scheduled); and that a
  task that is no longer the service's has been cancelled or is past the point where
  it could be (`Works`). For the running flag `FlagFollows` says that it agrees with the
  state or that the operation that sets it is next. That needs
  `"stateListener" \notin CancelSites`: a `cancel()` in a listener of the state runs before
  the outer `setState` sets running, and leaves it wrong (see the observations).
* `ServiceKeepsOrder`, `ServiceTasksInOrder` and `ServiceTasksAgree`: `ServiceInOrder`,
  `InOrder` and `StateAgreesWithFuture` of `SSpec`, for all `CallSites` and `CancelSites` and with
  calls that overlap in any way. `ServiceTypes`: `STypeOK`. The invariant is `IInv`. The stack is
  no longer one method's, but four facts survive every nesting: a method's operation lies on another one or on a callback
  (`OnCallback`), `start()` goes on to schedule and execute without a callback in
  between (`ScheduleFirst`), the last state change of a lambda is at the bottom
  (`FinalLast`), and the queue holds each lambda of a task once and in order (`Posts`).
  With them `Progress` says which state a task can be in, given which of its
  lambdas are still to run; `Shown` that an outcome of the future is shown or on its way;
  and `ToExecute` that a task in SCHEDULED whose future is new is the service's, and
  that the next thing any method on the stack does is execute it, so that no
  re-entrant call can leave it behind. That last conjunct is the one that makes
  `StateAgreesWithFuture` true of a service. An exception cuts the stack at its first
  callback, the least index of a set: that such an index exists is taken from the
  library's theorem on well-founded orders.
* TLC found these invariants kept before they were proved, in runs too long to keep:
  `Base` and `FlagFollows` with two tasks (3.0 and 8.9 million states), `IInv` with two tasks, calls in
  events and state listeners, cancel in events and the first start on any thread
  (2.6 million states, and in part with all sites).

`QuantumPulseProofs`

* `TypeCorrect`: `TypeOK`, which includes that both threads have a scene at hand
  whenever they are at a step that works on one. The Boolean flags and the other
  types are separate lemmas (`FlagsStep`, `TypesStep`).
* `PulseNeverDoubledNorLost`: `OnePulse`, inductive together with the types: each
  action moves the one pulse between timer, render thread, queue and FX thread,
  or none of them.
* `DirtyScenesAgree`: while a frame is submitted `hasDirty` is already reset and the scenes
  still to be submitted are dirty (`DirtyInv`).
* `OneJobPerScene`: `JobsInv` says the same without counting: no scene has two
  jobs, submitted or running, and the scenes with one are those that are painting.
* `LatchNeverExceedsJobs`: `LatchCovered` is inductive with the two above. When
  `renderAll` replaces the latch all that it counts is still to be submitted; a countdown of
  a job of the previous frame only makes the count smaller.
* `SynchronizationExcludesPainting`, from who holds the render lock (`LockInv`), and
  with it `FullRepaintNotLost`, for requests that synchronization makes
  (`OnlySynchronization`: `Happens` without `"window"` and `"deviceLost"`; the
  observations say what happens with them).

The proofs of both buffers begin with the same lemmas on the operators of `FileCache`
(`WriteBuffer`, `SetPositions`, `ReadBuffer`, `ReadPosition`): what each does to the file
and its two positions.

`JavaSourceProofs`

* `TypesHold` and `DataStaysIntact`, from the assumption `Harmless`: the server answers
  seeks, or the flush of a seek that it refuses meets no push of the source
  (`progress_buffer_hole` shows what happens otherwise). `DataIntact` speaks of the block in the loop's hands; that
  it is right needs the whole path from the connection. The inductive invariant
  `IInv` therefore says: the loop and the player's thread never hold the stream
  lock both (`Exclusive`); the file holds the media from `offset` on, up to
  the write position (`FileIsMedia`); what a source that streams pushes next
  belongs just there (`SourceInStep`); and until the first seek of the source both
  begin at 0 (`FirstSegment`). `Unbroken` adds, of a server that refuses seeks, that
  the source stays in step with the file even while it is parked.
* `WakeupsArrive`: `NoLostWakeup`, for every connection. Inductive with
  `Exclusive`: what a seek does with the stream lock held needs no signal because
  the loop is then parked.
* `EosComesLast`: `EosAtEnd`, for every connection. `Flow` relates the result of the pad, the
  flushes and the places of both threads; `Ending` follows a pending EOS
  from the moment it is set, when the last block is still in the loop's hands.
* `BuffersInSequence`: `InSequence`, again from `Harmless`. What the loop reads
  next is what downstream expects next (`Following`), unless nothing can be read or
  a SEGMENT is pending, and that one begins where the loop reads next (`Announced`).

`HLSProgressBufferProofs`

* `TypesHold`, `BlocksInOrder`, `FileIsClaimed` and `EosComesAfterData`, for every ring
  and any number of seeks and failures. `InOrder` needs to know what is in all files, not only in
  the one that is read: `Ring(b, k)` says that k files, one behind the other from the
  read index on, are in use and hold the segments b, b+1, ..., that all but the last are
  full, and where the source goes on. It holds whenever downstream is not
  flushing, the last seek has not failed and no push has (`Sound`), but for one case
  that the proof had to admit: a SEGMENT handler that
  overtakes a flush claims a file no block will be stored in, and the loop waits
  there until the next seek (`Stuck`). After a failed push nothing is read any more
  (`Broken`), so that `InOrder` does not need the ring. `FileIsClaimed` follows from
  `Claims`: the index is -1 only while the source is not in a segment, or while the result
  is FLUSHING but for the two failures. `Places`, `Phases`, `Claims`, `Calm` and `Announcing`
  say what flushing, disposal and the end of the stream have done at each step
  of the player's thread, so that `Ring` is there again when the flush is over.

`PlaybackPipelineProofs`

* `ContentFreedLast` and `DisposalIsQuiet`. `FreedLast` depends on who holds the
  last reference to the callback data and on the order of Dispose's flags, and it is
  stated for executions in which the decrements do not overlap. `IInv`
  lists where each thread can be in which phase of the disposal (`Control`), what the
  reference count is there, never less than the references that are held and exact
  while no decrements overlapped (`Counting`), how often the content is freed at most
  (`Freeing`), who is to free it in each phase (`Ownership`), that the pipeline
  stays in NULL once halted, all threads that could move it being out of the
  player (`HaltedForGood`), and the types of the pipeline (`GstOK`).
* `PlayerTypes`: `TypeOK`; with it what the message in hand can be at each step of the
  main loop (`Bus`).
* `StatesFollow`: `StatusInOrder`. The one hard row is EOS, which makes the player Finished
  whatever it shows. That it shows Playing then follows from the whole queue:
  `Ending` says that while the pipeline plays, and for each EOS on the bus, the player
  will show Playing once all messages before are handled (`Live`). Before Ready
  nothing has been asked for (`Early`).
* `StateIsThePipelines`: `StateAgrees`. One half is `Ending`. The other half,
  `Stilling`, says of a pipeline that is paused or pausing that the player will not show
  Playing in the end: the last message that matters is PLAYING to PAUSED, or PAUSED to
  PAUSED while something is pending that it settles (`Calm`); who pauses has
  made something pending before (`Announced`), and the pipeline goes where its
  target says (`Aligned`, `Below`). Lemmas on `SetState`, `LoseState`, `AsyncDone` and
  `Continue` say which messages each posts and where it leaves the pipeline.
* The hypothesis `~upset` is part of both properties, as in the run: the code does
  not keep them in the cases that the observations list.

Only model-checked:

* liveness (`EventuallyLatest`, `Concludes`, `ServiceConcludes`, `WaitEnds`,
  `ChangesArePainted`, `NoStrandedData`, `LoopStops`, `AllDelivered`, `FlushEnds`,
  `StallEnds`, `DisposeEnds`), which is out of the prover's reach.

Everything else that the passing runs check is proved. What a theorem excludes by its
hypothesis is excluded because the code does not keep the property there; the
observations and the two runs with a counterexample show how.

## Not modelled

* Task: exceptions of `checkThread` for misuse, event handler registration,
  `updateValue` from threads other than that of `call()` in module `Task`
  (`TaskUpdates` has them), `updateProgress` called again by its own listeners,
  lambdas that run inside a handler because it entered a nested event loop.
* Service: listeners between the single binds of `start()` and within the two groups
  of `reset()`, the default executor's pool, `cancelFromReadyState` (used by
  `ScheduledService` only).
* Pulse: platforms without a window manager, single-threaded mode and no render
  jobs, live resize (`liveRepaintRenderJob`), exceptions in painters, `exit()` from
  within a pulse, pixels. `postPulse` reads its volatile flags in one step.
* Progress buffer: pull mode, which is not reached in the player's pipelines, messages to the bus, the bandwidth
  estimate, writes cut short by the file system, the Windows file cache (same operations).
  Results of a push other than OK, EOS and FLUSHING (ERROR, NOT_LINKED;
  `progressbuffer.c:887-914`), with which the loop pauses its task.
* HLS: live streams, the bit rate switching in Java, messages to the player; a seek to
  exactly the duration, after which the playlist stays at its segment
  (`HLSConnectionHolder.java:841-842`); a task started on a pad whose task a disposal has
  already stopped (`RestartTask` leaves it stopped).
* Player: HLS mode, `m_bIgnoreError`, positions and durations, queue sizes, the
  clock, volume, equalizer, spectrum, video, tracks, warnings; the main loop's thread.
  The pipelines with and without dynamic elements differ in when they get Ready only;
  `Counts` has the more permissive test.
* GStreamer beyond what these call; decoders, WebKit and the other vendored
  engines, which make up almost all of the repository's C and C++.
* The components marked `not_modelled` in `PROJECT.json`, each with its reason.

## Plan

1. Done: `TaskUpdates`, `TaskProgress`, `Task`, `Service`, `QuantumPulse`; the media
   engine: `FileCache`, `ProgressBuffer`, `JavaSource`, `HLSProgressBuffer`,
   `GstPipelineState`, `PlaybackPipeline`; with the runs and theorems above.
2. `ScheduledService` on `Service`: the delay task against cancel, reset and
   restart, the back-off and the failure count.
3. `PlatformImpl`: startup, pending runnables, idle detection and exit, and then
   exit from within a pulse in `QuantumPulse`.
4. `EventLoop` and `InvokeLaterDispatcher`: nested loops and one runnable at a time.
5. `AbstractMasterTimer`; `ExpressionHelper` (listeners changed while notified);
   `ListChangeBuilder` against the difference of two lists as a reference.
6. The player in HLS mode, and player and progress buffer composed, so that
   underruns and progress messages come from the buffer itself.
