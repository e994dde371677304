# touchy-pad: a TLA+ verification of the device protocol

touchy-pad turns an ESP32 display into a programmable touch surface.  A host
program builds screens as protobuf messages, uploads them with their images
over USB, a UART or HTTP, and receives events and logs back.  This directory
models the parts of the firmware and of its Python client that run
concurrently or that must survive a failure, checks them with TLC on small
instances and proves part of what holds with TLAPS for every size.

Contents: [the system](#the-system), [the models](#the-models),
[the runs](#the-runs), [the proofs](#the-proofs),
[what the code does not do](#what-the-code-does-not-do),
[what is left out](#what-is-left-out), [the plan](#the-plan).

## The system

The components, with the state each keeps and what can go wrong in it.
Paths are below `src/`; `main/` is `firmware/main/`.  `PROJECT.json` lists the
same components with their sources, and every hazard at its line.

| Component | State | Operations | What makes it correct |
|---|---|---|---|
| File stores, `main/fs/flash_fs.cpp`, `ram_fs.cpp` | files, temporary files, one transaction and a handle counter per store; no lock | open, append, close(commit or abort), remove, mount and sweep | a file is replaced as a whole or not at all; no transaction outlives its owner |
| Write registry, `main/fs/fs.cpp` | the one host write in flight | `fs_open_write` aborts a stale one, `fs_close_write`, abort when a host leaves | the registry names every open host transaction |
| Host API, `main/api/host_api.cpp` | a task per link, its connection, `s_active_write_path`, the event queue | read a frame, dispatch, write a response | every command is answered; the screens hear of every changed file |
| Log tunnel, `main/log_proto.cpp` | a queue of records, a count of losses | the `vprintf` hook, pop, flush | a line is delivered or counted as lost, once |
| Screens, `main/screens.cpp` | the registry of encoded screens, the default, what is displayed, paths and a reload waiting | register, load, notify of a change, delete, boot | what is displayed becomes what was uploaded last |
| Throttled queue, `main/lv_throttled.cpp` | queue and timer | post, run a slice of a few items, drain inline when there is no timer | items run in order, a slice at a time, none is stranded |
| Widget builders, `main/widgets/widget_builders.cpp` | active and pending `WidgetRef`s | build, rebuild one reference in place, refresh images | references in the tree and in the table agree |
| Property overrides, `main/widgets/widget_property.cpp` | overrides, the table of live widget ids | set, remove, apply at build | an override is worn by the widget that shows |
| Widget actions, macros, HID, `main/widgets/widget_actions.cpp`, `macros.cpp`, `usb_hid.cpp` | a queue of four macros, the mouse buttons held | run actions, run steps, send reports | no key or button stays down |
| Backlight and preferences, `main/backlight.cpp`, `prefs.cpp` | on or off, level, sleep timer; the preferences and their file; no lock | wake, sleep, set, save, apply a partial message | a touch wakes the light, a light that is on will sleep; settings, preferences and file agree |
| Trackpad, `main/widgets/trackpad_widget.cpp` | the fingers of a session, an anchor and a lock for each engine | a frame of points in any order | a tap is a tap in every order; a session has one outcome |
| Network, `main/net/` | WiFi session, HTTP server; flags shared with the event task, no lock | apply a configuration, WiFi events, POST a command | a session has the server it is configured for; a lost network comes back |
| Framing, `main/api/host_api.cpp`, `api/_transport.py` | the bytes each end has received | pack, hunt for the magic, check, give up after a time-out | lost bytes cost a call, never a wrong answer |
| Python client, `app/src/touchy_pad/api/client.py`, `device.py` | one transport with a lock around each RPC, none around an upload; an event thread | RPC with a 2 s time-out, `file_save`, event polling | an upload happens whole or raises; a reply is its request's |
| Image cache and StreamDeck shim, `api/image_cache.py`, `touchydeck/` | an LRU of uploaded paths; the page, and what each slot is known to show | set an image, evict, repaint, reset | what the cache answers for is on the device, what a slot is known to show it shows |
| Rust client, OpenDeck plugin | the same, with a write lock, without a flush at open | the same | the same |
| Simulator, `app/src/touchy_pad/sim/` | the device again, under one lock | the host API | it refines the same promises |

How they interact:

```
 Python client --frames--> host_api task (one per link) --> fs registry --> FlashFs, RamFs
      ^                        |        |       |                             ^
      |                        |        |       +--> Prefs::save -------------+
      |  responses: events,    |        +--> screens: register, notify
      +--- logs, results ------+                 |
                               ^                 v
        event queue, log queue |          lv_throttled queue --> LVGL task: widget tree
                               +------------------- actions ---------+

 TouchyDeck --> ImageCache --> client      WiFi events --> network --> HTTP server --> dispatch
 touches, dispatchers --> backlight <-- sleep timer
```

The behaviours that are hard here: several dispatcher tasks, the LVGL task and
any task that saves a preference share the stores and the registry without a
lock; a reply carries no name of its request, so a time-out shifts every later
reply; the host may be killed or unplugged and the device power-cycled between
any two steps; the display is refreshed by a queue that runs a few items at a
time while uploads go on; both queues towards the host are bounded and lossy;
a WiFi session, a sleeping display and a cache of what is on the device are each
known to their owners only by reports that arrive late, or by answers that may
be lost.

## The models

### FileStore, FileTxn, AtomicFiles: uploads

`FileStore` holds the two stores: `file`, `tmp`, `txn` (`g_txn`), `next`
(`g_next_handle`) and `mounted`, with the pieces of `openWrite`, `appendWrite`,
`closeWrite`, `removeTree`, `begin` and `sweep_tmp` as operators.  A close in RAM
is one step (`CloseRam`), one on flash blocks twice: after `fclose` it reads the
paths in `g_txn` again and renames or unlinks what they name by then (`MoveTmp`,
`Flushed`: of another's stream, only the bytes that have left its buffer), and
after that it clears `g_txn`, whosever it is (`EndTxn`).  A write that finds the
stream of its transaction closed by another task panics (`Panics`).  A file is a
sequence of chunks, and a chunk names its upload and its place, so that a mixed
or a truncated file is told apart from a whole one.  Handles are counted modulo
`HandleSpace` and skip 0.

`FileTxn` composes them.  Clients are Python callers of `file_save` and
`file_delete` (`BeginSave`, `Send`, `TakeReply`, `TimeOut`, `AfterSuccess`,
`AfterFailure`); a program opens a link (`OpenSession`, which flushes stale
frames) and may die.  Links hold the commands not yet dispatched and the
replies not yet read; a reply is matched to a request by order only.  A
dispatcher takes a command and runs it in the steps between the calls that may
block: for an open `AbortStale`, `CheckOpen`, `InstallOpen`; for a close
`CloseFile`, `MoveFile`, `EndClose`, then `RegisterScreen`, `NotifyChanged`,
`FinishClose`.  Every abort closes in the same three steps (`StartClose`).  Tasks
that save preferences run `SavePrefs`, `InstallPrefs`, `ClosePrefs`, `MovePrefs`,
`EndPrefs` on the same store.  The cable, power cycles, flash faults, a RAM
allocation that fails and the panic of a write are actions or choices of their
own.

`collided` is a history variable: some `closeWrite` has gone on, after `fclose`,
with a `g_txn` that was no longer its own.  From then on files may be partial
and answers wrong (below), so `AckedTakesEffect` and `ImplementsAtomicFiles` speak
of the steps before; `NoOrphanTxn` does not need the exception.

`AtomicFiles` is what `file_save` promises: an upload is one step that happens
at most once, in full.  `FileTxn` implements it (`Atomic == INSTANCE AtomicFiles
WITH ...`, each variable of `AtomicFiles` being the one of that name);
`ImplementsAtomicFiles` is checked as a property, up to a collision.  Where there
is none it implies `WholeFiles`, that a host file is always one whole upload to
its path, which is stated for the reader and for the counterexamples below.

### LogTunnel: logs and events to the host

The `vprintf` hook is followed path by path: not ready, nested in another
emission, in an interrupt, a format that fails, below the threshold, and the
enqueueing, where the count of losses is read-and-cleared before the send and
given back when the queue is full.  A line is a number; a count of losses is
the set of the lines lost, so that a line counted twice or never is seen.  The
event queue evicts the oldest event and sends again, as two calls.  A host
polls on each link; `WriteFails` loses the response of a host that is gone.
`touchy_logs_flush` polls the queue's length.

### ScreenReload: an upload reaches the display

The displayed tree is a screen and slots; a slot shows an image or, being a
`WidgetRef`, another file's tree with slots of its own.  `Display`
(`load_decoded`) builds all of it; `ChangeRefs` (`widget_refs_change`) tears
one reference down and builds it again with everything below; `SetImages`
re-reads images in place.  A dispatcher that commits a file registers it if it
is a screen, then notifies; the notification is queued once per path
(`queued`), and its item refreshes in place or asks for one reload
(`pending`).  The LVGL task runs up to `PerSlice` items per slice with the lock
held.  When the timer cannot be created the poster drains the queue itself.

A copy of a file has an age, not a version: it is "new" until the file is
committed again and "old" from then on.  So uploads need no bound, and
`CatchesUp` can be checked under endless uploads.

Everything under the LVGL lock is one step, but the copy a reload makes of the
registry's bytes is taken before (`RunReload`, `FinishReload`), and so is that
of a screen switch (`LoadScreen`, `ShowScreen`), which is where the code's
window is.

The screen that shows is kept in `preferred` (`m_current_screen`) and, when a
save succeeds, in `persisted`, the flash.  `load_decoded` stores it when it is not
the one in RAM already (`PersistScreen`, `SetCurrent`), so does a reload
(`FinishReload`) and, where the saved screen is gone, the boot (`BootPref`);
`apply_partial` stores the path that was asked for and saves in any case
(`FinishLoad`, `SaveAgain`).  With `SaveFails` any save may fail, which is only
logged: `unsaved`, a history variable, says that the last one did.

### HidOutput: from a touch to the reports the computer gets

Two tasks send reports.  The macro runner takes macros from `s_queue`
(`Take`), which `macros_run` fills without ever waiting (`Enqueue`, in
`RunAction`, taps and the end of a hold).  The LVGL task runs the lists of
moves, scrolls and holds itself (`macros_run_inline`), with the LVGL lock held,
so that no widget, touch or rebuild happens before its calls are made
(`Free("lvgl")`).  A list is the sequence of the `usb_hid_*` calls its steps
make: a tap of a key is two, a zoom three.  A call waits for the endpoint
(`WaitReady`), or gives up after 100 ms (`TimeOut`), then reads or sets
`s_button_state` (`TakeButtons`, mouse only) and hands its report over
(`Send`); between these steps the other task may make its own.  The computer
takes a report (`Poll`) and may sleep (`Sleep`).

Of the trackpad there is what starts a list: fingers that land, move and lift,
with the counts `_prev_count` and `_session_max_fingers`, and the hold with its
flags `_hold_recognised` and `_hold_cancelled`.  Where a finger is, and for how
long, is a choice (`long`: a hold lasts longer than a tap); `Gestures`, next, is
shown to make no other.

`mishap` is a history variable.  It marks the six places where the code drops
something that may have been a release: a full queue, a call that times out, a
report refused because the endpoint was claimed after `wait_ready`, a report
with buttons that were changed meanwhile, a hold abandoned by a second finger
and one whose trackpad is deleted with its screen.

### Gestures: from fingers to lists

`TrackpadWidget::_process` frame by frame.  Fingers are at points of `Pad`; a
frame gets them in any order (`Touches`), as the touch controller may give them,
after some time (`Delays`).  `Frame` lets each engine see it: the centroid and
the drag (`Centred`, `Strays`), the swipe (`Swiped`), the hold (`Held`), the
scroll, the zoom and the twist (`Pinched`, the same code for a span and for an
angle).  An engine is a function from its state to its next state and the lists
it runs.  `Lift` is the frame without fingers: the end of a hold, a click or
neither.  Clocks are ages that stop at `MaxAge`, beyond every threshold.
`past` is a history variable of the session.

`Gestures` implements what `HidOutput` assumes of touches (`Touch == INSTANCE
HidOutput WITH ...`, the property `ImplementsTouches`): its counts, its hold and
the hold's mishaps are those of the recogniser, and the lists are empty, so that
each frame is one of `Land`, `Move`, `MoveTwo`, `LiftSome`, `Lift`, `Rebuild` or
a stutter.

### Backlight: touches, the sleep timer and the settings

`s_on`, `s_level`, `s_timeout_ms` and the ESP timer are shared by the LVGL task
(`Touchers`, which only wake), the dispatchers (`Hosts`, which also set) and the
timer's own task, without a lock.  A call is modelled read by read and write by
write: `backlight_wake` is `Wake` (the test of `s_on`), `SwitchOn`, `MarkOn`,
then `Arm`, `StopTimer`, `StartTimer`; the callback is `SwitchOff` and
`RecordOff`.  `Prefs::apply_partial` runs `SetTimeout`, `Disarm`, `EnsureOn`,
`SetLevel`, `IfAwake`, `ShowLevel`, `Save` for the fields of a partial message,
with its conversions: a level is cut to a byte and then limited to 100, and one
nobody has chosen is not written to the file.  `PowerCycle` reads it back.

### Network: WiFi sessions and the HTTP server

`network_apply`, called at boot, by dispatchers and by the HTTP server's own
task, runs step by step (`Apply`, `Leave`, `Halt`, `ClearFlags`, `Join`, `Start`,
`Started`) against the event task, which handles the driver's reports in their
order (`OnStart`, `OnDisconnected`, `Retry`, `OnGotIp`, `Serve`).  The radio is
the environment: it associates, gets a lease, loses the session, and its reports
wait in `events` while configurations change.  `aim` is the network the driver
was given.  A command sets any of the fields (`Merge`), and its save may fail
(`Done`).  Stopping the server waits for its task to leave the handler it is in
(`StopServer`, `Stopped`, `busy`), as `httpd_stop` does.  A second task that stops
a server being stopped is at `again`: `httpd_stop` then works on memory the other
task frees, so it may restart the device, change places with the other or wait
for ever (`StopAgain`, for which there is no fairness).

### Framing and Rpc: calls over bytes that get lost

`up` and `down` are the bytes on the way to the device and to the client, `hbuf`
what the client's decoder holds.  A frame is `A5 5A | LEN | payload | CRC`; the
device's reader (`Hunt`, `Oversize`, `Mismatch`, `Deliver`) waits for all of a
frame and goes on after it, the client's (`Searched`, `Rejected`) resumes a byte
after the magic it tried.  The client gives a call up (`TimeOut`), and reads
replies left over when it opens (`Flush`).  The faults: a program killed between
or in the middle of its writes, a byte lost either way, noise when a port opens
or a device restarts, an unplugging, a response that cannot be encoded.

`Rpc` is what a caller is promised: one call at a time, carried out at most once
and only while it is wanted, answered by its own answer.  `Framing` implements
it with the history variables `asked`, `carried` and `got` (`R == INSTANCE Rpc
WITH ...`, the property `ImplementsRpc`).

### DeckImages: what a grid of keys shows

`ImageCache.set_cached_image` is `Wipe`, then `Hit`, or `Miss`: `Evict` and
`Upload`; `TouchyDeck.set_key_image` goes on with `Choose` or `Skip` and
`SetSlot`, `reset` with `Seed`, `SavePage`, `ShowPage` and `Forgotten`.  A command
may raise before its effect or after it (`Command`, `Outcomes`).  Between any
two of them a key is pressed or released (`Edge`, which decides the slot that is
painted), a page is turned, the program is replaced by another (`NewProgram`)
or the device restarts.  A picture stands for its bytes, their hash and the path
made of it.  `asked`, `leaked` and `doubt` are history variables: who asked for
what since, which files an error or another session left, and which slots a
raised command or an unnoticed rebuild leaves uncertain.

## The runs

TLC, two workers.  Passing runs:

| Run | Distinct states | What it asks |
|---|---|---|
| `MCFileTxn_one` | 1,827,015 | One answered program, killed, unplugged and power-cycled anywhere, with flash faults and a task saving preferences: is no transaction ever orphaned (`NoOrphanTxn`) and, until a close works on another transaction's files, are acknowledged uploads installed, do the screens hear of each (`AckedTakesEffect`), is it all atomic (`ImplementsAtomicFiles`)? |
| `MCFileTxn_slow` | 253,695 | Responses later than the client's time-out or its flush, no memory for a RAM file, handles that wrap: are files still atomic, and is every command answered (`EveryCommandAnswered`)? |
| `MCLogTunnel_pass` | 221,372 | Two tasks and interrupts log faster than the host polls: is each line delivered or counted (`NoSilentLoss`) and once (`CountedOnce`), do events stay in order and give way only to newer ones (`NewestInOrder`), do logs arrive once the UI is quiet (`LogsDelivered`)? |
| `MCScreenReload_screens` | 6,619,948 | Two screens uploaded, deleted and switched, some of another wire format, saves that fail and a power cycle: is no update lost (`NoLostUpdate`), can the default be loaded (`DefaultIsRegistered`), is the screen that RAM prefers the one shown, and flash's the same unless the last save failed (`ShownIsPersisted`)? |
| `MCScreenReload_tree` | 2,797,872 | A screen with a reference that is repointed and an image inside it: is no update lost in a tree rebuilt in part, does a burst cost one refresh per file (`OneRefreshPerFile`)? |
| `MCScreenReload_live` | 395,208 | No timer to be had, slots repointed, properties set, a power cycle: does what was replaced leave the display (`CatchesUp`)? |
| `MCHidOutput_pass` | 483,150 | Two fingers on a trackpad that drags on a hold, a key macro, a computer that sleeps: is a key or button down only while its release is on the way, but for the six mishaps (`PressHasRelease`), does a drag end, and does a computer that does not read ever stop the screen or the macros (`OutputEnds`)? |
| `MCGestures_pass` | 76,122 | Three fingers on a triangle, in any order and reported in any order, on three trackpads: do fingers that only land and lift make the click of their number and nothing else (`StillFingersClick`), has a session one outcome (`OneOutcome`), are its sessions those of `HidOutput` (`ImplementsTouches`)? |
| `MCBacklight_pass` | 77,079 | Touches, a host that wakes and sets the timeout and the level, the sleep timer: is a light that is on going to be switched off (`SleepComes`), does one that went off come back (`LightComesBack`), do settings, preferences and file agree between commands (`SettingsAgree`)? |
| `MCNetwork_pass` | 346,000 | A host that joins, changes and clears networks while sessions come, are lost and report late: do flags and server end up as configured (`SettlesAsConfigured`), is a station ever left idle (`NeverStranded`), does a lost network come back, and is each configuration applied, unless a server is stopped twice (`NothingHangs`)? |
| `MCFraming_pass` | 56,268 | Programs that die in the middle of a command, bytes lost, noise, restarts, responses that cannot be encoded: is the channel a sequence of calls, each answered by its own reply (`ImplementsRpc`), does a call fail only when something was lost (`NothingLostUnprovoked`), does a caller who goes on asking get through (`GetsThrough`)? |
| `MCDeckImages_pass` | 2,386,116 | A grid painted with more pictures than the cache holds, commands that raise before or after their effect, pages turned, programs and devices restarted: is a cached picture on the device, and what the deck knows of a slot what it shows (`RecordsAreTrue`), does the cache keep its bound and the recent pictures (`EvictsTheOldest`)? |

`TypeOK` is an invariant of one run of each model.  A property that joins two,
as `AckedTakesEffect == AckedIsCommitted /\ ScreensTold` does, asks both of the
same run.  What TLC refutes is under
[what the code does not do](#what-the-code-does-not-do).

### The bounds, and why they are enough

* `MCFileTxn_one`: two uploads of two chunks, one deletion, one preference
  change, one power cycle, four handle values.  Two uploads are what a mixture,
  a retry or a stale transaction takes; two chunks are what a truncated file
  takes; the second upload may be to the same path or to the other store.
  `MCFileTxn_slow` has a third upload, as the replies of one that timed out
  shift the answers of the next two; it saves no preference, so no close is
  contended there.  The handle space is one that wraps.  One saver is what a
  contended close takes, and with one upload and one preference all its orders
  occur (the refutations below need no more).
* `MCLogTunnel_pass`: queues one deep and three lines of two tasks.  A queue of
  one fills and empties at once, so the losing and giving back happens at every
  place; three lines are one delivered, one in hand, one lost.  The depth is a
  parameter of the theorems.
* `ScreenReload`: one dispatcher (`MCScreenReload_two_links` has two), slices of
  two items, so that a slice may end with work left.  In `screens` slots cannot
  be repointed and there is one file below the screens; in `tree` there is one
  screen, one reference and one image, the smallest tree in which an in-place
  rebuild, a refresh and a reload can overlap.  `MaxChanges` bounds the slot
  changes waiting, not their number.  Saves fail in `screens` only, the run that
  asks about them, and it has one power cycle, before which and after which any
  number of saves fail.  `live` has no images, to keep the
  liveness graph small; the path of an image through the queue is the same.
* `MCHidOutput_pass`: the trackpad page of the application (a click, a drag on a
  hold, a move), a key macro and a scroll that zooms, so that lists with one,
  two and three calls and all kinds of report but the consumer's meet on the
  endpoint; a consumer key is a list of two calls like a key.  A queue of two is
  full and has an order; two fingers are what abandons a hold.  A third finger
  adds another click.  The theorems take any lists and sizes.
* `MCGestures_pass`: the corners of a right triangle with sides of 3, 4 and 5, so
  that every distance is a whole number, some swipes are diagonal, and spans
  and angles change with either finger.  A page that drags on a hold and zooms
  and swipes again and again, one that knows every gesture once, one that turns
  again and again; thresholds are met exactly, missed and exceeded.  A frame
  comes 0 or 1 after the last; ages stop at 2, past every threshold.  Sessions
  are not bounded.  `hold` is not 0 (see below).
* `MCBacklight_pass`: one task that touches, one that does everything; a third
  task adds a second wake, which meets the same windows.  Levels 50, 200 and 256
  are one that is kept, one that is limited and one that the byte cuts to 0;
  timeouts are none and one.  The number of commands is not bounded.
* `MCNetwork_pass`: two networks, with the certificates on the device, so that
  HTTP and HTTPS both occur; two reports waiting are a late one and a new one.
  The number of configurations and of losses is not bounded.
* `MCFraming_pass`: three faults, that is, two that meet before the channel has
  recovered from the first, and one more; a command whose payload is a length
  the device waits for, one whose payload is a length beyond its buffer;
  payloads of one and two bytes.  `SumAs` is the length a checksum is read as.
* `MCDeckImages_pass`: room for two of four pictures, the blank one included,
  two commands that raise, one restart.  The slots of a key (released and
  pressed) are painted apart, so one key has two slots that may differ.

### Fairness

* `FileTxn`: a dispatcher with a command, and a task in the middle of a save,
  go on (FreeRTOS runs what is ready); a client reads the reply that is there.
  Nothing is assumed of the program, its next request, its time-out, the cable.
* `LogTunnel`: tasks in the middle of a call go on; the host polls and reads.
  When `BusyUI` is set the UI does post.
* `ScreenReload`: the queue runs while somebody holds the lock for it; a step
  that waits for the LVGL lock is strongly fair, since the lock is free between
  any two slices again and again (the throttle exists for that) and FreeRTOS
  mutexes serve waiters.  No command is ever assumed to be sent.
* `HidOutput`: each task goes on with its calls (a call that waits has its
  time-out), the runner takes the next macro, the computer polls while it is
  awake.  Nobody has to touch anything, and the computer may sleep for ever.
* `Backlight`: a task in the middle of a call and the callback go on.  The timer
  that is restarted again and again does expire some time (strong fairness of
  `Expire`): a user does not touch at every moment.  With weak fairness alone,
  touches faster than the timeout keep the record wrong for ever (below).
* `Network`: tasks go on; the driver associates and gets a lease when it could
  again and again (strong fairness: the access point is there).  Nothing brings a
  task out of a second `httpd_stop` (`StopAgain`), so `NothingHangs` excepts it.
* `Framing`: the device and the client read and write what they can.  That the
  client asks again is part of the weak fairness of `Client`.
* `DeckImages` and `Gestures` have no fairness: their properties are about safety.

## The proofs

`LogTunnelProofs` proves, for any number of tasks and links and any depths:

* `TypeCorrect`: `Spec => []TypeOK`, with both queues within their depths.  The
  invariant is inductive as it stands; the proof has a step per action, and the
  lemmas about queues of records (`AppendRecord`, `TakeRecord`, `EvtTail`,
  `QueueTail`) are stated apart.
* `EveryLineAccounted`: `Spec => []NoSilentLoss`.  It is not inductive: a step
  that clears a task's or a link's hands would lose a line if the hands of
  those that are idle held one.  `EmptyHands` says that they do not; it is
  proved first from `TypeOK`, and `LossStep` uses all three.
* `NoLineCountedTwice`: `Spec => []CountedOnce`.  `OneHand`: a lost line is in one
  place only, be it the count that is pending, a record's or a link's.
  `OneLine`: a line in a task's hands is nowhere else yet.
* `NewestDelivered`: `BusyUI = FALSE` implies `Spec => []NewestInOrder`.  The
  queue is increasing and ends before the event being posted; a link has shown,
  and `evicted` has, only events older than all of these (`Past`).  There is room
  when the poster sends again (`QueueInv`): it is alone, and a link that polls
  in between makes more.  With `BusyUI` events have no numbers, to keep the graph
  of an endless UI finite, and there is nothing to state.

`ScreenReloadProofs` proves, for any number of dispatchers, screens, files and
slots, any nesting of files in slots, any slice and any number of uploads, slot
changes and power cycles:

* `TypeCorrect`: `Spec => []TypeOK`.  `TypeOK` is not inductive: that a
  registry entry or the bytes on the display have an age at all depends on what
  a task or a reload has in hand.  `TypeInv` adds `TaskSense` (a dispatcher
  about to register or show a screen has a screen, and bytes to store or show)
  and `ReloadSense` (a reload holds bytes only while somebody holds the lock
  and a screen of a file is displayed).  The operators that build trees have
  lemmas of their own (`DisplayType`, `ChangeType`, `RefreshType`).
* `DefaultLoads`: `Spec => []DefaultIsRegistered`, inductive with `TypeInv`:
  `Store` needs `TaskSense` to know that what it caches is something.
* `BurstBounded`: `Spec => []OneRefreshPerFile`.  Counting is of no use to an
  inductive step, so `QueueInv` says the same by positions: an item that a flag
  stands for is somewhere in the queue, and nowhere twice (`Has`, `Once`, with
  lemmas for appending and taking).  The counts follow from it in the end.

* `UpdatesArrive`: `OneDispatcher` implies `Spec /\ []UnnamedApart =>
  []NoLostUpdate`.  Both conditions are needed, and TLC finds the update lost
  without either (below): two dispatchers display what the other replaces, and
  a file shown by a reference with an id and by one without is refreshed in the
  first only.  `UpdateInv` follows each copy on its way: what the registry has
  (`RegistrySense`), what a reload has copied (`HeldSense`), what the screen and
  the slots show (`ScreenSense`, `SlotSense`), each old only while something that
  replaces it is on its way, with what a command in the middle knows
  (`CommandSense`), the kinds of slots (`KindSense`) and the built-in screen
  (`BuiltInSense`).  `Onward` says what most steps have in common: they take
  away nothing that an old copy waits for.
* `SameScreenAfterBoot`: `OneDispatcher` implies `Spec => []ShownIsPersisted`.
  `PersistSense` says that a command keeps what it was asked for until the
  preference is saved, and that the boot is alone; `SaveAgrees` that flash is as
  RAM is after a save, or that save is known to have failed, hence also after one
  that is skipped for a repeat.  With two dispatchers it does not hold, nor does
  flash keep the screen whatever fails (`LastScreenKept`, below).

`FileTxnProofs` proves, for any paths, clients, links, chunks and faults:

* `TypeCorrect`: `Spec => []TypeOK`.  `TypeInv` adds that an open transaction has
  a path (`StoreInv`) and that what a client asks for, what is in the inbox and
  what a dispatcher does are the same kind of command.

And for one program on one cable whose commands are answered before it gives up
(`Alone`: one client, one link, `SlowDevice = FALSE`), with fewer uploads and
changes of preferences than handles, for any number of chunks, of uploads, of
savers, of flash faults, deaths, unpluggings and power cycles, and closes cut in
two by whoever saves preferences:

* `NothingOrphaned`: `Spec => []NoOrphanTxn`, and `AckedIsDone`: `Spec =>
  []AckedTakesEffect`.  The invariant, `Held`, has five parts besides the types.
  `Channel`: there is one command on its way or one answer.  `Work`: whatever is
  on its way may count on what it needs (`Proper`: a chunk of an upload whose
  transaction is open finds the chunks before it there), and the answer leads to
  a request of which that is true.  `Hand`: what the dispatcher has in hand,
  `s_active_write_path` among it, is the registered transaction's.  `Apart`: no
  two of those who write have the same handle, though the registry does not say
  whose it is.  `Counted`: every handle belongs to an upload or a change, which
  is why the counters do not wrap.  What is said of the contents of a file and of
  `committed` is said while nothing has collided; who owns a transaction, always.  Each condition of `Alone` is needed: a
  second client, a second link and a late answer have their counterexamples
  below; with a handle that comes round again (`MCFileTxn_one` with `HandleSpace
  = 2`) a saver and an upload have the same one, and TLC finds
  `ImplementsAtomicFiles` violated.  The code's counters have 32 bits.
* `UploadsAreAtomic`: `Spec => ImplementsAtomicFiles`, with one saver at most and
  one chunk at least.  Every step that does not collide is mapped: a close of a
  RAM file and the move of a flash file are an upload that happens, or nothing;
  `SaveAtomic` is a change of the preferences (`PrefsInv`: newer ones replace older
  ones, hence one saver); `RestartAtomic` the loss of the RAM files; all the
  others stutter or ask.  `OnceCollided`: a collision is never forgotten.
  `committed` is a history of bytes, so that two empty uploads are one there:
  hence one chunk.
* `OneTaskNeverCollides`: with one link and no saver, `Spec => []~collided`, late
  answers included.  While the dispatcher is in `fclose` the transaction is its
  own (`Untouched`).  `OneTaskIsAtomic` draws the conclusion: while no preferences
  are saved, one answered program has all of `AtomicFiles`, `AckedIsCommitted` and
  `ScreensTold`, with no exception.

`TouchProofs` has the proofs of what a touch sets off.  Of `HidOutput` it proves,
for any macros and any trackpad whose lists release what they press
(`HidAssumption`), any number of fingers and any queue:

* `TypeCorrect`: `Spec => []TypeOK`.
* `NothingStuck`: `Spec => []PressHasRelease`.  The invariant `HidInv` says why a
  release is on the way.  `ListSense`: in what is left of a list, a press is
  followed by its release, or, in the LVGL task's, by the end of the hold that
  is recognised (`Covered`).  `StageSense`: a report about to be sent has the
  buttons of its call.  `ButtonSense`: `s_button_state` is not empty only while
  a release of the mouse is coming, since a move will repeat it.  `TouchSense`:
  a recognised hold has a finger down and is not cancelled, so its end is
  queued.  `DownSense` is the property.  `DropFirst`, `QueueingKeeps`,
  `InlineKeeps` and `QuietTouchKeeps` state what the actions have in common.

Of `Backlight`, whose specification is `LightSpec` so that one module can extend
both, it proves, for any tasks, levels and timeouts:

* `LightTypeCorrect`: `LightSpec => []LightTypeOK`.
* `SettingsSurvive`: `LightSpec => []SettingsAgree`.  `LightInv` adds what makes it
  inductive: a level in use is at most 100 and one that nobody chose is the
  board's (`LevelSense`), what boot would read from the file is what is in use
  (`FileSense`: each setter saves), a task about to set a field has it
  (`FieldSense`).  The lemma `ReadsWhatItWrote` is the round trip through the
  file; it needs `LevelSense`, because a level is cut to a byte.
* `LightSleeps`: `OneHost` implies `LightSpec => []SleepComes`, for any number of tasks
  that touch.  `SleepInv` adds where a timeout of 0 can be in force
  (`SleepSense`): only then is the timer left stopped.  `OneHost` is needed, with
  two TLC finds the light left on (below).

`NetworkProofs` proves, for any hosts, networks and number of waiting reports:

* `TypeCorrect`: `Spec => []TypeOK`.
* `StationTries`: without `Overlap`, `Spec => []NeverStranded`.  `StationInv` says
  why the station never idles: one configuration is applied at a time, and its
  stops lead on to it (`OneActive`); a driver that is not off has a network and a
  set `s_started`, or a task about to set it (`StationSense`).  So the handler of
  a report that finds the station idle will connect, and whoever clears the
  flags has stopped the driver before.

* `SettlesRight`: without `Overlap`, `Spec => []SettlesAsConfigured`.  `SettledInv`
  adds to `StationInv` that the last of the waiting reports says the truth of the
  session, whatever the earlier ones say (`LinkInv`), that a started station
  joins the configured network except while a change is made (`ConfigInv`), and
  that a session whose report was handled is served, or about to be, or about
  to end (`ServedInv`).

`DeckImagesProofs` proves, for any keys, pictures, capacity and bounds:

* `TypeCorrect`: `Spec => []TypeOK`.  It needs `CacheInv`: an eviction takes from
  an index that is full.
* `EvictsRight`: `Spec => []EvictsTheOldest`.  `RecencyInv` says that the order of
  the index is the order in which the pictures were last asked for, so that at
  the eviction of the first all the others, as many as the cache holds, have been
  asked for since; `DeviceInv` that the device has what the index says and, but
  for what a raise hid, nothing else.  The lemmas about `RemoveAt`, `Tail` and
  `Append` (`TouchedFacts` and others) say what a touch does to the order.
* `RecordsRight`: `Spec => []RecordsAreTrue`.  `SlotsInv`: between the save of a
  page and its display no slot is certain.

`GesturesProofs` proves, for any pad, span and angle, any trackpads, number of
fingers and delays:

* `TypeCorrect`: `Spec => []TypeOK`.  `TypeInv` adds the type of the centroid.  A
  sum over fingers is a fold in an order that `CHOOSE` picks: `FoldExists`,
  `FoldType`, `FoldOne` and `FoldTwo` say that it is defined, that it is a number,
  and its value for one finger and for two.  They argue by a least counterexample
  (`LeastOf`), since the library's induction takes operators.  `SwipedKinds`,
  `PinchedKinds` and `HeldKinds` list what can become of an engine in a frame.

The other three suppose `HoldLasts`: no trackpad has a hold of 0, as long as a tap.
With one, the same finger is a hold and a click (below).

* `EachHasOneOutcome`: `HoldLasts` implies `Spec => OneOutcome`.  In `OutcomeInv` the
  engines remember what they have run: after a hold the engine is recognised
  still or cancelled, and the finger was down for longer than a tap (`HoldSense`);
  after a swipe, a zoom or a turn the engine is done, or locked in its direction
  (`SwipeSense`, `PairSense`).
* `FramesAreTouches`: `HoldLasts` implies `Spec => ImplementsTouches`.  Every frame is mapped:
  with more fingers it is a `Land`, with fewer a `LiftSome`; with as many a `Move`
  when the one finger of the session is on a trackpad with a hold, a stutter
  otherwise; without any it is a `Lift`; a rebuild is a `Rebuild` or a stutter.
* `StillFingersAreAClick`: `HoldLasts` implies `Spec => StillFingersClick`.  `StillSense`
  says what fingers that have not strayed leave in each engine: the centroid where
  they landed (`OneAt`, `TwoAt`), anchors and locks as they were set (`Quiet`), the
  ages of all that are down (`Timed`) and their number (`Counted`); `Grows`, `Stays`
  and `Shrinks` are its step for each kind of frame.

`FramingProofs` proves, for any commands, replies, noise, lengths a checksum may be
read as, buffer and number of faults:

* `TypeCorrect`: `Spec => []TypeOK`.  `TypeInv` adds that a client that
  opens may still read a left-over frame, and that a program that died holds nothing.

The other two suppose `Unmistakable`, a definition of `Framing`; that the constants
of `MCFraming_pass` satisfy it is an assumption that TLC evaluates there
(`MCUnmistakable`).  No time-out comes before the device is done, no reply loses
its LEN, and what the client is sent can be taken apart: no reply has a second
magic in it, nor when it has lost a byte, and no noise has one or starts with
the second byte of one.  Each part is needed.  A late reply and a lost LEN have
counterexamples below; with a reply whose payload is a frame's beginning
(`<<165, 90, 8>>`) TLC finds `ImplementsRpc` violated, and with a noise of
`<<165, 90, 7>>`, or with `<<165>>` and `<<90>>` that meet, `NothingLostUnprovoked`.
Of the payloads of commands nothing is supposed: the device may find magics in
them and lengths of any size.

* `CallsAreCalls`: `Spec => ImplementsRpc`.  Two things have to be excluded: a
  command carried out that nobody waits for any more, and a reply left over for
  the next call.  A checksum fits one body only, so a frame can only be carried out
  at a checksum, and `Live` are those that the frame the device waits for does not
  cover (`Ends`).  `OneCall` says that there is one at most, that of the call that
  is asked; once it is gone the device has the command, or its reply is on the
  line (`Holds`: the only one, after which no frame begins), or it is lost.
  `WaitsFor`: a device that waits for bytes has no live checksum, so a time-out
  leaves nothing behind that the next bytes could complete, nor does
  one that skips (`Skipped`).  For the host, `Tidy` says that where a frame seems to begin its
  checksum is there or comes next; it is kept when bytes are appended (`JoinTidy`)
  but for an `A5` left over that meets a frame without its own (`SeamJoins`), and
  in a tidy stream the client's search passes over no reply, one that is not
  complete included (`SearchSafe`).  So the frame that it finds is the call's
  (`Taken`), and when nothing comes there is none (`Quiet`).  What the device carries
  out is what was asked (`Delivered`), and `RpcStep` maps each step to one of a call
  or to a stutter.
* `NothingLost`: `Spec => NothingLostUnprovoked`.  `InStep` adds what is on the line
  while nothing was lost: an `A5` at most before the command is sent, and then the
  command, the device's work on it, or its reply.  With that a device that waits
  has the command (`Armed`) and a client that waits has its reply.

They rest on the assumptions that the modules name (`...Assumption`): the
constants' types, what a file system makes of paths (a path names one file, a
slot is in one file), that a file's bytes are none of the marks for a file that
is not there or was emptied (`ContentAssumption`), that the host's lists release
what they press (`HidAssumption`), that a grid has a key and a program finitely
many pictures, more than the cache holds (`DeckImagesAssumption`), that a distance
and an angle do not depend on which point is first and that no threshold of a
trackpad is beyond the ages (`GesturesAssumption`), that a payload fits the
buffer and a LEN, that no two commands have the same payload and that a line may
carry nothing when it opens (`FramingAssumption`).  TLC
evaluates them in every run of the models.  Model-checked only: the refinement
of `AtomicFiles` by a slow device or several savers, and all liveness, which the
prover cannot reach.

## What the code does not do

Each is a promise of a document or a comment, stated as a property and refuted
by TLC.  The first have a configuration, for whoever wants to see the trace
(`tlc -config X.cfg M`):

| Configuration | Property | Promise | What happens |
|---|---|---|---|
| `MCFileTxn_slow_mix` | `WholeFiles` | `docs/python-api.md:219-221`: no partial file is left behind | after a time-out replies are one command behind: the failure of the last chunk is read as the answer to the commit that has installed the rest |
| `MCFileTxn_saver_close` | `WholeFiles` | `main/fs/fs.h:99-100`: a commit atomically renames the staged file into place | a task is saving a preference while an upload is opened; after its `fclose` it reads the paths in `g_txn` again, which are the upload's by now, and renames the upload's empty temporary file over the screen |
| `MCFileTxn_threads_orphan` | `NoOrphanTxn` | `proto/touchy.proto:131`: the handle is invalidated either way | two threads of a program upload (the RPC has a lock, the upload has none): a close with a handle that is not the registered one makes the registry forget the open transaction; its store refuses writes until a reboot |
| `MCLogTunnel_starve` | `LogsDelivered` | `main/api/host_api.cpp:419-422`: a busy UI never starves log delivery | events win every poll, and logs wait for ever |
| `MCScreenReload_overrides` | `OverrideWorn` | `main/widgets/widget_property.h:10-12`: an override applies immediately to a widget on screen | a reference rebuilt in place leaves its ids uncommitted; the table names the widget that was deleted |
| `MCScreenReload_two_links` | `NoLostUpdate` | `main/screens.h:104-107`: the active screen is reloaded so the new bytes take effect | one link's switch displays bytes it copied before another link's upload replaced them |
| `MCNetwork_http` | `ApplyEnds` | `docs/network-api.md:81-82`: credentials can be programmed over an already-configured network | `network_apply` runs in the HTTP server's task and stops that server, which waits for its task to end: neither goes on, and the command is never answered |
| `MCDeckImages_turned` | `SkipsOnlyShown` | `app/src/touchy_pad/touchydeck/deck.py:402-403`: the repaint is skipped when that slot already shows this asset | the user turns the page away and back: the page is built again with blank keys, the deck still knows the former picture, and painting it again does nothing |
| `MCGestures_dragged` | `DragIsNoClick` | `main/widgets/trackpad_widget.cpp:519-521`: crossing the threshold flags the fingers as dragging, suppressing the click | the lift never looks at `dragging`: fingers that move away and come back within `tap_time` have dragged, and click too |
| `MCFraming_lost_len` | `AnswersMatch` | `docs/host-api.md:414-415`: a strict request/reply pair | a reply that loses its LEN byte makes the client wait for a payload made of later replies; the time-outs do not empty its buffer, so a later call is given an earlier one's reply |

The rest can be seen by giving the module's model these constants and the
property.  (For `FileTxn` those not named are as in
`MCFileTxn_threads_orphan.cfg` with one client, for `LogTunnel` as in
`MCLogTunnel_starve.cfg` with `BusyUI = FALSE`, for `ScreenReload` as in
`MCScreenReload_overrides.cfg`, and for the others as in their passing run.)

| Property | Constants | Promise | What happens |
|---|---|---|---|
| `NoOrphanTxn` | `SlowDevice = TRUE`, one chunk, two uploads | as above | the same, by one program: the abort of a command that timed out carries an old handle |
| `AckedIsCommitted` | `SlowDevice = TRUE`, `NChunks = 0` | `docs/host-api.md:68-70`: with `commit = true` the upload is renamed over the destination | an empty upload takes an earlier reply for its own |
| `AckedIsCommitted` | one upload, one preference change | `docs/host-api.md:68-70`: with `commit = true` the temp path is atomically renamed over the destination | the race of `MCFileTxn_saver_close` the other way round: a save that was preparing installs its transaction while the commit is in `fclose`; the commit renames that one's file, still empty, over the preferences and answers OK |
| `WholeFiles` | two clients on a link, two chunks | `main/fs/fs.h:26-27`: one transaction at a time | two threads append to one another's transaction |
| `ScreensTold` | two clients, `LinkOf <- TwoLinks` | `docs/host-api.md:71-75`: a commit reloads the screen that references the file | the second open overwrites `s_active_write_path` before the first close uses it |
| `OneWriter` | two clients on a link | `proto/touchy.proto:111-112`: opening a second transaction returns IO_ERROR | it succeeds and aborts the first, whose owner learns of it at its next chunk |
| `PrefsStored` | one upload, one preference change | `main/prefs.h:34`: a change is persisted immediately | the store refuses the save during an upload; only a log line says so |
| `NoLeakedTmp` | the same | `main/fs/fs.h:102-103`: a close frees the temporary file | a save and an open that race install both; one temporary file stays until a reboot |
| `KeepsOldOrNew` | `RamOom = TRUE`, two uploads | `proto/touchy.proto:116-117`: on any error the old file stays | a RAM file is freed before its new bytes are allocated |
| `FlushedIsWritten` | - | `main/log_proto.cpp:303-305`: once the queue is empty every record has been written to the wire | an empty queue says that the last record was taken, not that it was written |
| `NoLineLostOnTheWire` | - | - | a record taken for a host that has left is gone, and counted nowhere |
| `NoLostUpdate` | one dispatcher, slots sp and sq, both configured to show the page, only sp named | `main/screens.h:104-107`: the new bytes take effect | a page shown by a reference with an id and by one without: the first is rebuilt in place, and no reload is asked for on behalf of the second |
| `ShownIsPersisted` | those of `MCScreenReload_two_links`, screens home and other | `main/screens.h:94`: the last-viewed screen persists across reboots | a second link's switch displays another screen between the first's display and its save |
| `LastScreenKept` | those of `MCScreenReload_screens` | `main/screens.h:94`: the last-viewed screen persists across reboots | a save that fails, for instance because an upload to `F:` is open, is only logged, and a screen that RAM already holds is not saved again when it is next displayed: the boot loads the former one |
| `DefaultOffered` | screens home, other; `Overridden = {}` | `main/screens.h:64-69`: the built-in screen shows when nothing has been uploaded | deleting the default leaves none, though another is registered |
| `ButtonUpAtRest` | those of `MCHidOutput_pass` | `app/src/touchy_pad/api/screens.py:1279-1281`: a drag is pressed by `on_hold` and released by `on_hold_release` | each of the six mishaps alone leaves a key or the button down when all is quiet; that a second finger abandons a hold silently is documented, that the button stays down is not |
| `DragHolds` | the same | `docs/design.md:5353-5355`: during a drag the button is already down from `on_hold` | `on_hold` acts at once and `on_hold_release` is queued: a release that waits behind other macros ends the next drag |
| `IdsNameLiveWidgets` | - | `main/widgets/widget_property.h:26-28`: the widget that shows is changed | see `MCScreenReload_overrides` |
| `ClearedStops` | those of `MCNetwork_pass` | `main/net/network.h:10-11`: when the SSID is cleared it disconnects and stops the servers | a lease reported between the stop and the clearing of the flags starts the server again, and it stays |
| `StoppedOnce` | the same | - | the handler of a loss and `network_apply` both find `s_server` set and stop the same server; what the second does to freed memory is undefined, so neither a command nor the station is sure to go on |
| `NeverStranded`, `ServesAsConfigured` | `Overlap = TRUE`, or two hosts | `main/net/network.h:9`: the boot-time call and a live update go through it | two `network_apply` at a time leave a station that is not told to connect, or that serves for the other's network |
| `OneOutcome` | those of `MCGestures_pass`, with a `hold` of 0 | `main/widgets/trackpad_widget.cpp:670-672`: a recognised hold is not a tap, the dwell exceeded the tap threshold | a lift in the very millisecond in which the hold is recognised is a tap as well |
| `SleepComes` | two hosts | `main/backlight.h:3`: auto-sleep | one command disarms the timer for a timeout of 0 while the other's timeout has been stored: the light stays on |
| `AsleepStaysDark` | those of `MCBacklight_pass` | `main/backlight.h:44`: a level is applied on the next wake when the display sleeps | the display falls asleep between the test of `s_on` and the setting of the level: it is lit, and recorded as asleep |
| `DisabledStaysOn` | the same | `main/backlight.h:38-39`: disabling auto-sleep turns the backlight on | the callback was already under way, and switches it off after that for good |
| `OnlyFirstLost` | those of `MCFraming_pass` | `docs/design.md:2002-2005`: losing the very first frame after open is tolerated, the first round-trip re-establishes sync | a frame cut short by a program that was killed swallows more than one of the next commands |
| `AnswersMatch` | `SlowDevice = TRUE`, `MaxFaults = 0` | `docs/host-api.md:414-415`; `docs/open-issues.md:88-89`: the flush at open absorbs a stale frame | a reply later than the 40 ms of the flush, or than the time-out of a call, answers the next call; the Rust client has no flush at all |
| `GetsThrough` | the payload of command 2 being 165, 90, 3 | `docs/host-api.md:313-314`: the magic lets a reader re-align to a frame boundary | a payload that holds the magic and a length is taken for a frame again and again by a device that has lost one byte, if the same command is retried |
| `ShownIsOnDevice` | `OnePage = TRUE`, no faults | `app/src/touchy_pad/api/image_cache.py:6-9`: the path handed back is on the device, so callers can point a widget at it | the LRU evicts a picture that a key which has not changed still shows |
| `BlankIsOnDevice` | the same | `app/src/touchy_pad/touchydeck/deck.py:343-345`: every key has a valid released image | the blank picture is evicted like any other, its path is kept, and the next page is built with it |
| `MapMatchesDevice` | `MaxFaults = 1` | `docs/design.md:4131-4132`: the in-RAM map always matches device state | an upload raises after it has had its effect: the device has a picture that the map does not |
| `SkipsOnlyShown` | `OnePage = TRUE`, `MaxFaults = 1` | as in `MCDeckImages_turned` | a reset raises after the page was replaced: the records of the former page's slots stay |

## What is left out

* `FileTxn`: listing and reading, the making of directories, an unlink that
  fails, `TempFs`, `drain_pending` of the client (a poll is a poll), and
  `SysReboot` commands (a power cycle stands for them).  Tasks are taken to change
  at the calls that may block, not between two statements in between; two links
  that close the same handle at the same time (a second `fclose` of one stream)
  are taken to close it once; the saver's `fwrite`, a few bytes into the
  buffer of its stream, is one step with the test of its close.  Frames arrive whole
  or not at all; a bad checksum is a lost frame.
* `LogTunnel`: the text of lines.  The prefix parser is a choice between a line
  that passes the threshold and one that does not.
* `ScreenReload`: a file is used either as an image or by a `WidgetRef`;
  references that are a layer's root; the release of a GIF before its file is
  overwritten; the reading of the files of one build one after the other (the
  build is a step, so an upload cannot fall inside it); commands served during
  the boot; a load that fails for want of memory; the default screen is chosen
  in the same step as its bytes are copied; two saves of the preferences at once,
  whose file is `FileTxn`'s subject.  Also seen while modelling and not
  stated as properties: a reference that was emptied by a failed rebuild is not
  refilled by a later upload of its file (`widget_builders.h:86-88` says so); an
  image that was repointed still counts under its first path, which costs a
  needless reload; an upload of another wire-format version deletes the file
  and leaves the former bytes in the registry.
* `HidOutput`: delays (any step may be late), distances, angles and times of
  touches (`Gestures` has them), what a gesture's repeats send, the actions of a list that are not
  macros, a list of several macros (one macro with all their calls), a frame
  that lands a finger and moves another (two frames), the slider's and other
  widgets' own events, the unplugging of USB (the computer sleeps), a macro too
  long to be copied or for which there is no memory.
* `Gestures`: ripples, the scroll bar, the axis of a scroll and whether a whole
  tick has come together (a choice), the amounts that are reported; distances
  and angles are whole, where the code rounds them after taking differences.
* `Backlight`: a save of the preferences that fails (`FileTxn` has it), the
  wake of a second board driver.
* `Network`: mDNS, the key and the host name (fields of a configuration that
  `noTls` stands for), the reading of certificates, HTTP routes
  other than the command's; two tasks that apply configurations at a time are
  left to `Overlap`, and the passing run has none.
* `Framing`: LEN is one byte, a checksum fits the bytes it was computed over
  and no others (the code's has eight bits, and misses one error in 256), a
  command that cannot be decoded, writes that time out on USB, and in the
  passing run payloads that hold the magic and replies that lose their LEN.
* `DeckImages`: one thread at a time paints, as the library demands;
  `ImageCache.clear`, which the deck never calls; how presses reach the program
  (`LogTunnel` has the events); a device that carries the commands out in
  another order (they all go through the queue of `ScreenReload`); whether a
  decoded picture outlives its file on the display; brightness; dynamic images;
  the Rust plugin, whose order of calls is the same under mutexes.
* Everything under status `not_modelled` in `PROJECT.json`, with the reason.

The JavaScript of the repository is two third-party search scripts of generated
documentation (`docs/python-api/assets/javascripts/lunr/wordcut.js` and
`tinyseg.js`).  They are not part of the program and nothing here models them;
the program is C++, Python and Rust.

## The plan

What is left: the simulator's file store, as another refinement of `AtomicFiles`.

`FileTxn` composes `FileStore` and refines `AtomicFiles`; `Framing` refines `Rpc`,
whose calls are the frames of `FileTxn`; `Gestures` refines the touches of
`HidOutput`.  Runs stay few: one for each question,
and refutations of the same promise share one.
