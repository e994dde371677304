----------------------------- MODULE HidOutput -----------------------------
(***************************************************************************)
(* From a touch to the reports the computer gets.                          *)
(*                                                                         *)
(*  widgets, RunActions --macros_run--> s_queue --> macros task --+        *)
(*  trackpad taps, hold release ----^                             |        *)
(*  trackpad moves, hold --macros_run_inline--> LVGL task --------+        *)
(*                                                                v        *)
(*                              s_button_state, USB endpoint --> computer  *)
(*                                                                         *)
(* Two tasks call usb_hid_*.  A call waits until the endpoint is free and  *)
(* then, a step or two later, uses it; nothing keeps the other task from   *)
(* using it in between.  A macro is the sequence of the calls that its     *)
(* steps make; delays are left to interleaving.                            *)
(***************************************************************************)
EXTENDS Naturals, Sequences

CONSTANTS
    Controls,       \* keys, modifiers, mouse buttons and consumer usages
    Macros,         \* what widgets and RunActions may start
    OnTap,          \* on_left_click, on_right_click, on_middle_click
    OnHold, OnHoldRelease,
    OnMove,         \* on_move and the swipes
    OnTwoFingers,   \* on_scroll, the zooms and the twists
    QueueDepth,     \* MACRO_QUEUE_DEPTH
    MaxFingers,
    Sleeps          \* may the computer suspend the bus?

Devices == {"mouse", "keyboard", "consumer"}

(* The steps of a macro.  A move or a scroll keeps the buttons as they are. *)
Buttons(b) == [to |-> "mouse", does |-> "set", down |-> b]
Pointer == [to |-> "mouse", does |-> "keep", down |-> {}]
Keys(k) == [to |-> "keyboard", does |-> "set", down |-> k]
Click(b) == <<Buttons(b), Buttons({})>>
KeyTap(k) == <<Keys(k), Keys({})>>
Zoom(ctrl) == <<Keys(ctrl), Pointer, Keys({})>>
ConsumerKey(u) == <<[to |-> "consumer", does |-> "set", down |-> u],
                    [to |-> "consumer", does |-> "set", down |-> {}]>>

Call == [to : Devices, does : {"set"}, down : SUBSET Controls] \cup {Pointer}
List == Seq(Call)

Presses(c) == c.does = "set" /\ c.down # {}
Releases(c, d) == c.to = d /\ c.does = "set" /\ c.down = {}
ReleasesIn(calls, d) == \E i \in DOMAIN calls : Releases(calls[i], d)

(* Whatever a list of calls presses it releases.                            *)
Balanced(calls) ==
    \A i \in DOMAIN calls : Presses(calls[i]) =>
        \E j \in DOMAIN calls : j > i /\ Releases(calls[j], calls[i].to)

ASSUME HidAssumption ==
    /\ QueueDepth \in Nat \ {0} /\ MaxFingers \in Nat \ {0} /\ Sleeps \in BOOLEAN
    /\ Macros \subseteq List /\ OnMove \subseteq List /\ OnTwoFingers \subseteq List
    /\ OnTap \in [1 .. MaxFingers -> List]
    /\ OnHold \in List /\ OnHoldRelease \in List
    \* the host's half: lists release what they press, the hold's when it ends
    /\ \A m \in Macros \cup OnMove \cup OnTwoFingers : Balanced(m)
    /\ \A n \in 1 .. MaxFingers : Balanced(OnTap[n])
    /\ Balanced(OnHoldRelease)
    /\ \A i \in DOMAIN OnHold : Presses(OnHold[i]) =>
           ReleasesIn(OnHoldRelease, OnHold[i].to)

VARIABLES
    queue,     \* s_queue
    hid,       \* the calls each task has before it, and how far the first one is
    buttons,   \* s_button_state
    endpoint,  \* the report that waits for the computer's next poll
    awake,     \* tud_mounted() and not suspended
    computer,  \* what is down on each device, as the computer has been told
    fingers,   \* _prev_count
    most,      \* _session_max_fingers
    held,      \* _hold_recognised
    cancelled, \* _hold_cancelled
    long,      \* a finger has been down for longer than a tap
    mishap     \* history: one of the things marked Mishap has happened

vars == <<queue, hid, buttons, endpoint, awake, computer, fingers, most, held,
          cancelled, long, mishap>>
touchVars == <<fingers, most, held, cancelled, long>>

Tasks == {"macros", "lvgl"}
Stages == {"wait", "buttons", "send"}
NoReport == [to |-> "nobody", down |-> {}]
Report == [to : Devices, down : SUBSET Controls]

Idle == [calls |-> <<>>, at |-> "wait", mask |-> {}]
Calls(calls) == [calls |-> calls, at |-> "wait", mask |-> {}]
Free(t) == hid[t].calls = <<>>
First(t) == Head(hid[t].calls)

TypeOK ==
    /\ queue \in Seq(List) /\ Len(queue) <= QueueDepth
    /\ hid \in [Tasks -> [calls : List, at : Stages, mask : SUBSET Controls]]
    /\ buttons \in SUBSET Controls
    /\ endpoint \in Report \cup {NoReport}
    /\ awake \in BOOLEAN
    /\ computer \in [Devices -> SUBSET Controls]
    /\ fingers \in 0 .. MaxFingers /\ most \in 0 .. MaxFingers
    /\ held \in BOOLEAN /\ cancelled \in BOOLEAN /\ long \in BOOLEAN
    /\ mishap \in BOOLEAN

Init ==
    /\ queue = <<>> /\ hid = [t \in Tasks |-> Idle]
    /\ buttons = {} /\ endpoint = NoReport
    /\ awake = TRUE /\ computer = [d \in Devices |-> {}]
    /\ fingers = 0 /\ most = 0 /\ held = FALSE /\ cancelled = FALSE /\ long = FALSE
    /\ mishap = FALSE

Mishap(happens) == mishap' = (mishap \/ happens)

-----------------------------------------------------------------------------
(* usb_hid_*, called by task t.  wait_ready finds the endpoint free, ...    *)
Ready == awake /\ endpoint = NoReport

SkipTo(t, calls) == hid' = [hid EXCEPT ![t] = Calls(calls)]
GoTo(t, stage, mask) ==
    hid' = [hid EXCEPT ![t] = [calls |-> @.calls, at |-> stage, mask |-> mask]]

WaitReady(t) ==
    /\ ~Free(t) /\ hid[t].at = "wait" /\ Ready
    /\ GoTo(t, IF First(t).to = "mouse" THEN "buttons" ELSE "send", {})
    /\ UNCHANGED <<queue, buttons, endpoint, awake, computer, touchVars, mishap>>

(* ... or gives up after 100 ms, and with a press the consumer release.     *)
TimeOut(t) ==
    /\ ~Free(t) /\ hid[t].at = "wait" /\ ~Ready
    /\ LET rest == Tail(hid[t].calls)
       IN  SkipTo(t, IF First(t).to = "consumer" /\ Presses(First(t)) /\ rest # <<>>
                     THEN Tail(rest) ELSE rest)
    /\ Mishap(TRUE)
    /\ UNCHANGED <<queue, buttons, endpoint, awake, computer, touchVars>>

(* A mouse report: buttons are remembered, a move or a scroll repeats them. *)
TakeButtons(t) ==
    /\ ~Free(t) /\ hid[t].at = "buttons"
    /\ buttons' = IF First(t).does = "set" THEN First(t).down ELSE buttons
    /\ GoTo(t, "send", buttons')
    /\ UNCHANGED <<queue, endpoint, awake, computer, touchVars, mishap>>

(* tud_hid_report fails when the endpoint has been claimed meanwhile.       *)
Send(t) ==
    LET c == First(t)
        down == IF c.to = "mouse" THEN hid[t].mask ELSE c.down
    IN  /\ ~Free(t) /\ hid[t].at = "send"
        /\ \/ /\ endpoint = NoReport
              /\ endpoint' = [to |-> c.to, down |-> down]
              /\ Mishap(c.to = "mouse" /\ down # buttons)
           \/ /\ endpoint # NoReport
              /\ UNCHANGED endpoint
              /\ Mishap(TRUE)
        /\ SkipTo(t, Tail(hid[t].calls))
        /\ UNCHANGED <<queue, buttons, awake, computer, touchVars>>

(* The computer.                                                            *)
Poll ==
    /\ awake /\ endpoint # NoReport
    /\ computer' = [computer EXCEPT ![endpoint.to] = endpoint.down]
    /\ endpoint' = NoReport
    /\ UNCHANGED <<queue, hid, buttons, awake, touchVars, mishap>>

Sleep ==
    /\ Sleeps
    /\ awake' = ~awake
    /\ UNCHANGED <<queue, hid, buttons, endpoint, computer, touchVars, mishap>>

-----------------------------------------------------------------------------
(* Mutant: the oldest macro makes room.                                     *)
EnqueueDropsOldest(m) ==
    /\ queue' = IF m = <<>> THEN queue
                ELSE Append(IF Len(queue) = QueueDepth THEN Tail(queue) ELSE queue, m)
    /\ UNCHANGED mishap

(* Mutant: one macro too many is taken.                                     *)
EnqueueOneMore(m) ==
    IF m # <<>> /\ Len(queue) <= QueueDepth
    THEN queue' = Append(queue, m) /\ UNCHANGED mishap
    ELSE queue' = queue /\ Mishap(m # <<>>)

(* macros_run: never waits.                                                 *)
Enqueue(m) ==
    IF m # <<>> /\ Len(queue) < QueueDepth
    THEN queue' = Append(queue, m) /\ UNCHANGED mishap
    ELSE queue' = queue /\ Mishap(m # <<>>)

(* runner_task takes the next macro.                                        *)
Take ==
    /\ Free("macros") /\ queue # <<>>
    /\ SkipTo("macros", Head(queue))
    /\ queue' = Tail(queue)
    /\ UNCHANGED <<buttons, endpoint, awake, computer, touchVars, mishap>>

(* A widget's event, or RunActions under the LVGL lock.  The LVGL task      *)
(* keeps the lock while it runs calls inline.                               *)
RunAction(m) ==
    /\ Free("lvgl")
    /\ Enqueue(m)
    /\ UNCHANGED <<hid, buttons, endpoint, awake, computer, touchVars>>

(* macros_run_inline, by the LVGL task.                                     *)
Inline(calls) == SkipTo("lvgl", calls)

-----------------------------------------------------------------------------
(* A frame of the trackpad, _process, by what it finds.  Distances, angles  *)
(* and times are left out, but that a hold lasts longer than a tap.         *)

(* More fingers: the first starts a session, the second ends a hold.        *)
Land(n) ==
    LET second == n >= 2 /\ fingers < 2
    IN  /\ Free("lvgl") /\ n > fingers
        /\ fingers' = n
        /\ most' = IF n > most THEN n ELSE most
        /\ cancelled' = (second \/ (fingers # 0 /\ cancelled))
        /\ held' = (~second /\ fingers # 0 /\ held)
        /\ long' = (fingers # 0 /\ long)
        /\ Mishap(second /\ held)   \* no on_hold_release
        /\ UNCHANGED <<queue, hid, buttons, endpoint, awake, computer>>

(* One finger moves (or not), leaves the radius of a hold, or is held.      *)
Move(m, leaves, recognised) ==
    /\ Free("lvgl") /\ fingers = 1 /\ most = 1
    /\ leaves \/ recognised => ~held /\ ~cancelled
    /\ ~(leaves /\ recognised)
    /\ cancelled' = (cancelled \/ leaves)
    /\ held' = (held \/ recognised)
    /\ long' = (long \/ recognised)
    /\ Inline(IF recognised THEN m \o OnHold ELSE m)
    /\ UNCHANGED <<queue, buttons, endpoint, awake, computer, fingers, most, mishap>>

(* Two fingers scroll, pinch or turn.                                       *)
MoveTwo(m) ==
    /\ Free("lvgl") /\ fingers = 2 /\ most = 2
    /\ Inline(m)
    /\ UNCHANGED <<queue, buttons, endpoint, awake, computer, touchVars, mishap>>

(* Fewer fingers, but one.                                                  *)
LiftSome(n) ==
    /\ Free("lvgl") /\ n >= 1 /\ n < fingers
    /\ fingers' = n
    /\ UNCHANGED <<queue, hid, buttons, endpoint, awake, computer, most, held,
                   cancelled, long, mishap>>

(* Mutant: a finger that lifts is not checked for the end of a hold.        *)
LiftForgetsHold(tap) ==
    /\ Free("lvgl") /\ fingers > 0
    /\ tap => ~long
    /\ Enqueue(IF tap THEN OnTap[most] ELSE <<>>)
    /\ fingers' = 0 /\ most' = 0
    /\ held' = FALSE /\ cancelled' = FALSE /\ long' = FALSE
    /\ UNCHANGED <<hid, buttons, endpoint, awake, computer>>

(* The last finger lifts: the end of a hold, a tap or neither.              *)
Lift(tap) ==
    /\ Free("lvgl") /\ fingers > 0
    /\ tap => ~long
    /\ Enqueue(IF held /\ ~cancelled THEN OnHoldRelease
               ELSE IF tap THEN OnTap[most] ELSE <<>>)
    /\ fingers' = 0 /\ most' = 0
    /\ held' = FALSE /\ cancelled' = FALSE /\ long' = FALSE
    /\ UNCHANGED <<hid, buttons, endpoint, awake, computer>>

(* The trackpad is deleted with its screen, and another one is made.        *)
Rebuild ==
    /\ Free("lvgl") /\ fingers > 0
    /\ fingers' = 0 /\ most' = 0
    /\ held' = FALSE /\ cancelled' = FALSE /\ long' = FALSE
    /\ Mishap(held)
    /\ UNCHANGED <<queue, hid, buttons, endpoint, awake, computer>>

-----------------------------------------------------------------------------
Run(t) == WaitReady(t) \/ TimeOut(t) \/ TakeButtons(t) \/ Send(t)

Touch ==
    \/ \E n \in 1 .. MaxFingers : Land(n) \/ LiftSome(n)
    \/ \E m \in OnMove \cup {<<>>}, leaves, recognised \in BOOLEAN :
          Move(m, leaves, recognised)
    \/ \E m \in OnTwoFingers : MoveTwo(m)
    \/ \E tap \in BOOLEAN : Lift(tap)
    \/ Rebuild

Next ==
    \/ \E t \in Tasks : Run(t)
    \/ Take \/ Poll \/ Sleep
    \/ \E m \in Macros : RunAction(m)
    \/ Touch

Spec == Init /\ [][Next]_vars

(* The tasks run and the computer polls; nobody has to touch anything.      *)
FairSpec ==
    /\ Spec
    /\ \A t \in Tasks : WF_vars(Run(t))
    /\ WF_vars(Take) /\ WF_vars(Poll)

-----------------------------------------------------------------------------
(* What must hold.                                                          *)

(* A release of device d that is still to come.                             *)
Owed(d) ==
    \/ \E t \in Tasks : ReleasesIn(hid[t].calls, d)
    \/ \E i \in DOMAIN queue : ReleasesIn(queue[i], d)
    \/ held /\ ReleasesIn(OnHoldRelease, d)
    \/ endpoint = [to |-> d, down |-> {}]

(* No key and no button stays down: what is down, or about to be, has its   *)
(* release on the way, whatever the two tasks do in whatever order, but for *)
(* the mishaps: the places marked above are the only ways to a stuck key.   *)
PressHasRelease ==
    ~mishap =>
        \A d \in Devices :
            computer[d] # {} \/ (endpoint.to = d /\ endpoint.down # {}) => Owed(d)

(* A drag ends once its finger is lifted, unless the computer sleeps.       *)
DragEnds ==
    (computer["mouse"] # {}) ~>
        (computer["mouse"] = {} \/ held \/ mishap \/ ~awake)

(* A computer that sleeps or is slow never blocks the screen, ...           *)
UiRecovers == ~Free("lvgl") ~> Free("lvgl")

(* ... nor the macros behind the one it stops.                              *)
QueueMoves == (Len(queue) = QueueDepth) ~> (Len(queue) < QueueDepth)

(* Nothing on the device waits for the computer for ever.                   *)
NothingBlocks == UiRecovers /\ QueueMoves

(* What was begun ends: a drag, a wait, a macro.                            *)
OutputEnds == DragEnds /\ NothingBlocks

-----------------------------------------------------------------------------
(* What the documents say and the code does not do.                         *)

(* screens.py: a drag is pressed by on_hold and released by                 *)
(* on_hold_release, so that nothing is down once all is quiet.              *)
ButtonUpAtRest ==
    (fingers = 0 /\ queue = <<>> /\ endpoint = NoReport /\ \A t \in Tasks : Free(t)) =>
        \A d \in Devices : computer[d] = {}

(* design.md: during a drag "the button is already down from on_hold".      *)
DragHolds ==
    (~mishap /\ held /\ Free("lvgl") /\ endpoint = NoReport) =>
        computer["mouse"] # {}
=============================================================================
