------------------------------ MODULE Gestures ------------------------------
(***************************************************************************)
(* What the trackpad makes of the fingers on it.                           *)
(*                                                                         *)
(*   touch controller --points, in any order--> _process --> action lists  *)
(*                                                                         *)
(* A frame is a call of _process: it reads where the fingers are, lets the *)
(* engines (tap, move, swipe, hold, scroll, zoom, twist) see it, and runs  *)
(* the lists of what they recognise.  A session lasts from the first       *)
(* finger's landing to the lift of the last.                               *)
(*                                                                         *)
(* Between two frames fingers may land, lift and move, and time passes.    *)
(* Ripples, the scroll bar and the amounts that are reported are left out. *)
(***************************************************************************)
EXTENDS Integers, Sequences, Functions

CONSTANTS
    Pad,         \* the points of the pad
    Span,        \* the distance of two points, as sqrtf gives it
    Angle,       \* the direction from one to the other modulo 180, as atan2f
    Trackpads,   \* the Trackpad messages of screens
    MaxFingers,  \* MAX_FINGERS
    Delays,      \* times that pass between two frames
    MaxAge       \* bound: ages beyond it are all the same

(* A field of a Trackpad that is not set.                                   *)
Unset == -1
Field == Nat \cup {Unset}
Engine == [need : Field, time : Nat, more : Field, moreTime : Nat]
Trackpad == [tapTime : Nat, tapDistance : Nat, hold : Field, tan : Nat,
             swipe : Engine, zoom : Engine, twist : Engine]

ASSUME GesturesAssumption ==
    /\ Pad \subseteq Nat \X Nat
    /\ Span \in [Pad \X Pad -> Nat] /\ Angle \in [Pad \X Pad -> 0 .. 179]
    /\ \A p, q \in Pad : Span[<<p, q>>] = Span[<<q, p>>] /\ Angle[<<p, q>>] = Angle[<<q, p>>]
    /\ Trackpads \subseteq Trackpad
    /\ MaxFingers \in Nat \ {0} /\ Delays \subseteq Nat /\ MaxAge \in Nat
    /\ \A t \in Trackpads :
          /\ t.tapTime < MaxAge /\ t.tapTime + t.hold <= MaxAge
          /\ \A e \in {t.swipe, t.zoom, t.twist} :
                e.time < MaxAge /\ e.moreTime < MaxAge /\ e.need # 0

VARIABLES
    trackpad,   \* the Trackpad that is displayed
    fingers,    \* _prev_count
    most,       \* _session_max_fingers
    age,        \* of _fingers[].start_ms
    last,       \* where _fingers[0] was in its last frame
    dragging,   \* _fingers[0].dragging
    centroid,   \* _centroid_*
    scrolling,  \* _scrolling
    swipe, zoom, twist, hold,
    out,        \* the lists that the last frame has run
    past,       \* history: of this session
    abandoned   \* history: a hold has ended without on_hold_release

engines == <<swipe, zoom, twist, hold>>
vars == <<trackpad, fingers, most, age, last, dragging, centroid, scrolling,
          engines, out, past, abandoned>>

Slots == 1 .. MaxFingers
Ages == 0 .. MaxAge
Nowhere == <<0, 0>>
Ways == {"left", "right", "up", "down", "none"}

(* An engine's anchor, its age, and what is locked; done: no more to come.  *)
EngineState(Anchors, Locks) ==
    [anchor : Anchors, age : Ages, done : BOOLEAN, locked : Locks]
Rest(anchor, free) == [anchor |-> anchor, age |-> 0, done |-> FALSE, locked |-> free]
NoHold == [anchor |-> Nowhere, age |-> 0, cancelled |-> FALSE, recognised |-> FALSE]
NoCentroid == [from |-> Nowhere, to |-> Nowhere, n |-> 0]

(* still: fingers have only landed, then only lifted; down: where they are. *)
NoPast == [still |-> "landing", down |-> {}, took |-> 0, quiet |-> TRUE,
           held |-> FALSE, swiped |-> "none", turned |-> {}]

TypeOK ==
    /\ trackpad \in Trackpads
    /\ fingers \in 0 .. MaxFingers /\ most \in fingers .. MaxFingers
    /\ age \in [Slots -> Ages] /\ last \in Pad \cup {Nowhere}
    /\ dragging \in BOOLEAN /\ scrolling \in BOOLEAN
    /\ centroid.n \in 0 .. most
    /\ swipe \in EngineState(Pad \cup {Nowhere}, Ways)
    /\ zoom \in EngineState(Nat, {-1, 0, 1})
    /\ twist \in EngineState(0 .. 179, {-1, 0, 1})
    /\ hold \in [anchor : Pad \cup {Nowhere}, age : Ages, cancelled : BOOLEAN,
                 recognised : BOOLEAN]
    /\ fingers = 0 => most = 0
    /\ abandoned \in BOOLEAN

AtRest ==
    /\ fingers' = 0 /\ most' = 0
    /\ age' = [i \in Slots |-> 0] /\ last' = Nowhere
    /\ dragging' = FALSE /\ scrolling' = FALSE
    /\ centroid' = NoCentroid
    /\ swipe' = Rest(Nowhere, "none") /\ zoom' = Rest(0, 0) /\ twist' = Rest(0, 0)
    /\ hold' = NoHold

Init ==
    /\ trackpad \in Trackpads
    /\ fingers = 0 /\ most = 0
    /\ age = [i \in Slots |-> 0] /\ last = Nowhere
    /\ dragging = FALSE /\ scrolling = FALSE
    /\ centroid = NoCentroid
    /\ swipe = Rest(Nowhere, "none") /\ zoom = Rest(0, 0) /\ twist = Rest(0, 0)
    /\ hold = NoHold
    /\ out = {} /\ past = NoPast /\ abandoned = FALSE

-----------------------------------------------------------------------------
Abs(n) == IF n < 0 THEN -n ELSE n
Sign(n) == IF n > 0 THEN 1 ELSE -1
Older(a, dt) == IF a + dt > MaxAge THEN MaxAge ELSE a + dt

Minus(p, q) == <<p[1] - q[1], p[2] - q[2]>>
Manhattan(d) == Abs(d[1]) + Abs(d[2])
Square(d) == d[1] * d[1] + d[2] * d[2]
SumOf(pts) == <<FoldFunction(LAMBDA p, sum : p[1] + sum, 0, pts),
                FoldFunction(LAMBDA p, sum : p[2] + sum, 0, pts)>>

(* Fingers and their centroid, which no order of the points changes.        *)

(* Mutant: one finger too many is counted.                                  *)
PeakOneMore(pts) == IF Len(pts) > most THEN Len(pts) + 1 ELSE most

Peak(pts) == IF Len(pts) > most THEN Len(pts) ELSE most
One(pts) == Len(pts) = 1 /\ Peak(pts) = 1
Two(pts) == Len(pts) = 2 /\ Peak(pts) = 2

Started(dt, pts) ==
    [i \in Slots |-> IF i > fingers /\ i <= Len(pts) THEN 0
                     ELSE IF i <= most THEN Older(age[i], dt) ELSE 0]

(* Mutant: the first slot is followed, not the sum of all.                  *)
CentredFirst(pts) ==
    IF Peak(pts) > most THEN [from |-> pts[1], to |-> pts[1], n |-> Len(pts)]
    ELSE IF One(pts) \/ Two(pts) THEN [centroid EXCEPT !.to = pts[1]]
    ELSE centroid

Centred(pts) ==
    LET sum == SumOf(pts)
    IN  IF Peak(pts) > most THEN [from |-> sum, to |-> sum, n |-> Len(pts)]
        ELSE IF One(pts) \/ Two(pts) THEN [centroid EXCEPT !.to = sum]
        ELSE centroid

Strays(c) == Manhattan(Minus(c.to, c.from)) > trackpad.tapDistance * c.n

-----------------------------------------------------------------------------
(* The engines: what each is after a frame, and which lists it runs.  What  *)
(* is not read before it is set again is left at rest.                      *)

Anchored(e, anchor) == [e EXCEPT !.anchor = anchor, !.age = 0]
Nothing(e) == [then |-> e, says |-> {}]
Fires(e, says) == [then |-> e, says |-> {says}]

(* _swipe_process: which way a travel goes, if it is in a cone.             *)
Way(d) ==
    LET x == Abs(d[1])
        y == Abs(d[2])
    IN  IF x >= y
        THEN IF y * 256 > x * trackpad.tan THEN "none"
             ELSE IF d[1] > 0 THEN "right" ELSE "left"
        ELSE IF x * 256 > y * trackpad.tan THEN "none"
             ELSE IF d[2] > 0 THEN "down" ELSE "up"
Along(d, way) ==
    CASE way = "right" -> d[1] [] way = "left" -> -d[1]
      [] way = "down" -> d[2] [] way = "up" -> -d[2]

Swiped(e, p) ==
    LET t == trackpad.swipe
        d == Minus(p, e.anchor)
    IN  CASE e.done -> Nothing(e)
          [] ~e.done /\ e.locked = "none" ->
                IF Square(d) < t.need * t.need THEN Nothing(e)
                ELSE IF e.age > t.time THEN Nothing(Anchored(e, p))
                ELSE IF Way(d) = "none" THEN Nothing(e)
                ELSE IF t.more = Unset THEN Fires([e EXCEPT !.done = TRUE], Way(d))
                ELSE Fires([Anchored(e, p) EXCEPT !.locked = Way(d)], Way(d))
          [] OTHER ->
                IF e.age > t.moreTime THEN Nothing(Anchored(e, p))
                ELSE IF Along(d, e.locked) < t.more THEN Nothing(e)
                ELSE Fires(Anchored(e, p), e.locked)

(* _zoom_process, _twist_process: the same for a span and an angle, which   *)
(* has changed by d and is now m.                                           *)
Pinched(e, t, m, d, name) ==
    LET same == d * e.locked
        says == name[Sign(d)]
    IN  CASE e.done -> Nothing(e)
          [] ~e.done /\ e.locked = 0 ->
                IF Abs(d) < t.need THEN Nothing(e)
                ELSE IF e.age > t.time THEN Nothing(Anchored(e, m))
                ELSE IF t.more = Unset THEN Fires([e EXCEPT !.done = TRUE], says)
                ELSE Fires([Anchored(e, m) EXCEPT !.locked = Sign(d)], says)
          [] OTHER ->
                IF same < t.more /\ -same >= t.need
                THEN Fires([Anchored(e, m) EXCEPT !.locked = -e.locked], says)
                ELSE IF e.age > t.moreTime THEN Nothing(Anchored(e, m))
                ELSE IF same < t.more THEN Nothing(e)
                ELSE Fires(Anchored(e, m), says)

(* _wrap_pm90                                                               *)
Wrap(d) == IF d > 90 THEN d - 180 ELSE IF d <= -90 THEN d + 180 ELSE d

ZoomName == [d \in {-1, 1} |-> IF d > 0 THEN "in" ELSE "out"]
TwistName == [d \in {-1, 1} |-> IF d > 0 THEN "cw" ELSE "ccw"]

SwipeFrame(dt, pts) ==
    LET e == IF fingers = 0 THEN Rest(pts[1], "none")
             ELSE [swipe EXCEPT !.age = Older(@, dt)]
    IN  IF trackpad.swipe.need # Unset /\ One(pts) THEN Swiped(e, pts[1])
        ELSE Nothing(Rest(Nowhere, "none"))

(* A pair of fingers is a new one whenever there have not been two.         *)
PairFrame(e, t, dt, pts, m, d, name) ==
    LET fresh == fingers # 2
        now == IF fresh THEN Rest(m, 0) ELSE [e EXCEPT !.age = Older(@, dt)]
    IN  IF t.need # Unset /\ Two(pts)
        THEN Pinched(now, t, m, IF fresh THEN 0 ELSE d, name)
        ELSE Nothing(Rest(0, 0))

ZoomFrame(dt, pts) ==
    LET m == IF Len(pts) = 2 THEN Span[<<pts[1], pts[2]>>] ELSE 0
    IN  PairFrame(zoom, trackpad.zoom, dt, pts, m, m - zoom.anchor, ZoomName)

TwistFrame(dt, pts) ==
    LET m == IF Len(pts) = 2 THEN Angle[<<pts[1], pts[2]>>] ELSE 0
    IN  PairFrame(twist, trackpad.twist, dt, pts, m, Wrap(m - twist.anchor),
                  TwistName)

(* _hold_process, after the anchor is set and a second finger looked for.   *)
Held(e, p) ==
    IF e.cancelled \/ e.recognised THEN Nothing(e)
    ELSE IF Square(Minus(p, e.anchor)) > trackpad.tapDistance * trackpad.tapDistance
         THEN Nothing([e EXCEPT !.cancelled = TRUE])
    ELSE IF e.age >= trackpad.tapTime + trackpad.hold
         THEN Fires([e EXCEPT !.recognised = TRUE], "hold")
    ELSE Nothing(e)

Spent(e) == [NoHold EXCEPT !.cancelled = e.cancelled, !.recognised = e.recognised]

(* Mutant: a second finger ends a hold only before it is recognised.        *)
HoldFrameKept(dt, pts) ==
    LET e == IF fingers = 0 THEN [NoHold EXCEPT !.anchor = pts[1]]
             ELSE [hold EXCEPT !.age = Older(@, dt)]
    IN  IF trackpad.hold = Unset THEN Nothing(hold)
        ELSE IF Len(pts) >= 2 /\ fingers < 2
             THEN Nothing([Spent(e) EXCEPT !.cancelled = ~e.recognised])
        ELSE IF One(pts) THEN Held(e, pts[1]) ELSE Nothing(Spent(e))

HoldFrame(dt, pts) ==
    LET e == IF fingers = 0 THEN [NoHold EXCEPT !.anchor = pts[1]]
             ELSE [hold EXCEPT !.age = Older(@, dt)]
    IN  IF trackpad.hold = Unset THEN Nothing(hold)
        ELSE IF Len(pts) >= 2 /\ fingers < 2
             THEN Nothing([Spent(e) EXCEPT !.cancelled = TRUE, !.recognised = FALSE])
        ELSE IF One(pts) THEN Held(e, pts[1]) ELSE Nothing(Spent(e))

-----------------------------------------------------------------------------
(* Frames.                                                                  *)

Touches == UNION {Injection(1 .. n, Pad) : n \in 1 .. MaxFingers}

StillAfter(down) ==
    IF past.still = "landing" /\ past.down \subseteq down THEN "landing"
    ELSE IF past.still # "moved" /\ down \subseteq past.down THEN "lifting"
    ELSE "moved"

(* There are fingers on the pad.                                            *)
Frame(dt, pts) ==
    LET sw == SwipeFrame(dt, pts)
        zm == ZoomFrame(dt, pts)
        tw == TwistFrame(dt, pts)
        hd == HoldFrame(dt, pts)
        strays == Strays(centroid')
        moves == One(pts) /\ dragging' /\ fingers # 0 /\ pts[1] # last
        begun == IF fingers = 0 THEN NoPast ELSE past
        still == IF fingers = 0 THEN "landing" ELSE StillAfter(Range(pts))
    IN  /\ fingers' = Len(pts) /\ most' = Peak(pts)
        /\ age' = Started(dt, pts)
        /\ centroid' = Centred(pts)
        /\ dragging' = (dragging \/ ((One(pts) \/ Two(pts)) /\ strays))
        /\ scrolling' = (scrolling \/ (Two(pts) /\ strays))
        /\ last' = IF One(pts) THEN pts[1] ELSE Nowhere
        /\ swipe' = sw.then /\ zoom' = zm.then /\ twist' = tw.then /\ hold' = hd.then
        /\ \E scrolls \in BOOLEAN :  \* is there a whole tick to report?
              /\ scrolls => Two(pts) /\ scrolling'
              /\ out' = (IF moves THEN {"move"} ELSE {})
                        \cup (IF scrolls THEN {"scroll"} ELSE {})
                        \cup sw.says \cup zm.says \cup tw.says \cup hd.says
        /\ past' = [still |-> still,
                    down |-> IF still = "moved" THEN {} ELSE Range(pts),
                    took |-> IF fingers = 0 \/ still = "moved" THEN 0
                             ELSE Older(past.took, dt),
                    quiet |-> still = "moved" \/ (begun.quiet /\ out' \ {"hold"} = {}),
                    held |-> begun.held \/ hd.says # {},
                    swiped |-> IF sw.says = {} THEN begun.swiped
                               ELSE CHOOSE w \in sw.says : TRUE,
                    turned |-> IF Len(pts) # 2 THEN {}
                               ELSE begun.turned \cup zm.says \cup tw.says]
        /\ abandoned' = (abandoned \/ (hold.recognised /\ ~hd.then.recognised))
        /\ UNCHANGED trackpad

(* Mutant: the time is not compared.                                        *)
IsTapAnyTime(dt) == ~Strays(centroid)

(* _clickButton                                                             *)
Click(n) == IF n = 1 THEN "left_click" ELSE IF n = 2 THEN "right_click" ELSE "middle_click"

IsTap(dt) ==
    /\ ~Strays(centroid)
    /\ \A i \in 1 .. most : Older(age[i], dt) <= trackpad.tapTime

(* The last finger has lifted: the end of a hold, a click, or neither.      *)
Lift(dt) ==
    /\ fingers > 0
    /\ out' = (IF hold.recognised /\ ~hold.cancelled THEN {"release"} ELSE {})
              \cup (IF IsTap(dt) THEN {Click(most)} ELSE {})
    /\ AtRest
    /\ past' = [past EXCEPT !.still = StillAfter({}), !.down = {},
                            !.took = Older(@, dt), !.turned = {}]
    /\ UNCHANGED <<trackpad, abandoned>>

(* The screen is replaced.                                                  *)
Rebuild ==
    /\ trackpad' \in Trackpads
    /\ AtRest
    /\ out' = {} /\ past' = NoPast
    /\ abandoned' = (abandoned \/ hold.recognised)

Next ==
    \/ \E dt \in Delays : Lift(dt) \/ \E pts \in Touches : Frame(dt, pts)
    \/ Rebuild

Spec == Init /\ [][Next]_vars

-----------------------------------------------------------------------------
(* Properties.                                                              *)

Clicks == out' \cap {Click(n) : n \in Slots}
Lifted == fingers # 0 /\ fingers' = 0 /\ UNCHANGED trackpad

(* Fingers that land and lift and never move are understood, in whatever    *)
(* order they land, lift and are reported: nothing is moved, scrolled,      *)
(* zoomed or turned, a session not longer than tapTime is a click of as     *)
(* many fingers as there were.                                              *)
StillClick ==
    Lifted /\ past'.still = "lifting" =>
        /\ past.quiet
        /\ past'.took <= trackpad.tapTime => out' = {Click(most)}
StillFingersClick == [][StillClick]_vars

(* A session has one outcome: no click if it was a hold, one end of a hold  *)
(* that has begun, one swipe, or swipes in one direction only, one zoom and *)
(* one turn of a pair of fingers.                                           *)
Outcome ==
    fingers # 0 =>
        /\ past.held => Clicks = {} /\ "hold" \notin out'
        /\ "release" \in out' => past.held
        /\ past.swiped # "none" /\ out' \cap Ways # {} =>
              trackpad.swipe.more # Unset /\ past.swiped \in out'
        /\ past.turned \cap {"in", "out"} # {} /\ out' \cap {"in", "out"} # {}
              /\ fingers' = 2 => trackpad.zoom.more # Unset
        /\ past.turned \cap {"cw", "ccw"} # {} /\ out' \cap {"cw", "ccw"} # {}
              /\ fingers' = 2 => trackpad.twist.more # Unset
OneOutcome == [][Outcome]_vars

(* HidOutput takes sessions for less than they are here: how many fingers   *)
(* there are and were, whether a hold goes on, and no more.                 *)
Touch == INSTANCE HidOutput WITH
    Controls <- {}, Macros <- {}, OnTap <- [n \in Slots |-> <<>>],
    OnHold <- <<>>, OnHoldRelease <- <<>>, OnMove <- {}, OnTwoFingers <- {<<>>},
    QueueDepth <- 1, Sleeps <- FALSE, queue <- <<>>,
    hid <- [t \in {"macros", "lvgl"} |->
              [calls |-> <<>>, at |-> "wait", mask |-> {}]],
    buttons <- {}, endpoint <- [to |-> "nobody", down |-> {}], awake <- TRUE,
    computer <- [d \in {"mouse", "keyboard", "consumer"} |-> {}],
    held <- hold.recognised,
    cancelled <- IF trackpad.hold = Unset THEN most >= 2 ELSE hold.cancelled,
    long <- fingers # 0 /\ past.held, mishap <- abandoned
ImplementsTouches == Touch!Spec

(* trackpad_widget.cpp:520: fingers that drag are flagged, suppressing the  *)
(* click that their lift would otherwise produce.                           *)
DragIsNoClick == [][dragging => Clicks = {}]_vars
=============================================================================
