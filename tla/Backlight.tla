----------------------------- MODULE Backlight -----------------------------
(***************************************************************************)
(* The backlight, its sleep timer, and the preferences that set them.      *)
(*                                                                         *)
(*   touches (LVGL task) --wake--------------> s_on, the light, the timer  *)
(*   dispatchers --wake, set a preference----> s_timeout_ms, s_level, flash*)
(*   timer task  --sleep_timer_cb------------> the light, s_on             *)
(*                                                                         *)
(* None of them takes a lock: the light is switched in one step and        *)
(* recorded in s_on in another.                                            *)
(***************************************************************************)
EXTENDS Naturals, FiniteSets

CONSTANTS
    Touchers,  \* tasks that only wake: LVGL's
    Hosts,     \* dispatcher tasks
    Timeouts,  \* values sent for screen_timeout_ms
    Levels,    \* values sent for backlight_level: uint32
    Unset      \* a field of a partial message that is not there

ASSUME BacklightAssumption ==
    /\ Timeouts \subseteq Nat
    /\ Levels \subseteq Nat
    /\ Unset \notin Nat
    /\ Touchers \cap Hosts = {}

VARIABLES
    light,        \* the level the board shows
    s_on,
    s_level,
    s_timeout_ms,
    armed,        \* is s_timer running?
    callback,     \* the timer task's place in sleep_timer_cb
    task,         \* where each task is
    m,            \* Prefs: m_timeout_ms, m_backlight_level, whether explicit
    flash         \* prefs/prefs.pb, with Unset for a field it does not have

lightVars == <<light, s_on, s_level, s_timeout_ms, armed, callback>>
allVars == <<lightVars, task, m, flash>>

Callers == Touchers \cup Hosts

DefaultTimeout == 300000
DefaultLevel == 100     \* an LCD board's; a matrix of LEDs has 10

MinOf(a, b) == IF a < b THEN a ELSE b
Byte(n) == n % 256

(* A task: its place, and the message it applies.                           *)
Places == {"idle", "wake", "light", "mark", "arm", "stop", "start",
           "timeout", "disarm", "ensure", "level", "awake", "show", "save"}
TaskState == [at : Places, timeout : Nat \cup {Unset},
              level : Nat \cup {Unset}]
Resting == [at |-> "idle", timeout |-> Unset, level |-> Unset]

Prefs == [timeout : Nat, level : Nat, explicit : BOOLEAN]
File == [timeout : Nat \cup {Unset}, level : Nat \cup {Unset}]

LightTypeOK ==
    /\ light \in 0 .. 100 /\ s_level \in 0 .. 100
    /\ s_on \in BOOLEAN /\ armed \in BOOLEAN
    /\ s_timeout_ms \in Nat
    /\ callback \in {"none", "off", "record"}
    /\ task \in [Callers -> TaskState]
    /\ m \in Prefs
    /\ flash \in File

(* Prefs::begin on the file; a field that is not there keeps its default.   *)
Loaded(file) ==
    [timeout |-> IF file.timeout = Unset THEN DefaultTimeout ELSE file.timeout,
     level |-> IF file.level = Unset THEN DefaultLevel ELSE Byte(file.level),
     explicit |-> file.level # Unset]

(* Mutant: zero is taken for a field that is not there.                     *)
SavedNonZero(p) == [timeout |-> IF p.timeout = 0 THEN Unset ELSE p.timeout,
                    level |-> IF p.explicit THEN p.level ELSE Unset]

(* Prefs::save: a level nobody chose is not written.                        *)
Saved(p) == [timeout |-> p.timeout,
             level |-> IF p.explicit THEN p.level ELSE Unset]

(* backlight_init                                                           *)
Booted(p) ==
    /\ light = p.level /\ s_level = p.level
    /\ s_on = TRUE
    /\ s_timeout_ms = p.timeout
    /\ armed = (p.timeout > 0)
    /\ callback = "none"
    /\ task = [t \in Callers |-> Resting]
    /\ m = p

LightInit ==
    /\ flash = [timeout |-> Unset, level |-> Unset]
    /\ Booted(Loaded(flash))

(* A power cycle: boot reads the file, whatever was in progress.            *)
PowerCycle ==
    LET p == Loaded(flash) IN
    /\ light' = p.level /\ s_level' = p.level
    /\ s_on' = TRUE
    /\ s_timeout_ms' = p.timeout
    /\ armed' = (p.timeout > 0)
    /\ callback' = "none"
    /\ task' = [t \in Callers |-> Resting]
    /\ m' = p
    /\ UNCHANGED flash

-----------------------------------------------------------------------------
(* backlight_wake: for a touch, a ScreenWake or a SetProperties.            *)

At(t, place) == task[t].at = place
Goto(t, place) == task' = [task EXCEPT ![t].at = place]

BeginWake(t) ==
    /\ At(t, "idle")
    /\ task' = [task EXCEPT ![t] = [Resting EXCEPT !.at = "wake"]]
    /\ UNCHANGED <<lightVars, m, flash>>

Wake(t) ==
    /\ At(t, "wake")
    /\ Goto(t, IF s_on THEN "arm" ELSE "light")
    /\ UNCHANGED <<lightVars, m, flash>>

SwitchOn(t) ==
    /\ At(t, "light")
    /\ light' = s_level
    /\ Goto(t, "mark")
    /\ UNCHANGED <<s_on, s_level, s_timeout_ms, armed, callback, m, flash>>

(* A wake goes on to the timer; a set_timeout(0) has disarmed it.           *)
MarkOn(t) ==
    /\ At(t, "mark")
    /\ s_on' = TRUE
    /\ Goto(t, IF task[t].timeout = 0 THEN "level" ELSE "arm")
    /\ UNCHANGED <<light, s_level, s_timeout_ms, armed, callback, m, flash>>

-----------------------------------------------------------------------------
(* arm_timer, for a wake or for the timeout of a message.                   *)

AfterArm(t) == IF task[t].timeout = Unset THEN "idle" ELSE "level"

Arm(t) ==
    /\ At(t, "arm")
    /\ Goto(t, IF s_timeout_ms = 0 THEN AfterArm(t) ELSE "stop")
    /\ UNCHANGED <<lightVars, m, flash>>

StopTimer(t) ==
    /\ At(t, "stop")
    /\ armed' = FALSE
    /\ Goto(t, "start")
    /\ UNCHANGED <<light, s_on, s_level, s_timeout_ms, callback, m, flash>>

StartTimer(t) ==
    /\ At(t, "start")
    /\ armed' = TRUE
    /\ Goto(t, AfterArm(t))
    /\ UNCHANGED <<light, s_on, s_level, s_timeout_ms, callback, m, flash>>

-----------------------------------------------------------------------------
(* Prefs::apply_partial.                                                    *)

SetPreferences(h) ==
    /\ At(h, "idle")
    /\ \E ms \in Timeouts \cup {Unset}, level \in Levels \cup {Unset} :
          task' = [task EXCEPT ![h] =
                     [at |-> IF ms = Unset THEN "level" ELSE "timeout",
                      timeout |-> ms, level |-> level]]
    /\ UNCHANGED <<lightVars, m, flash>>

(* Mutant: a new timeout counts from the next wake.                         *)
SetTimeoutLater(h) ==
    LET ms == task[h].timeout IN
    /\ At(h, "timeout")
    /\ s_timeout_ms' = ms
    /\ m' = [m EXCEPT !.timeout = ms]
    /\ flash' = Saved(m')
    /\ Goto(h, IF ms = 0 THEN "disarm" ELSE "level")
    /\ UNCHANGED <<light, s_on, s_level, armed, callback>>

(* backlight_set_timeout, up to the save it makes.                          *)
SetTimeout(h) ==
    LET ms == task[h].timeout IN
    /\ At(h, "timeout")
    /\ s_timeout_ms' = ms
    /\ m' = [m EXCEPT !.timeout = ms]
    /\ flash' = Saved(m')
    /\ Goto(h, IF ms = 0 THEN "disarm" ELSE "arm")
    /\ UNCHANGED <<light, s_on, s_level, armed, callback>>

Disarm(h) ==
    /\ At(h, "disarm")
    /\ armed' = FALSE
    /\ Goto(h, "ensure")
    /\ UNCHANGED <<light, s_on, s_level, s_timeout_ms, callback, m, flash>>

EnsureOn(h) ==
    /\ At(h, "ensure")
    /\ Goto(h, IF s_on THEN "level" ELSE "light")
    /\ UNCHANGED <<lightVars, m, flash>>

(* Mutant: the level is not limited.                                        *)
SetLevelRaw(h) ==
    /\ At(h, "level")
    /\ \/ /\ task[h].level = Unset
          /\ Goto(h, "save")
          /\ UNCHANGED <<s_level, m, flash>>
       \/ /\ task[h].level # Unset
          /\ s_level' = Byte(task[h].level)
          /\ m' = [m EXCEPT !.level = s_level', !.explicit = TRUE]
          /\ flash' = Saved(m')
          /\ Goto(h, "awake")
    /\ UNCHANGED <<light, s_on, s_timeout_ms, armed, callback>>

(* backlight_set_level, up to the save it makes; the field is cut to a byte *)
(* before it is limited to 100.                                             *)
SetLevel(h) ==
    /\ At(h, "level")
    /\ \/ /\ task[h].level = Unset
          /\ Goto(h, "save")
          /\ UNCHANGED <<s_level, m, flash>>
       \/ /\ task[h].level # Unset
          /\ s_level' = MinOf(Byte(task[h].level), 100)
          /\ m' = [m EXCEPT !.level = s_level', !.explicit = TRUE]
          /\ flash' = Saved(m')
          /\ Goto(h, "awake")
    /\ UNCHANGED <<light, s_on, s_timeout_ms, armed, callback>>

IfAwake(h) ==
    /\ At(h, "awake")
    /\ Goto(h, IF s_on THEN "show" ELSE "save")
    /\ UNCHANGED <<lightVars, m, flash>>

ShowLevel(h) ==
    /\ At(h, "show")
    /\ light' = MinOf(Byte(task[h].level), 100)
    /\ Goto(h, "save")
    /\ UNCHANGED <<s_on, s_level, s_timeout_ms, armed, callback, m, flash>>

Save(h) ==
    /\ At(h, "save")
    /\ flash' = Saved(m)
    /\ task' = [task EXCEPT ![h] = Resting]
    /\ UNCHANGED <<lightVars, m>>

-----------------------------------------------------------------------------
(* sleep_timer_cb                                                           *)

Expire ==
    /\ armed /\ callback = "none"
    /\ armed' = FALSE
    /\ callback' = "off"
    /\ UNCHANGED <<light, s_on, s_level, s_timeout_ms, task, m, flash>>

SwitchOff ==
    /\ callback = "off"
    /\ light' = 0
    /\ callback' = "record"
    /\ UNCHANGED <<s_on, s_level, s_timeout_ms, armed, task, m, flash>>

(* Mutant: the light is off, and s_on is not told.                          *)
RecordOffNot ==
    /\ callback = "record"
    /\ callback' = "none"
    /\ UNCHANGED <<light, s_on, s_level, s_timeout_ms, armed, task, m, flash>>

RecordOff ==
    /\ callback = "record"
    /\ s_on' = FALSE
    /\ callback' = "none"
    /\ UNCHANGED <<light, s_level, s_timeout_ms, armed, task, m, flash>>

Callback == SwitchOff \/ RecordOff

WakeStep(t) ==
    \/ Wake(t) \/ SwitchOn(t) \/ MarkOn(t)
    \/ Arm(t) \/ StopTimer(t) \/ StartTimer(t)

HostStep(h) ==
    \/ SetTimeout(h) \/ Disarm(h) \/ EnsureOn(h)
    \/ SetLevel(h) \/ IfAwake(h) \/ ShowLevel(h) \/ Save(h)

LightNext ==
    \/ \E t \in Callers : BeginWake(t) \/ WakeStep(t)
    \/ \E h \in Hosts : SetPreferences(h) \/ HostStep(h)
    \/ Expire \/ Callback
    \/ PowerCycle

LightSpec == LightInit /\ [][LightNext]_allVars

(* Tasks run, and the timer expires: whoever touches, or has a host animate *)
(* the screen, pauses for a timeout now and then.                           *)
LightFairSpec ==
    /\ LightSpec
    /\ \A t \in Callers : WF_allVars(WakeStep(t))
    /\ \A h \in Hosts : WF_allVars(HostStep(h))
    /\ SF_allVars(Expire) /\ WF_allVars(Callback)

-----------------------------------------------------------------------------
(* Properties.                                                              *)

(* While auto-sleep is enabled and the light is recorded as on, the timer   *)
(* runs, or its callback does, or a task is about to start it: no order of  *)
(* the stops and starts of a touch and of a change of the timeout leaves a  *)
(* light that nothing will switch off.                                      *)
SleepComes ==
    s_on /\ s_timeout_ms # 0 =>
        \/ armed
        \/ callback # "none"
        \/ \E t \in Callers : task[t].at \in {"arm", "stop", "start"}

Dark == light = 0 /\ s_level # 0

(* A light that went off behind the back of a wake, and is recorded as on,  *)
(* is found out: the timer expires once more and records it, and then a     *)
(* touch can switch it on.  Only an auto-sleep disabled meanwhile can       *)
(* prevent that.                                                            *)
DarkIsNoticed == (Dark /\ s_on) ~> (~Dark \/ ~s_on \/ s_timeout_ms = 0)

(* Whoever goes on touching gets light, whatever the races with the timer,  *)
(* unless auto-sleep has been disabled.                                     *)
TouchesWake ==
    []<><<\E t \in Touchers : BeginWake(t)>>_allVars
        => (Dark ~> (~Dark \/ s_timeout_ms = 0))

(* A light that is off comes back: it is known to be off, and a touch then  *)
(* switches it on.                                                          *)
LightComesBack == DarkIsNoticed /\ TouchesWake

(* Between commands the settings in use, the preferences and the file are   *)
(* the same, so that a power cycle brings back what was answered.           *)
SettingsAgree ==
    (\A h \in Hosts : {task[h].timeout, task[h].level} = {Unset})
        => /\ Loaded(flash) = m
           /\ s_timeout_ms = m.timeout
           /\ s_level = m.level

AtRest == callback = "none" /\ \A t \in Callers : At(t, "idle")

(* A level set while the display sleeps waits for the next wake             *)
(* (main/backlight.h:44).                                                   *)
AsleepStaysDark ==
    ~s_on /\ AtRest => light = 0

(* Disabling auto-sleep leaves the light on (main/backlight.h:38-39).       *)
DisabledStaysOn ==
    s_timeout_ms = 0 /\ AtRest => ~Dark
=============================================================================
