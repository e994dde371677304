---------------------------- MODULE ScreenReload ----------------------------
(***************************************************************************)
(* How a committed upload reaches the display.                             *)
(*                                                                         *)
(*  host_api task --Commit, Register, Store--> disk, registry              *)
(*        | Notify                                  |                      *)
(*        v                                         v                      *)
(*   lv_throttled queue --timer slice (LVGL task)--> the displayed tree    *)
(*                                                                         *)
(* The displayed tree is a screen and, under it, slots: places of a file's *)
(* widget tree that show another file, either an image or a WidgetRef (the *)
(* root of another widget tree, with slots of its own).                    *)
(*                                                                         *)
(* Bytes are not versioned.  A copy of a file, in the registry, on the     *)
(* display or in a task's hands, is "new" until the file is committed      *)
(* again and "old" from then on, so that uploads need no bound.            *)
(*                                                                         *)
(* Everything under the LVGL port lock is one step, but for a timer slice: *)
(* it keeps the lock while it runs a few items, and a reload reads the     *)
(* registry, which has a mutex of its own, before it builds the tree.      *)
(***************************************************************************)
EXTENDS Naturals, Sequences, FiniteSets

CONSTANTS
    Dispatchers,     \* host_api tasks, one per link
    Screens,         \* paths of <drive>:host/s/*.pb
    DefaultScreens,  \* those named default.pb
    Widgets,         \* paths of the files WidgetRefs show
    Images,          \* paths of the files Image and ImageButton widgets show
    RamFiles,        \* the files under "R:"
    Slots,           \* places that show a file of Parts
    SlotsIn,         \* the slots in the widget tree of each file
    Configured,      \* the path each slot has in its file
    ImageSlots,      \* Image widgets and ImageButton states; others are WidgetRefs
    NamedSlots,      \* WidgetRefs whose outer widget has an id
    Overridden,      \* slots whose widget a program sets properties of
    NoScreen,        \* the empty path
    BuiltIn,         \* "<built-in>"
    PerSlice,        \* kPerSlice
    OldHosts,        \* may a host upload a file of another wire-format version?
    TimerOom,        \* may lv_timer_create fail?
    SaveFails,       \* may the preferences fail to be saved?
    MaxChanges,      \* bound: slot changes waiting in the queue
    MaxReboots       \* bound: power cycles

Parts == Widgets \cup Images
Files == Screens \cup Parts

ASSUME ScreenReloadAssumption ==
    /\ DefaultScreens \subseteq Screens
    /\ Screens \cap Parts = {} /\ Widgets \cap Images = {}
    /\ {NoScreen, BuiltIn} \cap Files = {} /\ NoScreen # BuiltIn
    /\ {"nobody", "timer", "touch", "boot"} \cap Dispatchers = {}
    /\ RamFiles \subseteq Files
    /\ SlotsIn \in [Files -> SUBSET Slots]
    /\ \A f, g \in Files : f # g => SlotsIn[f] \cap SlotsIn[g] = {}
    /\ Configured \in [Slots -> Parts]
    /\ \A s \in Slots : Configured[s] \in Images <=> s \in ImageSlots
    /\ ImageSlots \subseteq Slots
    /\ NamedSlots \subseteq Slots \ ImageSlots
    /\ Overridden \subseteq Slots \ ImageSlots
    /\ PerSlice \in Nat \ {0}
    /\ {OldHosts, TimerOom, SaveFails} \subseteq BOOLEAN
    /\ {MaxChanges, MaxReboots} \subseteq Nat

VARIABLES
    disk,      \* "none", "new" (a file this firmware reads) or "bad" (wrong version)
    registry,  \* registry(): the cached bytes of each screen
    default,   \* g_default_screen_path
    current,   \* g_current_path
    screen,    \* the age of g_active_screen
    slot,      \* the path and the age of what each slot shows
    ids,       \* s_active of widget_property: where each slot's widget id points
    override,  \* s_overrides
    worn,      \* the slots whose displayed widget had its override applied
    queue,     \* g_queue of lv_throttled
    timer,     \* g_timer of lv_throttled is running
    queued,    \* s_queued_paths
    pending,   \* s_reload_pending
    lvgl,      \* who runs queued items under the LVGL lock
    task,      \* what each dispatcher is doing
    preferred, \* m_current_screen of Prefs
    persisted, \* the current_screen preference in flash
    unsaved,   \* history: the last Prefs::save failed
    reboots

vars == <<disk, registry, default, current, screen, slot, ids, override, worn,
          queue, timer, queued, pending, lvgl, task, preferred, persisted,
          unsaved, reboots>>

treeVars == <<current, screen, slot, ids, worn>>
queueVars == <<queue, timer, queued, pending, lvgl>>
prefVars == <<preferred, persisted, unsaved>>

Ages == {"none", "new", "old"}
\* "out": the slot is not in the tree; "empty": its file could not be shown
Shown == {"new", "old"}
Out(s) == [path |-> Configured[s], age |-> "out"]

Item == [kind : {"path"}, path : Files]
          \cup [kind : {"reload"}]
          \cup [kind : {"change"}, slot : Slots, path : Parts]
PathItem(p) == [kind |-> "path", path |-> p]
ReloadItem == [kind |-> "reload"]
ChangeItem(s, p) == [kind |-> "change", slot |-> s, path |-> p]

\* by: "nobody" has the lock; left: items this slice may still run;
\* held: the bytes a reload has copied from the registry
NoSlice == [by |-> "nobody", left |-> 0, held |-> "none"]
\* asked: the current_screen of a SetPreferences command
Doing(step, p) == [at |-> step, path |-> p, held |-> "none", asked |-> NoScreen]
IdleTask == Doing("idle", NoScreen)
GoOn(t, step, bytes) == [at |-> step, path |-> t.path, held |-> bytes, asked |-> t.asked]
Steps == {"idle", "register", "store", "notify", "drain", "unregister",
          "display", "persist", "save"}

FilesTypeOK ==
    /\ disk \in [Files -> {"none", "new", "bad"}]
    /\ registry \in [Screens -> Ages]
    /\ default \in Screens \cup {NoScreen}
    /\ preferred \in Screens \cup {NoScreen} /\ persisted \in Screens \cup {NoScreen}
    /\ unsaved \in BOOLEAN
    /\ reboots \in 0 .. MaxReboots

TreeTypeOK ==
    /\ current \in Screens \cup {BuiltIn}
    /\ screen \in Shown
    /\ slot \in [Slots -> [path : Parts, age : {"out", "empty", "new", "old"}]]
    /\ ids \in [Slots -> {"none", "live", "freed"}]
    /\ override \subseteq Overridden /\ worn \subseteq Overridden

QueueTypeOK ==
    /\ queue \in Seq(Item)
    /\ timer \in BOOLEAN /\ pending \in BOOLEAN
    /\ queued \subseteq Files
    /\ lvgl \in [by : {"nobody", "timer", "touch", "boot"} \cup Dispatchers,
                 left : 0 .. PerSlice, held : Ages]

TaskTypeOK ==
    task \in [Dispatchers -> [at : Steps, path : Files \cup {NoScreen, BuiltIn},
                              held : Ages, asked : Screens \cup {NoScreen}]]

TypeOK == FilesTypeOK /\ TreeTypeOK /\ QueueTypeOK /\ TaskTypeOK

-----------------------------------------------------------------------------
(* Building widget trees.  A slot is filled when the builder reaches it.    *)

Fill(p) == IF disk[p] = "new" THEN "new" ELSE "empty"

(* The files whose trees are spliced in when that of f is built.            *)
Spliced(f) ==
    LET n == Cardinality(Slots)
        reach[i \in 0 .. n] ==
            IF i = 0 THEN {f}
            ELSE LET prev == reach[i - 1]
                 IN  prev \cup {Configured[s] :
                        s \in {t \in UNION {SlotsIn[g] : g \in prev} \ ImageSlots :
                                 disk[Configured[t]] = "new"}}
    IN  reach[n]

(* The slots in the tree that f's tree becomes.                             *)
Below(f) == UNION {SlotsIn[g] : g \in Spliced(f)}

Built(s) == [path |-> Configured[s], age |-> Fill(Configured[s])]

(* The slots now displayed under slot s.                                    *)
Inside(s) ==
    LET n == Cardinality(Slots)
        into(t) == IF t \notin ImageSlots /\ slot[t].age \in Shown
                   THEN SlotsIn[slot[t].path] ELSE {}
        reach[i \in 0 .. n] ==
            IF i = 0 THEN into(s)
            ELSE reach[i - 1] \cup UNION {into(t) : t \in reach[i - 1]}
    IN  reach[n]

(* resolve_widget_ref deletes a file of another version.                    *)
Rejects(p) == IF disk[p] = "bad" THEN {p} ELSE {}
RejectedBelow(f) ==
    UNION {Rejects(Configured[s]) : s \in Below(f) \ ImageSlots}
RemoveFiles(F) == disk' = [p \in Files |-> IF p \in F THEN "none" ELSE disk[p]]

(* load_decoded: the tree of screen p, from bytes of age a, is displayed.   *)
Display(p, a) ==
    LET in == IF p = BuiltIn THEN {} ELSE Below(p)
        made == {s \in in \ ImageSlots : Fill(Configured[s]) = "new"}
    IN  /\ current' = p
        /\ screen' = a
        /\ slot' = [s \in Slots |-> IF s \in in THEN Built(s) ELSE Out(s)]
        /\ ids' = [s \in Slots |-> IF s \in made THEN "live" ELSE "none"]
        /\ worn' = made \cap override
        /\ RemoveFiles(IF p = BuiltIn THEN {} ELSE RejectedBelow(p))

ActiveRef(s) == s \notin ImageSlots /\ slot[s].age \in Shown

(* widget_refs_change for each slot of S: tear down, rebuild from file p.   *)
(* The ids of the widgets torn down stay in s_active, and those of the      *)
(* widgets built wait in s_pending for a commit that does not come.         *)
ChangeRefs(S, p) ==
    LET gone == UNION {Inside(s) : s \in S}
        ok == disk[p] = "new"
        in == IF ok THEN Below(p) ELSE {}
        made == {s \in in \ ImageSlots : Fill(Configured[s]) = "new"}
    IN  /\ slot' = [s \in Slots |->
              IF s \in S THEN [path |-> p, age |-> Fill(p)]
              ELSE IF s \in in THEN Built(s)
              ELSE IF s \in gone THEN Out(s)
              ELSE slot[s]]
        /\ ids' = [s \in Slots |-> IF s \in S \cup gone /\ ids[s] = "live"
                                   THEN "freed" ELSE ids[s]]
        /\ worn' = (worn \ (S \cup gone))
                     \cup (override \cap (made \cup (IF ok THEN S ELSE {})))
        /\ RemoveFiles(Rejects(p) \cup (IF ok THEN RejectedBelow(p) ELSE {}))
        /\ UNCHANGED <<current, screen>>

(* An image is re-read in place; so is one that is pointed at another file. *)
SetImages(S, p) ==
    /\ slot' = [s \in Slots |-> IF s \in S THEN [path |-> p, age |-> Fill(p)]
                                ELSE slot[s]]
    /\ UNCHANGED <<disk, current, screen, ids, worn>>

-----------------------------------------------------------------------------
Init ==
    /\ disk = [f \in Files |-> "none"]
    /\ registry = [p \in Screens |-> "none"]
    /\ default = NoScreen
    /\ current = BuiltIn /\ screen = "new"
    /\ slot = [s \in Slots |-> Out(s)]
    /\ ids = [s \in Slots |-> "none"]
    /\ override = {} /\ worn = {}
    /\ queue = <<>> /\ timer = FALSE /\ queued = {} /\ pending = FALSE
    /\ lvgl = NoSlice
    /\ task = [d \in Dispatchers |-> IdleTask]
    /\ preferred = NoScreen /\ persisted = NoScreen /\ unsaved = FALSE
    /\ reboots = 0

-----------------------------------------------------------------------------
(* Prefs::save of a preference p.  It may fail (the flash has no room, or   *)
(* an upload to "F:" is open, which refuses every other write): that is     *)
(* logged, and nothing tries again.                                         *)
Save(p) ==
    \/ persisted' = p /\ unsaved' = FALSE
    \/ SaveFails /\ unsaved' = TRUE /\ UNCHANGED persisted

(* Prefs::set_current_screen: the repeat of what RAM holds is not saved.    *)
SetCurrent(p) ==
    \/ p = preferred /\ UNCHANGED prefVars
    \/ p # preferred /\ preferred' = p /\ Save(p)

-----------------------------------------------------------------------------
(* lv_throttled_post(item), on a queue q from which an item may just have   *)
(* been taken, by the dispatcher or event callback `by`.  When there is no  *)
(* timer and none to be had, the poster runs the whole queue itself; when   *)
(* the poster is already running the queue it goes on doing so.             *)
Post(q, item, by) ==
    /\ queue' = Append(q, item)
    /\ \/ timer' = TRUE /\ lvgl' = lvgl
       \/ /\ ~timer /\ TimerOom
          /\ timer' = FALSE
          /\ lvgl' = [NoSlice EXCEPT !.by = by]

(* Posting from inside an item.                                             *)
Repost(q, item) ==
    /\ queue' = Append(q, item)
    /\ timer' \in IF timer \/ ~TimerOom THEN {TRUE} ELSE BOOLEAN

Taken == [lvgl EXCEPT !.left = IF lvgl.by = "timer" THEN @ - 1 ELSE @]

BeginSlice ==
    /\ timer /\ lvgl.by = "nobody"
    /\ lvgl' = [by |-> "timer", left |-> PerSlice, held |-> "none"]
    /\ UNCHANGED <<disk, registry, default, treeVars, override, queue, timer,
                   queued, pending, task, prefVars, reboots>>

(* Mutant: the slice does not count its items.                               *)
MayRunUncounted ==
    /\ lvgl.by \notin {"nobody", "boot"} /\ lvgl.held = "none" /\ queue # <<>>

(* Is there an item to run, and somebody to run it?                         *)
MayRun ==
    /\ lvgl.by \notin {"nobody", "boot"} /\ lvgl.held = "none" /\ queue # <<>>
    /\ lvgl.by = "timer" => lvgl.left > 0

(* Does the decoded screen, or a WidgetRef in the tree, name the file p?    *)
(* An image that was pointed elsewhere still counts with its first path.    *)
References(p) ==
    \/ current # BuiltIn /\ \E s \in SlotsIn[current] :
           p = IF s \in ImageSlots THEN Configured[s] ELSE slot[s].path
    \/ \E s \in Slots : ActiveRef(s) /\ slot[s].path = p

(* request_active_reload                                                    *)
RequestReload ==
    \/ pending /\ queue' = Tail(queue) /\ UNCHANGED <<timer, pending>>
    \/ ~pending /\ pending' = TRUE /\ Repost(Tail(queue), ReloadItem)

NoReload == queue' = Tail(queue) /\ UNCHANGED <<timer, pending>>

(* notify_file_changed_impl                                                 *)
Refresh(p) ==
    LET images == {s \in ImageSlots : slot[s].path = p /\ slot[s].age # "out"}
        refs == {s \in NamedSlots : ActiveRef(s) /\ slot[s].path = p}
        rebuilt == refs # {} /\ disk[p] = "new"
        stays == \/ current # BuiltIn /\ \E s \in SlotsIn[current] \ ImageSlots :
                        slot[s].path = p
                 \/ \E s \in Slots \ (refs \cup UNION {Inside(r) : r \in refs}) :
                        ActiveRef(s) /\ slot[s].path = p
    IN  \/ images # {} /\ SetImages(images, p) /\ NoReload
        \/ images = {} /\ rebuilt /\ ChangeRefs(refs, p) /\ NoReload
        \/ /\ images = {} /\ refs # {} /\ ~rebuilt
           /\ ChangeRefs(refs, p)
           /\ IF stays THEN RequestReload ELSE NoReload
        \/ /\ images = {} /\ refs = {}
           /\ IF p = current \/ References(p) THEN RequestReload ELSE NoReload
           /\ UNCHANGED <<disk, treeVars>>

(* Mutant: the path is never taken out of s_queued_paths.                    *)
RunPathKeepsQueued ==
    LET p == Head(queue).path
    IN  /\ MayRun /\ Head(queue).kind = "path"
        /\ Refresh(p)
        /\ lvgl' = Taken
        /\ UNCHANGED <<registry, default, override, queued, task, prefVars, reboots>>

(* The item enqueue_changed_path posts.                                     *)
RunPath ==
    LET p == Head(queue).path
    IN  /\ MayRun /\ Head(queue).kind = "path"
        /\ queued' = queued \ {p}
        /\ Refresh(p)
        /\ lvgl' = Taken
        /\ UNCHANGED <<registry, default, override, task, prefVars, reboots>>

(* The item that repoints a slot: widget_refs_change fails when no active   *)
(* WidgetRef has the id, widget_image_button_set_slot when there is no      *)
(* such button.                                                             *)
RunChange ==
    LET it == Head(queue)
    IN  /\ MayRun /\ it.kind = "change"
        /\ \/ /\ it.slot \in ImageSlots /\ slot[it.slot].age # "out"
              /\ SetImages({it.slot}, it.path)
           \/ ActiveRef(it.slot) /\ ChangeRefs({it.slot}, it.path)
           \/ /\ ~ActiveRef(it.slot)
              /\ it.slot \in ImageSlots => slot[it.slot].age = "out"
              /\ UNCHANGED <<disk, treeVars>>
        /\ NoReload
        /\ lvgl' = Taken
        /\ UNCHANGED <<registry, default, override, queued, task, prefVars, reboots>>

(* Mutant: a screen that is not registered leaves the reload marked pending. *)
RunReloadKeepsPending ==
    /\ MayRun /\ Head(queue).kind = "reload"
    /\ pending' = (current # BuiltIn /\ registry[current] = "none")
    /\ queue' = Tail(queue)
    /\ lvgl' = [Taken EXCEPT !.held = IF current = BuiltIn THEN "none"
                                      ELSE registry[current]]
    /\ UNCHANGED <<disk, registry, default, treeVars, override, timer, queued,
                   task, prefVars, reboots>>

(* run_pending_reload, up to the copy screens_load makes of the bytes.      *)
RunReload ==
    /\ MayRun /\ Head(queue).kind = "reload"
    /\ pending' = FALSE
    /\ queue' = Tail(queue)
    /\ lvgl' = [Taken EXCEPT !.held = IF current = BuiltIn THEN "none"
                                      ELSE registry[current]]
    /\ UNCHANGED <<disk, registry, default, treeVars, override, timer, queued,
                   task, prefVars, reboots>>

(* ... and the rest of screens_load.                                        *)
FinishReload ==
    /\ lvgl.held # "none"
    /\ Display(current, lvgl.held)
    /\ SetCurrent(current)
    /\ lvgl' = [lvgl EXCEPT !.held = "none"]
    /\ UNCHANGED <<registry, default, override, queue, timer, queued, pending,
                   task, reboots>>

(* Mutant: the timer is deleted whether or not the queue is drained.         *)
EndSliceDeletesTimer ==
    /\ lvgl.by = "timer" /\ lvgl.held = "none"
    /\ queue = <<>> \/ lvgl.left = 0
    /\ lvgl' = NoSlice
    /\ timer' = FALSE
    /\ UNCHANGED <<disk, registry, default, treeVars, override, queue, queued,
                   pending, task, prefVars, reboots>>

(* The end of run_slice, and of lv_timer_handler's hold of the lock.        *)
EndSlice ==
    /\ lvgl.by = "timer" /\ lvgl.held = "none"
    /\ queue = <<>> \/ lvgl.left = 0
    /\ lvgl' = NoSlice
    /\ timer' = (queue # <<>>)
    /\ UNCHANGED <<disk, registry, default, treeVars, override, queue, queued,
                   pending, task, prefVars, reboots>>

(* The end of an inline drain, and of the command that ran into it.         *)
EndDrain ==
    /\ lvgl.by \in {"touch"} \cup Dispatchers /\ lvgl.held = "none"
    /\ queue = <<>>
    /\ lvgl' = NoSlice
    /\ task' = [d \in Dispatchers |-> IF d = lvgl.by THEN IdleTask ELSE task[d]]
    /\ UNCHANGED <<disk, registry, default, treeVars, override, queue, timer,
                   queued, pending, prefVars, reboots>>

-----------------------------------------------------------------------------
(* The dispatcher d: FileClose.                                             *)

Free(d) == task[d].at = "idle" /\ lvgl.by # "boot"

Older(a) == IF a = "new" THEN "old" ELSE a

(* fs_close_write has put new bytes at p; every copy of the former ones is  *)
(* old now.                                                                 *)
Commit(d, p) ==
    /\ Free(d)
    /\ \E v \in {"new"} \cup IF OldHosts /\ p \notin Images THEN {"bad"} ELSE {} :
          disk' = [disk EXCEPT ![p] = v]
    /\ registry' = IF p \in Screens THEN [registry EXCEPT ![p] = Older(@)]
                   ELSE registry
    /\ screen' = IF p = current THEN Older(screen) ELSE screen
    /\ slot' = [s \in Slots |-> IF slot[s].path = p
                  THEN [slot[s] EXCEPT !.age = Older(@)] ELSE slot[s]]
    /\ lvgl' = IF p = current THEN [lvgl EXCEPT !.held = Older(@)] ELSE lvgl
    /\ task' = [e \in Dispatchers |->
          IF e = d THEN Doing(IF p \in Screens THEN "register" ELSE "notify", p)
          ELSE IF task[e].path = p THEN [task[e] EXCEPT !.held = Older(@)]
          ELSE task[e]]
    /\ UNCHANGED <<default, current, ids, override, worn, queue, timer, queued,
                   pending, prefVars, reboots>>

(* screens_register_from_file: read the file and check its version, ...     *)
Register(d) ==
    LET p == task[d].path
    IN  /\ task[d].at = "register"
        /\ task' = [task EXCEPT ![d] = IF disk[p] = "new"
                                       THEN GoOn(@, "store", "new")
                                       ELSE GoOn(@, "notify", "none")]
        /\ RemoveFiles(Rejects(p))
        /\ UNCHANGED <<registry, default, treeVars, override, queueVars,
                       prefVars, reboots>>

(* ... then cache the bytes.                                                *)
Store(d) ==
    LET p == task[d].path
    IN  /\ task[d].at = "store"
        /\ registry' = [registry EXCEPT ![p] = task[d].held]
        /\ default' = IF p \in DefaultScreens \/ default = NoScreen THEN p
                      ELSE default
        /\ task' = [task EXCEPT ![d] = GoOn(@, "notify", "none")]
        /\ UNCHANGED <<disk, treeVars, override, queueVars, prefVars, reboots>>

(* Mutant: no de-duplication of the queued paths.                            *)
NotifyAgain(d) ==
    LET p == task[d].path
    IN  /\ task[d].at = "notify" /\ lvgl.by = "nobody"
        /\ queued' = queued \cup {p}
        /\ Post(queue, PathItem(p), d)
        /\ task' = [task EXCEPT ![d] = IF lvgl'.by = d
                                       THEN Doing("drain", NoScreen)
                                       ELSE IdleTask]
        /\ UNCHANGED <<disk, registry, default, treeVars, override, pending,
                       prefVars, reboots>>

(* screens_notify_file_changed                                              *)
Notify(d) ==
    LET p == task[d].path
    IN  /\ task[d].at = "notify" /\ lvgl.by = "nobody"
        /\ queued' = queued \cup {p}
        /\ IF p \in queued THEN UNCHANGED <<queue, timer, lvgl>>
                           ELSE Post(queue, PathItem(p), d)
        /\ task' = [task EXCEPT ![d] = IF lvgl'.by = d
                                       THEN Doing("drain", NoScreen)
                                       ELSE IdleTask]
        /\ UNCHANGED <<disk, registry, default, treeVars, override, pending,
                       prefVars, reboots>>

-----------------------------------------------------------------------------
(* FileDelete: removeTree, then screens_notify_path_deleted.                *)
Delete(d, p) ==
    /\ Free(d) /\ disk[p] # "none"
    /\ RemoveFiles({p})
    /\ task' = [task EXCEPT ![d] = Doing("unregister", p)]
    /\ UNCHANGED <<registry, default, treeVars, override, queueVars, prefVars,
                   reboots>>

(* Mutant: the default keeps naming the screen that was dropped.             *)
UnregisterKeepsDefault(d) ==
    LET p == task[d].path
    IN  /\ task[d].at = "unregister"
        /\ registry' = IF p \in Screens THEN [registry EXCEPT ![p] = "none"]
                       ELSE registry
        /\ task' = [task EXCEPT ![d] = IdleTask]
        /\ UNCHANGED <<disk, default, treeVars, override, queueVars, prefVars, reboots>>

Unregister(d) ==
    LET p == task[d].path
    IN  /\ task[d].at = "unregister"
        /\ registry' = IF p \in Screens THEN [registry EXCEPT ![p] = "none"]
                       ELSE registry
        /\ default' = IF default = p THEN NoScreen ELSE default
        /\ task' = [task EXCEPT ![d] = IdleTask]
        /\ UNCHANGED <<disk, treeVars, override, queueVars, prefVars, reboots>>

-----------------------------------------------------------------------------
(* Mutant: the preference is saved before the screen is shown.               *)
LoadScreenPersists(d, p) ==
    LET q == IF p # NoScreen THEN p ELSE IF default # NoScreen THEN default ELSE BuiltIn
    IN  /\ Free(d)
        /\ q # BuiltIn => registry[q] # "none"
        /\ SetCurrent(p)
        /\ task' = [task EXCEPT ![d] = [at |-> "display", path |-> q,
                       held |-> IF q = BuiltIn THEN "new" ELSE registry[q],
                       asked |-> p]]
        /\ UNCHANGED <<disk, registry, default, treeVars, override, queueVars, reboots>>

(* SetPreferences(current_screen = p): screens_load copies the bytes, ...   *)
LoadScreen(d, p) ==
    LET q == IF p # NoScreen THEN p ELSE IF default # NoScreen THEN default ELSE BuiltIn
    IN  /\ Free(d)
        /\ q # BuiltIn => registry[q] # "none"
        /\ task' = [task EXCEPT ![d] = [at |-> "display", path |-> q,
                       held |-> IF q = BuiltIn THEN "new" ELSE registry[q],
                       asked |-> p]]
        /\ UNCHANGED <<disk, registry, default, treeVars, override, queueVars,
                       prefVars, reboots>>

(* ... load_decoded builds and shows the tree under the LVGL lock, ...      *)
ShowScreen(d) ==
    /\ task[d].at = "display" /\ lvgl.by = "nobody"
    /\ Display(task[d].path, task[d].held)
    /\ task' = [task EXCEPT ![d] = GoOn(@, "persist", "none")]
    /\ UNCHANGED <<registry, default, override, queueVars, prefVars, reboots>>

(* ... stores g_current_path, which may be another by now, ...              *)
PersistScreen(d) ==
    /\ task[d].at = "persist"
    /\ IF current = BuiltIn THEN UNCHANGED prefVars ELSE SetCurrent(current)
    /\ task' = [task EXCEPT ![d] = GoOn(@, "save", "none")]
    /\ UNCHANGED <<disk, registry, default, treeVars, override, queueVars, reboots>>

(* ... and apply_partial saves the path that was asked for.                 *)
FinishLoad(d) ==
    /\ task[d].at = "save"
    /\ preferred' = task[d].asked
    /\ Save(preferred')
    /\ task' = [task EXCEPT ![d] = IdleTask]
    /\ UNCHANGED <<disk, registry, default, treeVars, override, queueVars, reboots>>

(* A SetPreferences that names no screen, or none that can be loaded: the   *)
(* preference is saved as it is.                                            *)
SaveAgain(d) ==
    /\ Free(d)
    /\ Save(preferred)
    /\ UNCHANGED <<disk, registry, default, treeVars, override, queueVars, task,
                   preferred, reboots>>

-----------------------------------------------------------------------------
(* An ActionChangeWidgetRef, of a widget that was touched or of RunActions. *)
ChangeSlot(s, p) ==
    /\ lvgl.by = "nobody"
    /\ Cardinality({i \in DOMAIN queue : queue[i].kind = "change"}) < MaxChanges
    /\ Post(queue, ChangeItem(s, p), "touch")
    /\ UNCHANGED <<disk, registry, default, treeVars, override, queued, pending,
                   task, prefVars, reboots>>

(* SetProperties with a value: remembered, and applied to the widget if     *)
(* s_active has its id.                                                     *)
SetProperty(d, s) ==
    /\ Free(d) /\ lvgl.by = "nobody"
    /\ override' = override \cup {s}
    /\ worn' = IF ids[s] = "live" THEN worn \cup {s} ELSE worn
    /\ UNCHANGED <<disk, registry, default, current, screen, slot, ids, queueVars,
                   task, prefVars, reboots>>

(* SetProperties without one: the widget keeps what it shows.               *)
RemoveOverride(d, s) ==
    /\ Free(d) /\ lvgl.by = "nobody"
    /\ s \in override
    /\ override' = override \ {s}
    /\ UNCHANGED <<disk, registry, default, treeVars, queueVars, task, prefVars,
                   reboots>>

-----------------------------------------------------------------------------
(* A power cycle, up to the end of screens_init ...                         *)
Reboot ==
    LET kept == [f \in Files |->
                   IF f \in RamFiles \/ (f \in Screens /\ disk[f] = "bad")
                   THEN "none" ELSE disk[f]]
        found == {p \in Screens : kept[p] = "new"}
        first == IF found \cap DefaultScreens # {} THEN found \cap DefaultScreens
                 ELSE found
    IN  /\ reboots < MaxReboots
        /\ reboots' = reboots + 1
        /\ disk' = kept
        /\ registry' = [p \in Screens |-> kept[p]]
        /\ default' \in IF first = {} THEN {NoScreen} ELSE first
        /\ current' = BuiltIn /\ screen' = "new"
        /\ slot' = [s \in Slots |-> Out(s)]
        /\ ids' = [s \in Slots |-> "none"]
        /\ override' = {} /\ worn' = {}
        /\ queue' = <<>> /\ timer' = FALSE /\ queued' = {} /\ pending' = FALSE
        /\ lvgl' = [NoSlice EXCEPT !.by = "boot"]
        /\ task' = [d \in Dispatchers |-> IdleTask]
        /\ preferred' = persisted /\ unsaved' = FALSE
        /\ UNCHANGED persisted

(* The preferences after app_main's first screens_load has shown p: one     *)
(* that names no screen of the registry was cleared before.                 *)
BootPref(known, p) ==
    \/ known /\ UNCHANGED prefVars
    \/ ~known /\ p = BuiltIn /\ SetCurrent(NoScreen)
    \/ /\ ~known /\ p # BuiltIn
       /\ preferred' = p
       /\ \/ persisted' = p /\ unsaved' = FALSE
          \/ SaveFails /\ persisted' \in {persisted, NoScreen} /\ unsaved' = TRUE

(* ... and that screens_load: the screen last shown, or else the default    *)
(* one, or else the built-in one.                                           *)
ShowFirst ==
    LET known == preferred # NoScreen /\ registry[preferred] # "none"
        p == IF known THEN preferred
             ELSE IF default # NoScreen THEN default ELSE BuiltIn
    IN  /\ lvgl.by = "boot"
        /\ Display(p, "new")
        /\ BootPref(known, p)
        /\ lvgl' = NoSlice
        /\ UNCHANGED <<registry, default, override, queue, timer, queued, pending,
                       task, reboots>>

-----------------------------------------------------------------------------
RunQueue == RunPath \/ RunChange \/ RunReload \/ FinishReload \/ EndSlice \/ EndDrain

Step(d) == Register(d) \/ Store(d) \/ Unregister(d) \/ PersistScreen(d)
           \/ FinishLoad(d)
UnderLock(d) == Notify(d) \/ ShowScreen(d)

Command(d) ==
    \/ \E p \in Files : Commit(d, p) \/ Delete(d, p)
    \/ \E p \in Screens \cup {NoScreen} : LoadScreen(d, p)
    \/ SaveAgain(d)
    \/ \E s \in Overridden : SetProperty(d, s) \/ RemoveOverride(d, s)

Next ==
    \/ BeginSlice \/ RunQueue
    \/ \E d \in Dispatchers : Command(d) \/ Step(d) \/ UnderLock(d)
    \/ \E s \in NamedSlots, p \in Widgets : ChangeSlot(s, p)
    \/ \E s \in ImageSlots, p \in Images : ChangeSlot(s, p)
    \/ Reboot \/ ShowFirst

Spec == Init /\ [][Next]_vars

(* The tasks run; a task that waits for the LVGL lock, which is free        *)
(* between two slices, gets it in the end; nobody has to send a command.    *)
FairSpec ==
    /\ Spec
    /\ SF_vars(BeginSlice)
    /\ WF_vars(RunQueue)
    /\ \A d \in Dispatchers : WF_vars(Step(d)) /\ SF_vars(UnderLock(d))
    /\ WF_vars(ShowFirst)

-----------------------------------------------------------------------------
(* What must hold.                                                          *)

Waiting(p) ==
    \/ \E i \in DOMAIN queue : queue[i] = PathItem(p)
    \/ \E d \in Dispatchers : /\ task[d].path = p
                             /\ task[d].at \in {"register", "store", "notify"}

Reloading ==
    \/ \E i \in DOMAIN queue : queue[i] = ReloadItem
    \/ lvgl.held # "none"

(* No update is lost: while the display shows bytes that have been replaced *)
(* something that will refresh them is under way.  (A reload cannot refresh *)
(* a screen whose file is gone, nor anything on a screen that has been      *)
(* dropped from the registry.)                                              *)
NoLostUpdate ==
    /\ screen = "old" =>
          Waiting(current) \/ Reloading \/ disk[current] = "none"
    /\ \A s \in Slots : slot[s].age = "old" =>
          \/ Waiting(slot[s].path) \/ Reloading
          \/ /\ s \notin NamedSlots \cup ImageSlots
             /\ registry[current] = "none" \/ Waiting(current)

(* A burst of uploads costs one refresh per file and one reload, however    *)
(* long it is: the queue cannot grow with the burst.                        *)
OneRefreshPerFile ==
    /\ \A p \in Files :
          Cardinality({i \in DOMAIN queue : queue[i] = PathItem(p)}) =
              IF p \in queued THEN 1 ELSE 0
    /\ Cardinality({i \in DOMAIN queue : queue[i] = ReloadItem}) =
           IF pending THEN 1 ELSE 0

(* The default screen is one that can be loaded.                            *)
DefaultIsRegistered == default # NoScreen => registry[default] # "none"

(* Whenever the power fails, the screen that comes up again is the one that *)
(* was showing, unless a change of screen was under way, the host asked for *)
(* the default one, or the last save failed: a deferred reload never writes *)
(* an older choice back, and when the last save did not fail flash agrees   *)
(* with RAM, though what RAM already holds is not saved again.              *)
ShownIsPersisted ==
    (lvgl.by # "boot" /\ \A d \in Dispatchers : task[d].at \notin {"persist", "save"}) =>
        /\ preferred \in {current, NoScreen}
        /\ unsaved \/ persisted = preferred

(* What has been replaced leaves the display, even under endless uploads.   *)
CatchesUp ==
    \A s \in Slots : (slot[s].age = "old") ~>
        (slot[s].age # "old" \/ (current # BuiltIn /\ registry[current] = "none"))

-----------------------------------------------------------------------------
(* What the documents say and the code does not do.                         *)

(* widget_property.h: an override applies "immediately if the widget is     *)
(* already on screen".                                                      *)
OverrideWorn == \A s \in override : slot[s].age \in Shown => s \in worn

(* screens.h: the screen last shown is kept across reboots, whether or not  *)
(* the preferences could be saved.                                          *)
LastScreenKept ==
    (lvgl.by # "boot" /\ \A d \in Dispatchers : task[d].at \notin {"persist", "save"}) =>
        persisted \in {current, NoScreen}

(* The table of ids that SetProperties looks widgets up in names no widget  *)
(* that has been deleted.                                                   *)
IdsNameLiveWidgets == \A s \in Slots : ids[s] # "freed"

(* screens.h: the default is the first screen found or registered, and the  *)
(* built-in one "when nothing has been uploaded".                           *)
DefaultOffered ==
    (\A d \in Dispatchers : task[d].at # "unregister") =>
        (default = NoScreen => \A p \in Screens : registry[p] = "none")
=============================================================================
