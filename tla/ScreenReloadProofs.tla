------------------------- MODULE ScreenReloadProofs -------------------------
(***************************************************************************)
(* What holds of ScreenReload for every number of dispatchers, screens,    *)
(* files and slots, however files nest and however long the queue gets.    *)
(***************************************************************************)
EXTENDS ScreenReload, FiniteSetTheorems, TLAPS

USE ScreenReloadAssumption DEF ScreenReloadAssumption, Parts, Files, prefVars

(* What the steps of a command know: a dispatcher about to register or to   *)
(* show a screen has one in its hands, and so has a reload.                 *)
TaskSense ==
    \A d \in Dispatchers :
        /\ task[d].at \in {"register", "store"} => task[d].path \in Screens
        /\ task[d].at \in {"notify", "unregister"} => task[d].path \in Files
        /\ task[d].at = "display" => task[d].path \in Screens \cup {BuiltIn}
        /\ task[d].at \in {"store", "display"} => task[d].held # "none"

ReloadSense ==
    lvgl.held # "none" => lvgl.by \notin {"nobody", "boot"} /\ current # BuiltIn

TypeInv == TypeOK /\ TaskSense /\ ReloadSense

-----------------------------------------------------------------------------
(* Sequences, of anything.                                                  *)
LEMMA AppendType ==
    ASSUME NEW S, NEW q \in Seq(S), NEW e \in S
    PROVE  Append(q, e) \in Seq(S)
OBVIOUS

LEMMA TailType ==
    ASSUME NEW S, NEW q \in Seq(S), q # <<>>
    PROVE  Tail(q) \in Seq(S) /\ Head(q) \in S
OBVIOUS

LEMMA Items ==
    /\ \A p \in Files : PathItem(p) \in Item
    /\ ReloadItem \in Item
    /\ \A s \in Slots, p \in Parts : ChangeItem(s, p) \in Item
BY DEF PathItem, ReloadItem, ChangeItem, Item

LEMMA ItemKinds ==
    ASSUME NEW it \in Item
    PROVE  /\ it.kind = "path" => it.path \in Files
           /\ it.kind = "change" => it.slot \in Slots /\ it.path \in Parts
BY DEF Item

(* Building a tree and losing files keep the types.                         *)
LEMMA RemoveType ==
    ASSUME disk \in [Files -> {"none", "new", "bad"}], NEW F, RemoveFiles(F)
    PROVE  disk' \in [Files -> {"none", "new", "bad"}]
BY DEF RemoveFiles

LEMMA FillType == \A p : Fill(p) \in {"new", "empty"}
BY DEF Fill

LEMMA DisplayType ==
    ASSUME FilesTypeOK, TreeTypeOK, NEW p \in Screens \cup {BuiltIn},
           NEW a \in Shown, Display(p, a), override' \subseteq Overridden
    PROVE  /\ TreeTypeOK'
           /\ disk' \in [Files -> {"none", "new", "bad"}]
           /\ current' = p
<1>1. disk' \in [Files -> {"none", "new", "bad"}]
  BY RemoveType DEF Display, FilesTypeOK
<1>2. \A s \in Slots : Built(s) \in [path : Parts, age : {"out", "empty", "new", "old"}]
  BY FillType DEF Built
<1>3. \A s \in Slots : Out(s) \in [path : Parts, age : {"out", "empty", "new", "old"}]
  BY DEF Out
<1>4. slot' \in [Slots -> [path : Parts, age : {"out", "empty", "new", "old"}]]
  BY <1>2, <1>3 DEF Display
<1>5. ids' \in [Slots -> {"none", "live", "freed"}]
  BY DEF Display
<1>6. worn' \subseteq Overridden
  BY DEF Display, TreeTypeOK
<1>7. current' = p /\ screen' = a
  BY DEF Display
<1> QED BY <1>1, <1>4, <1>5, <1>6, <1>7 DEF TreeTypeOK

LEMMA ChangeType ==
    ASSUME FilesTypeOK, TreeTypeOK, NEW S \in SUBSET Slots, NEW p \in Parts,
           ChangeRefs(S, p), override' = override
    PROVE  /\ TreeTypeOK'
           /\ disk' \in [Files -> {"none", "new", "bad"}]
           /\ current' = current
<1>1. disk' \in [Files -> {"none", "new", "bad"}]
  BY RemoveType DEF ChangeRefs, FilesTypeOK
<1>2. \A s \in Slots : Built(s) \in [path : Parts, age : {"out", "empty", "new", "old"}]
  BY FillType DEF Built
<1>3. \A s \in Slots : Out(s) \in [path : Parts, age : {"out", "empty", "new", "old"}]
  BY DEF Out
<1>4. [path |-> p, age |-> Fill(p)] \in [path : Parts, age : {"out", "empty", "new", "old"}]
  BY FillType
<1>5. slot' \in [Slots -> [path : Parts, age : {"out", "empty", "new", "old"}]]
  BY <1>2, <1>3, <1>4 DEF ChangeRefs, TreeTypeOK
<1>6. ids' \in [Slots -> {"none", "live", "freed"}]
  BY DEF ChangeRefs, TreeTypeOK
<1>7. worn' \subseteq Overridden
  BY DEF ChangeRefs, TreeTypeOK
<1>8. current' = current /\ screen' = screen
  BY DEF ChangeRefs
<1> QED BY <1>1, <1>5, <1>6, <1>7, <1>8 DEF TreeTypeOK

LEMMA ImagesType ==
    ASSUME FilesTypeOK, TreeTypeOK, NEW S \in SUBSET Slots, NEW p \in Parts,
           SetImages(S, p), override' = override
    PROVE  TreeTypeOK' /\ disk' = disk /\ current' = current
<1>1. [path |-> p, age |-> Fill(p)] \in [path : Parts, age : {"out", "empty", "new", "old"}]
  BY FillType
<1>2. slot' \in [Slots -> [path : Parts, age : {"out", "empty", "new", "old"}]]
  BY <1>1 DEF SetImages, TreeTypeOK
<1> QED BY <1>2 DEF SetImages, TreeTypeOK

(* Saving the preference, or trying to.                                     *)
LEMMA SaveType ==
    ASSUME FilesTypeOK, NEW p \in Screens \cup {NoScreen},
           (preferred' \in {preferred, p} /\ Save(p)) \/ SetCurrent(p)
    PROVE  /\ preferred' \in Screens \cup {NoScreen} /\ persisted' \in Screens \cup {NoScreen}
           /\ unsaved' \in BOOLEAN
BY DEF FilesTypeOK, Save, SetCurrent

(* Posting and requesting a reload, after an item is taken.                 *)
LEMMA PostType ==
    ASSUME QueueTypeOK, NEW item \in Item, NEW by \in {"touch"} \cup Dispatchers,
           Post(queue, item, by), lvgl.held = "none",
           queued' \subseteq Files, pending' = pending
    PROVE  /\ QueueTypeOK'
           /\ lvgl'.held = "none"
<1>1. queue' \in Seq(Item)
  BY AppendType DEF Post, QueueTypeOK
<1>2. timer' \in BOOLEAN
  BY DEF Post
<1>3. CASE lvgl' = lvgl
  BY <1>1, <1>2, <1>3 DEF QueueTypeOK
<1>4. CASE lvgl' = [NoSlice EXCEPT !.by = by]
  <2>1. lvgl' = [by |-> by, left |-> 0, held |-> "none"]
    BY <1>4 DEF NoSlice
  <2> QED BY <1>1, <1>2, <2>1 DEF QueueTypeOK, Ages
<1> QED BY <1>3, <1>4 DEF Post

LEMMA RequestType ==
    ASSUME QueueTypeOK, queue # <<>>, RequestReload \/ NoReload
    PROVE  queue' \in Seq(Item) /\ timer' \in BOOLEAN /\ pending' \in BOOLEAN
<1>1. Tail(queue) \in Seq(Item)
  BY TailType DEF QueueTypeOK
<1>2. Append(Tail(queue), ReloadItem) \in Seq(Item)
  BY <1>1, Items, AppendType
<1> QED BY <1>1, <1>2 DEF QueueTypeOK, RequestReload, NoReload, Repost

LEMMA TakenType ==
    ASSUME QueueTypeOK, MayRun
    PROVE  /\ Taken \in [by : {"nobody", "timer", "touch", "boot"} \cup Dispatchers,
                         left : 0 .. PerSlice, held : Ages]
           /\ Taken.by = lvgl.by /\ Taken.held = "none"
           /\ queue # <<>>
BY DEF QueueTypeOK, MayRun, Taken

(* What a refresh may do, to the tree and to the queue.                     *)
LEMMA RefreshType ==
    ASSUME FilesTypeOK, TreeTypeOK, QueueTypeOK, queue # <<>>,
           NEW p \in Files, Refresh(p), override' = override
    PROVE  /\ TreeTypeOK'
           /\ disk' \in [Files -> {"none", "new", "bad"}]
           /\ current' = current
           /\ RequestReload \/ NoReload
<1> DEFINE images == {s \in ImageSlots : slot[s].path = p /\ slot[s].age # "out"}
           refs == {s \in NamedSlots : ActiveRef(s) /\ slot[s].path = p}
<1>1. images \in SUBSET Slots /\ refs \in SUBSET Slots
  OBVIOUS
<1>2. images # {} \/ refs # {} => p \in Parts
  BY DEF TreeTypeOK
<1>3. CASE images # {} /\ SetImages(images, p) /\ NoReload
  BY <1>1, <1>2, <1>3, ImagesType DEF FilesTypeOK
<1>4. CASE refs # {} /\ ChangeRefs(refs, p) /\ (NoReload \/ RequestReload)
  BY <1>1, <1>2, <1>4, ChangeType
<1>5. CASE UNCHANGED <<disk, treeVars>> /\ (NoReload \/ RequestReload)
  BY <1>5 DEF TreeTypeOK, FilesTypeOK, treeVars
<1> QED BY <1>3, <1>4, <1>5 DEF Refresh

-----------------------------------------------------------------------------
LEMMA TypeInit == Init => TypeInv
<1> SUFFICES ASSUME Init PROVE TypeInv
  OBVIOUS
<1> USE DEF Init
<1>1. FilesTypeOK
  <2>1. unsaved \in BOOLEAN
    OBVIOUS
  <2>2. /\ disk \in [Files -> {"none", "new", "bad"}]
        /\ registry \in [Screens -> Ages]
        /\ reboots \in 0 .. MaxReboots
    BY DEF Ages
  <2>3. /\ default \in Screens \cup {NoScreen}
        /\ preferred \in Screens \cup {NoScreen} /\ persisted \in Screens \cup {NoScreen}
    OBVIOUS
  <2> QED BY <2>1, <2>2, <2>3 DEF FilesTypeOK
<1>2. TreeTypeOK
  BY DEF TreeTypeOK, Shown, Out
<1>3. QueueTypeOK
  <2>1. NoSlice \in [by : {"nobody", "timer", "touch", "boot"} \cup Dispatchers,
                     left : 0 .. PerSlice, held : Ages]
    BY DEF NoSlice, Ages
  <2>2. <<>> \in Seq(Item)
    OBVIOUS
  <2> QED BY <2>1, <2>2 DEF QueueTypeOK
<1>4. TaskTypeOK
  BY DEF TaskTypeOK, IdleTask, Doing, Steps, Ages
<1>5. TaskSense /\ ReloadSense
  BY DEF TaskSense, ReloadSense, IdleTask, Doing, NoSlice
<1> QED BY <1>1, <1>2, <1>3, <1>4, <1>5 DEF TypeInv, TypeOK

(* Tasks that a step leaves alone, or makes idle.                           *)
LEMMA SameTasks ==
    ASSUME TaskTypeOK, TaskSense, UNCHANGED task
    PROVE  TaskTypeOK' /\ TaskSense'
BY DEF TaskTypeOK, TaskSense

LEMMA IdleTasks ==
    ASSUME TaskTypeOK, TaskSense,
           NEW D, task' = [d \in Dispatchers |-> IF d \in D THEN IdleTask ELSE task[d]]
    PROVE  TaskTypeOK' /\ TaskSense'
<1>1. TaskTypeOK'
  BY DEF TaskTypeOK, IdleTask, Doing, Steps, Ages
<1>2. TaskSense'
  BY DEF TaskSense, IdleTask, Doing
<1> QED BY <1>1, <1>2

(* The queue's own steps.                                                   *)
LEMMA TypeQueue ==
    ASSUME TypeInv, BeginSlice \/ RunQueue
    PROVE  TypeInv'
<1> USE DEF TypeInv, TypeOK
<1>1. CASE BeginSlice
  <2>1. QueueTypeOK'
    BY <1>1 DEF BeginSlice, QueueTypeOK, Ages
  <2>2. FilesTypeOK' /\ TreeTypeOK'
    BY <1>1 DEF BeginSlice, FilesTypeOK, TreeTypeOK, treeVars
  <2> QED BY <1>1, <2>1, <2>2, SameTasks DEF BeginSlice, ReloadSense
<1>2. CASE RunPath
  <2> DEFINE p == Head(queue).path
  <2>1. p \in Files
    BY <1>2, TakenType, TailType, ItemKinds DEF RunPath, QueueTypeOK
  <2>2. /\ TreeTypeOK'
        /\ disk' \in [Files -> {"none", "new", "bad"}]
        /\ current' = current
        /\ RequestReload \/ NoReload
    BY <1>2, <2>1, TakenType, RefreshType DEF RunPath
  <2>3. queue' \in Seq(Item) /\ timer' \in BOOLEAN /\ pending' \in BOOLEAN
    BY <1>2, <2>2, TakenType, RequestType DEF RunPath
  <2>4. QueueTypeOK'
    BY <1>2, <2>3, TakenType DEF RunPath, QueueTypeOK
  <2>5. FilesTypeOK'
    BY <1>2, <2>2 DEF RunPath, FilesTypeOK
  <2>6. ReloadSense'
    BY <1>2, TakenType DEF RunPath, ReloadSense
  <2> QED BY <1>2, <2>2, <2>4, <2>5, <2>6, SameTasks DEF RunPath
<1>3. CASE RunChange
  <2> DEFINE it == Head(queue)
  <2>1. it.slot \in Slots /\ it.path \in Parts
    BY <1>3, TakenType, TailType, ItemKinds DEF RunChange, QueueTypeOK
  <2>2. /\ TreeTypeOK'
        /\ disk' \in [Files -> {"none", "new", "bad"}]
        /\ current' = current
    <3>1. CASE SetImages({it.slot}, it.path)
      BY <1>3, <2>1, <3>1, ImagesType DEF RunChange, FilesTypeOK
    <3>2. CASE ChangeRefs({it.slot}, it.path)
      BY <1>3, <2>1, <3>2, ChangeType DEF RunChange
    <3>3. CASE UNCHANGED <<disk, treeVars>>
      BY <1>3, <3>3 DEF RunChange, FilesTypeOK, TreeTypeOK, treeVars
    <3> QED BY <1>3, <3>1, <3>2, <3>3 DEF RunChange
  <2>3. QueueTypeOK'
    BY <1>3, TakenType, RequestType DEF RunChange, QueueTypeOK
  <2>4. FilesTypeOK'
    BY <1>3, <2>2 DEF RunChange, FilesTypeOK
  <2>5. ReloadSense'
    BY <1>3, TakenType DEF RunChange, ReloadSense
  <2> QED BY <1>3, <2>2, <2>3, <2>4, <2>5, SameTasks DEF RunChange
<1>4. CASE RunReload
  <2> DEFINE h == IF current = BuiltIn THEN "none" ELSE registry[current]
  <2>1. h \in Ages
    BY DEF FilesTypeOK, TreeTypeOK, Ages
  <2>2. lvgl' = [by |-> lvgl.by, left |-> Taken.left, held |-> h]
    BY <1>4, TakenType DEF RunReload, QueueTypeOK
  <2>3. QueueTypeOK'
    BY <1>4, <2>1, <2>2, TakenType, TailType DEF RunReload, QueueTypeOK
  <2>4. FilesTypeOK' /\ TreeTypeOK'
    BY <1>4 DEF RunReload, FilesTypeOK, TreeTypeOK, treeVars
  <2>5. ReloadSense'
    BY <1>4, <2>2 DEF RunReload, MayRun, ReloadSense, treeVars
  <2> QED BY <1>4, <2>3, <2>4, <2>5, SameTasks DEF RunReload
<1>5. CASE FinishReload
  <2>1. lvgl.held \in Shown /\ current \in Screens
    BY <1>5 DEF FinishReload, QueueTypeOK, TreeTypeOK, ReloadSense, Ages, Shown
  <2>2. /\ TreeTypeOK'
        /\ disk' \in [Files -> {"none", "new", "bad"}]
    BY <1>5, <2>1, DisplayType DEF FinishReload, TreeTypeOK
  <2>3. FilesTypeOK'
    BY <1>5, <2>1, <2>2, SaveType DEF FinishReload, FilesTypeOK
  <2>4. QueueTypeOK' /\ ReloadSense'
    BY <1>5 DEF FinishReload, QueueTypeOK, ReloadSense, Ages
  <2> QED BY <1>5, <2>2, <2>3, <2>4, SameTasks DEF FinishReload
<1>6. CASE EndSlice
  <2>1. FilesTypeOK' /\ TreeTypeOK'
    BY <1>6 DEF EndSlice, FilesTypeOK, TreeTypeOK, treeVars
  <2>2. QueueTypeOK' /\ ReloadSense'
    BY <1>6 DEF EndSlice, QueueTypeOK, ReloadSense, NoSlice, Ages
  <2> QED BY <1>6, <2>1, <2>2, SameTasks DEF EndSlice
<1>7. CASE EndDrain
  <2>1. FilesTypeOK' /\ TreeTypeOK'
    BY <1>7 DEF EndDrain, FilesTypeOK, TreeTypeOK, treeVars
  <2>2. QueueTypeOK' /\ ReloadSense'
    BY <1>7 DEF EndDrain, QueueTypeOK, ReloadSense, NoSlice, Ages
  <2>3. task' = [d \in Dispatchers |-> IF d \in {lvgl.by} THEN IdleTask ELSE task[d]]
    BY <1>7 DEF EndDrain
  <2> QED BY <2>1, <2>2, <2>3, IdleTasks
<1> QED BY <1>1, <1>2, <1>3, <1>4, <1>5, <1>6, <1>7 DEF RunQueue

(* One dispatcher's record is replaced.                                     *)
LEMMA OneTask ==
    ASSUME TaskTypeOK, TaskSense, NEW d \in Dispatchers,
           NEW t \in [at : Steps, path : Files \cup {NoScreen, BuiltIn},
                      held : Ages, asked : Screens \cup {NoScreen}],
           t.at \in {"register", "store"} => t.path \in Screens,
           t.at \in {"notify", "unregister"} => t.path \in Files,
           t.at = "display" => t.path \in Screens \cup {BuiltIn},
           t.at \in {"store", "display"} => t.held # "none",
           task' = [task EXCEPT ![d] = t]
    PROVE  TaskTypeOK' /\ TaskSense'
<1>1. TaskTypeOK'
  BY DEF TaskTypeOK
<1>2. \A e \in Dispatchers : task'[e] = IF e = d THEN t ELSE task[e]
  BY DEF TaskTypeOK
<1>3. TaskSense'
  BY <1>2 DEF TaskSense
<1> QED BY <1>1, <1>3

LEMMA IdleIsTask ==
    IdleTask \in [at : Steps, path : Files \cup {NoScreen, BuiltIn},
                  held : Ages, asked : Screens \cup {NoScreen}]
BY DEF IdleTask, Doing, Steps, Ages

LEMMA OlderType == \A a \in Ages : Older(a) \in Ages /\ (a # "none" => Older(a) # "none")
BY DEF Older, Ages

LEMMA TypeCommit ==
    ASSUME TypeInv, NEW d \in Dispatchers, NEW p \in Files, Commit(d, p)
    PROVE  TypeInv'
<1> USE DEF TypeInv, TypeOK
<1>1. FilesTypeOK'
  <2>1. disk' \in [Files -> {"none", "new", "bad"}]
    BY DEF Commit, FilesTypeOK
  <2>2. registry' \in [Screens -> Ages]
    BY OlderType DEF Commit, FilesTypeOK
  <2> QED BY <2>1, <2>2 DEF Commit, FilesTypeOK
<1>2. TreeTypeOK'
  <2>1. \A a \in Shown : Older(a) \in Shown
    BY DEF Older, Shown
  <2>2. \A s \in Slots : [slot[s] EXCEPT !.age = Older(@)]
                            \in [path : Parts, age : {"out", "empty", "new", "old"}]
    BY DEF TreeTypeOK, Older
  <2>3. slot' \in [Slots -> [path : Parts, age : {"out", "empty", "new", "old"}]]
    BY <2>2 DEF Commit, TreeTypeOK
  <2> QED BY <2>1, <2>3 DEF Commit, TreeTypeOK
<1>3. QueueTypeOK' /\ ReloadSense'
  <2>1. lvgl' = [by |-> lvgl.by, left |-> lvgl.left,
                 held |-> IF p = current THEN Older(lvgl.held) ELSE lvgl.held]
    BY DEF Commit, QueueTypeOK
  <2>2. Older(lvgl.held) \in Ages /\ (lvgl.held = "none" => Older(lvgl.held) = "none")
    BY OlderType DEF QueueTypeOK, Older
  <2> QED BY <2>1, <2>2 DEF Commit, QueueTypeOK, ReloadSense
<1>4. TaskTypeOK' /\ TaskSense'
  <2> DEFINE at == IF p \in Screens THEN "register" ELSE "notify"
             first == [at |-> at, path |-> p, held |-> "none", asked |-> NoScreen]
             older(e) == [at |-> task[e].at, path |-> task[e].path,
                          held |-> Older(task[e].held), asked |-> task[e].asked]
             new(e) == IF e = d THEN first
                       ELSE IF task[e].path = p THEN older(e) ELSE task[e]
  <2>1. task' = [e \in Dispatchers |-> new(e)]
    <3>1. \A e \in Dispatchers : [task[e] EXCEPT !.held = Older(@)] = older(e)
      BY DEF TaskTypeOK
    <3> QED BY <3>1 DEF Commit, Doing
  <2>2. \A e \in Dispatchers : new(e) \in
            [at : Steps, path : Files \cup {NoScreen, BuiltIn},
             held : Ages, asked : Screens \cup {NoScreen}]
    BY OlderType DEF TaskTypeOK, Steps, Ages
  <2>3. TaskTypeOK'
    BY <2>1, <2>2 DEF TaskTypeOK
  <2>4. ASSUME NEW e \in Dispatchers
        PROVE  /\ task'[e].at \in {"register", "store"} => task'[e].path \in Screens
               /\ task'[e].at \in {"notify", "unregister"} => task'[e].path \in Files
               /\ task'[e].at = "display" => task'[e].path \in Screens \cup {BuiltIn}
               /\ task'[e].at \in {"store", "display"} => task'[e].held # "none"
    <3>1. CASE e = d
      BY <2>1, <3>1
    <3>2. CASE e # d /\ task[e].path = p
      <4>1. task'[e].at = task[e].at /\ task'[e].path = task[e].path
            /\ task'[e].held = Older(task[e].held)
        BY <2>1, <3>2
      <4>2. task[e].held \in Ages
        BY DEF TaskTypeOK
      <4> QED BY <4>1, <4>2, OlderType DEF TaskSense
    <3>3. CASE e # d /\ task[e].path # p
      BY <2>1, <3>3 DEF TaskSense
    <3> QED BY <3>1, <3>2, <3>3
  <2>5. TaskSense'
    BY <2>4 DEF TaskSense
  <2> QED BY <2>3, <2>5
<1> QED BY <1>1, <1>2, <1>3, <1>4

(* The steps that leave the tree, and the queue, alone.                     *)
LEMMA SameTree ==
    ASSUME TreeTypeOK, UNCHANGED treeVars, override' \subseteq Overridden
    PROVE  TreeTypeOK'
BY DEF TreeTypeOK, treeVars

LEMMA SameQueue ==
    ASSUME QueueTypeOK, ReloadSense, UNCHANGED <<queueVars, current>>
    PROVE  QueueTypeOK' /\ ReloadSense'
BY DEF QueueTypeOK, ReloadSense, queueVars

LEMMA TypeDelete ==
    ASSUME TypeInv, NEW d \in Dispatchers, NEW p \in Files, Delete(d, p)
    PROVE  TypeInv'
<1> USE DEF TypeInv, TypeOK
<1>1. FilesTypeOK'
  BY RemoveType DEF Delete, FilesTypeOK
<1>2. TreeTypeOK'
  BY SameTree DEF Delete, TreeTypeOK
<1>3. QueueTypeOK' /\ ReloadSense'
  BY SameQueue DEF Delete, treeVars
<1>4. TaskTypeOK' /\ TaskSense'
  <2>1. Doing("unregister", p) \in
           [at : Steps, path : Files \cup {NoScreen, BuiltIn},
            held : Ages, asked : Screens \cup {NoScreen}]
    BY DEF Doing, Steps, Ages
  <2> QED BY <2>1, OneTask DEF Delete, Doing
<1> QED BY <1>1, <1>2, <1>3, <1>4

LEMMA TypeLoad ==
    ASSUME TypeInv, NEW d \in Dispatchers, NEW p \in Screens \cup {NoScreen},
           LoadScreen(d, p)
    PROVE  TypeInv'
<1> USE DEF TypeInv, TypeOK
<1> DEFINE q == IF p # NoScreen THEN p
                ELSE IF default # NoScreen THEN default ELSE BuiltIn
           t == [at |-> "display", path |-> q,
                 held |-> IF q = BuiltIn THEN "new" ELSE registry[q], asked |-> p]
<1>1. FilesTypeOK'
  BY DEF LoadScreen, FilesTypeOK
<1>2. TreeTypeOK'
  BY SameTree DEF LoadScreen, TreeTypeOK
<1>3. QueueTypeOK' /\ ReloadSense'
  BY SameQueue DEF LoadScreen, treeVars
<1>4. TaskTypeOK' /\ TaskSense'
  <2>1. q \in Screens \cup {BuiltIn}
    BY DEF FilesTypeOK
  <2>2. q # BuiltIn => registry[q] \in Ages /\ registry[q] # "none"
    BY <2>1 DEF FilesTypeOK, LoadScreen
  <2>3. t.held \in Ages /\ t.held # "none"
    BY <2>2 DEF Ages
  <2>4. t \in [at : Steps, path : Files \cup {NoScreen, BuiltIn},
               held : Ages, asked : Screens \cup {NoScreen}]
    BY <2>1, <2>3 DEF Steps
  <2>5. task' = [task EXCEPT ![d] = t]
    BY DEF LoadScreen
  <2>6. t.at = "display" /\ t.path \in Screens \cup {BuiltIn}
    BY <2>1
  <2> HIDE DEF t
  <2> QED BY <2>3, <2>4, <2>5, <2>6, OneTask
<1> QED BY <1>1, <1>2, <1>3, <1>4

LEMMA TypeProperty ==
    ASSUME TypeInv, NEW d \in Dispatchers, NEW s \in Overridden,
           SetProperty(d, s) \/ RemoveOverride(d, s)
    PROVE  TypeInv'
<1> USE DEF TypeInv, TypeOK
<1>1. FilesTypeOK'
  BY DEF SetProperty, RemoveOverride, FilesTypeOK
<1>2. TreeTypeOK'
  BY DEF SetProperty, RemoveOverride, TreeTypeOK, treeVars
<1>3. QueueTypeOK' /\ ReloadSense'
  BY SameQueue DEF SetProperty, RemoveOverride, treeVars
<1>4. TaskTypeOK' /\ TaskSense'
  BY SameTasks DEF SetProperty, RemoveOverride
<1> QED BY <1>1, <1>2, <1>3, <1>4

LEMMA TypeSaveAgain ==
    ASSUME TypeInv, NEW d \in Dispatchers, SaveAgain(d)
    PROVE  TypeInv'
<1> USE DEF TypeInv, TypeOK
<1>1. FilesTypeOK'
  BY SaveType DEF SaveAgain, FilesTypeOK
<1>2. TreeTypeOK' /\ QueueTypeOK' /\ ReloadSense'
  BY SameTree, SameQueue DEF SaveAgain, TreeTypeOK, treeVars
<1>3. TaskTypeOK' /\ TaskSense'
  BY SameTasks DEF SaveAgain
<1> QED BY <1>1, <1>2, <1>3

LEMMA TypeCommand ==
    ASSUME TypeInv, NEW d \in Dispatchers, Command(d)
    PROVE  TypeInv'
BY TypeCommit, TypeDelete, TypeLoad, TypeProperty, TypeSaveAgain DEF Command

LEMMA TypeStepOf ==
    ASSUME TypeInv, NEW d \in Dispatchers, Step(d)
    PROVE  TypeInv'
<1> USE DEF TypeInv, TypeOK
<1> DEFINE p == task[d].path
<1>1. CASE Register(d)
  <2> DEFINE found == disk[p] = "new"
             t == [at |-> IF found THEN "store" ELSE "notify", path |-> p,
                   held |-> IF found THEN "new" ELSE "none", asked |-> task[d].asked]
  <2>1. p \in Screens
    BY <1>1 DEF Register, TaskSense
  <2>2. task' = [task EXCEPT ![d] = t]
    BY <1>1 DEF Register, GoOn
  <2>3. t \in [at : Steps, path : Files \cup {NoScreen, BuiltIn},
               held : Ages, asked : Screens \cup {NoScreen}]
    BY <2>1 DEF TaskTypeOK, Steps, Ages
  <2>4. /\ t.at \in {"store", "notify"} /\ t.path = p
        /\ t.at = "store" => t.held # "none"
    OBVIOUS
  <2>5. TaskTypeOK' /\ TaskSense'
    <3> HIDE DEF t
    <3> QED BY <2>1, <2>2, <2>3, <2>4, OneTask
  <2>6. FilesTypeOK'
    BY <1>1, RemoveType DEF Register, FilesTypeOK
  <2>7. TreeTypeOK' /\ QueueTypeOK' /\ ReloadSense'
    BY <1>1, SameTree, SameQueue DEF Register, TreeTypeOK, treeVars
  <2> QED BY <2>5, <2>6, <2>7
<1>2. CASE Store(d)
  <2> DEFINE t == [at |-> "notify", path |-> p, held |-> "none", asked |-> task[d].asked]
  <2>1. p \in Screens /\ task[d].held \in Ages
    BY <1>2 DEF Store, TaskSense, TaskTypeOK
  <2>2. task' = [task EXCEPT ![d] = t]
    BY <1>2 DEF Store, GoOn
  <2>3. t \in [at : Steps, path : Files \cup {NoScreen, BuiltIn},
               held : Ages, asked : Screens \cup {NoScreen}]
    BY <2>1 DEF TaskTypeOK, Steps, Ages
  <2>4. t.at = "notify" /\ t.path = p
    OBVIOUS
  <2>5. TaskTypeOK' /\ TaskSense'
    <3> HIDE DEF t
    <3> QED BY <2>1, <2>2, <2>3, <2>4, OneTask
  <2>6. FilesTypeOK'
    BY <1>2, <2>1 DEF Store, FilesTypeOK
  <2>7. TreeTypeOK' /\ QueueTypeOK' /\ ReloadSense'
    BY <1>2, SameTree, SameQueue DEF Store, TreeTypeOK, treeVars
  <2> QED BY <2>5, <2>6, <2>7
<1>3. CASE Unregister(d)
  <2>1. FilesTypeOK'
    BY <1>3 DEF Unregister, FilesTypeOK, Ages
  <2>2. TreeTypeOK' /\ QueueTypeOK' /\ ReloadSense'
    BY <1>3, SameTree, SameQueue DEF Unregister, TreeTypeOK, treeVars
  <2>3. TaskTypeOK' /\ TaskSense'
    BY <1>3, IdleIsTask, OneTask DEF Unregister, IdleTask, Doing
  <2> QED BY <2>1, <2>2, <2>3
<1>4. CASE PersistScreen(d)
  <2> DEFINE t == [at |-> "save", path |-> p, held |-> "none", asked |-> task[d].asked]
  <2>1. FilesTypeOK'
    <3>1. CASE current = BuiltIn
      BY <1>4, <3>1 DEF PersistScreen, FilesTypeOK
    <3>2. CASE current # BuiltIn
      BY <1>4, <3>2, SaveType DEF PersistScreen, FilesTypeOK, TreeTypeOK
    <3> QED BY <3>1, <3>2
  <2>2. TreeTypeOK' /\ QueueTypeOK' /\ ReloadSense'
    BY <1>4, SameTree, SameQueue DEF PersistScreen, TreeTypeOK, treeVars
  <2>3. task' = [task EXCEPT ![d] = t]
    BY <1>4 DEF PersistScreen, GoOn
  <2>4. t \in [at : Steps, path : Files \cup {NoScreen, BuiltIn},
               held : Ages, asked : Screens \cup {NoScreen}]
    BY DEF TaskTypeOK, Steps, Ages
  <2>5. t.at = "save"
    OBVIOUS
  <2>6. TaskTypeOK' /\ TaskSense'
    <3> HIDE DEF t
    <3> QED BY <2>3, <2>4, <2>5, OneTask
  <2> QED BY <2>1, <2>2, <2>6
<1>5. CASE FinishLoad(d)
  <2>1. FilesTypeOK'
    <3>1. task[d].asked \in Screens \cup {NoScreen}
      BY DEF TaskTypeOK
    <3> QED BY <1>5, <3>1, SaveType DEF FinishLoad, FilesTypeOK
  <2>2. TreeTypeOK' /\ QueueTypeOK' /\ ReloadSense'
    BY <1>5, SameTree, SameQueue DEF FinishLoad, TreeTypeOK, treeVars
  <2>3. TaskTypeOK' /\ TaskSense'
    BY <1>5, IdleIsTask, OneTask DEF FinishLoad, IdleTask, Doing
  <2> QED BY <2>1, <2>2, <2>3
<1> QED BY <1>1, <1>2, <1>3, <1>4, <1>5 DEF Step

LEMMA TypeUnderLock ==
    ASSUME TypeInv, NEW d \in Dispatchers, UnderLock(d)
    PROVE  TypeInv'
<1> USE DEF TypeInv, TypeOK
<1> DEFINE p == task[d].path
<1>1. CASE Notify(d)
  <2>1. p \in Files /\ PathItem(p) \in Item
    BY <1>1, Items DEF Notify, TaskSense
  <2>2. lvgl.held = "none"
    BY <1>1 DEF Notify, ReloadSense
  <2>3. QueueTypeOK' /\ lvgl'.held = "none"
    <3>1. queued' \subseteq Files
      BY <1>1, <2>1 DEF Notify, QueueTypeOK
    <3>2. CASE p \in queued
      BY <1>1, <2>2, <3>1, <3>2 DEF Notify, QueueTypeOK
    <3>3. CASE p \notin queued
      BY <1>1, <2>1, <2>2, <3>1, <3>3, PostType DEF Notify
    <3> QED BY <3>2, <3>3
  <2>4. TaskTypeOK' /\ TaskSense'
    <3>1. Doing("drain", NoScreen) \in
             [at : Steps, path : Files \cup {NoScreen, BuiltIn},
              held : Ages, asked : Screens \cup {NoScreen}]
      BY DEF Doing, Steps, Ages
    <3>2. CASE task' = [task EXCEPT ![d] = Doing("drain", NoScreen)]
      BY <3>1, <3>2, OneTask DEF Doing
    <3>3. CASE task' = [task EXCEPT ![d] = IdleTask]
      BY <3>3, IdleIsTask, OneTask DEF IdleTask, Doing
    <3> QED BY <1>1, <3>2, <3>3 DEF Notify
  <2>5. FilesTypeOK' /\ TreeTypeOK'
    BY <1>1, SameTree DEF Notify, FilesTypeOK, TreeTypeOK, treeVars
  <2> QED BY <2>3, <2>4, <2>5 DEF ReloadSense
<1>2. CASE ShowScreen(d)
  <2> DEFINE t == [at |-> "persist", path |-> p, held |-> "none", asked |-> task[d].asked]
  <2>1. p \in Screens \cup {BuiltIn} /\ task[d].held \in Shown
    BY <1>2 DEF ShowScreen, TaskSense, TaskTypeOK, Ages, Shown
  <2>2. TreeTypeOK' /\ disk' \in [Files -> {"none", "new", "bad"}]
    BY <1>2, <2>1, DisplayType DEF ShowScreen, TreeTypeOK
  <2>3. FilesTypeOK'
    BY <1>2, <2>2 DEF ShowScreen, FilesTypeOK
  <2>4. QueueTypeOK' /\ ReloadSense'
    BY <1>2 DEF ShowScreen, QueueTypeOK, ReloadSense, queueVars
  <2>5. task' = [task EXCEPT ![d] = t]
    BY <1>2 DEF ShowScreen, GoOn
  <2>6. t \in [at : Steps, path : Files \cup {NoScreen, BuiltIn},
               held : Ages, asked : Screens \cup {NoScreen}]
    BY DEF TaskTypeOK, Steps, Ages
  <2>7. t.at = "persist"
    OBVIOUS
  <2>8. TaskTypeOK' /\ TaskSense'
    <3> HIDE DEF t
    <3> QED BY <2>5, <2>6, <2>7, OneTask
  <2> QED BY <2>2, <2>3, <2>4, <2>8
<1> QED BY <1>1, <1>2 DEF UnderLock

(* A touch, a power cycle and the first screen after it.                    *)
LEMMA TypeChange ==
    ASSUME TypeInv, NEW s \in Slots, NEW p \in Parts, ChangeSlot(s, p)
    PROVE  TypeInv'
<1> USE DEF TypeInv, TypeOK
<1>1. ChangeItem(s, p) \in Item
  BY Items
<1>2. lvgl.held = "none"
  BY DEF ChangeSlot, ReloadSense
<1>3. QueueTypeOK' /\ lvgl'.held = "none"
  <2>1. queued' \subseteq Files /\ pending' = pending
    BY DEF ChangeSlot, QueueTypeOK
  <2> QED BY <1>1, <1>2, <2>1, PostType DEF ChangeSlot
<1>4. FilesTypeOK' /\ TreeTypeOK'
  BY SameTree DEF ChangeSlot, FilesTypeOK, TreeTypeOK
<1>5. TaskTypeOK' /\ TaskSense'
  BY SameTasks DEF ChangeSlot
<1> QED BY <1>3, <1>4, <1>5 DEF ReloadSense

LEMMA TypeBoot ==
    ASSUME TypeInv, Reboot \/ ShowFirst
    PROVE  TypeInv'
<1> USE DEF TypeInv, TypeOK
<1>1. CASE Reboot
  <2>1. FilesTypeOK'
    <3>1. \A f \in Files : disk'[f] \in {"none", "new", "bad"}
      BY <1>1 DEF Reboot, FilesTypeOK
    <3>2. \A q \in Screens : registry'[q] \in Ages
      BY <1>1 DEF Reboot, FilesTypeOK, Ages
    <3>3. default' \in Screens \cup {NoScreen}
      BY <1>1 DEF Reboot
    <3>4. reboots' \in 0 .. MaxReboots
      BY <1>1 DEF Reboot, FilesTypeOK
    <3> QED BY <1>1, <3>1, <3>2, <3>3, <3>4 DEF Reboot, FilesTypeOK
  <2>2. TreeTypeOK'
    BY <1>1 DEF Reboot, TreeTypeOK, Shown, Out
  <2>3. lvgl' = [by |-> "boot", left |-> 0, held |-> "none"]
    BY <1>1 DEF Reboot, NoSlice
  <2>4. QueueTypeOK'
    <3>1. <<>> \in Seq(Item)
      OBVIOUS
    <3>2. lvgl' \in [by : {"nobody", "timer", "touch", "boot"} \cup Dispatchers,
                     left : 0 .. PerSlice, held : Ages]
      BY <2>3 DEF Ages
    <3>3. queue' = <<>> /\ timer' = FALSE /\ queued' = {} /\ pending' = FALSE
      BY <1>1 DEF Reboot
    <3> QED BY <3>1, <3>2, <3>3 DEF QueueTypeOK
  <2>5. task' = [d \in Dispatchers |-> IF d \in Dispatchers THEN IdleTask ELSE task[d]]
    BY <1>1 DEF Reboot
  <2>6. TaskTypeOK' /\ TaskSense'
    BY <2>5, IdleTasks
  <2> QED BY <2>1, <2>2, <2>3, <2>4, <2>6 DEF ReloadSense
<1>2. CASE ShowFirst
  <2> DEFINE known == preferred # NoScreen /\ registry[preferred] # "none"
             p == IF known THEN preferred
                  ELSE IF default # NoScreen THEN default ELSE BuiltIn
  <2>1. p \in Screens \cup {BuiltIn}
    BY DEF FilesTypeOK
  <2>2. Display(p, "new") /\ "new" \in Shown
    BY <1>2 DEF ShowFirst, Shown
  <2>3. TreeTypeOK' /\ disk' \in [Files -> {"none", "new", "bad"}]
    BY <1>2, <2>1, <2>2, DisplayType DEF ShowFirst, TreeTypeOK
  <2>4. FilesTypeOK'
    <3>1. BootPref(known, p)
      BY <1>2 DEF ShowFirst
    <3>2. /\ preferred' \in Screens \cup {NoScreen} /\ persisted' \in Screens \cup {NoScreen}
          /\ unsaved' \in BOOLEAN
      BY <2>1, <3>1, SaveType DEF BootPref, FilesTypeOK
    <3> QED BY <1>2, <2>3, <3>2 DEF ShowFirst, FilesTypeOK
  <2>5. QueueTypeOK' /\ ReloadSense'
    BY <1>2 DEF ShowFirst, QueueTypeOK, ReloadSense, NoSlice, Ages
  <2>6. TaskTypeOK' /\ TaskSense'
    BY <1>2, SameTasks DEF ShowFirst
  <2> QED BY <2>3, <2>4, <2>5, <2>6
<1> QED BY <1>1, <1>2

LEMMA TypeStep == TypeInv /\ [Next]_vars => TypeInv'
<1> SUFFICES ASSUME TypeInv, [Next]_vars PROVE TypeInv'
  OBVIOUS
<1>1. CASE Next
  BY <1>1, TypeQueue, TypeCommand, TypeStepOf, TypeUnderLock, TypeChange, TypeBoot
     DEF Next
<1>2. CASE UNCHANGED vars
  BY <1>2 DEF vars, treeVars, TypeInv, TypeOK, FilesTypeOK, TreeTypeOK, QueueTypeOK,
     TaskTypeOK, TaskSense, ReloadSense
<1> QED BY <1>1, <1>2

(* Every variable keeps its type: no step of the queue, of a dispatcher, of *)
(* a touch or of a boot leaves the display, the registry or a task in a     *)
(* state the code does not have.                                            *)
THEOREM TypeCorrect == Spec => []TypeOK
<1>1. Init => TypeInv
  BY TypeInit
<1>2. TypeInv /\ [Next]_vars => TypeInv'
  BY TypeStep
<1>3. TypeInv => TypeOK
  BY DEF TypeInv
<1> QED BY <1>1, <1>2, <1>3, PTL DEF Spec

-----------------------------------------------------------------------------
(* The default screen.  Dropping a screen from the registry and dropping it *)
(* as the default are one step; every other step keeps a cached screen.     *)
LEMMA DefaultStep ==
    ASSUME TypeInv, DefaultIsRegistered, [Next]_vars
    PROVE  DefaultIsRegistered'
<1> USE DEF TypeInv, TypeOK, DefaultIsRegistered
<1>1. CASE UNCHANGED <<default, registry>>
  BY <1>1
<1>2. ASSUME NEW d \in Dispatchers, NEW p \in Files, Commit(d, p)
      PROVE  DefaultIsRegistered'
  <2>1. default' = default
    BY <1>2 DEF Commit
  <2>2. ASSUME default # NoScreen
        PROVE  registry'[default] # "none"
    <3>1. default \in Screens /\ registry[default] \in Ages
      BY <2>2 DEF FilesTypeOK
    <3>2. registry'[default] \in {registry[default], Older(registry[default])}
      BY <1>2, <3>1 DEF Commit, FilesTypeOK
    <3> QED BY <2>2, <3>1, <3>2, OlderType
  <2> QED BY <2>1, <2>2
<1>3. ASSUME NEW d \in Dispatchers, Store(d)
      PROVE  DefaultIsRegistered'
  <2>1. task[d].path \in Screens /\ task[d].held # "none"
    BY <1>3 DEF Store, TaskSense
  <2>2. \A q \in Screens : registry'[q] =
            IF q = task[d].path THEN task[d].held ELSE registry[q]
    BY <1>3 DEF Store, FilesTypeOK
  <2>3. default' \in {default, task[d].path}
    BY <1>3 DEF Store
  <2> QED BY <2>1, <2>2, <2>3 DEF FilesTypeOK
<1>4. ASSUME NEW d \in Dispatchers, Unregister(d)
      PROVE  DefaultIsRegistered'
  <2>1. default' # NoScreen => default' = default /\ default # task[d].path
    BY <1>4 DEF Unregister
  <2>2. \A q \in Screens : q # task[d].path => registry'[q] = registry[q]
    BY <1>4 DEF Unregister, FilesTypeOK
  <2> QED BY <2>1, <2>2 DEF FilesTypeOK
<1>5. CASE Reboot
  <2>1. default' # NoScreen => default' \in Screens /\ registry'[default'] = "new"
    BY <1>5 DEF Reboot
  <2> QED BY <2>1
<1>6. CASE BeginSlice \/ RunQueue
  <2>1. UNCHANGED <<default, registry>>
    BY <1>6 DEF BeginSlice, RunQueue, RunPath, RunChange, RunReload, FinishReload,
       EndSlice, EndDrain
  <2> QED BY <1>1, <2>1
<1>7. ASSUME NEW d \in Dispatchers, Command(d) \/ Step(d) \/ UnderLock(d)
      PROVE  DefaultIsRegistered'
  <2>1. ASSUME NEW p \in Files, Delete(d, p)
        PROVE  DefaultIsRegistered'
    BY <1>1, <2>1 DEF Delete
  <2>2. ASSUME NEW p, LoadScreen(d, p)
        PROVE  DefaultIsRegistered'
    BY <1>1, <2>2 DEF LoadScreen
  <2>3. ASSUME NEW s, SetProperty(d, s) \/ RemoveOverride(d, s)
        PROVE  DefaultIsRegistered'
    BY <1>1, <2>3 DEF SetProperty, RemoveOverride
  <2>4. CASE Register(d) \/ PersistScreen(d) \/ FinishLoad(d) \/ SaveAgain(d)
    BY <1>1, <2>4 DEF Register, PersistScreen, FinishLoad, SaveAgain
  <2>5. CASE UnderLock(d)
    BY <1>1, <2>5 DEF UnderLock, Notify, ShowScreen
  <2> QED BY <1>2, <1>3, <1>4, <1>7, <2>1, <2>2, <2>3, <2>4, <2>5 DEF Command, Step
<1>8. ASSUME NEW s, NEW p, ChangeSlot(s, p)
      PROVE  DefaultIsRegistered'
  BY <1>1, <1>8 DEF ChangeSlot
<1>9. CASE ShowFirst
  BY <1>1, <1>9 DEF ShowFirst
<1>10. CASE UNCHANGED vars
  BY <1>1, <1>10 DEF vars
<1> QED BY <1>5, <1>6, <1>7, <1>8, <1>9, <1>10 DEF Next

(* Whatever is uploaded, deleted and rebooted, a default screen that is     *)
(* named can be loaded: unregistering the file clears the name with it.     *)
THEOREM DefaultLoads == Spec => []DefaultIsRegistered
<1>1. Init => TypeInv /\ DefaultIsRegistered
  BY TypeInit DEF Init, DefaultIsRegistered
<1>2. TypeInv /\ [Next]_vars => TypeInv'
  BY TypeStep
<1>3. TypeInv /\ DefaultIsRegistered /\ [Next]_vars => DefaultIsRegistered'
  BY DefaultStep
<1> QED BY <1>1, <1>2, <1>3, PTL DEF Spec

-----------------------------------------------------------------------------
(* The queue.  A path item waits for each queued path, a reload for the     *)
(* pending flag, and none waits twice.                                      *)
Has(q, x) == \E i \in DOMAIN q : q[i] = x
Once(q, x) == \A i, j \in DOMAIN q : q[i] = x /\ q[j] = x => i = j

LEMMA HasAppend ==
    ASSUME NEW q \in Seq(Item), NEW e \in Item, NEW x
    PROVE  Has(Append(q, e), x) <=> Has(q, x) \/ e = x
<1>1. Has(q, x) => Has(Append(q, e), x)
  BY DEF Has
<1>2. e = x => Has(Append(q, e), x)
  <2>1. Append(q, e)[Len(q) + 1] = e /\ Len(q) + 1 \in DOMAIN Append(q, e)
    OBVIOUS
  <2> QED BY <2>1 DEF Has
<1>3. Has(Append(q, e), x) => Has(q, x) \/ e = x
  BY DEF Has
<1> QED BY <1>1, <1>2, <1>3

LEMMA OnceAppend ==
    ASSUME NEW q \in Seq(Item), NEW e \in Item, NEW x,
           Once(q, x), e = x => ~Has(q, x)
    PROVE  Once(Append(q, e), x)
BY DEF Once, Has

LEMMA HasTail ==
    ASSUME NEW q \in Seq(Item), q # <<>>, NEW x, Once(q, x)
    PROVE  Has(Tail(q), x) <=> Has(q, x) /\ Head(q) # x
<1>1. Has(Tail(q), x) => Has(q, x) /\ Head(q) # x
  <2> SUFFICES ASSUME Has(Tail(q), x) PROVE Has(q, x) /\ Head(q) # x
    OBVIOUS
  <2>1. PICK i \in DOMAIN Tail(q) : Tail(q)[i] = x
    BY DEF Has
  <2>2. i \in Nat \ {0} /\ i + 1 \in DOMAIN q /\ 1 \in DOMAIN q /\ q[i + 1] = x
    BY <2>1
  <2> QED BY <2>2 DEF Has, Once
<1>2. Has(q, x) /\ Head(q) # x => Has(Tail(q), x)
  <2> SUFFICES ASSUME Has(q, x), Head(q) # x PROVE Has(Tail(q), x)
    OBVIOUS
  <2>1. PICK i \in DOMAIN q : q[i] = x
    BY DEF Has
  <2>2. i - 1 \in DOMAIN Tail(q) /\ Tail(q)[i - 1] = x
    BY <2>1
  <2> QED BY <2>2 DEF Has
<1> QED BY <1>1, <1>2

LEMMA OnceTail ==
    ASSUME NEW q \in Seq(Item), q # <<>>, NEW x, Once(q, x)
    PROVE  Once(Tail(q), x)
<1> SUFFICES ASSUME NEW i \in DOMAIN Tail(q), NEW j \in DOMAIN Tail(q),
                    Tail(q)[i] = x, Tail(q)[j] = x
             PROVE  i = j
  BY DEF Once
<1>1. /\ i \in Nat /\ i + 1 \in DOMAIN q /\ q[i + 1] = x
      /\ j \in Nat /\ j + 1 \in DOMAIN q /\ q[j + 1] = x
  OBVIOUS
<1> QED BY <1>1 DEF Once

QueueInv ==
    /\ \A p \in Files : Once(queue, PathItem(p)) /\ (p \in queued <=> Has(queue, PathItem(p)))
    /\ Once(queue, ReloadItem) /\ (pending <=> Has(queue, ReloadItem))

LEMMA DistinctItems ==
    /\ \A p \in Files : PathItem(p) # ReloadItem
    /\ \A p, r \in Files : p # r => PathItem(p) # PathItem(r)
    /\ \A s \in Slots, p \in Parts, r \in Files :
          ChangeItem(s, p) # ReloadItem /\ ChangeItem(s, p) # PathItem(r)
<1>1. \A p \in Files : PathItem(p).kind = "path" /\ PathItem(p).path = p
  BY DEF PathItem
<1>2. ReloadItem.kind = "reload"
  BY DEF ReloadItem
<1>3. \A s \in Slots, p \in Parts : ChangeItem(s, p).kind = "change"
  BY DEF ChangeItem
<1> QED BY <1>1, <1>2, <1>3

LEMMA ItemOfKind ==
    ASSUME NEW it \in Item
    PROVE  /\ it.kind = "path" => it.path \in Files /\ it = PathItem(it.path)
           /\ it.kind = "reload" => it = ReloadItem
           /\ \A p \in Files : it = PathItem(p) => it.kind = "path" /\ it.path = p
           /\ it = ReloadItem => it.kind = "reload"
BY DEF Item, PathItem, ReloadItem

(* Asking for a reload once an item that is not one has been taken.         *)
LEMMA ReloadQueued ==
    ASSUME QueueTypeOK, queue # <<>>, RequestReload \/ NoReload,
           Head(queue) # ReloadItem, QueueInv
    PROVE  /\ \A p \in Files : /\ Once(queue', PathItem(p))
                               /\ Has(queue', PathItem(p)) <=>
                                     p \in queued /\ Head(queue) # PathItem(p)
           /\ Once(queue', ReloadItem) /\ (pending' <=> Has(queue', ReloadItem))
<1> DEFINE rest == Tail(queue)
<1>1. queue \in Seq(Item) /\ rest \in Seq(Item)
  BY TailType DEF QueueTypeOK
<1>2. /\ \A p \in Files : /\ Once(rest, PathItem(p))
                          /\ Has(rest, PathItem(p)) <=>
                                p \in queued /\ Head(queue) # PathItem(p)
      /\ Once(rest, ReloadItem) /\ (pending <=> Has(rest, ReloadItem))
  BY <1>1, HasTail, OnceTail DEF QueueInv
<1>3. CASE queue' = rest /\ pending' = pending
  BY <1>2, <1>3
<1>4. CASE ~pending /\ pending' = TRUE /\ queue' = Append(rest, ReloadItem)
  <2> HIDE DEF rest
  <2>1. Once(queue', ReloadItem) /\ Has(queue', ReloadItem)
    BY <1>1, <1>2, <1>4, Items, OnceAppend, HasAppend
  <2>2. \A p \in Files : /\ Once(queue', PathItem(p))
                         /\ Has(queue', PathItem(p)) <=> Has(rest, PathItem(p))
    BY <1>1, <1>2, <1>4, Items, DistinctItems, OnceAppend, HasAppend
  <2> QED BY <1>2, <1>4, <2>1, <2>2
<1> QED BY <1>3, <1>4 DEF RequestReload, NoReload, Repost

LEMMA QueueStep ==
    ASSUME TypeInv, QueueInv, [Next]_vars
    PROVE  QueueInv'
<1> USE DEF TypeInv, TypeOK
<1>1. CASE UNCHANGED <<queue, queued, pending>>
  BY <1>1 DEF QueueInv
<1>2. CASE RunPath
  <2> DEFINE p == Head(queue).path
  <2>1. /\ queue \in Seq(Item) /\ queue # <<>>
        /\ p \in Files /\ Head(queue) = PathItem(p)
        /\ queued' = queued \ {p}
    BY <1>2, TakenType, TailType, ItemOfKind DEF RunPath, QueueTypeOK
  <2>2. RequestReload \/ NoReload
    BY <1>2, <2>1, RefreshType DEF RunPath
  <2>3. \A r \in Files : Head(queue) # PathItem(r) <=> r # p
    BY <2>1, DistinctItems
  <2> QED BY <2>1, <2>2, <2>3, DistinctItems, ReloadQueued DEF QueueInv
<1>3. CASE RunChange
  <2>1. /\ queue \in Seq(Item) /\ queue # <<>> /\ Head(queue) \in Item
        /\ Head(queue).kind = "change"
        /\ queue' = Tail(queue) /\ queued' = queued /\ pending' = pending
    BY <1>3, TakenType, TailType DEF RunChange, NoReload, QueueTypeOK
  <2>2. Head(queue) # ReloadItem /\ \A r \in Files : Head(queue) # PathItem(r)
    BY <2>1, ItemOfKind
  <2> QED BY <2>1, <2>2, HasTail, OnceTail DEF QueueInv
<1>4. CASE RunReload
  <2>1. /\ queue \in Seq(Item) /\ queue # <<>> /\ Head(queue) = ReloadItem
        /\ queue' = Tail(queue) /\ queued' = queued /\ pending' = FALSE
    BY <1>4, TakenType, TailType, ItemOfKind DEF RunReload, QueueTypeOK
  <2> QED BY <2>1, DistinctItems, HasTail, OnceTail DEF QueueInv
<1>5. ASSUME NEW d \in Dispatchers, Notify(d)
      PROVE  QueueInv'
  <2> DEFINE p == task[d].path
  <2>1. /\ queue \in Seq(Item) /\ p \in Files /\ PathItem(p) \in Item
        /\ queued' = queued \cup {p} /\ pending' = pending
    BY <1>5, Items DEF Notify, QueueTypeOK, TaskSense
  <2>2. CASE p \in queued
    BY <1>1, <1>5, <2>1, <2>2 DEF Notify
  <2>3. CASE p \notin queued
    <3>1. queue' = Append(queue, PathItem(p))
      BY <1>5, <2>3 DEF Notify, Post
    <3>2. \A r \in Files : /\ Once(queue', PathItem(r))
                           /\ Has(queue', PathItem(r)) <=> r \in queued \/ r = p
      BY <2>1, <2>3, <3>1, DistinctItems, HasAppend, OnceAppend DEF QueueInv
    <3>3. Once(queue', ReloadItem) /\ (pending <=> Has(queue', ReloadItem))
      BY <2>1, <3>1, DistinctItems, HasAppend, OnceAppend DEF QueueInv
    <3> QED BY <2>1, <3>2, <3>3 DEF QueueInv
  <2> QED BY <2>2, <2>3
<1>6. ASSUME NEW s \in Slots, NEW p \in Parts, ChangeSlot(s, p)
      PROVE  QueueInv'
  <2>1. /\ queue \in Seq(Item) /\ ChangeItem(s, p) \in Item
        /\ queue' = Append(queue, ChangeItem(s, p))
        /\ queued' = queued /\ pending' = pending
    BY <1>6, Items DEF ChangeSlot, Post, QueueTypeOK
  <2> QED BY <2>1, DistinctItems, HasAppend, OnceAppend DEF QueueInv
<1>7. CASE Reboot
  BY <1>7 DEF Reboot, QueueInv, Has, Once
<1>8. CASE BeginSlice \/ FinishReload \/ EndSlice \/ EndDrain \/ ShowFirst
  BY <1>1, <1>8 DEF BeginSlice, FinishReload, EndSlice, EndDrain, ShowFirst
<1>9. ASSUME NEW d \in Dispatchers, Command(d) \/ Step(d) \/ ShowScreen(d)
      PROVE  QueueInv'
  <2>1. ASSUME NEW p, Commit(d, p) \/ Delete(d, p) \/ LoadScreen(d, p)
        PROVE  QueueInv'
    BY <1>1, <2>1 DEF Commit, Delete, LoadScreen, queueVars
  <2>2. ASSUME NEW s, SetProperty(d, s) \/ RemoveOverride(d, s) \/ SaveAgain(d)
        PROVE  QueueInv'
    BY <1>1, <2>2 DEF SetProperty, RemoveOverride, SaveAgain, queueVars
  <2>3. CASE Step(d) \/ ShowScreen(d)
    BY <1>1, <2>3 DEF Step, Register, Store, Unregister, PersistScreen, FinishLoad,
       ShowScreen, queueVars
  <2> QED BY <1>9, <2>1, <2>2, <2>3 DEF Command
<1>10. CASE UNCHANGED vars
  BY <1>1, <1>10 DEF vars
<1> QED BY <1>2, <1>3, <1>4, <1>5, <1>6, <1>7, <1>8, <1>9, <1>10
       DEF Next, RunQueue, UnderLock

LEMMA OnceCount ==
    ASSUME NEW q, NEW x, Once(q, x)
    PROVE  Cardinality({i \in DOMAIN q : q[i] = x}) = IF Has(q, x) THEN 1 ELSE 0
<1> DEFINE at == {i \in DOMAIN q : q[i] = x}
<1>1. CASE Has(q, x)
  <2>1. PICK i \in DOMAIN q : q[i] = x
    BY <1>1 DEF Has
  <2>2. at = {i}
    BY <2>1 DEF Once
  <2> QED BY <1>1, <2>2, FS_Singleton
<1>2. CASE ~Has(q, x)
  <2>1. at = {}
    BY <1>2 DEF Has
  <2> QED BY <1>2, <2>1, FS_EmptySet
<1> QED BY <1>1, <1>2

(* However many uploads there are in a burst and however slowly the queue   *)
(* runs, a changed file waits in it once, and so does a reload.             *)
THEOREM BurstBounded == Spec => []OneRefreshPerFile
<1>1. Init => TypeInv /\ QueueInv
  BY TypeInit DEF Init, QueueInv, Has, Once
<1>2. TypeInv /\ [Next]_vars => TypeInv'
  BY TypeStep
<1>3. TypeInv /\ QueueInv /\ [Next]_vars => QueueInv'
  BY QueueStep
<1>4. TypeInv /\ QueueInv => OneRefreshPerFile
  <2> SUFFICES ASSUME TypeInv, QueueInv PROVE OneRefreshPerFile
    OBVIOUS
  <2>1. ASSUME NEW p \in Files
        PROVE  Cardinality({i \in DOMAIN queue : queue[i] = PathItem(p)}) =
                   IF p \in queued THEN 1 ELSE 0
    BY OnceCount DEF QueueInv
  <2>2. Cardinality({i \in DOMAIN queue : queue[i] = ReloadItem}) =
            IF pending THEN 1 ELSE 0
    BY OnceCount DEF QueueInv
  <2> QED BY <2>1, <2>2 DEF OneRefreshPerFile
<1> QED BY <1>1, <1>2, <1>3, <1>4, PTL DEF Spec

-----------------------------------------------------------------------------
(* One dispatcher.  What the display shows of a replaced file is refreshed  *)
(* by an item of the queue, or by the one command that will post it.  With  *)
(* two, one can display bytes that the other is about to replace.           *)
OneDispatcher == \A d, e \in Dispatchers : d = e

Unnamed == Slots \ (NamedSlots \cup ImageSlots)

(* No WidgetRef without an id shows the file that one with an id shows: a   *)
(* refresh of the latter would leave the former as it is, and return.       *)
UnnamedApart ==
    \A s \in NamedSlots, t \in Unnamed :
        ActiveRef(s) /\ ActiveRef(t) => slot[s].path # slot[t].path

(* A slot shows a file of its kind, and is told to.                         *)
Matched(q) ==
    \A i \in DOMAIN q :
        q[i].kind = "change" => (q[i].path \in Images <=> q[i].slot \in ImageSlots)

KindSense ==
    /\ \A s \in Slots : slot[s].path \in Images <=> s \in ImageSlots
    /\ Matched(queue)

BuiltInSense ==
    current = BuiltIn => screen = "new" /\ \A s \in Slots : slot[s].age = "out"

(* A command in the middle: nothing overtakes it.                           *)
CommandSense ==
    \A d \in Dispatchers :
        /\ task[d].at = "store" => task[d].held = "new"
        /\ task[d].at = "unregister" => disk[task[d].path] = "none"
        /\ task[d].at = "display" /\ task[d].held = "old" =>
              task[d].path \in Screens /\ disk[task[d].path] = "none"
        /\ lvgl.by = d => task[d].at = "drain"
        /\ lvgl.by = "boot" => task[d].at = "idle"

(* The registry has what is on the disk, or is about to.                    *)
Storing(p) ==
    \E d \in Dispatchers : task[d].path = p /\ task[d].at \in {"register", "store"}

RegistrySense ==
    \A p \in Screens : registry[p] = "new" \/ disk[p] = "none" \/ Storing(p)

(* What a reload has copied, what the screen is made of, what a slot shows: *)
(* each, when it is out of date, waits for something that refreshes it.     *)
HeldSense ==
    \A c \in Screens : current = c /\ lvgl.held = "old" =>
        Waiting(c) \/ Has(queue, ReloadItem) \/ disk[c] = "none"

ScreenSense ==
    \A c \in Screens : current = c /\ screen = "old" =>
        Waiting(c) \/ Reloading \/ disk[c] = "none"

SlotSense ==
    \A s \in Slots, p \in Parts, c \in Screens :
        slot[s].age = "old" /\ slot[s].path = p /\ current = c =>
            \/ Waiting(p)
            \/ s \in Unnamed /\ (Reloading \/ registry[c] = "none" \/ Waiting(c))

StaleSense == HeldSense /\ ScreenSense /\ SlotSense

UpdateInv ==
    KindSense /\ BuiltInSense /\ CommandSense /\ RegistrySense /\ StaleSense

LEMMA WaitingIs ==
    \A p : Waiting(p) <=>
        \/ Has(queue, PathItem(p))
        \/ \E d \in Dispatchers : /\ task[d].path = p
                                 /\ task[d].at \in {"register", "store", "notify"}
BY DEF Waiting, Has

LEMMA ReloadingIs == Reloading <=> Has(queue, ReloadItem) \/ lvgl.held # "none"
BY DEF Reloading, Has

LEMMA MatchedAppend ==
    ASSUME NEW q \in Seq(Item), NEW e \in Item, Matched(q),
           e.kind = "change" => (e.path \in Images <=> e.slot \in ImageSlots)
    PROVE  Matched(Append(q, e))
BY DEF Matched

LEMMA MatchedTail ==
    ASSUME NEW q \in Seq(Item), q # <<>>, Matched(q)
    PROVE  Matched(Tail(q))
<1> SUFFICES ASSUME NEW i \in DOMAIN Tail(q)
             PROVE  Tail(q)[i].kind = "change" =>
                        (Tail(q)[i].path \in Images <=> Tail(q)[i].slot \in ImageSlots)
  BY DEF Matched
<1>1. i + 1 \in DOMAIN q /\ Tail(q)[i] = q[i + 1]
  OBVIOUS
<1> QED BY <1>1 DEF Matched

(* What the operators on trees do to the ages.                              *)
Shrinks == \A f \in Files : disk'[f] \in {disk[f], "none"}

LEMMA RemoveShrinks ==
    ASSUME disk \in [Files -> {"none", "new", "bad"}], NEW F, RemoveFiles(F)
    PROVE  Shrinks
BY DEF RemoveFiles, Shrinks

(* A tree built anew shows nothing old.                                     *)
LEMMA DisplayFresh ==
    ASSUME FilesTypeOK, NEW p, NEW a, Display(p, a)
    PROVE  /\ current' = p /\ screen' = a /\ Shrinks
           /\ \A s \in Slots : slot'[s].path = Configured[s] /\ slot'[s].age # "old"
           /\ p = BuiltIn => \A s \in Slots : slot'[s].age = "out"
<1>1. \A s \in Slots : slot'[s] \in {Built(s), Out(s)}
  BY DEF Display
<1>2. \A s \in Slots : Built(s).path = Configured[s] /\ Built(s).age # "old"
  BY FillType DEF Built
<1>3. \A s \in Slots : Out(s).path = Configured[s] /\ Out(s).age = "out"
  BY DEF Out
<1>4. p = BuiltIn => \A s \in Slots : slot'[s] = Out(s)
  BY DEF Display
<1>5. Shrinks
  BY RemoveShrinks DEF Display, FilesTypeOK
<1> QED BY <1>1, <1>2, <1>3, <1>4, <1>5 DEF Display

(* The slots of S show p anew; any other is as it was, or built anew.       *)
Repaints(S, p) ==
    /\ \A s \in S : slot'[s].path = p /\ slot'[s].age # "old"
    /\ \A s \in Slots \ S :
          slot'[s] = slot[s] \/ (slot'[s].path = Configured[s] /\ slot'[s].age # "old")
    /\ UNCHANGED <<current, screen>> /\ Shrinks

LEMMA ChangeRepaints ==
    ASSUME FilesTypeOK, TreeTypeOK, NEW S \in SUBSET Slots, NEW p, ChangeRefs(S, p)
    PROVE  Repaints(S, p)
<1>1. \A s \in S : slot'[s] = [path |-> p, age |-> Fill(p)]
  BY DEF ChangeRefs
<1>2. \A s \in Slots \ S : slot'[s] \in {Built(s), Out(s), slot[s]}
  BY DEF ChangeRefs
<1>3. \A s \in Slots : Built(s).path = Configured[s] /\ Built(s).age # "old"
  BY FillType DEF Built
<1>4. \A s \in Slots : Out(s).path = Configured[s] /\ Out(s).age = "out"
  BY DEF Out
<1>5. Shrinks
  BY RemoveShrinks DEF ChangeRefs, FilesTypeOK
<1>6. \A s \in S : slot'[s].path = p /\ slot'[s].age # "old"
  BY <1>1, FillType
<1>7. UNCHANGED <<current, screen>>
  BY DEF ChangeRefs
<1> QED BY <1>2, <1>3, <1>4, <1>5, <1>6, <1>7 DEF Repaints

LEMMA ImagesRepaint ==
    ASSUME FilesTypeOK, TreeTypeOK, NEW S \in SUBSET Slots, NEW p, SetImages(S, p)
    PROVE  Repaints(S, p)
<1>1. \A s \in S : slot'[s] = [path |-> p, age |-> Fill(p)]
  BY DEF SetImages
<1>2. \A s \in Slots \ S : slot'[s] = slot[s]
  BY DEF SetImages
<1>3. Shrinks /\ UNCHANGED <<current, screen>>
  BY DEF SetImages, Shrinks
<1>4. \A s \in S : slot'[s].path = p /\ slot'[s].age # "old"
  BY <1>1, FillType
<1> QED BY <1>2, <1>3, <1>4 DEF Repaints

(* A step that takes away nothing a stale slot or screen waits for.         *)
LEMMA Onward ==
    ASSUME StaleSense, TreeTypeOK,
           UNCHANGED <<current, screen>>, lvgl'.held = lvgl.held,
           \A s \in Slots : slot'[s].age = "old" => slot'[s] = slot[s],
           \A f \in Files : disk[f] = "none" => disk'[f] = "none",
           \A f \in Files : Waiting(f) =>
               \/ Waiting(f)'
               \/ f # current /\ \A s \in Slots : slot'[s].age = "old" => slot'[s].path # f,
           Has(queue, ReloadItem) => Has(queue', ReloadItem),
           \A c \in Screens : registry[c] = "none" => registry'[c] = "none" \/ Waiting(c)'
    PROVE  StaleSense'
<1>1. Reloading => Reloading'
  BY DEF Reloading, Has
<1>2. HeldSense'
  <2> SUFFICES ASSUME NEW c \in Screens, current' = c, lvgl'.held = "old"
               PROVE  Waiting(c)' \/ Has(queue, ReloadItem)' \/ disk'[c] = "none"
    BY DEF HeldSense
  <2>1. Waiting(c) \/ Has(queue, ReloadItem) \/ disk[c] = "none"
    BY DEF StaleSense, HeldSense
  <2>2. Waiting(c) => Waiting(c)'
    OBVIOUS
  <2>3. Has(queue', ReloadItem) => Has(queue, ReloadItem)'
    BY DEF Has, ReloadItem
  <2> QED BY <2>1, <2>2, <2>3
<1>3. ScreenSense'
  <2> SUFFICES ASSUME NEW c \in Screens, current' = c, screen' = "old"
               PROVE  Waiting(c)' \/ Reloading' \/ disk'[c] = "none"
    BY DEF ScreenSense
  <2>1. Waiting(c) \/ Reloading \/ disk[c] = "none"
    BY DEF StaleSense, ScreenSense
  <2>2. Waiting(c) => Waiting(c)'
    OBVIOUS
  <2> QED BY <1>1, <2>1, <2>2
<1>4. SlotSense'
  <2> SUFFICES ASSUME NEW s \in Slots, NEW p \in Parts, NEW c \in Screens,
                      slot'[s].age = "old", slot'[s].path = p, current' = c
               PROVE  \/ Waiting(p)'
                      \/ /\ s \in Unnamed
                         /\ Reloading' \/ registry'[c] = "none" \/ Waiting(c)'
    BY DEF SlotSense
  <2>1. \/ Waiting(p)
        \/ s \in Unnamed /\ (Reloading \/ registry[c] = "none" \/ Waiting(c))
    BY DEF StaleSense, SlotSense
  <2>2. (Waiting(c) => Waiting(c)') /\ (Waiting(p) => Waiting(p)')
    OBVIOUS
  <2> QED BY <1>1, <2>1, <2>2
<1> QED BY <1>2, <1>3, <1>4 DEF StaleSense

(* What a command under way waits for, it goes on waiting for.              *)
AboutTo == {"register", "store", "notify"}

LEMMA StillWaiting ==
    ASSUME NEW f, Waiting(f),
           Has(queue, PathItem(f)) => Has(queue', PathItem(f)),
           \A d \in Dispatchers : task[d].path = f /\ task[d].at \in AboutTo =>
               Has(queue', PathItem(f)) \/ (task'[d].path = f /\ task'[d].at \in AboutTo)
    PROVE  Waiting(f)'
BY DEF Waiting, Has, PathItem, AboutTo

LEMMA SameCommands ==
    ASSUME CommandSense, TaskTypeOK, TaskSense, UNCHANGED task, Shrinks,
           \A d \in Dispatchers : lvgl'.by = d => lvgl.by = d,
           lvgl'.by = "boot" => lvgl.by = "boot"
    PROVE  CommandSense'
<1> SUFFICES ASSUME NEW d \in Dispatchers
             PROVE  /\ task[d].at = "store" => task[d].held = "new"
                    /\ task[d].at = "unregister" => disk'[task[d].path] = "none"
                    /\ task[d].at = "display" /\ task[d].held = "old" =>
                          task[d].path \in Screens /\ disk'[task[d].path] = "none"
                    /\ lvgl'.by = d => task[d].at = "drain"
                    /\ lvgl'.by = "boot" => task[d].at = "idle"
  BY DEF CommandSense
<1> QED BY DEF CommandSense, Shrinks, TaskSense

LEMMA SameRegistry ==
    ASSUME RegistrySense, UNCHANGED <<task, registry>>, Shrinks
    PROVE  RegistrySense'
BY DEF RegistrySense, Storing, Shrinks

(* The queue's steps, once per kind.                                        *)
LEMMA UpdateSlice ==
    ASSUME TypeInv, UpdateInv, BeginSlice \/ EndSlice \/ EndDrain
    PROVE  UpdateInv'
<1> USE DEF TypeInv, TypeOK, UpdateInv
<1>1. /\ UNCHANGED <<disk, registry, treeVars, queue>>
      /\ lvgl.held = "none" /\ lvgl'.held = "none"
      /\ lvgl'.by \in {"timer", "nobody"}
  BY DEF BeginSlice, EndSlice, EndDrain, NoSlice, ReloadSense
<1>2. UNCHANGED <<current, screen, slot>> /\ Shrinks
  BY <1>1 DEF treeVars, Shrinks
<1>3. \A d \in Dispatchers : task'[d] # task[d] =>
          task[d].at = "drain" /\ task'[d] = IdleTask
  BY DEF BeginSlice, EndSlice, EndDrain, TaskTypeOK, CommandSense
<1>4. KindSense' /\ BuiltInSense'
  BY <1>1, <1>2 DEF KindSense, BuiltInSense, Matched
<1>5. CommandSense'
  <2> SUFFICES ASSUME NEW d \in Dispatchers
               PROVE  /\ task'[d].at = "store" => task'[d].held = "new"
                      /\ task'[d].at = "unregister" => disk'[task'[d].path] = "none"
                      /\ task'[d].at = "display" /\ task'[d].held = "old" =>
                            task'[d].path \in Screens /\ disk'[task'[d].path] = "none"
                      /\ lvgl'.by # d /\ lvgl'.by # "boot"
    BY DEF CommandSense
  <2>1. CASE task'[d] = task[d]
    BY <1>1, <2>1 DEF CommandSense
  <2>2. CASE task'[d] = IdleTask
    BY <1>1, <2>2 DEF IdleTask, Doing
  <2> QED BY <1>3, <2>1, <2>2
<1>6. RegistrySense'
  <2> SUFFICES ASSUME NEW p \in Screens, Storing(p) PROVE Storing(p)'
    BY <1>1 DEF RegistrySense
  <2> QED BY <1>3 DEF Storing
<1>7. \A f : Waiting(f) => Waiting(f)'
  <2> SUFFICES ASSUME NEW f, Waiting(f) PROVE Waiting(f)'
    OBVIOUS
  <2>1. \A d \in Dispatchers : task[d].at \in AboutTo => task'[d] = task[d]
    BY <1>3 DEF AboutTo
  <2> QED BY <1>1, <2>1, StillWaiting
<1>8. StaleSense'
  BY <1>1, <1>2, <1>7, Onward
<1> QED BY <1>4, <1>5, <1>6, <1>8

LEMMA TypedPaths ==
    ASSUME TreeTypeOK
    PROVE  /\ \A s \in Slots : slot[s].path \in Parts
           /\ current \in Screens \cup {BuiltIn} /\ current \notin Parts
BY DEF TreeTypeOK

(* Slots that an item repaints lose nothing that others wait for.           *)
LEMMA RepaintKeeps ==
    ASSUME KindSense, BuiltInSense, TreeTypeOK, NEW S \in SUBSET Slots, NEW p \in Parts,
           Repaints(S, p), S # {} => current # BuiltIn,
           current = BuiltIn => UNCHANGED slot,
           \A s \in S : p \in Images <=> s \in ImageSlots
    PROVE  /\ \A s \in Slots : slot'[s].path \in Images <=> s \in ImageSlots
           /\ BuiltInSense'
           /\ \A s \in Slots : slot'[s].age = "old" => slot'[s] = slot[s] /\ s \notin S
<1>1. \A s \in Slots : Configured[s] \in Images <=> s \in ImageSlots
  OBVIOUS
<1>2. \A s \in Slots : slot'[s].path \in Images <=> s \in ImageSlots
  BY <1>1 DEF Repaints, KindSense
<1>3. BuiltInSense'
  BY DEF Repaints, BuiltInSense
<1>4. \A s \in Slots : slot'[s].age = "old" => slot'[s] = slot[s] /\ s \notin S
  BY DEF Repaints
<1> QED BY <1>2, <1>3, <1>4

LEMMA UpdateRunChange ==
    ASSUME TypeInv, QueueInv, UpdateInv, RunChange
    PROVE  UpdateInv'
<1> USE DEF TypeInv, TypeOK, UpdateInv
<1> DEFINE it == Head(queue)
<1>1. /\ queue \in Seq(Item) /\ queue # <<>> /\ it \in Item
      /\ it.kind = "change" /\ it.slot \in Slots /\ it.path \in Parts
      /\ it.path \in Images <=> it.slot \in ImageSlots
  <2>1. /\ queue \in Seq(Item) /\ queue # <<>> /\ it \in Item /\ it.kind = "change"
    BY TakenType, TailType DEF RunChange, QueueTypeOK
  <2>2. 1 \in DOMAIN queue /\ it = queue[1]
    BY <2>1
  <2>3. it.path \in Images <=> it.slot \in ImageSlots
    BY <2>1, <2>2 DEF KindSense, Matched
  <2> QED BY <2>1, <2>3, ItemKinds
<1>2. /\ queue' = Tail(queue) /\ lvgl'.held = "none" /\ lvgl.held = "none"
      /\ lvgl'.by = lvgl.by /\ UNCHANGED <<registry, task>>
  BY TakenType DEF RunChange, NoReload, MayRun
<1> HIDE DEF it
<1>3. PICK S \in SUBSET Slots :
          /\ Repaints(S, it.path) /\ S \subseteq {it.slot}
          /\ S # {} => current # BuiltIn
          /\ current = BuiltIn => UNCHANGED slot
  <2>1. CASE it.slot \in ImageSlots /\ slot[it.slot].age # "out"
             /\ SetImages({it.slot}, it.path)
    <3>1. Repaints({it.slot}, it.path)
      BY <1>1, <2>1, ImagesRepaint
    <3>2. current # BuiltIn
      BY <1>1, <2>1 DEF BuiltInSense
    <3> QED BY <1>1, <3>1, <3>2
  <2>2. CASE ActiveRef(it.slot) /\ ChangeRefs({it.slot}, it.path)
    <3>1. Repaints({it.slot}, it.path)
      BY <1>1, <2>2, ChangeRepaints
    <3>2. current # BuiltIn
      BY <1>1, <2>2 DEF BuiltInSense, ActiveRef, Shown
    <3> QED BY <1>1, <3>1, <3>2
  <2>3. CASE UNCHANGED <<disk, treeVars>>
    <3>1. Repaints({}, it.path) /\ UNCHANGED slot
      BY <2>3 DEF Repaints, treeVars, Shrinks
    <3> QED BY <3>1
  <2> QED BY <2>1, <2>2, <2>3 DEF RunChange, it
<1>4. /\ \A s \in Slots : slot'[s].path \in Images <=> s \in ImageSlots
      /\ BuiltInSense'
      /\ \A s \in Slots : slot'[s].age = "old" => slot'[s] = slot[s] /\ s \notin S
  <2>1. \A s \in S : it.path \in Images <=> s \in ImageSlots
    BY <1>1, <1>3
  <2>2. it.path \in Parts /\ Repaints(S, it.path)
    BY <1>1, <1>3
  <2>3. (S # {} => current # BuiltIn) /\ (current = BuiltIn => UNCHANGED slot)
    BY <1>3
  <2>4. KindSense /\ BuiltInSense /\ TreeTypeOK
    OBVIOUS
  <2> QED BY <2>1, <2>2, <2>3, <2>4, RepaintKeeps
<1>5. KindSense'
  BY <1>1, <1>2, <1>4, MatchedTail DEF KindSense
<1>6. CommandSense' /\ RegistrySense'
  BY <1>2, <1>3, SameCommands, SameRegistry DEF Repaints
<1>7. StaleSense'
  <2>1. it # ReloadItem /\ \A r \in Files : it # PathItem(r)
    BY <1>1, ItemOfKind
  <2>2. /\ Has(queue, ReloadItem) => Has(queue', ReloadItem)
        /\ \A r \in Files : Has(queue, PathItem(r)) => Has(queue', PathItem(r))
    BY <1>1, <1>2, <2>1, HasTail DEF QueueInv, it
  <2>3. \A r \in Files : Waiting(r) => Waiting(r)'
    BY <1>2, <2>2, StillWaiting
  <2>4. \A f \in Files : disk[f] = "none" => disk'[f] = "none"
    BY <1>3 DEF Repaints, Shrinks
  <2> QED BY <1>2, <1>3, <1>4, <2>2, <2>3, <2>4, Onward DEF Repaints
<1> QED BY <1>4, <1>5, <1>6, <1>7

(* A refresh: what shows the file is repainted, or a reload is asked for, or *)
(* nothing shows it.                                                        *)
LEMMA RefreshOutcome ==
    ASSUME FilesTypeOK, TreeTypeOK, KindSense, BuiltInSense, UnnamedApart,
           NEW p \in Files, Refresh(p)
    PROVE  \/ \E S \in SUBSET Slots :
                 /\ p \in Parts /\ current # BuiltIn
                 /\ Repaints(S, p) /\ (NoReload \/ RequestReload)
                 /\ \A s \in S : p \in Images <=> s \in ImageSlots
                 /\ \A s \in Slots \ S : slot[s].age = "old" => slot[s].path # p
           \/ /\ UNCHANGED <<disk, treeVars>> /\ RequestReload
              /\ \A s \in Slots \ Unnamed : slot[s].age = "old" => slot[s].path # p
           \/ /\ UNCHANGED <<disk, treeVars>> /\ NoReload /\ p # current
              /\ \A s \in Slots : slot[s].age = "old" => slot[s].path # p
<1> DEFINE images == {s \in ImageSlots : slot[s].path = p /\ slot[s].age # "out"}
           refs == {s \in NamedSlots : ActiveRef(s) /\ slot[s].path = p}
<1>1. /\ images \in SUBSET Slots /\ refs \in SUBSET Slots
      /\ images # {} \/ refs # {} => p \in Parts /\ current # BuiltIn
      /\ images # {} => p \in Images
      /\ refs # {} => p \notin Images
  BY DEF TreeTypeOK, KindSense, BuiltInSense, ActiveRef, Shown
<1>2. \A s \in Slots : slot[s].age = "old" /\ slot[s].path = p =>
          IF s \in ImageSlots THEN s \in images ELSE ActiveRef(s) /\ p \notin Images
  BY DEF KindSense, ActiveRef, Shown
<1>3. \A s \in NamedSlots : slot[s].age = "old" /\ slot[s].path = p => s \in refs
  BY <1>2
<1>4. CASE images # {} /\ SetImages(images, p) /\ NoReload
  <2>1. Repaints(images, p)
    BY <1>1, <1>4, ImagesRepaint
  <2>2. \A s \in Slots \ images : slot[s].age = "old" => slot[s].path # p
    BY <1>1, <1>2, <1>4
  <2>3. \A s \in images : p \in Images <=> s \in ImageSlots
    BY <1>1, <1>4
  <2> HIDE DEF images
  <2> QED BY <1>1, <1>4, <2>1, <2>2, <2>3
<1>5. CASE images = {} /\ refs # {} /\ ChangeRefs(refs, p) /\ (NoReload \/ RequestReload)
  <2>1. Repaints(refs, p)
    BY <1>1, <1>5, ChangeRepaints
  <2>2. ASSUME NEW s \in Slots \ refs, slot[s].age = "old", slot[s].path = p
        PROVE  FALSE
    <3>1. PICK r \in refs : TRUE
      BY <1>5
    <3>2. s \in Unnamed /\ ActiveRef(s)
      BY <1>2, <1>3, <1>5, <2>2 DEF Unnamed
    <3> QED BY <2>2, <3>1, <3>2 DEF UnnamedApart
  <2>3. \A s \in refs : p \in Images <=> s \in ImageSlots
    BY <1>1
  <2> HIDE DEF refs
  <2> QED BY <1>1, <1>5, <2>1, <2>2, <2>3
<1>6. CASE /\ images = {} /\ refs = {} /\ UNCHANGED <<disk, treeVars>>
           /\ IF p = current \/ References(p) THEN RequestReload ELSE NoReload
  <2>1. \A s \in Slots \ Unnamed : slot[s].age = "old" => slot[s].path # p
    BY <1>2, <1>3, <1>6 DEF Unnamed
  <2>2. CASE RequestReload
    BY <1>6, <2>1, <2>2
  <2>3. CASE NoReload /\ p # current /\ ~References(p)
    <3>1. \A s \in Slots : slot[s].age = "old" => slot[s].path # p
      BY <1>2, <1>6, <2>3 DEF References
    <3> QED BY <1>6, <2>3, <3>1
  <2> QED BY <1>6, <2>2, <2>3
<1>7. \/ images # {} /\ SetImages(images, p) /\ NoReload
      \/ images = {} /\ refs # {} /\ ChangeRefs(refs, p) /\ (NoReload \/ RequestReload)
      \/ /\ images = {} /\ refs = {} /\ UNCHANGED <<disk, treeVars>>
         /\ IF p = current \/ References(p) THEN RequestReload ELSE NoReload
  BY DEF Refresh
<1> HIDE DEF images, refs
<1> QED BY <1>4, <1>5, <1>6, <1>7

LEMMA UpdateRunPath ==
    ASSUME TypeInv, QueueInv, UpdateInv, UnnamedApart, RunPath
    PROVE  UpdateInv'
<1> USE DEF TypeInv, TypeOK, UpdateInv
<1> DEFINE p == Head(queue).path
<1>1. /\ queue \in Seq(Item) /\ queue # <<>> /\ p \in Files /\ Head(queue) = PathItem(p)
      /\ Refresh(p) /\ lvgl'.held = "none" /\ lvgl.held = "none"
      /\ lvgl'.by = lvgl.by /\ UNCHANGED <<registry, task>>
  BY TakenType, TailType, ItemOfKind DEF RunPath, QueueTypeOK, MayRun
<1> HIDE DEF p
<1>2. RequestReload \/ NoReload
  BY <1>1, RefreshType DEF RunPath
<1>3. /\ Has(queue, ReloadItem) => Has(queue', ReloadItem)
      /\ RequestReload => Has(queue', ReloadItem)
      /\ \A f \in Files \ {p} : Waiting(f) => Waiting(f)'
  <2>1. Head(queue) # ReloadItem /\ \A f \in Files \ {p} : Head(queue) # PathItem(f)
    BY <1>1, DistinctItems
  <2>2. \A f \in Files \ {p} : Has(queue, PathItem(f)) => Has(queue', PathItem(f))
    BY <1>1, <1>2, <2>1, ReloadQueued DEF QueueInv
  <2>3. /\ pending' <=> Has(queue', ReloadItem)
        /\ pending <=> Has(queue, ReloadItem)
    BY <1>1, <1>2, <2>1, ReloadQueued DEF QueueInv
  <2>4. (RequestReload => pending') /\ (pending => pending')
    BY <1>2 DEF RequestReload, NoReload
  <2>5. \A f \in Files \ {p} : Waiting(f) => Waiting(f)'
    BY <1>1, <2>2, StillWaiting
  <2> QED BY <2>3, <2>4, <2>5
<1>4. Matched(queue')
  <2>1. Matched(Tail(queue)) /\ Tail(queue) \in Seq(Item)
    BY <1>1, MatchedTail, TailType DEF KindSense
  <2>2. ReloadItem.kind # "change" /\ ReloadItem \in Item
    BY Items DEF ReloadItem
  <2>3. Matched(Append(Tail(queue), ReloadItem))
    BY <2>1, <2>2, MatchedAppend
  <2> QED BY <1>2, <2>1, <2>3 DEF RequestReload, NoReload, Repost
<1>5. ASSUME NEW S \in SUBSET Slots, p \in Parts, current # BuiltIn, Repaints(S, p),
             \A s \in S : p \in Images <=> s \in ImageSlots,
             \A s \in Slots \ S : slot[s].age = "old" => slot[s].path # p
      PROVE  UpdateInv'
  <2>1. /\ \A s \in Slots : slot'[s].path \in Images <=> s \in ImageSlots
        /\ BuiltInSense'
        /\ \A s \in Slots : slot'[s].age = "old" => slot'[s] = slot[s] /\ s \notin S
    BY <1>5, RepaintKeeps
  <2>2. KindSense'
    BY <1>4, <2>1 DEF KindSense, Matched
  <2>3. CommandSense' /\ RegistrySense'
    BY <1>1, <1>5, SameCommands, SameRegistry DEF Repaints
  <2>4. \A f \in Files : disk[f] = "none" => disk'[f] = "none"
    BY <1>5 DEF Repaints, Shrinks
  <2>5. p # current /\ \A s \in Slots : slot'[s].age = "old" => slot'[s].path # p
    BY <1>5, <2>1, TypedPaths
  <2>6. StaleSense'
    BY <1>1, <1>3, <1>5, <2>1, <2>4, <2>5, Onward DEF Repaints
  <2> QED BY <2>1, <2>2, <2>3, <2>6
<1>6. CASE UNCHANGED <<disk, treeVars>>
  <2>1. UNCHANGED <<disk, current, screen, slot>> /\ Shrinks
    BY <1>6 DEF treeVars, Shrinks
  <2>2. KindSense' /\ BuiltInSense'
    BY <1>4, <2>1 DEF KindSense, BuiltInSense, Matched
  <2>3. CommandSense' /\ RegistrySense'
    BY <1>1, <2>1, SameCommands, SameRegistry
  <2>4. CASE NoReload /\ p # current
             /\ \A s \in Slots : slot[s].age = "old" => slot[s].path # p
    <3>1. StaleSense'
      BY <1>1, <1>3, <2>1, <2>4, Onward
    <3> QED BY <2>2, <2>3, <3>1
  <2>5. CASE RequestReload
             /\ \A s \in Slots \ Unnamed : slot[s].age = "old" => slot[s].path # p
    <3>1. Reloading'
      BY <1>3, <2>5 DEF Reloading, Has, ReloadItem
    <3>2. HeldSense' /\ ScreenSense'
      BY <1>1, <3>1 DEF HeldSense, ScreenSense
    <3>3. SlotSense'
      <4> SUFFICES ASSUME NEW s \in Slots, NEW f \in Parts, NEW c \in Screens,
                          slot'[s].age = "old", slot'[s].path = f, current' = c,
                          s \notin Unnamed
                   PROVE  Waiting(f)'
        BY <3>1 DEF SlotSense
      <4>1. Waiting(f) /\ f # p
        BY <2>1, <2>5 DEF StaleSense, SlotSense
      <4> QED BY <1>3, <4>1
    <3> QED BY <2>2, <2>3, <3>2, <3>3 DEF StaleSense
  <2>6. \/ NoReload /\ p # current
           /\ \A s \in Slots : slot[s].age = "old" => slot[s].path # p
        \/ /\ RequestReload
           /\ \A s \in Slots \ Unnamed : slot[s].age = "old" => slot[s].path # p
        \/ UpdateInv'
    BY <1>1, <1>5, RefreshOutcome
  <2> QED BY <2>4, <2>5, <2>6
<1> QED BY <1>1, <1>5, <1>6, RefreshOutcome

LEMMA UpdateRunReload ==
    ASSUME TypeInv, QueueInv, UpdateInv, RunReload
    PROVE  UpdateInv'
<1> USE DEF TypeInv, TypeOK, UpdateInv
<1> DEFINE copied == IF current = BuiltIn THEN "none" ELSE registry[current]
<1>1. /\ queue \in Seq(Item) /\ queue # <<>> /\ Head(queue) = ReloadItem
      /\ queue' = Tail(queue) /\ lvgl.held = "none" /\ lvgl'.held = copied
      /\ lvgl'.by = lvgl.by /\ UNCHANGED <<disk, registry, task, current, screen, slot>>
  <2>1. Taken \in [by : {"nobody", "timer", "touch", "boot"} \cup Dispatchers,
                   left : 0 .. PerSlice, held : Ages] /\ Taken.by = lvgl.by
    BY TakenType DEF RunReload
  <2>2. lvgl'.held = copied /\ lvgl'.by = lvgl.by
    BY <2>1 DEF RunReload
  <2> QED BY <2>2, TakenType, TailType, ItemOfKind DEF RunReload, QueueTypeOK, treeVars, MayRun
<1> HIDE DEF copied
<1>2. Shrinks
  BY <1>1 DEF Shrinks
<1>3. \A f \in Files : Waiting(f) => Waiting(f)'
  <2>1. \A f \in Files : Has(queue, PathItem(f)) => Has(queue', PathItem(f))
    BY <1>1, DistinctItems, HasTail DEF QueueInv
  <2> QED BY <1>1, <2>1, StillWaiting
<1>4. KindSense' /\ BuiltInSense'
  BY <1>1, MatchedTail DEF KindSense, BuiltInSense
<1>5. CommandSense' /\ RegistrySense'
  BY <1>1, <1>2, SameCommands, SameRegistry
<1>6. \A c \in Screens : current = c =>
          copied = "new" \/ disk[c] = "none" \/ Waiting(c)'
  <2> SUFFICES ASSUME NEW c \in Screens, current = c, registry[c] # "new", disk[c] # "none"
               PROVE  Waiting(c)'
    BY DEF copied
  <2>1. Waiting(c)
    BY DEF RegistrySense, Storing, Waiting
  <2> QED BY <1>3, <2>1
<1>7. HeldSense' /\ ScreenSense'
  <2>1. copied = "new" => Reloading'
    BY <1>1 DEF Reloading
  <2> QED BY <1>1, <1>6, <2>1 DEF HeldSense, ScreenSense
<1>8. SlotSense'
  <2> SUFFICES ASSUME NEW s \in Slots, NEW f \in Parts, NEW c \in Screens,
                      slot'[s].age = "old", slot'[s].path = f, current' = c
               PROVE  \/ Waiting(f)'
                      \/ /\ s \in Unnamed
                         /\ Reloading' \/ registry'[c] = "none" \/ Waiting(c)'
    BY DEF SlotSense
  <2>1. Waiting(f) \/ s \in Unnamed
    BY <1>1 DEF StaleSense, SlotSense
  <2>2. registry[c] = "none" \/ Reloading'
    BY <1>1 DEF copied, Reloading
  <2> QED BY <1>1, <1>3, <2>1, <2>2
<1> QED BY <1>4, <1>5, <1>7, <1>8 DEF StaleSense

LEMMA FreshTree ==
    ASSUME FilesTypeOK, NEW p \in Screens \cup {BuiltIn}, NEW a, Display(p, a),
           Matched(queue'), p = BuiltIn => a = "new"
    PROVE  KindSense' /\ BuiltInSense' /\ SlotSense' /\ Shrinks
<1>1. /\ current' = p /\ screen' = a /\ Shrinks
      /\ \A s \in Slots : slot'[s].path = Configured[s] /\ slot'[s].age # "old"
      /\ p = BuiltIn => \A s \in Slots : slot'[s].age = "out"
  BY DisplayFresh
<1>2. KindSense'
  BY <1>1 DEF KindSense, Matched
<1> QED BY <1>1, <1>2 DEF BuiltInSense, SlotSense

LEMMA UpdateFinishReload ==
    ASSUME TypeInv, UpdateInv, FinishReload
    PROVE  UpdateInv'
<1> USE DEF TypeInv, TypeOK, UpdateInv
<1>1. /\ current \in Screens /\ Display(current, lvgl.held)
      /\ lvgl'.held = "none" /\ lvgl'.by = lvgl.by /\ UNCHANGED <<registry, task, queue>>
  BY DEF FinishReload, QueueTypeOK, TreeTypeOK, ReloadSense
<1>2. KindSense' /\ BuiltInSense' /\ SlotSense' /\ Shrinks
  <2>1. Matched(queue')
    BY <1>1 DEF KindSense
  <2> QED BY <1>1, <2>1, FreshTree
<1>3. CommandSense' /\ RegistrySense'
  BY <1>1, <1>2, SameCommands, SameRegistry
<1>4. HeldSense'
  BY <1>1 DEF HeldSense
<1>5. ScreenSense'
  <2> SUFFICES ASSUME NEW c \in Screens, current' = c, screen' = "old"
               PROVE  Waiting(c)' \/ Reloading' \/ disk'[c] = "none"
    BY DEF ScreenSense
  <2>1. current = c /\ lvgl.held = "old"
    BY <1>1, DisplayFresh
  <2>2. Waiting(c) \/ Has(queue, ReloadItem) \/ disk[c] = "none"
    BY <2>1 DEF StaleSense, HeldSense
  <2>3. Waiting(c) => Waiting(c)'
    BY <1>1 DEF Waiting, PathItem
  <2>4. Has(queue, ReloadItem) => Reloading'
    BY <1>1 DEF Reloading, Has, ReloadItem
  <2> QED BY <1>2, <2>2, <2>3, <2>4 DEF Shrinks
<1> QED BY <1>2, <1>3, <1>4, <1>5 DEF StaleSense

(* The commands.                                                            *)
LEMMA UpdateCommit ==
    ASSUME OneDispatcher, TypeInv, UpdateInv,
           NEW d \in Dispatchers, NEW p \in Files, Commit(d, p)
    PROVE  UpdateInv'
<1> USE DEF TypeInv, TypeOK, UpdateInv
<1>1. /\ task[d].at = "idle" /\ lvgl.by # "boot"
      /\ UNCHANGED <<current, queue>> /\ lvgl'.by = lvgl.by
      /\ lvgl'.held \in {lvgl.held, Older(lvgl.held)}
      /\ p # current => lvgl'.held = lvgl.held
  BY DEF Commit, Free, QueueTypeOK
<1>2. \A e \in Dispatchers : e = d
  BY DEF OneDispatcher
<1>3. \A e \in Dispatchers :
          /\ task'[e] = Doing(IF p \in Screens THEN "register" ELSE "notify", p)
          /\ task'[e].path = p /\ task'[e].at \in {"register", "notify"}
          /\ p \in Screens => task'[e].at = "register"
          /\ lvgl.by # e
  BY <1>1, <1>2 DEF Commit, Doing, CommandSense
<1>4. \A s \in Slots :
          /\ slot'[s].path = slot[s].path
          /\ slot[s].path # p => slot'[s] = slot[s]
          /\ slot[s].age = "out" => slot'[s].age = "out"
  BY DEF Commit, TreeTypeOK, Older
<1>5. \A f \in Files \ {p} : disk'[f] = disk[f]
  BY DEF Commit, FilesTypeOK
<1>6. screen' = screen \/ (current = p /\ p \in Screens)
  BY DEF Commit, TreeTypeOK
<1>7. KindSense' /\ BuiltInSense'
  <2>1. KindSense'
    BY <1>1, <1>4 DEF KindSense
  <2>2. BuiltInSense'
    BY <1>1, <1>4, <1>6 DEF BuiltInSense
  <2> QED BY <2>1, <2>2
<1>8. CommandSense'
  BY <1>1, <1>3 DEF CommandSense
<1>9. RegistrySense'
  <2> SUFFICES ASSUME NEW q \in Screens
               PROVE  registry'[q] = "new" \/ disk'[q] = "none" \/ Storing(q)'
    BY DEF RegistrySense
  <2>1. CASE q = p
    BY <1>3, <2>1 DEF Storing
  <2>2. CASE q # p
    <3>1. registry'[q] = registry[q]
      BY <2>2 DEF Commit, FilesTypeOK
    <3>2. ~Storing(q)
      BY <1>1, <1>2 DEF Storing
    <3> QED BY <1>5, <2>2, <3>1, <3>2 DEF RegistrySense
  <2> QED BY <2>1, <2>2
<1>10. Waiting(p)' /\ \A f \in Files : Waiting(f) => Waiting(f)'
  <2>1. Waiting(p)'
    BY <1>3 DEF Waiting
  <2>2. \A e \in Dispatchers : task[e].at \notin AboutTo
    BY <1>1, <1>2 DEF AboutTo
  <2>3. \A f \in Files : Waiting(f) => Waiting(f)'
    BY <1>1, <2>2, StillWaiting
  <2> QED BY <2>1, <2>3
<1>11. HeldSense'
  <2> SUFFICES ASSUME NEW c \in Screens, current' = c, lvgl'.held = "old", c # p
               PROVE  Waiting(c)' \/ Has(queue', ReloadItem) \/ disk'[c] = "none"
    BY <1>10 DEF HeldSense, Has, ReloadItem
  <2>1. Waiting(c) \/ Has(queue, ReloadItem) \/ disk[c] = "none"
    BY <1>1 DEF StaleSense, HeldSense
  <2> QED BY <1>1, <1>5, <1>10, <2>1
<1>12. Reloading => Reloading'
  BY <1>1, OlderType DEF Reloading, QueueTypeOK
<1>13. ScreenSense'
  <2> SUFFICES ASSUME NEW c \in Screens, current' = c, screen' = "old", c # p
               PROVE  Waiting(c)' \/ Reloading' \/ disk'[c] = "none"
    BY <1>10 DEF ScreenSense
  <2>1. Waiting(c) \/ Reloading \/ disk[c] = "none"
    BY <1>1, <1>6 DEF StaleSense, ScreenSense
  <2> QED BY <1>5, <1>10, <1>12, <2>1
<1>14. SlotSense'
  <2> SUFFICES ASSUME NEW s \in Slots, NEW f \in Parts, NEW c \in Screens,
                      slot'[s].age = "old", slot'[s].path = f, current' = c, f # p
               PROVE  \/ Waiting(f)'
                      \/ /\ s \in Unnamed
                         /\ Reloading' \/ registry'[c] = "none" \/ Waiting(c)'
    BY <1>10 DEF SlotSense
  <2>1. \/ Waiting(f)
        \/ s \in Unnamed /\ (Reloading \/ registry[c] = "none" \/ Waiting(c))
    BY <1>1, <1>4 DEF StaleSense, SlotSense
  <2>2. registry[c] = "none" => registry'[c] = "none"
    BY DEF Commit, FilesTypeOK, Older
  <2> QED BY <1>10, <1>12, <2>1, <2>2
<1> QED BY <1>7, <1>8, <1>9, <1>11, <1>13, <1>14 DEF StaleSense

(* The steps after a command has begun leave the tree and the queue alone.  *)
LEMMA UpdateStep ==
    ASSUME OneDispatcher, TypeInv, UpdateInv, NEW d \in Dispatchers, Step(d)
    PROVE  UpdateInv'
<1> USE DEF TypeInv, TypeOK, UpdateInv
<1>1. \A e \in Dispatchers : e = d
  BY DEF OneDispatcher
<1>2. UNCHANGED <<current, screen, slot, queue, lvgl>>
  BY DEF Step, Register, Store, Unregister, PersistScreen, FinishLoad, treeVars,
     queueVars
<1>3. Shrinks
  <2>1. CASE Register(d)
    BY <2>1, RemoveShrinks DEF Register, FilesTypeOK
  <2>2. CASE UNCHANGED disk
    BY <2>2 DEF Shrinks
  <2> QED BY <2>1, <2>2 DEF Step, Store, Unregister, PersistScreen, FinishLoad
<1>4. KindSense' /\ BuiltInSense'
  BY <1>2 DEF KindSense, BuiltInSense
<1>5. task[d].at \in {"register", "store", "unregister", "persist", "save"}
  BY DEF Step, Register, Store, Unregister, PersistScreen, FinishLoad
<1>6. lvgl.by # d /\ lvgl.by # "boot"
  BY <1>5 DEF CommandSense
<1>7. \/ /\ task[d].at = "register" /\ disk[task[d].path] = "new"
         /\ task'[d].at = "store" /\ task'[d].path = task[d].path /\ task'[d].held = "new"
         /\ UNCHANGED registry
      \/ /\ task[d].at = "register" /\ disk'[task[d].path] = "none"
         /\ task'[d].at = "notify" /\ task'[d].path = task[d].path
         /\ UNCHANGED registry
      \/ /\ task[d].at = "store"
         /\ task'[d].at = "notify" /\ task'[d].path = task[d].path
         /\ registry' = [registry EXCEPT ![task[d].path] = "new"]
      \/ /\ task[d].at \in {"unregister", "persist", "save"}
         /\ task'[d].at \in {"idle", "save"}
         /\ \A q \in Screens : \/ registry'[q] = registry[q]
                               \/ registry'[q] = "none" /\ disk'[q] = "none"
  <2>1. CASE Register(d) /\ disk[task[d].path] = "new"
    BY <2>1 DEF Register, GoOn, TaskTypeOK
  <2>2. CASE Register(d) /\ disk[task[d].path] # "new"
    <3>1. task[d].path \in Files /\ disk[task[d].path] \in {"none", "bad"}
      BY <2>2 DEF Register, TaskSense, FilesTypeOK
    <3>2. disk'[task[d].path] = "none"
      BY <2>2, <3>1 DEF Register, RemoveFiles, Rejects
    <3> QED BY <2>2, <3>2 DEF Register, GoOn, TaskTypeOK
  <2>3. CASE Store(d)
    BY <2>3 DEF Store, GoOn, TaskTypeOK, CommandSense
  <2>4. CASE Unregister(d)
    <3>1. \A q \in Screens : q # task[d].path => registry'[q] = registry[q]
      BY <2>4 DEF Unregister, FilesTypeOK
    <3>2. task[d].path \in Screens => registry'[task[d].path] = "none"
      BY <2>4 DEF Unregister, FilesTypeOK
    <3>3. disk[task[d].path] = "none" /\ UNCHANGED disk
      BY <2>4 DEF Unregister, CommandSense
    <3>4. task[d].at = "unregister" /\ task'[d].at = "idle"
      BY <2>4 DEF Unregister, TaskTypeOK, IdleTask, Doing
    <3> QED BY <3>1, <3>2, <3>3, <3>4
  <2>5. CASE PersistScreen(d)
    BY <2>5 DEF PersistScreen, TaskTypeOK, GoOn
  <2>6. CASE FinishLoad(d)
    BY <2>6 DEF FinishLoad, TaskTypeOK, IdleTask, Doing
  <2> QED BY <2>1, <2>2, <2>3, <2>4, <2>5, <2>6 DEF Step
<1>8. CommandSense'
  <2>1. /\ task'[d].at = "store" => task'[d].held = "new"
        /\ task'[d].at \in {"store", "notify", "idle", "save"}
    BY <1>7
  <2> QED BY <1>1, <1>2, <1>6, <2>1 DEF CommandSense
<1>9. \A f \in Files : Waiting(f) => Waiting(f)'
  <2>1. task[d].at \in AboutTo => task'[d].at \in AboutTo /\ task'[d].path = task[d].path
    BY <1>7 DEF AboutTo
  <2> QED BY <1>1, <1>2, <2>1, StillWaiting
<1>10. RegistrySense'
  <2> SUFFICES ASSUME NEW q \in Screens
               PROVE  registry'[q] = "new" \/ disk'[q] = "none" \/ Storing(q)'
    BY DEF RegistrySense
  <2>1. registry[q] = "new" \/ disk[q] = "none" \/ Storing(q)
    BY DEF RegistrySense
  <2>2. disk[q] = "none" => disk'[q] = "none"
    BY <1>3 DEF Shrinks
  <2>3. registry'[q] = registry[q] \/ registry'[q] = "new" \/ disk'[q] = "none"
    BY <1>7 DEF FilesTypeOK
  <2>4. Storing(q) => registry'[q] = "new" \/ disk'[q] = "none" \/ Storing(q)'
    BY <1>1, <1>7 DEF Storing, FilesTypeOK
  <2> QED BY <2>1, <2>2, <2>3, <2>4
<1>11. \A c \in Screens : registry[c] = "none" => registry'[c] = "none" \/ Waiting(c)'
  BY <1>7 DEF FilesTypeOK, Waiting
<1>12. StaleSense'
  BY <1>2, <1>3, <1>9, <1>11, Onward DEF Shrinks
<1> QED BY <1>4, <1>8, <1>10, <1>12

LEMMA UpdateNotify ==
    ASSUME OneDispatcher, TypeInv, QueueInv, UpdateInv,
           NEW d \in Dispatchers, Notify(d)
    PROVE  UpdateInv'
<1> USE DEF TypeInv, TypeOK, UpdateInv
<1> DEFINE p == task[d].path
<1>1. /\ task[d].at = "notify" /\ p \in Files /\ PathItem(p) \in Item
      /\ queue \in Seq(Item) /\ lvgl.by = "nobody"
      /\ UNCHANGED <<disk, registry, current, screen, slot>>
  BY Items DEF Notify, TaskSense, treeVars, QueueTypeOK
<1> HIDE DEF p
<1>2. /\ queue' = queue \/ queue' = Append(queue, PathItem(p))
      /\ Has(queue', PathItem(p))
  <2>1. CASE p \in queued
    BY <1>1, <2>1 DEF Notify, QueueInv, p
  <2>2. CASE p \notin queued
    <3>1. queue' = Append(queue, PathItem(p))
      BY <1>1, <2>2 DEF Notify, Post, p
    <3> QED BY <1>1, <3>1, HasAppend
  <2> QED BY <2>1, <2>2
<1>3. /\ lvgl'.held = "none" /\ lvgl.held = "none"
      /\ lvgl'.by \in {"nobody", d}
      /\ task'[d].at = IF lvgl'.by = d THEN "drain" ELSE "idle"
  <2>1. lvgl' = lvgl \/ lvgl' = [NoSlice EXCEPT !.by = d]
    BY DEF Notify, Post
  <2>2. lvgl'.held = "none" /\ lvgl.held = "none" /\ lvgl'.by \in {"nobody", d}
    BY <1>1, <2>1 DEF NoSlice, ReloadSense
  <2>3. task'[d] = IF lvgl'.by = d THEN Doing("drain", NoScreen) ELSE IdleTask
    BY DEF Notify, TaskTypeOK
  <2> QED BY <2>2, <2>3 DEF Doing, IdleTask
<1>4. \A e \in Dispatchers : e = d
  BY DEF OneDispatcher
<1>5. KindSense' /\ BuiltInSense'
  <2>1. Matched(queue) /\ PathItem(p).kind # "change"
    BY DEF KindSense, PathItem
  <2>2. Matched(Append(queue, PathItem(p)))
    BY <1>1, <2>1, MatchedAppend
  <2>3. Matched(queue')
    BY <1>2, <2>1, <2>2
  <2> QED BY <1>1, <2>3 DEF KindSense, BuiltInSense, Matched
<1>6. CommandSense'
  BY <1>3, <1>4 DEF CommandSense
<1>7. RegistrySense'
  BY <1>1, <1>4 DEF RegistrySense, Storing
<1>8. /\ \A f \in Files : Has(queue, PathItem(f)) => Has(queue', PathItem(f))
      /\ Has(queue, ReloadItem) => Has(queue', ReloadItem)
  <2>1. \A x : Has(queue, x) => Has(Append(queue, PathItem(p)), x)
    BY <1>1, HasAppend
  <2> QED BY <1>2, <2>1
<1>9. \A f \in Files : Waiting(f) => Waiting(f)'
  <2>1. \A e \in Dispatchers, f \in Files : task[e].path = f => Has(queue', PathItem(f))
    BY <1>2, <1>4 DEF p
  <2> QED BY <1>8, <2>1, StillWaiting
<1>10. StaleSense'
  BY <1>1, <1>3, <1>8, <1>9, Onward
<1> QED BY <1>5, <1>6, <1>7, <1>10

LEMMA UpdateCommand ==
    ASSUME OneDispatcher, TypeInv, UpdateInv, NEW d \in Dispatchers,
           \/ \E p \in Files : Delete(d, p)
           \/ \E p \in Screens \cup {NoScreen} : LoadScreen(d, p)
           \/ \E s \in Overridden : SetProperty(d, s) \/ RemoveOverride(d, s)
           \/ SaveAgain(d)
    PROVE  UpdateInv'
<1> USE DEF TypeInv, TypeOK, UpdateInv
<1>1. /\ task[d].at = "idle" /\ lvgl.by # "boot"
      /\ UNCHANGED <<registry, current, screen, slot, queue, lvgl>>
  BY DEF Delete, LoadScreen, SetProperty, RemoveOverride, SaveAgain, Free, treeVars,
     queueVars
<1>2. \A e \in Dispatchers : e = d
  BY DEF OneDispatcher
<1>3. Shrinks
  <2>1. ASSUME NEW p \in Files, Delete(d, p) PROVE Shrinks
    BY <2>1, RemoveShrinks DEF Delete, FilesTypeOK
  <2>2. CASE UNCHANGED disk
    BY <2>2 DEF Shrinks
  <2> QED BY <2>1, <2>2 DEF LoadScreen, SetProperty, RemoveOverride, SaveAgain
<1>4. KindSense' /\ BuiltInSense'
  BY <1>1 DEF KindSense, BuiltInSense
<1>5. \/ UNCHANGED task
      \/ task'[d].at = "unregister" /\ disk'[task'[d].path] = "none"
      \/ /\ task'[d].at = "display"
         /\ task'[d].held = "old" =>
               task'[d].path \in Screens /\ disk'[task'[d].path] = "none"
  <2>1. ASSUME NEW p \in Files, Delete(d, p)
        PROVE  task'[d].at = "unregister" /\ disk'[task'[d].path] = "none"
    BY <2>1 DEF Delete, Doing, RemoveFiles, TaskTypeOK
  <2>2. ASSUME NEW p \in Screens \cup {NoScreen}, LoadScreen(d, p)
        PROVE  /\ task'[d].at = "display"
               /\ task'[d].held = "old" =>
                     task'[d].path \in Screens /\ disk'[task'[d].path] = "none"
    <3> DEFINE q == IF p # NoScreen THEN p
                    ELSE IF default # NoScreen THEN default ELSE BuiltIn
    <3>1. q \in Screens \cup {BuiltIn}
      BY DEF FilesTypeOK
    <3>2. /\ task'[d].at = "display" /\ task'[d].path = q
          /\ task'[d].held = IF q = BuiltIn THEN "new" ELSE registry[q]
          /\ UNCHANGED disk
      BY <2>2 DEF LoadScreen, TaskTypeOK
    <3> HIDE DEF q
    <3>3. ~Storing(q)
      BY <1>1, <1>2 DEF Storing
    <3> QED BY <3>1, <3>2, <3>3 DEF RegistrySense
  <2> QED BY <2>1, <2>2 DEF SetProperty, RemoveOverride, SaveAgain
<1>6. CommandSense'
  <2>1. task'[d].at \in {"idle", "unregister", "display"} /\ lvgl.by # d
    BY <1>1, <1>5 DEF CommandSense
  <2> QED BY <1>1, <1>2, <1>5, <2>1 DEF CommandSense
<1>7. RegistrySense'
  <2>1. \A q \in Screens : ~Storing(q)
    BY <1>1, <1>2 DEF Storing
  <2> QED BY <1>1, <1>3, <2>1 DEF RegistrySense, Shrinks
<1>8. \A f \in Files : Waiting(f) => Waiting(f)'
  <2>1. \A e \in Dispatchers : task[e].at \notin AboutTo
    BY <1>1, <1>2 DEF AboutTo
  <2> QED BY <1>1, <2>1, StillWaiting
<1>9. StaleSense'
  BY <1>1, <1>3, <1>8, Onward DEF Shrinks
<1> QED BY <1>4, <1>6, <1>7, <1>9

LEMMA UpdateShowScreen ==
    ASSUME OneDispatcher, TypeInv, UpdateInv, NEW d \in Dispatchers, ShowScreen(d)
    PROVE  UpdateInv'
<1> USE DEF TypeInv, TypeOK, UpdateInv
<1> DEFINE p == task[d].path
           a == task[d].held
<1>1. /\ task[d].at = "display" /\ lvgl.by = "nobody" /\ lvgl.held = "none"
      /\ p \in Screens \cup {BuiltIn} /\ Display(p, a)
      /\ a = "old" => p \in Screens /\ disk[p] = "none"
      /\ a \in Ages \ {"none"}
      /\ UNCHANGED <<registry, queue, lvgl>>
      /\ task'[d].at = "persist"
  BY DEF ShowScreen, TaskSense, TaskTypeOK, GoOn, CommandSense, ReloadSense, queueVars
<1> HIDE DEF p, a
<1>2. \A e \in Dispatchers : e = d
  BY DEF OneDispatcher
<1>3. KindSense' /\ BuiltInSense' /\ SlotSense' /\ Shrinks
  <2>1. Matched(queue') /\ (p = BuiltIn => a = "new")
    BY <1>1 DEF KindSense, Ages
  <2> QED BY <1>1, <2>1, FreshTree
<1>4. CommandSense'
  BY <1>1, <1>2 DEF CommandSense
<1>5. RegistrySense'
  BY <1>1, <1>2, <1>3 DEF RegistrySense, Storing, Shrinks
<1>6. HeldSense'
  BY <1>1 DEF HeldSense
<1>7. ScreenSense'
  BY <1>1, <1>3, DisplayFresh DEF ScreenSense, Shrinks
<1> QED BY <1>3, <1>4, <1>5, <1>6, <1>7 DEF StaleSense

LEMMA UpdateChangeSlot ==
    ASSUME TypeInv, UpdateInv, NEW s \in Slots, NEW p \in Parts,
           p \in Images <=> s \in ImageSlots, ChangeSlot(s, p)
    PROVE  UpdateInv'
<1> USE DEF TypeInv, TypeOK, UpdateInv
<1>1. /\ queue \in Seq(Item) /\ ChangeItem(s, p) \in Item
      /\ queue' = Append(queue, ChangeItem(s, p)) /\ lvgl.by = "nobody"
      /\ UNCHANGED <<disk, registry, task, current, screen, slot>>
  BY Items DEF ChangeSlot, Post, treeVars, QueueTypeOK
<1>2. lvgl.held = "none" /\ lvgl'.held = "none" /\ lvgl'.by \in {"nobody", "touch"}
  BY <1>1 DEF ChangeSlot, Post, NoSlice, ReloadSense
<1>3. KindSense' /\ BuiltInSense'
  <2>1. Matched(Append(queue, ChangeItem(s, p)))
    BY <1>1, MatchedAppend DEF KindSense, ChangeItem
  <2> QED BY <1>1, <2>1 DEF KindSense, BuiltInSense, Matched
<1>4. Shrinks
  BY <1>1 DEF Shrinks
<1>5. CommandSense' /\ RegistrySense'
  BY <1>1, <1>2, <1>4, SameCommands, SameRegistry
<1>6. \A x : Has(queue, x) => Has(queue', x)
  BY <1>1, HasAppend
<1>7. \A f \in Files : Waiting(f) => Waiting(f)'
  BY <1>1, <1>6, StillWaiting
<1>8. StaleSense'
  BY <1>1, <1>2, <1>6, <1>7, Onward
<1> QED BY <1>3, <1>5, <1>8

(* A boot starts from what the disk has, and with nothing to do.            *)
LEMMA UpdateBoot ==
    ASSUME TypeInv, UpdateInv, Reboot \/ ShowFirst
    PROVE  UpdateInv'
<1> USE DEF TypeInv, TypeOK, UpdateInv
<1>1. CASE Reboot
  <2>1. /\ current' = BuiltIn /\ screen' = "new" /\ queue' = <<>>
        /\ lvgl'.held = "none" /\ lvgl'.by = "boot"
        /\ \A s \in Slots : slot'[s] = Out(s)
        /\ \A d \in Dispatchers : task'[d].at = "idle"
    BY <1>1 DEF Reboot, NoSlice, IdleTask, Doing
  <2>2. KindSense' /\ BuiltInSense'
    <3>1. \A s \in Slots : slot'[s].path = Configured[s] /\ slot'[s].age = "out"
      <4>1. \A s \in Slots : Out(s).path = Configured[s] /\ Out(s).age = "out"
        BY DEF Out
      <4> QED BY <2>1, <4>1
    <3>2. Matched(queue')
      BY <2>1 DEF Matched
    <3> QED BY <2>1, <3>1, <3>2 DEF KindSense, BuiltInSense, Matched
  <2>3. CommandSense'
    BY <2>1 DEF CommandSense
  <2>4. RegistrySense'
    <3> SUFFICES ASSUME NEW p \in Screens
                 PROVE  registry'[p] = "new" \/ disk'[p] = "none"
      BY DEF RegistrySense
    <3>1. registry'[p] = disk'[p] /\ disk'[p] \in {"none", "new"}
      BY <1>1 DEF Reboot, FilesTypeOK
    <3> QED BY <3>1
  <2>5. StaleSense'
    BY <2>1 DEF StaleSense, HeldSense, ScreenSense, SlotSense
  <2> QED BY <2>2, <2>3, <2>4, <2>5
<1>2. CASE ShowFirst
  <2> DEFINE known == preferred # NoScreen /\ registry[preferred] # "none"
             p == IF known THEN preferred
                  ELSE IF default # NoScreen THEN default ELSE BuiltIn
  <2>1. /\ p \in Screens \cup {BuiltIn} /\ Display(p, "new")
        /\ UNCHANGED <<registry, task, queue>>
        /\ lvgl'.by = "nobody" /\ lvgl'.held = "none"
    BY <1>2 DEF ShowFirst, FilesTypeOK, NoSlice
  <2> HIDE DEF p
  <2>2. KindSense' /\ BuiltInSense' /\ SlotSense' /\ Shrinks
    <3>1. Matched(queue')
      BY <2>1 DEF KindSense
    <3> QED BY <2>1, <3>1, FreshTree
  <2>3. CommandSense' /\ RegistrySense'
    BY <2>1, <2>2, SameCommands, SameRegistry
  <2>4. screen' # "old"
    BY <2>1, DisplayFresh
  <2>5. HeldSense' /\ ScreenSense'
    BY <2>1, <2>4 DEF HeldSense, ScreenSense
  <2> QED BY <2>2, <2>3, <2>5 DEF StaleSense
<1> QED BY <1>1, <1>2

LEMMA UpdateInit == Init => UpdateInv
<1> SUFFICES ASSUME Init PROVE UpdateInv
  OBVIOUS
<1>1. KindSense /\ BuiltInSense
  BY DEF Init, KindSense, BuiltInSense, Out, Matched
<1>2. CommandSense /\ RegistrySense
  BY DEF Init, CommandSense, RegistrySense, IdleTask, Doing, NoSlice
<1>3. StaleSense
  BY DEF Init, StaleSense, HeldSense, ScreenSense, SlotSense, Out, NoSlice
<1> QED BY <1>1, <1>2, <1>3 DEF UpdateInv

LEMMA UpdateNext ==
    ASSUME OneDispatcher, TypeInv, QueueInv, UpdateInv, UnnamedApart, [Next]_vars
    PROVE  UpdateInv'
<1>1. CASE BeginSlice \/ RunQueue
  BY <1>1, UpdateSlice, UpdateRunPath, UpdateRunChange, UpdateRunReload,
     UpdateFinishReload DEF RunQueue
<1>2. ASSUME NEW d \in Dispatchers, Command(d) \/ Step(d) \/ UnderLock(d)
      PROVE  UpdateInv'
  BY <1>2, UpdateCommit, UpdateCommand, UpdateStep, UpdateNotify, UpdateShowScreen
     DEF Command, UnderLock
<1>3. ASSUME NEW s \in NamedSlots, NEW p \in Widgets, ChangeSlot(s, p)
      PROVE  UpdateInv'
  BY <1>3, UpdateChangeSlot
<1>4. ASSUME NEW s \in ImageSlots, NEW p \in Images, ChangeSlot(s, p)
      PROVE  UpdateInv'
  BY <1>4, UpdateChangeSlot
<1>5. CASE Reboot \/ ShowFirst
  BY <1>5, UpdateBoot
<1>6. CASE UNCHANGED vars
  <2>1. UNCHANGED <<disk, registry, current, screen, slot, queue, lvgl, task>> /\ Shrinks
    BY <1>6 DEF vars, treeVars, queueVars, Shrinks
  <2>2. KindSense' /\ BuiltInSense'
    BY <2>1 DEF UpdateInv, KindSense, BuiltInSense
  <2>3. CommandSense' /\ RegistrySense'
    BY <2>1, SameCommands, SameRegistry DEF UpdateInv, TypeInv, TypeOK
  <2>4. \A f \in Files : Waiting(f) => Waiting(f)'
    BY <2>1, StillWaiting
  <2>5. StaleSense'
    BY <2>1, <2>4, Onward DEF UpdateInv, TypeInv, TypeOK
  <2> QED BY <2>2, <2>3, <2>5 DEF UpdateInv
<1> QED BY <1>1, <1>2, <1>3, <1>4, <1>5, <1>6 DEF Next

(* No update is lost, whatever one dispatcher is sent, however slowly the   *)
(* queue runs and wherever the power fails: as long as no WidgetRef without *)
(* an id shows the file of one that has an id, what the display shows of a  *)
(* replaced file is refreshed by something that is under way.               *)
THEOREM UpdatesArrive ==
    ASSUME OneDispatcher
    PROVE  Spec /\ []UnnamedApart => []NoLostUpdate
<1>1. Init => TypeInv /\ QueueInv /\ UpdateInv
  BY TypeInit, UpdateInit DEF Init, QueueInv, Has, Once
<1>2. TypeInv /\ [Next]_vars => TypeInv'
  BY TypeStep
<1>3. TypeInv /\ QueueInv /\ [Next]_vars => QueueInv'
  BY QueueStep
<1>4. TypeInv /\ QueueInv /\ UpdateInv /\ UnnamedApart /\ [Next]_vars => UpdateInv'
  BY UpdateNext
<1>5. TypeInv /\ UpdateInv => NoLostUpdate
  <2> SUFFICES ASSUME TypeInv, UpdateInv PROVE NoLostUpdate
    OBVIOUS
  <2> USE DEF TypeInv, TypeOK, UpdateInv
  <2>1. \A s \in Slots : slot[s].path \in Parts
    BY TypedPaths
  <2>2. current \in Screens \/ (screen = "new" /\ \A s \in Slots : slot[s].age = "out")
    BY TypedPaths DEF BuiltInSense
  <2>3. screen = "old" => Waiting(current) \/ Reloading \/ disk[current] = "none"
    BY <2>2 DEF StaleSense, ScreenSense
  <2>4. ASSUME NEW s \in Slots, slot[s].age = "old"
        PROVE  \/ Waiting(slot[s].path) \/ Reloading
               \/ /\ s \notin NamedSlots \cup ImageSlots
                  /\ registry[current] = "none" \/ Waiting(current)
    BY <2>1, <2>2, <2>4 DEF StaleSense, SlotSense, Unnamed
  <2> QED BY <2>3, <2>4 DEF NoLostUpdate
<1> QED BY <1>1, <1>2, <1>3, <1>4, <1>5, PTL DEF Spec

-----------------------------------------------------------------------------
(* The screen that comes up again.  A command remembers what it was asked   *)
(* for until the preference is saved, and a boot overtakes no command.      *)
PersistSense ==
    /\ \A d \in Dispatchers :
          /\ task[d].at = "display" => task[d].asked \in {task[d].path, NoScreen}
          /\ task[d].at \in {"persist", "save"} => task[d].asked \in {current, NoScreen}
          /\ lvgl.by = d => task[d].at = "drain"
          /\ lvgl.by = "boot" => task[d].at = "idle"
    /\ unsaved \/ persisted = preferred
    /\ ShownIsPersisted

(* A save leaves flash as RAM is, or is known to have failed.               *)
LEMMA SaveAgrees ==
    ASSUME unsaved \/ persisted = preferred, NEW p,
           (preferred' = p /\ Save(p)) \/ SetCurrent(p)
    PROVE  preferred' = p /\ (unsaved' \/ persisted' = preferred')
BY DEF Save, SetCurrent

LEMMA PersistKeeps ==
    ASSUME PersistSense, UNCHANGED <<current, task>>,
           preferred' \in {preferred, current}, unsaved' \/ persisted' = preferred',
           \A d \in Dispatchers : lvgl'.by = d => lvgl.by = d,
           lvgl'.by = "boot" => lvgl.by = "boot", lvgl.by = "boot" => lvgl'.by = "boot"
    PROVE  PersistSense'
BY DEF PersistSense, ShownIsPersisted

(* A dispatcher's step that saves nothing and displays nothing.             *)
LEMMA PersistTask ==
    ASSUME OneDispatcher, PersistSense, NEW d \in Dispatchers,
           UNCHANGED <<current, prefVars>>, lvgl.by # "boot",
           task[d].at \notin {"persist", "save"}, task'[d].at \notin {"persist", "save"},
           task'[d].at = "display" => task'[d].asked \in {task'[d].path, NoScreen},
           lvgl'.by \in {lvgl.by, d}, lvgl'.by = d => task'[d].at = "drain"
    PROVE  PersistSense'
<1>1. \A e \in Dispatchers : e = d
  BY DEF OneDispatcher
<1>2. d # "boot"
  OBVIOUS
<1>3. preferred \in {current, NoScreen}
  BY <1>1 DEF PersistSense, ShownIsPersisted
<1> QED BY <1>1, <1>2, <1>3 DEF PersistSense, ShownIsPersisted

LEMMA PersistStep ==
    ASSUME OneDispatcher, TypeInv, PersistSense, [Next]_vars
    PROVE  PersistSense'
<1> USE DEF TypeInv, TypeOK
<1>1. CASE BeginSlice \/ RunQueue
  <2>1. CASE BeginSlice \/ RunPath \/ RunChange \/ RunReload \/ FinishReload \/ EndSlice
    <3>1. UNCHANGED <<current, task>>
      <4>1. ASSUME RunPath PROVE current' = current
        <5>1. Head(queue).path \in Files
          BY <4>1, TakenType, TailType, ItemKinds DEF RunPath, QueueTypeOK
        <5> QED BY <4>1, <5>1, TakenType, RefreshType DEF RunPath
      <4>2. ASSUME RunChange PROVE current' = current
        BY <4>2 DEF RunChange, SetImages, ChangeRefs, treeVars
      <4>3. ASSUME FinishReload PROVE current' = current
        BY <4>3 DEF FinishReload, Display
      <4> QED BY <2>1, <4>1, <4>2, <4>3 DEF BeginSlice, RunPath, RunChange, RunReload,
                 FinishReload, EndSlice, treeVars
    <3>2. /\ preferred' \in {preferred, current}
          /\ unsaved' \/ persisted' = preferred'
      <4>1. unsaved \/ persisted = preferred
        BY DEF PersistSense
      <4>2. CASE FinishReload
        BY <4>1, <4>2, SaveAgrees DEF FinishReload
      <4>3. CASE UNCHANGED prefVars
        BY <4>1, <4>3
      <4> QED BY <2>1, <4>2, <4>3 DEF BeginSlice, RunPath, RunChange, RunReload, EndSlice
    <3>3. /\ lvgl'.by = lvgl.by \/ lvgl'.by \in {"timer", "nobody"}
          /\ lvgl.by = "boot" => lvgl'.by = "boot"
      <4>1. ASSUME RunPath \/ RunChange \/ RunReload PROVE lvgl'.by = lvgl.by
        <5>1. Taken.by = lvgl.by /\ Taken = [lvgl EXCEPT !.left = Taken.left]
          BY <4>1, TakenType DEF RunPath, RunChange, RunReload, QueueTypeOK, Taken
        <5>2. [Taken EXCEPT !.held = lvgl'.held].by = Taken.by
          BY <4>1, TakenType DEF RunPath, RunChange, RunReload
        <5> QED BY <4>1, <5>1, <5>2, TakenType DEF RunPath, RunChange, RunReload
      <4> QED BY <2>1, <4>1 DEF BeginSlice, FinishReload, EndSlice, NoSlice, QueueTypeOK
    <3> QED BY <3>1, <3>2, <3>3, PersistKeeps
  <2>2. CASE EndDrain
    <3>1. /\ UNCHANGED <<current, prefVars>>
          /\ lvgl'.by = "nobody" /\ lvgl.by # "boot"
      BY <2>2 DEF EndDrain, treeVars, NoSlice
    <3>2. \A d \in Dispatchers :
              task'[d] = IF d = lvgl.by THEN IdleTask ELSE task[d]
      BY <2>2 DEF EndDrain
    <3>3. \A d \in Dispatchers : d = lvgl.by => task[d].at = "drain"
      BY DEF PersistSense
    <3> QED BY <3>1, <3>2, <3>3 DEF PersistSense, ShownIsPersisted, IdleTask, Doing
  <2> QED BY <1>1, <2>1, <2>2 DEF RunQueue
<1>2. ASSUME NEW d \in Dispatchers, Command(d) \/ Step(d) \/ UnderLock(d)
      PROVE  PersistSense'
  <2>1. ASSUME NEW p \in Files, Commit(d, p)
        PROVE  PersistSense'
    <3>1. /\ UNCHANGED <<current, prefVars>> /\ lvgl'.by = lvgl.by
          /\ task[d].at = "idle" /\ lvgl.by # "boot" /\ lvgl.by # d
      BY <2>1 DEF Commit, Free, QueueTypeOK, PersistSense
    <3>2. task'[d].at \in {"register", "notify"}
      BY <2>1 DEF Commit, Doing
    <3> QED BY <3>1, <3>2, PersistTask
  <2>2. ASSUME NEW p \in Files, Delete(d, p)
        PROVE  PersistSense'
    <3>1. /\ UNCHANGED <<current, prefVars>> /\ lvgl'.by = lvgl.by
          /\ task[d].at = "idle" /\ lvgl.by # "boot" /\ lvgl.by # d
          /\ task'[d].at = "unregister"
      BY <2>2 DEF Delete, Free, treeVars, queueVars, PersistSense, TaskTypeOK, Doing
    <3> QED BY <3>1, PersistTask
  <2>3. ASSUME NEW p \in Screens \cup {NoScreen}, LoadScreen(d, p)
        PROVE  PersistSense'
    <3>1. /\ UNCHANGED <<current, prefVars>> /\ lvgl'.by = lvgl.by
          /\ task[d].at = "idle" /\ lvgl.by # "boot" /\ lvgl.by # d
      BY <2>3 DEF LoadScreen, Free, treeVars, queueVars, PersistSense
    <3>2. task'[d].at = "display" /\ task'[d].asked \in {task'[d].path, NoScreen}
      BY <2>3 DEF LoadScreen, TaskTypeOK
    <3> QED BY <3>1, <3>2, PersistTask
  <2>4. ASSUME NEW s \in Overridden, SetProperty(d, s) \/ RemoveOverride(d, s)
        PROVE  PersistSense'
    BY <2>4, PersistKeeps DEF SetProperty, RemoveOverride, treeVars, queueVars,
       PersistSense
  <2>5. CASE Register(d) \/ Store(d) \/ Unregister(d)
    <3>1. /\ UNCHANGED <<current, prefVars>> /\ lvgl'.by = lvgl.by
          /\ task[d].at \in {"register", "store", "unregister"}
          /\ task'[d].at \in {"store", "notify", "idle"}
      BY <2>5 DEF Register, Store, Unregister, treeVars, queueVars, TaskTypeOK, GoOn,
         IdleTask, Doing
    <3>2. lvgl.by # "boot" /\ lvgl.by # d
      BY <3>1 DEF PersistSense
    <3> QED BY <3>1, <3>2, PersistTask
  <2>6. CASE PersistScreen(d)
    <3>1. /\ UNCHANGED <<current, lvgl>>
          /\ task[d].at = "persist" /\ task'[d].at = "save"
          /\ task'[d].asked = task[d].asked
      BY <2>6 DEF PersistScreen, treeVars, queueVars, TaskTypeOK, GoOn
    <3>2. unsaved' \/ persisted' = preferred'
      <4>1. unsaved \/ persisted = preferred
        BY DEF PersistSense
      <4>2. UNCHANGED prefVars \/ SetCurrent(current)
        BY <2>6 DEF PersistScreen
      <4> QED BY <4>1, <4>2, SaveAgrees
    <3>3. \A e \in Dispatchers : e = d
      BY DEF OneDispatcher
    <3> QED BY <3>1, <3>2, <3>3 DEF PersistSense, ShownIsPersisted
  <2>9. CASE FinishLoad(d)
    <3>1. /\ UNCHANGED <<current, lvgl>>
          /\ task[d].at = "save" /\ task'[d].at = "idle"
      BY <2>9 DEF FinishLoad, treeVars, queueVars, TaskTypeOK, IdleTask, Doing
    <3>2. /\ preferred' = task[d].asked
          /\ unsaved' \/ persisted' = preferred'
      BY <2>9, SaveAgrees DEF FinishLoad, PersistSense
    <3>3. /\ preferred' \in {current, NoScreen}
          /\ lvgl.by # "boot" /\ lvgl.by # d
          /\ \A e \in Dispatchers : e = d
      BY <3>1, <3>2 DEF PersistSense, OneDispatcher
    <3> QED BY <3>1, <3>2, <3>3 DEF PersistSense, ShownIsPersisted
  <2>10. CASE SaveAgain(d)
    <3>1. UNCHANGED <<current, task, lvgl>> /\ preferred' = preferred
      BY <2>10 DEF SaveAgain, treeVars, queueVars
    <3>2. unsaved' \/ persisted' = preferred'
      BY <2>10, <3>1 DEF SaveAgain, Save
    <3> QED BY <3>1, <3>2, PersistKeeps
  <2>7. CASE Notify(d)
    <3>1. /\ UNCHANGED <<current, prefVars>>
          /\ task[d].at = "notify" /\ lvgl.by = "nobody"
      BY <2>7 DEF Notify, treeVars
    <3>2. lvgl' = lvgl \/ lvgl' = [NoSlice EXCEPT !.by = d]
      BY <2>7 DEF Notify, Post
    <3>3. lvgl'.by \in {lvgl.by, d}
      BY <3>2 DEF NoSlice
    <3>4. task'[d].at = IF lvgl'.by = d THEN "drain" ELSE "idle"
      <4>1. task'[d] = IF lvgl'.by = d THEN Doing("drain", NoScreen) ELSE IdleTask
        BY <2>7 DEF Notify, TaskTypeOK
      <4> QED BY <4>1 DEF Doing, IdleTask
    <3> QED BY <3>1, <3>3, <3>4, PersistTask
  <2>8. CASE ShowScreen(d)
    <3>1. /\ task[d].at = "display" /\ lvgl.by = "nobody" /\ UNCHANGED lvgl
          /\ current' = task[d].path
          /\ task'[d].at = "persist" /\ task'[d].asked = task[d].asked
      BY <2>8 DEF ShowScreen, Display, queueVars, TaskTypeOK, GoOn
    <3>2. task[d].asked \in {current', NoScreen} /\ \A e \in Dispatchers : e = d
      BY <3>1 DEF PersistSense, OneDispatcher
    <3>3. UNCHANGED prefVars
      BY <2>8 DEF ShowScreen
    <3> QED BY <3>1, <3>2, <3>3 DEF PersistSense, ShownIsPersisted
  <2> QED BY <1>2, <2>1, <2>2, <2>3, <2>4, <2>5, <2>6, <2>7, <2>8, <2>9, <2>10
          DEF Command, Step, UnderLock
<1>3. ASSUME NEW s, NEW p, ChangeSlot(s, p)
      PROVE  PersistSense'
  <2>1. UNCHANGED <<current, task, prefVars>> /\ lvgl.by = "nobody"
    BY <1>3 DEF ChangeSlot, treeVars
  <2>2. lvgl'.by \in {"nobody", "touch"}
    BY <1>3, <2>1 DEF ChangeSlot, Post, NoSlice
  <2> QED BY <2>1, <2>2, PersistKeeps DEF PersistSense
<1>4. CASE Reboot
  BY <1>4 DEF Reboot, PersistSense, ShownIsPersisted, NoSlice, IdleTask, Doing
<1>5. CASE ShowFirst
  <2> DEFINE known == preferred # NoScreen /\ registry[preferred] # "none"
             p == IF known THEN preferred
                  ELSE IF default # NoScreen THEN default ELSE BuiltIn
  <2>1. /\ lvgl.by = "boot" /\ lvgl'.by = "nobody" /\ UNCHANGED task
        /\ current' = p /\ BootPref(known, p)
    BY <1>5 DEF ShowFirst, Display, NoSlice
  <2>2. \A d \in Dispatchers : task[d].at = "idle"
    BY <2>1 DEF PersistSense
  <2>3. preferred' \in {p, NoScreen} /\ (unsaved' \/ persisted' = preferred')
    <3>1. unsaved \/ persisted = preferred
      BY DEF PersistSense
    <3>2. known => p = preferred
      OBVIOUS
    <3> HIDE DEF known, p
    <3> QED BY <2>1, <3>1, <3>2, SaveAgrees DEF BootPref
  <2> HIDE DEF known, p
  <2> QED BY <2>1, <2>2, <2>3 DEF PersistSense, ShownIsPersisted
<1>6. CASE UNCHANGED vars
  BY <1>6, PersistKeeps DEF vars, treeVars, queueVars, PersistSense
<1> QED BY <1>1, <1>2, <1>3, <1>4, <1>5, <1>6 DEF Next

(* Wherever the power fails, with one dispatcher, what comes up is the      *)
(* screen that was showing, or the default one if the host asked for it,    *)
(* unless the last save failed: a reload that was deferred saves no screen  *)
(* but the one it displays, and a save that is skipped would change nothing.*)
THEOREM SameScreenAfterBoot ==
    ASSUME OneDispatcher
    PROVE  Spec => []ShownIsPersisted
<1>1. Init => TypeInv /\ PersistSense
  <2>1. Init => PersistSense
    BY DEF Init, PersistSense, ShownIsPersisted, IdleTask, Doing, NoSlice
  <2> QED BY <2>1, TypeInit
<1>2. TypeInv /\ [Next]_vars => TypeInv'
  BY TypeStep
<1>3. TypeInv /\ PersistSense /\ [Next]_vars => PersistSense'
  BY PersistStep
<1>4. PersistSense => ShownIsPersisted
  BY DEF PersistSense
<1> QED BY <1>1, <1>2, <1>3, <1>4, PTL DEF Spec
=============================================================================
