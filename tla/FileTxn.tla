------------------------------- MODULE FileTxn -------------------------------
(***************************************************************************)
(* Uploading and deleting files over the host API.                         *)
(*                                                                         *)
(*   client --inbox--> dispatcher task of the link --replies--> client     *)
(*                                      |  fs_open_write / fs_append_write *)
(*                                      v  fs_close_write                  *)
(*                            registry: the one write in flight            *)
(*                                      |                                  *)
(*   a task that saves preferences ---> FileStore (FlashFs, RamFs)         *)
(*                                                                         *)
(* A client is one Python caller of file_save or file_delete, a thread of  *)
(* the program that has the link open.  A reply carries no name of its     *)
(* request: whoever waits next on the link takes the next reply.  Every    *)
(* link has a dispatcher task of its own; they share the registry,         *)
(* s_active_write_path and the stores without a lock.                      *)
(* A dispatcher step is the code between two calls that may block (on      *)
(* littlefs or on the LVGL lock), so other tasks run between the steps.    *)
(***************************************************************************)
EXTENDS FileStore, FiniteSets

CONSTANTS
    Clients,      \* callers of file_save / file_delete
    Links,        \* vendor USB, CDC-ACM, UART
    LinkOf,       \* the link each client talks over
    Savers,       \* tasks that call Prefs::save
    PrefsPath,    \* "F:prefs/prefs.pb"
    HostPaths,    \* the paths the clients use
    ScreenPaths,  \* those of host/s/*.pb
    NChunks,      \* chunks of an upload
    SlowDevice,   \* may the device take longer than a program waits: the 2 s
                  \* of an RPC, the 40 ms of the flush when it opens the link?
    MaxSaves,     \* bound: uploads begun
    MaxDeletes,   \* bound: deletions begun
    MaxPrefs,     \* bound: preference changes
    MaxReboots    \* bound: power cycles

ASSUME FileTxnAssumption ==
    /\ LinkOf \in [Clients -> Links]
    /\ PrefsPath \in Paths \ RamPaths
    /\ HostPaths \subseteq Paths \ {PrefsPath}
    /\ ScreenPaths \subseteq HostPaths
    /\ NChunks \in Nat
    /\ SlowDevice \in BOOLEAN
    /\ {MaxSaves, MaxDeletes, MaxPrefs, MaxReboots} \subseteq Nat

VARIABLES
    reg,        \* g_active_write_fs and g_active_write_handle
    apiPath,    \* s_active_write_path
    task,       \* what each dispatcher task is doing
    inbox,      \* commands received on each link and not yet dispatched
    replies,    \* responses on each link that no client has read
    link,       \* each link's connection, as the dispatcher has noticed it
    session,    \* does a program have the link open?
    client,     \* each client's place in its sequence of RPCs
    saver,      \* each preference-saving task
    target,     \* target[s] is the path of upload s
    deletes,    \* deletes[n] is the path of deletion n
    prefs,      \* the version of the preferences in RAM
    reboots,    \* power cycles so far
    committed,  \* history: uploads installed whole at their path
    acked,      \* history: uploads whose client saw its commit succeed
    stale,      \* history: paths changed by the host, screens not told yet
    collided    \* history: a closeWrite has worked on the files of another
                \* transaction than the one it was called for

vars == <<file, tmp, txn, next, mounted, reg, apiPath, task, inbox, replies,
          link, session, client, saver, target, deletes, prefs, reboots,
          committed, acked, stale, collided>>

hostVars == <<session, client, target, deletes, acked>>
prefsVars == <<saver, prefs>>
history == <<committed, stale, collided>>

Uploads == 1 .. Len(target)
Whole(s) == [i \in 1 .. NChunks |-> [save |-> s, ix |-> i]]
PrefsImage(v) == <<[save |-> 0, ix |-> v]>>

NoReg == [d |-> "F", h |-> 0]
NoCmd == [op |-> "none", save |-> 0, path |-> NoPath, h |-> 0, ix |-> 0]
Ops == {"open", "write", "commit", "abort", "delete"}
Cmd == [op : Ops \cup {"none"}, save : Nat, path : Paths \cup {NoPath},
        h : Handles, ix : Nat]

(* h is 0 but in the response to a successful open: the default of the      *)
(* protobuf field when it is absent.                                        *)
Reply == [ok : BOOLEAN, h : Handles]

Idle == [op |-> "none", save |-> 0, path |-> NoPath, h |-> 0, ix |-> 0,
         waiting |-> FALSE]
Steps == {"idle", "stale", "check", "install", "write", "close", "fclose",
          "settled", "register", "notify", "clear", "remove", "unregister"}

TypeOK ==
    /\ StoreTypeOK
    /\ reg \in [d : Drives, h : Handles]
    /\ apiPath \in Paths \cup {NoPath}
    /\ task \in [Links -> [at : Steps, cmd : Cmd, h : Handles, ok : BOOLEAN]]
    /\ inbox \in [Links -> Seq(Cmd)]
    /\ replies \in [Links -> Seq(Reply)]
    /\ link \in [Links -> {"up", "dropped", "down"}]
    /\ session \in [Links -> BOOLEAN]
    /\ client \in [Clients -> [op : Ops \cup {"none"}, save : Nat,
                               path : Paths \cup {NoPath}, h : Handles,
                               ix : Nat, waiting : BOOLEAN]]
    /\ saver \in [Savers -> [at : {"idle", "install", "close", "fclose", "settled"},
                             h : Handles, v : Nat]]
    /\ target \in Seq(Paths)
    /\ deletes \in Seq(Paths)
    /\ prefs \in Nat /\ reboots \in Nat
    /\ committed \subseteq Nat /\ acked \subseteq Nat
    /\ stale \subseteq Paths /\ collided \in BOOLEAN

IdleTask == [at |-> "idle", cmd |-> NoCmd, h |-> 0, ok |-> FALSE]
IdleSaver == [at |-> "idle", h |-> 0, v |-> 0]

Init ==
    /\ StoreInit
    /\ reg = NoReg
    /\ apiPath = NoPath
    /\ task = [l \in Links |-> IdleTask]
    /\ inbox = [l \in Links |-> <<>>]
    /\ replies = [l \in Links |-> <<>>]
    /\ link = [l \in Links |-> "up"]
    /\ session = [l \in Links |-> FALSE]
    /\ client = [c \in Clients |-> Idle]
    /\ saver = [s \in Savers |-> IdleSaver]
    /\ target = <<>>
    /\ deletes = <<>>
    /\ prefs = 0 /\ reboots = 0
    /\ committed = {} /\ acked = {} /\ stale = {} /\ collided = FALSE

-----------------------------------------------------------------------------
(* The clients.                                                             *)

deviceVars == <<file, tmp, txn, next, mounted, reg, apiPath, task, link,
                saver, prefs, reboots, history>>

(* TouchyClient.open drops the replies an earlier program left unread.      *)
OpenSession(l) ==
    /\ link[l] = "up" /\ ~session[l]
    /\ SlowDevice \/ (task[l].at = "idle" /\ inbox[l] = <<>>)
    /\ session' = [session EXCEPT ![l] = TRUE]
    /\ replies' = [replies EXCEPT ![l] = <<>>]
    /\ UNCHANGED <<deviceVars, inbox, client, target, deletes, acked>>

(* file_save(path, ...) begins.                                             *)
BeginSave(c, p) ==
    /\ client[c].op = "none" /\ session[LinkOf[c]]
    /\ Len(target) < MaxSaves
    /\ target' = Append(target, p)
    /\ client' = [client EXCEPT ![c] =
                    [Idle EXCEPT !.op = "open", !.path = p,
                                 !.save = Len(target) + 1]]
    /\ UNCHANGED <<deviceVars, inbox, replies, session, deletes, acked>>

BeginDelete(c, p) ==
    /\ client[c].op = "none" /\ session[LinkOf[c]]
    /\ Len(deletes) < MaxDeletes
    /\ deletes' = Append(deletes, p)
    /\ client' = [client EXCEPT ![c] =
                    [Idle EXCEPT !.op = "delete", !.path = p]]
    /\ UNCHANGED <<deviceVars, inbox, replies, session, target, acked>>

(* The request half of _rpc.  The lock it holds until the answer keeps the  *)
(* other clients of the same link from sending.                             *)
Send(c) ==
    LET l == LinkOf[c]
        me == client[c]
    IN  /\ me.op # "none" /\ ~me.waiting
        /\ \A o \in Clients : LinkOf[o] = l => ~client[o].waiting
        /\ client' = [client EXCEPT ![c].waiting = TRUE]
        /\ inbox' = [inbox EXCEPT ![l] = Append(@,
              [op |-> me.op, save |-> me.save, path |-> me.path,
               h |-> me.h, ix |-> me.ix])]
        /\ UNCHANGED <<deviceVars, replies, session, target, deletes, acked>>

(* The next RPC of file_save once an RPC has failed, or has timed out.      *)
AfterFailure(me) ==
    IF me.op \in {"write", "commit"}
    THEN [me EXCEPT !.op = "abort", !.waiting = FALSE]
    ELSE Idle

(* The next RPC of file_save after a success; h is the handle read from it. *)
AfterSuccess(me, h) ==
    CASE me.op \in {"open", "write"} /\ me.ix < NChunks ->
             [me EXCEPT !.op = "write", !.ix = @ + 1, !.waiting = FALSE,
                        !.h = IF me.op = "open" THEN h ELSE @]
      [] me.op \in {"open", "write"} /\ me.ix >= NChunks ->
             [me EXCEPT !.op = "commit", !.waiting = FALSE,
                        !.h = IF me.op = "open" THEN h ELSE @]
      [] OTHER -> Idle

(* The response half of _rpc.                                               *)
TakeReply(c) ==
    LET l == LinkOf[c]
        me == client[c]
        reply == Head(replies[l])
    IN  /\ me.waiting /\ replies[l] # <<>>
        /\ replies' = [replies EXCEPT ![l] = Tail(@)]
        /\ client' = [client EXCEPT ![c] =
              IF reply.ok THEN AfterSuccess(@, reply.h) ELSE AfterFailure(@)]
        /\ acked' = IF me.op = "commit" /\ reply.ok
                    THEN acked \cup {me.save} ELSE acked
        /\ UNCHANGED <<deviceVars, inbox, session, target, deletes>>

(* _rpc gives up after two seconds without a response.                      *)
TimeOut(c) ==
    /\ SlowDevice
    /\ client[c].waiting /\ replies[LinkOf[c]] = <<>>
    /\ client' = [client EXCEPT ![c] = AfterFailure(@)]
    /\ UNCHANGED <<deviceVars, inbox, replies, session, target, deletes, acked>>

NoClients(l) == [c \in Clients |-> IF LinkOf[c] = l THEN Idle ELSE client[c]]

(* The program is killed between or during RPCs; nothing tells the device.  *)
Die(l) ==
    /\ session[l]
    /\ session' = [session EXCEPT ![l] = FALSE]
    /\ client' = NoClients(l)
    /\ UNCHANGED <<deviceVars, inbox, replies, target, deletes, acked>>

-----------------------------------------------------------------------------
(* The dispatcher task of link l.                                           *)

Goto(l, at) == task' = [task EXCEPT ![l].at = at]

(* write_frame; it fails when the host is not there.                        *)
Respond(l, ok, h) ==
    /\ task' = [task EXCEPT ![l] = IdleTask]
    /\ replies' = IF link[l] # "up" THEN replies
                  ELSE [replies EXCEPT ![l] = Append(@, [ok |-> ok, h |-> h])]
    /\ UNCHANGED <<inbox, link, prefsVars, hostVars, reboots>>

(* Between the steps of one command.                                        *)
Continue == UNCHANGED <<inbox, replies, link, prefsVars, hostVars, reboots>>

FirstStep(op) ==
    CASE op = "open" -> "stale"
      [] op = "write" -> "write"
      [] op \in {"commit", "abort"} -> "close"
      [] OTHER -> "remove"

(* read_frame and the switch of host_api_dispatch_message.  For a commit    *)
(* the wait in screens_prepare_file_overwrite is before step "close".       *)
Receive(l) ==
    /\ task[l].at = "idle" /\ link[l] = "up" /\ inbox[l] # <<>>
    /\ inbox' = [inbox EXCEPT ![l] = Tail(@)]
    /\ task' = [task EXCEPT ![l] =
                  [IdleTask EXCEPT !.at = FirstStep(Head(inbox[l]).op),
                                   !.cmd = Head(inbox[l])]]
    /\ UNCHANGED <<storeVars, reg, apiPath, replies, link, prefsVars, hostVars,
                   reboots, history>>

(* After closeWrite has returned ok: the registry is cleared, and the        *)
(* command goes on.                                                         *)
AfterClose(l, ok) ==
    LET op == task[l].cmd.op
    IN  /\ reg' = NoReg
        /\ task' = [task EXCEPT ![l] =
              IF op = "none" THEN IdleTask
              ELSE [@ EXCEPT !.h = 0, !.ok = ok, !.at =
                      CASE op = "open" -> "check"
                        [] op = "commit" /\ ok /\ apiPath # NoPath -> "register"
                        [] OTHER -> "clear"]]

(* The bytes of transaction t are at its path.                              *)
Installed(t) ==
    /\ committed' = committed \cup {s \in Uploads : target[s] = t.path /\ t.data = Whole(s)}
    /\ stale' = stale \cup {t.path}

(* closeWrite of the registered filesystem, up to where it blocks.          *)
StartClose(l, h, commit) ==
    \/ /\ reg.h = 0 \/ ~Owns(reg.d, h)
       /\ AfterClose(l, FALSE)
       /\ UNCHANGED <<storeVars, history>>
    \/ /\ reg.h # 0 /\ reg.d = "R" /\ Owns("R", h)
       /\ \E ok \in BOOLEAN :
             /\ CloseRam(commit, ok)
             /\ AfterClose(l, ok)
             /\ IF ok /\ commit THEN Installed(txn["R"])
                                ELSE UNCHANGED <<committed, stale>>
       /\ UNCHANGED collided
    \/ /\ reg.h # 0 /\ reg.d = "F" /\ Owns("F", h)
       /\ task' = [task EXCEPT ![l].at = "fclose", ![l].h = h]
       /\ UNCHANGED <<storeVars, reg, history>>

(* ... once fclose has returned, ...                                        *)
MoveFile(l) ==
    LET h == task[l].h
        commit == task[l].cmd.op = "commit"
    IN  /\ task[l].at = "fclose"
        /\ \E ok \in BOOLEAN :
              /\ MoveTmp(h, commit, ok)
              /\ task' = [task EXCEPT ![l].at = "settled", ![l].ok = ok]
              /\ IF ok /\ commit THEN Installed(txn["F"])
                                 ELSE UNCHANGED <<committed, stale>>
        /\ collided' = (collided \/ ~Owns("F", h))
        /\ Continue /\ UNCHANGED <<reg, apiPath>>

(* ... and once rename or unlink has.                                       *)
EndClose(l) ==
    /\ task[l].at = "settled"
    /\ EndTxn("F")
    /\ AfterClose(l, task[l].ok)
    /\ Continue /\ UNCHANGED <<apiPath, history>>

(* Mutant: the registry is cleared and its transaction left open.            *)
ForgetOpenTransaction(l) ==
    /\ AfterClose(l, FALSE)
    /\ UNCHANGED <<storeVars, history>>

(* fs_abort_open_transaction                                                *)
AbortOpenTransaction(l) == StartClose(l, reg.h, FALSE)

(* fs_open_write: abort what a vanished host left behind, ...               *)
AbortStale(l) ==
    /\ task[l].at = "stale"
    /\ AbortOpenTransaction(l)
    /\ Continue /\ UNCHANGED apiPath

(* Mutant: a refused open is not answered.                                   *)
CheckOpenSilently(l) ==
    LET p == task[l].cmd.path
    IN  /\ task[l].at = "check"
        /\ \/ /\ CanOpen(p)
              /\ AllocHandle(p)
              /\ task' = [task EXCEPT ![l].at = "install",
                                      ![l].h = NextHandle(DriveOf(p))]
              /\ UNCHANGED apiPath
           \/ /\ ~CanOpen(p)
              /\ apiPath' = NoPath
              /\ task' = [task EXCEPT ![l] = IdleTask]
              /\ UNCHANGED storeVars
        /\ Continue /\ UNCHANGED <<reg, history>>

(* ... Fs::openWrite up to the handle, ...                                  *)
CheckOpen(l) ==
    LET p == task[l].cmd.path
    IN  /\ task[l].at = "check"
        /\ \/ /\ CanOpen(p)
              /\ AllocHandle(p)
              /\ task' = [task EXCEPT ![l].at = "install",
                                      ![l].h = NextHandle(DriveOf(p))]
              /\ Continue /\ UNCHANGED apiPath
           \/ /\ ~CanOpen(p)
              /\ apiPath' = NoPath
              /\ Respond(l, FALSE, 0)
              /\ UNCHANGED storeVars
        /\ UNCHANGED <<reg, history>>

(* ... the rest of it, the registry and s_active_write_path.                *)
InstallOpen(l) ==
    LET p == task[l].cmd.path
        h == task[l].h
    IN  /\ task[l].at = "install"
        /\ \/ /\ Install(p, h)
              /\ reg' = [d |-> DriveOf(p), h |-> h]
              /\ apiPath' = p
              /\ Respond(l, TRUE, h)
           \/ /\ FlashFaults /\ DriveOf(p) = "F"
              /\ apiPath' = NoPath
              /\ Respond(l, FALSE, 0)
              /\ UNCHANGED <<storeVars, reg>>
        /\ UNCHANGED <<history>>

(* fs_append_write.  A short fwrite leaves part of the chunk behind.        *)
WriteChunk(l) ==
    LET cmd == task[l].cmd
        chunk == [save |-> cmd.save, ix |-> cmd.ix]
    IN  /\ task[l].at = "write"
        /\ \/ /\ reg.h # 0
              /\ AppendWrite(reg.d, cmd.h, chunk)
              /\ Respond(l, TRUE, 0)
           \/ /\ reg.h # 0 /\ FlashFaults /\ reg.d = "F"
              /\ AppendWrite(reg.d, cmd.h, [chunk EXCEPT !.ix = 0])
              /\ Respond(l, FALSE, 0)
           \/ /\ reg.h = 0 \/ ~Owns(reg.d, cmd.h)
              /\ Respond(l, FALSE, 0)
              /\ UNCHANGED storeVars
        /\ UNCHANGED <<reg, apiPath, history>>

(* fs_close_write.  A handle that is not the registered one is passed on    *)
(* all the same, and the registry forgets its transaction.                  *)
CloseFile(l) ==
    /\ task[l].at = "close"
    /\ StartClose(l, task[l].cmd.h, task[l].cmd.op = "commit")
    /\ Continue /\ UNCHANGED apiPath

(* Mutant: removing a screen of an unknown version returns too early.        *)
RegisterScreenReturns(l) ==
    /\ task[l].at = "register"
    /\ \/ UNCHANGED storeVars /\ Goto(l, "notify")
       \/ /\ apiPath \in ScreenPaths /\ \E ok \in BOOLEAN : RemoveTree(apiPath, ok)
          /\ Goto(l, "clear")
    /\ Continue /\ UNCHANGED <<reg, apiPath, history>>

(* screens_register_from_file: a screen of an unknown version is removed.   *)
RegisterScreen(l) ==
    /\ task[l].at = "register"
    /\ \/ UNCHANGED storeVars
       \/ apiPath \in ScreenPaths /\ \E ok \in BOOLEAN : RemoveTree(apiPath, ok)
    /\ Goto(l, "notify")
    /\ Continue /\ UNCHANGED <<reg, apiPath, history>>

(* screens_notify_file_changed                                              *)
NotifyChanged(l) ==
    /\ task[l].at = "notify"
    /\ stale' = stale \ {apiPath}
    /\ Goto(l, "clear")
    /\ Continue /\ UNCHANGED <<storeVars, reg, apiPath, committed, collided>>

FinishClose(l) ==
    /\ task[l].at = "clear"
    /\ apiPath' = NoPath
    /\ Respond(l, task[l].ok, 0)
    /\ UNCHANGED <<storeVars, reg, history>>

(* FileDelete: the tree goes first, the registered screens under it after.  *)
DeleteFile(l) ==
    /\ task[l].at = "remove"
    /\ \E ok \in BOOLEAN :
          /\ RemoveTree(task[l].cmd.path, ok)
          /\ task' = [task EXCEPT ![l].at = "unregister", ![l].ok = ok]
    /\ stale' = stale \cup {task[l].cmd.path}
    /\ Continue /\ UNCHANGED <<reg, apiPath, committed, collided>>

NotifyDeleted(l) ==
    /\ task[l].at = "unregister"
    /\ stale' = stale \ {task[l].cmd.path}
    /\ Respond(l, task[l].ok, 0)
    /\ UNCHANGED <<storeVars, reg, apiPath, committed, collided>>

(* The host is unplugged; its programs see their transport fail.            *)
Unplug(l) ==
    /\ link[l] = "up"
    /\ link' = [link EXCEPT ![l] = "dropped"]
    /\ inbox' = [inbox EXCEPT ![l] = <<>>]
    /\ replies' = [replies EXCEPT ![l] = <<>>]
    /\ session' = [session EXCEPT ![l] = FALSE]
    /\ client' = NoClients(l)
    /\ UNCHANGED <<storeVars, reg, apiPath, task, prefsVars, target, deletes,
                   acked, reboots, history>>

(* ... unless it is back first, the idle dispatcher sees connected() false. *)
NoticeUnplug(l) ==
    /\ link[l] = "dropped" /\ task[l].at = "idle"
    /\ link' = [link EXCEPT ![l] = "down"]
    /\ AbortOpenTransaction(l)
    /\ UNCHANGED <<apiPath, inbox, replies, prefsVars, hostVars, reboots>>

Replug(l) ==
    /\ link[l] # "up"
    /\ link' = [link EXCEPT ![l] = "up"]
    /\ UNCHANGED <<storeVars, reg, apiPath, task, inbox, replies, prefsVars,
                   hostVars, reboots, history>>

-----------------------------------------------------------------------------
(* Prefs::save, which calls FlashFs::writeFile without the registry.        *)

saverRest == <<reg, apiPath, task, inbox, replies, link, hostVars, reboots,
               committed, stale>>

SavePrefs(s) ==
    /\ mounted /\ saver[s].at = "idle" /\ prefs < MaxPrefs
    /\ prefs' = prefs + 1
    /\ IF CanOpen(PrefsPath)
       THEN /\ AllocHandle(PrefsPath)
            /\ saver' = [saver EXCEPT ![s] = [at |-> "install",
                            h |-> NextHandle("F"), v |-> prefs + 1]]
       ELSE UNCHANGED <<storeVars, saver>>
    /\ UNCHANGED <<saverRest, collided>>

InstallPrefs(s) ==
    /\ saver[s].at = "install"
    /\ \/ /\ Install(PrefsPath, saver[s].h)
          /\ saver' = [saver EXCEPT ![s].at = "close"]
       \/ /\ FlashFaults
          /\ saver' = [saver EXCEPT ![s] = IdleSaver]
          /\ UNCHANGED storeVars
    /\ UNCHANGED <<prefs, saverRest, collided>>

(* appendWrite and closeWrite with the handle this task was given.  (The    *)
(* effect of a short fwrite is that of a rename that fails.)                *)
ClosePrefs(s) ==
    LET h == saver[s].h
    IN  /\ saver[s].at = "close"
        /\ \/ /\ AppendWrite("F", h, [save |-> 0, ix |-> saver[s].v])
              /\ saver' = [saver EXCEPT ![s].at = "fclose"]
           \/ /\ ~Owns("F", h)
              /\ saver' = [saver EXCEPT ![s] = IdleSaver]
              /\ UNCHANGED storeVars
        /\ UNCHANGED <<prefs, saverRest, collided>>

MovePrefs(s) ==
    LET h == saver[s].h
    IN  /\ saver[s].at = "fclose"
        /\ \E ok \in BOOLEAN : MoveTmp(h, TRUE, ok)
        /\ collided' = (collided \/ ~Owns("F", h))
        /\ saver' = [saver EXCEPT ![s].at = "settled"]
        /\ UNCHANGED <<prefs, saverRest>>

EndPrefs(s) ==
    /\ saver[s].at = "settled"
    /\ EndTxn("F")
    /\ saver' = [saver EXCEPT ![s] = IdleSaver]
    /\ UNCHANGED <<prefs, saverRest, collided>>

-----------------------------------------------------------------------------
(* A power cycle.  The dispatchers run before the filesystem is mounted.    *)
Restart ==
    /\ StoreReboot
    /\ reg' = NoReg
    /\ apiPath' = NoPath
    /\ task' = [l \in Links |-> IdleTask]
    /\ inbox' = [l \in Links |-> <<>>]
    /\ replies' = [l \in Links |-> <<>>]
    /\ saver' = [s \in Savers |-> IdleSaver]
    /\ stale' = {}
    /\ session' = [l \in Links |-> FALSE]
    /\ client' = [c \in Clients |-> Idle]
    /\ UNCHANGED <<link, prefs, target, deletes, acked, committed, collided>>

Reboot ==
    /\ reboots < MaxReboots
    /\ reboots' = reboots + 1
    /\ Restart

(* fwrite finds the null stream that another task's closeWrite has left in  *)
(* the transaction: the firmware panics, and starts again.                  *)
PanicWrite(l) ==
    /\ task[l].at = "write" /\ reg.h # 0 /\ Panics(reg.d, task[l].cmd.h)
    /\ Restart /\ UNCHANGED reboots

PanicSave(s) ==
    /\ saver[s].at = "close" /\ Panics("F", saver[s].h)
    /\ Restart /\ UNCHANGED reboots

MountFlash ==
    /\ Mount
    /\ UNCHANGED <<reg, apiPath, task, inbox, replies, link, prefsVars, hostVars,
                   reboots, history>>

Client(c) ==
    \/ \E p \in HostPaths : BeginSave(c, p) \/ BeginDelete(c, p)
    \/ Send(c) \/ TakeReply(c) \/ TimeOut(c)

Program(l) == OpenSession(l) \/ Die(l)

Dispatch(l) ==
    \/ Receive(l)
    \/ AbortStale(l) \/ CheckOpen(l) \/ InstallOpen(l)
    \/ WriteChunk(l) \/ PanicWrite(l)
    \/ CloseFile(l) \/ MoveFile(l) \/ EndClose(l)
    \/ RegisterScreen(l) \/ NotifyChanged(l) \/ FinishClose(l)
    \/ DeleteFile(l) \/ NotifyDeleted(l)

Cable(l) == Unplug(l) \/ NoticeUnplug(l) \/ Replug(l)

StoreStep(s) ==
    \/ InstallPrefs(s) \/ ClosePrefs(s) \/ PanicSave(s)
    \/ MovePrefs(s) \/ EndPrefs(s)
Save(s) == SavePrefs(s) \/ StoreStep(s)

Next ==
    \/ \E c \in Clients : Client(c)
    \/ \E l \in Links : Program(l) \/ Dispatch(l) \/ Cable(l)
    \/ \E s \in Savers : Save(s)
    \/ Reboot
    \/ MountFlash

Spec == Init /\ [][Next]_vars
(* FreeRTOS runs every task that is ready, so a dispatcher with a command   *)
(* and a task in the middle of a save go on; a client reads the response it *)
(* waits for.  Nothing is assumed of its next request, of its time-out, of  *)
(* the program or of the cable.                                             *)
FairSpec ==
    /\ Spec
    /\ \A l \in Links : WF_vars(Dispatch(l))
    /\ \A c \in Clients : WF_vars(TakeReply(c))
    /\ \A s \in Savers : WF_vars(StoreStep(s))

-----------------------------------------------------------------------------
(* Properties.                                                              *)

(* A client that waits for a response stops waiting: every command is       *)
(* answered on every path through the dispatcher, or the client has seen    *)
(* its transport fail.                                                      *)
EveryCommandAnswered ==
    \A c \in Clients : client[c].waiting ~> ~client[c].waiting

(* A host file holds every chunk, in order, of one upload to its path: no   *)
(* mixture of uploads, no truncated one, whatever was aborted, retried,     *)
(* unplugged or power-cycled on the way.                                    *)
WholeFiles ==
    \A p \in HostPaths : file[p] \notin {Absent, Emptied} =>
        \E s \in Uploads : target[s] = p /\ file[p] = Whole(s)

(* An upload whose FileClose(commit) was answered OK has been installed.    *)
AckedIsCommitted == acked \subseteq committed

(* When no command is being dispatched, the screens have been told of every *)
(* file the host replaced or deleted: s_active_write_path is never lost     *)
(* between the commit and screens_notify_file_changed.                      *)
ScreensTold == (\A l \in Links : task[l].at = "idle") => stale = {}

(* What a host was told is on the device is there, and shown, for as long   *)
(* as no closeWrite has worked on the files of another transaction.         *)
AckedTakesEffect == ~collided => AckedIsCommitted /\ ScreensTold

(* An open filesystem transaction is either the registered one or that of a *)
(* task saving preferences: one that nobody owns refuses every later open   *)
(* of that filesystem until a reboot.                                       *)
NoOrphanTxn ==
    \A d \in Drives : txn[d].h # 0 =>
        \/ reg = [d |-> d, h |-> txn[d].h]
        \/ d = "F" /\ \E s \in Savers :
              /\ saver[s].at \in {"close", "fclose", "settled"}
              /\ saver[s].h = txn[d].h

(* The upload protocol is atomic in the sense of AtomicFiles, up to the     *)
(* step, if any, in which a closeWrite works on the files of another        *)
(* transaction than its own.                                                *)
Atomic == INSTANCE AtomicFiles WITH file <- file, target <- target,
              deletes <- deletes, committed <- committed, prefs <- prefs,
              stale <- stale
ImplementsAtomicFiles ==
    Atomic!Init /\ [][collided' \/ Atomic!Next]_(Atomic!vars)

-----------------------------------------------------------------------------
(* What the documents say and the code does not do; README.md tells how TLC *)
(* finds each of them false.                                                *)

(* A host file is replaced or kept: a commit that fails does not take the   *)
(* bytes that were there.                                                   *)
KeepsOldOrNew == \A p \in HostPaths : file[p] # Emptied

(* Every temporary file on flash belongs to the flash transaction, once     *)
(* sweep_tmp has removed those of earlier boots.                            *)
NoLeakedTmp ==
    mounted => tmp \subseteq {<<txn["F"].path, txn["F"].h>>}

(* A task that has finished saving has put its preferences on flash.        *)
PrefsStored ==
    (prefs > 0 /\ \A s \in Savers : saver[s].at = "idle")
        => file[PrefsPath] = PrefsImage(prefs)

(* The device has one write in flight: while a client holds the handle of   *)
(* an upload it has not closed, no other client is given one.               *)
OneWriter ==
    \A b, c \in Clients :
        client[b].op \in {"write", "commit"} /\ client[c].op \in {"write", "commit"}
            => b = c
=============================================================================
