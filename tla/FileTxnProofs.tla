---------------------------- MODULE FileTxnProofs ----------------------------
(***************************************************************************)
(* What holds of FileTxn for any paths, clients, links, chunks, faults and *)
(* power cycles; and, for one program on one cable whose commands are      *)
(* answered in time, that an upload takes effect as a whole or not at all. *)
(***************************************************************************)
EXTENDS FileTxn, SequenceTheorems, TLAPS

USE StoreAssumption, FileTxnAssumption
    DEF StoreAssumption, FileTxnAssumption, Drives, Handles, history

-----------------------------------------------------------------------------
(* The stores.                                                              *)

(* An open transaction has a path.                                          *)
StoreInv == StoreTypeOK /\ \A d \in Drives : txn[d].h # 0 => txn[d].path \in Paths

LEMMA DriveType == ASSUME NEW p PROVE DriveOf(p) \in Drives
BY DEF DriveOf

(* The next handle is one more than the last, or the first again, never 0.  *)
LEMMA HandleType ==
    ASSUME StoreTypeOK, NEW d \in Drives
    PROVE  /\ NextHandle(d) \in Handles \ {0}
           /\ next[d] + 1 < HandleSpace => NextHandle(d) = next[d] + 1
<1>1. next[d] \in 0 .. HandleSpace - 1 /\ HandleSpace \in Nat \ {0, 1}
  BY DEF StoreTypeOK
<1>2. next[d] + 1 = HandleSpace => (next[d] + 1) % HandleSpace = 0
  BY <1>1
<1>3. next[d] + 1 < HandleSpace => (next[d] + 1) % HandleSpace = next[d] + 1
  BY <1>1
<1> QED BY <1>1, <1>2, <1>3 DEF NextHandle

LEMMA ImageType == ASSUME NEW v \in Nat PROVE PrefsImage(v) \in Data
BY DEF PrefsImage, Data, Chunk

LEMMA AllocKeeps ==
    ASSUME StoreInv, NEW p, AllocHandle(p) PROVE StoreInv'
<1>1. NextHandle(DriveOf(p)) \in Handles
  BY HandleType, DriveType DEF StoreInv
<1> QED BY <1>1, DriveType DEF StoreInv, StoreTypeOK, AllocHandle

LEMMA InstallKeeps ==
    ASSUME StoreInv, NEW p \in Paths, NEW h \in Handles, Install(p, h)
    PROVE  StoreInv'
<1>1. NewTxn(p, h) \in Txn /\ NewTxn(p, h).path = p
  BY DEF NewTxn, Txn, Data
<1>2. txn' = [txn EXCEPT ![DriveOf(p)] = NewTxn(p, h)]
  BY DEF Install
<1>3. /\ txn' \in [Drives -> Txn]
      /\ \A d \in Drives : txn'[d].h # 0 => txn'[d].path \in Paths
  BY <1>1, <1>2, DriveType DEF StoreInv, StoreTypeOK
<1>4. tmp' \subseteq Paths \X Handles
  BY DEF Install, StoreInv, StoreTypeOK
<1> QED BY <1>3, <1>4 DEF StoreInv, StoreTypeOK, Install

LEMMA AppendKeeps ==
    ASSUME StoreInv, NEW d \in Drives, NEW h, NEW chunk \in Chunk,
           AppendWrite(d, h, chunk)
    PROVE  StoreInv'
<1>1. txn[d].data \in Seq(Chunk) /\ txn[d] \in Txn
  BY DEF StoreInv, StoreTypeOK, Txn, Data
<1>2. Append(txn[d].data, chunk) \in Data
  BY <1>1 DEF Data
<1>3. txn' = [txn EXCEPT ![d] = [txn[d] EXCEPT !.data = Append(txn[d].data, chunk)]]
  BY <1>1 DEF AppendWrite
<1>4. /\ [txn[d] EXCEPT !.data = Append(txn[d].data, chunk)] \in Txn
      /\ [txn[d] EXCEPT !.data = Append(txn[d].data, chunk)].h = txn[d].h
      /\ [txn[d] EXCEPT !.data = Append(txn[d].data, chunk)].path = txn[d].path
  BY <1>1, <1>2 DEF Txn
<1>5. /\ txn' \in [Drives -> Txn]
      /\ \A e \in Drives : txn'[e].h # 0 => txn'[e].path \in Paths
  BY <1>3, <1>4 DEF StoreInv, StoreTypeOK
<1> QED BY <1>5 DEF StoreInv, StoreTypeOK, AppendWrite

LEMMA NoTxnType == NoTxn \in Txn /\ NoTxn.h = 0
BY DEF NoTxn, Txn, Data

LEMMA EndKeeps == ASSUME StoreInv, NEW d \in Drives, EndTxn(d) PROVE StoreInv'
<1>1. txn' = [txn EXCEPT ![d] = NoTxn]
  BY DEF EndTxn
<1>2. /\ txn' \in [Drives -> Txn]
      /\ \A e \in Drives : txn'[e].h # 0 => txn'[e].path \in Paths
  BY <1>1, NoTxnType DEF StoreInv, StoreTypeOK
<1> QED BY <1>2 DEF StoreInv, StoreTypeOK, EndTxn

LEMMA SameStore == StoreInv /\ UNCHANGED storeVars => StoreInv'
BY DEF StoreInv, StoreTypeOK, storeVars

LEMMA CloseRamKeeps ==
    ASSUME StoreInv, NEW commit, NEW ok, CloseRam(commit, ok) PROVE StoreInv'
<1>1. /\ txn' \in [Drives -> Txn]
      /\ \A e \in Drives : txn'[e].h # 0 => txn'[e].path \in Paths
  <2>1. txn' = [txn EXCEPT !["R"] = NoTxn]
    BY DEF CloseRam
  <2> QED BY <2>1, NoTxnType DEF StoreInv, StoreTypeOK
<1>2. txn["R"].data \in Data /\ file \in [Paths -> Data \cup {Absent, Emptied}]
  BY DEF StoreInv, StoreTypeOK, Txn
<1>3. file' \in [Paths -> Data \cup {Absent, Emptied}]
  BY <1>2 DEF CloseRam, LoseCommit
<1> QED BY <1>1, <1>3 DEF CloseRam, StoreInv, StoreTypeOK

(* What was flushed is a prefix of what was written, and all of it when the *)
(* stream was closed.                                                       *)
LEMMA FlushedType ==
    ASSUME NEW t \in Txn, NEW own
    PROVE  Flushed(t, own) \subseteq Data /\ (own => Flushed(t, own) = {t.data})
<1>1. t.data \in Seq(Chunk) /\ Len(t.data) \in Nat
  BY DEF Txn, Data
<1>2. \A n \in 0 .. Len(t.data) : SubSeq(t.data, 1, n) \in Data
  BY <1>1 DEF Data
<1>3. SubSeq(t.data, 1, Len(t.data)) = t.data
  <2> DEFINE q == t.data
  <2>1. q \in Seq(Chunk)
    BY <1>1
  <2> HIDE DEF q
  <2>2. SubSeq(q, 1, Len(q)) = q
    BY <2>1
  <2> QED BY <2>2 DEF q
<1>4. Flushed(t, own) \subseteq Data
  <2>1. Len(t.data) \in 0 .. Len(t.data)
    BY <1>1
  <2> QED BY <1>2, <2>1 DEF Flushed
<1>5. own => Flushed(t, own) = {SubSeq(t.data, 1, Len(t.data))}
  BY DEF Flushed
<1> QED BY <1>3, <1>4, <1>5

(* After fclose only fp and the files have changed.                         *)
LEMMA MoveFacts ==
    ASSUME StoreInv, NEW h, NEW commit, NEW ok, MoveTmp(h, commit, ok)
    PROVE  /\ next' = next /\ mounted' = mounted
           /\ txn' \in [Drives -> Txn] /\ txn'["R"] = txn["R"]
           /\ ~txn'["F"].fp /\ txn'["F"].h = txn["F"].h
           /\ txn'["F"].path = txn["F"].path /\ txn'["F"].data = txn["F"].data
           /\ ok /\ commit =>
                 /\ txn["F"].path \in Paths
                 /\ \E data \in Flushed(txn["F"], Owns("F", h)) :
                        file' = [file EXCEPT ![txn["F"].path] = data]
           /\ ~(ok /\ commit) => UNCHANGED file
<1>1. txn \in [Drives -> Txn] /\ txn["F"] \in Txn
  BY DEF StoreInv, StoreTypeOK
<1>2. txn' = [txn EXCEPT !["F"] = [txn["F"] EXCEPT !.fp = FALSE]]
  BY <1>1 DEF MoveTmp
<1>3. [txn["F"] EXCEPT !.fp = FALSE] \in Txn
  BY <1>1 DEF Txn
<1>4. TmpOf(txn["F"]) \in tmp => txn["F"].path \in Paths
  BY DEF TmpOf, StoreInv, StoreTypeOK
<1>5. ok /\ commit =>
         /\ TmpOf(txn["F"]) \in tmp
         /\ \E data \in Flushed(txn["F"], Owns("F", h)) :
                file' = [file EXCEPT ![txn["F"].path] = data]
  BY DEF MoveTmp
<1>6. ~(ok /\ commit) => UNCHANGED file
  BY DEF MoveTmp, LoseCommit
<1> QED BY <1>1, <1>2, <1>3, <1>4, <1>5, <1>6 DEF MoveTmp, Txn

LEMMA MoveKeeps ==
    ASSUME StoreInv, NEW h, NEW commit, NEW ok, MoveTmp(h, commit, ok)
    PROVE  StoreInv'
<1>1. file' \in [Paths -> Data \cup {Absent, Emptied}]
  <2>1. file \in [Paths -> Data \cup {Absent, Emptied}] /\ txn["F"] \in Txn
    BY DEF StoreInv, StoreTypeOK
  <2>2. CASE ok /\ commit
    <3>1. PICK data \in Flushed(txn["F"], Owns("F", h)) :
             file' = [file EXCEPT ![txn["F"].path] = data]
      BY <2>2, MoveFacts
    <3>2. data \in Data
      BY <2>1, <3>1, FlushedType
    <3> QED BY <2>1, <3>1, <3>2
  <2>3. CASE ~(ok /\ commit)
    BY <2>1, <2>3, MoveFacts
  <2> QED BY <2>2, <2>3
<1>2. tmp' \subseteq Paths \X Handles
  BY DEF MoveTmp, StoreInv, StoreTypeOK
<1>3. \A e \in Drives : txn'[e].h # 0 => txn'[e].path \in Paths
  BY MoveFacts DEF StoreInv
<1> QED BY <1>1, <1>2, <1>3, MoveFacts DEF StoreInv, StoreTypeOK

LEMMA RemoveKeeps ==
    ASSUME StoreInv, NEW p, NEW ok, RemoveTree(p, ok) PROVE StoreInv'
<1>1. file' \in [Paths -> Data \cup {Absent, Emptied}]
  BY DEF RemoveTree, StoreInv, StoreTypeOK
<1> QED BY <1>1 DEF RemoveTree, StoreInv, StoreTypeOK

LEMMA RebootKeeps == StoreInv /\ StoreReboot => StoreInv'
<1> SUFFICES ASSUME StoreInv, StoreReboot PROVE StoreInv'
  OBVIOUS
<1>1. file' \in [Paths -> Data \cup {Absent, Emptied}]
  BY DEF StoreReboot, StoreInv, StoreTypeOK
<1>2. /\ txn' \in [Drives -> Txn]
      /\ \A e \in Drives : txn'[e].h = 0
  BY NoTxnType DEF StoreReboot
<1>3. next' \in [Drives -> Handles]
  BY DEF StoreReboot
<1> QED BY <1>1, <1>2, <1>3 DEF StoreReboot, StoreInv, StoreTypeOK

LEMMA MountKeeps == StoreInv /\ Mount => StoreInv'
BY DEF Mount, StoreInv, StoreTypeOK

LEMMA StoreStarts == StoreInit => StoreInv
<1> SUFFICES ASSUME StoreInit PROVE StoreInv
  OBVIOUS
<1>1. /\ txn \in [Drives -> Txn]
      /\ \A e \in Drives : txn[e].h = 0
  BY NoTxnType DEF StoreInit
<1>2. next \in [Drives -> Handles]
  BY DEF StoreInit
<1> QED BY <1>1, <1>2 DEF StoreInit, StoreInv, StoreTypeOK

-----------------------------------------------------------------------------
(* Types.                                                                   *)

ClientType == [op : Ops \cup {"none"}, save : Nat, path : Paths \cup {NoPath},
               h : Handles, ix : Nat, waiting : BOOLEAN]
TaskType == [at : Steps, cmd : Cmd, h : Handles, ok : BOOLEAN]
SaverType == [at : {"idle", "install", "close", "fclose", "settled"}, h : Handles,
              v : Nat]

(* A command that is sent has a path; a dispatcher carries out such a one,  *)
(* or closes a file for nobody.                                             *)
Asking == [op : Ops \cup {"none"}, save : Nat, path : Paths, h : Handles, ix : Nat]

Carried(me) ==
    \/ me.cmd \in Asking
    \/ me.cmd.op = "none" /\ me.at \in {"idle", "fclose", "settled"}

HostTypes ==
    /\ session \in [Links -> BOOLEAN]
    /\ client \in [Clients -> ClientType]
    /\ \A c \in Clients : client[c].op # "none" => client[c].path \in Paths
    /\ target \in Seq(Paths) /\ deletes \in Seq(Paths)
    /\ acked \subseteq Nat

LinkTypes ==
    /\ inbox \in [Links -> Seq(Asking)]
    /\ replies \in [Links -> Seq(Reply)]
    /\ link \in [Links -> {"up", "dropped", "down"}]
    /\ task \in [Links -> TaskType]
    /\ \A l \in Links : Carried(task[l])

DeviceTypes ==
    /\ reg \in [d : Drives, h : Handles]
    /\ apiPath \in Paths \cup {NoPath}
    /\ saver \in [Savers -> SaverType]
    /\ prefs \in Nat /\ reboots \in Nat
    /\ committed \subseteq Nat
    /\ stale \subseteq Paths
    /\ collided \in BOOLEAN

TypeInv == StoreInv /\ HostTypes /\ LinkTypes /\ DeviceTypes

LEMMA AskingType == Asking \subseteq Cmd /\ \A q : q \in Seq(Asking) => q \in Seq(Cmd)
<1>1. Asking \subseteq Cmd
  BY DEF Asking, Cmd
<1>2. ASSUME NEW q \in Seq(Asking) PROVE q \in Seq(Cmd)
  BY <1>1
<1> QED BY <1>1, <1>2

LEMMA TypesSuffice == TypeInv => TypeOK
<1> SUFFICES ASSUME TypeInv PROVE TypeOK
  OBVIOUS
<1>1. inbox \in [Links -> Seq(Cmd)]
  BY AskingType DEF TypeInv, LinkTypes
<1> QED BY <1>1 DEF TypeInv, StoreInv, HostTypes, LinkTypes, DeviceTypes, TypeOK,
                    ClientType, TaskType, SaverType

LEMMA IdleTypes ==
    /\ Idle \in ClientType /\ Idle.op = "none"
    /\ IdleTask \in TaskType /\ IdleTask.at = "idle" /\ IdleTask.cmd.op = "none"
    /\ Carried(IdleTask)
    /\ IdleSaver \in SaverType
    /\ NoReg \in [d : Drives, h : Handles]
BY DEF Idle, ClientType, IdleTask, TaskType, NoCmd, Cmd, Steps, IdleSaver,
       SaverType, NoReg, Carried

LEMMA TypeInit == Init => TypeInv
<1> SUFFICES ASSUME Init PROVE TypeInv
  OBVIOUS
<1>1. StoreInv
  BY StoreStarts DEF Init
<1>2. HostTypes
  BY IdleTypes DEF Init, HostTypes
<1>3. LinkTypes
  BY IdleTypes DEF Init, LinkTypes
<1>4. DeviceTypes
  BY IdleTypes DEF Init, DeviceTypes
<1> QED BY <1>1, <1>2, <1>3, <1>4 DEF TypeInv

-----------------------------------------------------------------------------
(* The clients.                                                             *)

LEMMA SameLinks ==
    LinkTypes /\ UNCHANGED <<inbox, replies, link, task>> => LinkTypes'
BY DEF LinkTypes

LEMMA SameHosts == HostTypes /\ UNCHANGED hostVars => HostTypes'
BY DEF HostTypes, hostVars

LEMMA SameDevice ==
    DeviceTypes /\ UNCHANGED <<reg, apiPath, saver, prefs, reboots, committed, stale,
                              collided>>
        => DeviceTypes'
BY DEF DeviceTypes

(* What an RPC that is over leads to.                                       *)
LEMMA AfterType ==
    ASSUME NEW me \in ClientType, me.op # "none" => me.path \in Paths, NEW h \in Handles
    PROVE  /\ AfterFailure(me) \in ClientType
           /\ AfterSuccess(me, h) \in ClientType
           /\ AfterFailure(me).op # "none" => AfterFailure(me).path \in Paths
           /\ AfterSuccess(me, h).op # "none" => AfterSuccess(me, h).path \in Paths
<1>1. me.op \in Ops \cup {"none"} /\ me.ix \in Nat
  BY DEF ClientType
<1>2. AfterFailure(me) \in ClientType
      /\ (AfterFailure(me).op # "none" => AfterFailure(me).path \in Paths)
  BY IdleTypes DEF AfterFailure, ClientType, Ops
<1>3. CASE me.op \in {"open", "write"} /\ me.ix < NChunks
  <2>1. AfterSuccess(me, h) = [me EXCEPT !.op = "write", !.ix = me.ix + 1, !.waiting = FALSE,
                                         !.h = IF me.op = "open" THEN h ELSE me.h]
    BY <1>1, <1>3 DEF AfterSuccess, ClientType
  <2>2. me.ix + 1 \in Nat /\ me.op # "none"
    BY <1>1, <1>3
  <2>3. AfterSuccess(me, h) \in ClientType /\ AfterSuccess(me, h).path = me.path
    BY <2>1, <2>2 DEF ClientType, Ops
  <2> QED BY <1>2, <2>2, <2>3
<1>4. CASE me.op \in {"open", "write"} /\ me.ix >= NChunks
  <2>1. AfterSuccess(me, h) = [me EXCEPT !.op = "commit", !.waiting = FALSE,
                                         !.h = IF me.op = "open" THEN h ELSE me.h]
    BY <1>1, <1>4 DEF AfterSuccess, ClientType
  <2> QED BY <1>1, <1>2, <1>4, <2>1 DEF ClientType, Ops
<1>5. CASE me.op \notin {"open", "write"}
  BY <1>2, <1>5, IdleTypes DEF AfterSuccess
<1> QED BY <1>1, <1>2, <1>3, <1>4, <1>5

(* A client that goes on as another record.                                 *)
LEMMA ClientPut ==
    ASSUME HostTypes, NEW c \in Clients, NEW me \in ClientType,
           me.op # "none" => me.path \in Paths,
           client' = [client EXCEPT ![c] = me],
           session' = session, target' \in Seq(Paths), deletes' \in Seq(Paths),
           acked' \subseteq Nat
    PROVE  HostTypes'
BY DEF HostTypes

LEMMA NoClientsType ==
    ASSUME HostTypes, NEW l \in Links, client' = NoClients(l),
           session' = [session EXCEPT ![l] = FALSE],
           UNCHANGED <<target, deletes, acked>>
    PROVE  HostTypes'
<1>1. /\ client' \in [Clients -> ClientType]
      /\ \A c \in Clients : client'[c].op # "none" => client'[c].path \in Paths
  BY IdleTypes DEF NoClients, HostTypes
<1> QED BY <1>1 DEF HostTypes

LEMMA ClientTypes ==
    ASSUME TypeInv, NEW c \in Clients, Client(c) PROVE TypeInv'
<1> USE DEF deviceVars, hostVars, prefsVars
<1>1. StoreInv /\ HostTypes /\ LinkTypes /\ DeviceTypes
  BY DEF TypeInv
<1>2. LinkOf[c] \in Links
  OBVIOUS
<1>3. /\ client[c] \in ClientType
      /\ client[c].op # "none" => client[c].path \in Paths
      /\ client[c].save \in Nat
  BY <1>1 DEF HostTypes, ClientType
<1>4. StoreInv' /\ DeviceTypes'
  <2>1. UNCHANGED deviceVars
    BY DEF Client, BeginSave, BeginDelete, Send, TakeReply, TimeOut
  <2> QED BY <1>1, <2>1, SameStore, SameDevice DEF storeVars
<1>5. ASSUME NEW p \in HostPaths, BeginSave(c, p) \/ BeginDelete(c, p)
      PROVE  HostTypes' /\ LinkTypes'
  <2>1. p \in Paths /\ Len(target) + 1 \in Nat
    BY <1>1 DEF HostTypes
  <2>2. /\ [Idle EXCEPT !.op = "open", !.path = p, !.save = Len(target) + 1] \in ClientType
        /\ [Idle EXCEPT !.op = "open", !.path = p, !.save = Len(target) + 1].path = p
        /\ [Idle EXCEPT !.op = "delete", !.path = p] \in ClientType
        /\ [Idle EXCEPT !.op = "delete", !.path = p].path = p
    BY <2>1, IdleTypes DEF ClientType, Ops
  <2>3. PICK me \in ClientType :
           me.path = p /\ client' = [client EXCEPT ![c] = me]
    BY <1>5, <2>2 DEF BeginSave, BeginDelete
  <2>a. target' \in Seq(Paths) /\ deletes' \in Seq(Paths)
    <3>1. Append(target, p) \in Seq(Paths) /\ Append(deletes, p) \in Seq(Paths)
      BY <1>1, <2>1 DEF HostTypes
    <3> QED BY <1>1, <1>5, <3>1 DEF BeginSave, BeginDelete, HostTypes
  <2>4. HostTypes'
    BY <1>1, <1>5, <2>1, <2>3, <2>a, ClientPut DEF BeginSave, BeginDelete, HostTypes
  <2> QED BY <1>1, <1>5, <2>4, SameLinks DEF BeginSave, BeginDelete
<1>6. CASE Send(c)
  <2>1. client' = [client EXCEPT ![c] = [client[c] EXCEPT !.waiting = TRUE]]
    BY <1>1, <1>6 DEF Send, HostTypes
  <2>2. /\ [client[c] EXCEPT !.waiting = TRUE] \in ClientType
        /\ [client[c] EXCEPT !.waiting = TRUE].path = client[c].path
        /\ client[c].op # "none"
    BY <1>3, <1>6 DEF ClientType, Send
  <2>3. HostTypes'
    BY <1>1, <1>3, <1>6, <2>1, <2>2, ClientPut DEF Send, HostTypes
  <2>4. [op |-> client[c].op, save |-> client[c].save, path |-> client[c].path,
         h |-> client[c].h, ix |-> client[c].ix] \in Asking
    BY <1>3, <2>2 DEF ClientType, Asking
  <2>5. inbox' \in [Links -> Seq(Asking)]
    BY <1>1, <1>2, <1>6, <2>4 DEF Send, LinkTypes
  <2> QED BY <1>1, <1>4, <1>6, <2>3, <2>5 DEF Send, LinkTypes, TypeInv
<1>7. CASE TakeReply(c)
  <2> DEFINE l == LinkOf[c]
             reply == Head(replies[l])
  <2>1. reply \in Reply /\ Tail(replies[l]) \in Seq(Reply)
    BY <1>1, <1>2, <1>7 DEF TakeReply, LinkTypes
  <2>2. reply.h \in Handles
    BY <2>1 DEF Reply
  <2>3. client' = [client EXCEPT ![c] =
                     IF reply.ok THEN AfterSuccess(client[c], reply.h)
                                 ELSE AfterFailure(client[c])]
    BY <1>1, <1>7 DEF TakeReply, HostTypes
  <2>4. acked' \subseteq Nat
    BY <1>1, <1>3, <1>7 DEF TakeReply, HostTypes
  <2>5. HostTypes'
    <3>1. CASE reply.ok
      BY <1>1, <1>3, <1>7, <2>2, <2>3, <2>4, <3>1, AfterType, ClientPut
         DEF TakeReply, HostTypes
    <3>2. CASE ~reply.ok
      BY <1>1, <1>3, <1>7, <2>2, <2>3, <2>4, <3>2, AfterType, ClientPut
         DEF TakeReply, HostTypes
    <3> QED BY <3>1, <3>2
  <2>6. replies' \in [Links -> Seq(Reply)]
    BY <1>1, <1>2, <1>7, <2>1 DEF TakeReply, LinkTypes
  <2> QED BY <1>1, <1>4, <1>7, <2>5, <2>6 DEF TakeReply, LinkTypes, TypeInv
<1>8. CASE TimeOut(c)
  <2>1. client' = [client EXCEPT ![c] = AfterFailure(client[c])]
    BY <1>1, <1>8 DEF TimeOut, HostTypes
  <2>2. 0 \in Handles
    OBVIOUS
  <2>3. HostTypes'
    BY <1>1, <1>3, <1>8, <2>1, <2>2, AfterType, ClientPut DEF TimeOut, HostTypes
  <2> QED BY <1>1, <1>4, <1>8, <2>3, SameLinks DEF TimeOut, TypeInv
<1> QED BY <1>4, <1>5, <1>6, <1>7, <1>8 DEF Client, TypeInv

LEMMA ProgramTypes ==
    ASSUME TypeInv, NEW l \in Links, Program(l) PROVE TypeInv'
<1> USE DEF deviceVars
<1>1. StoreInv /\ HostTypes /\ LinkTypes /\ DeviceTypes
  BY DEF TypeInv
<1>2. StoreInv' /\ DeviceTypes'
  <2>1. UNCHANGED deviceVars
    BY DEF Program, OpenSession, Die
  <2> QED BY <1>1, <2>1, SameStore, SameDevice DEF storeVars
<1>3. CASE OpenSession(l)
  BY <1>1, <1>2, <1>3 DEF OpenSession, HostTypes, LinkTypes, TypeInv
<1>4. CASE Die(l)
  BY <1>1, <1>2, <1>4, NoClientsType, SameLinks DEF Die, TypeInv
<1> QED BY <1>3, <1>4 DEF Program

-----------------------------------------------------------------------------
(* The dispatcher.                                                          *)

LEMMA TaskPut ==
    ASSUME LinkTypes, NEW l \in Links, NEW me \in TaskType, Carried(me),
           task' = [task EXCEPT ![l] = me],
           inbox' \in [Links -> Seq(Asking)], replies' \in [Links -> Seq(Reply)],
           link' \in [Links -> {"up", "dropped", "down"}]
    PROVE  LinkTypes'
<1>1. \A k \in Links : Carried(task'[k])
  BY DEF LinkTypes
<1> QED BY <1>1 DEF LinkTypes, Carried

(* The rest of a step of a command.                                         *)
LEMMA ContinueTypes ==
    ASSUME TypeInv, NEW l \in Links, NEW me \in TaskType, Carried(me),
           task' = [task EXCEPT ![l] = me], Continue
    PROVE  HostTypes' /\ LinkTypes'
<1>1. HostTypes /\ LinkTypes
  BY DEF TypeInv
<1>2. LinkTypes'
  BY <1>1, TaskPut DEF Continue, LinkTypes
<1> QED BY <1>1, <1>2, SameHosts DEF Continue

LEMMA GotoTypes ==
    ASSUME TypeInv, NEW l \in Links, NEW at \in Steps,
           task[l].at \notin {"idle", "fclose", "settled"}, Goto(l, at), Continue
    PROVE  HostTypes' /\ LinkTypes'
<1>1. task[l] \in TaskType /\ task \in [Links -> TaskType] /\ task[l].cmd \in Asking
  BY DEF TypeInv, LinkTypes, Carried
<1>2. [task[l] EXCEPT !.at = at] \in TaskType /\ [task[l] EXCEPT !.at = at].cmd = task[l].cmd
  BY <1>1 DEF TaskType
<1>3. task' = [task EXCEPT ![l] = [task[l] EXCEPT !.at = at]]
  BY <1>1 DEF Goto
<1> QED BY <1>1, <1>2, <1>3, ContinueTypes DEF Carried

(* After a close the dispatcher goes on with its command, or has none.      *)
LEMMA AfterCloseTask ==
    ASSUME TypeInv, NEW l \in Links, NEW ok \in BOOLEAN, AfterClose(l, ok)
    PROVE  /\ reg' = NoReg
           /\ \E me \in TaskType : Carried(me) /\ task' = [task EXCEPT ![l] = me]
<1>1. task[l] \in TaskType /\ task \in [Links -> TaskType] /\ Carried(task[l])
  BY DEF TypeInv, LinkTypes
<1>2. CASE task[l].cmd.op = "none"
  <2>1. task' = [task EXCEPT ![l] = IdleTask]
    BY <1>1, <1>2 DEF AfterClose
  <2> QED BY <2>1, IdleTypes DEF AfterClose
<1>3. CASE task[l].cmd.op # "none"
  <2>1. task[l].cmd \in Asking /\ 0 \in Handles
    BY <1>1, <1>3 DEF Carried
  <2>2. PICK at \in {"check", "register", "clear"} :
           task' = [task EXCEPT ![l] = [task[l] EXCEPT !.h = 0, !.ok = ok, !.at = at]]
    BY <1>1, <1>3 DEF AfterClose
  <2>3. /\ [task[l] EXCEPT !.h = 0, !.ok = ok, !.at = at] \in TaskType
        /\ [task[l] EXCEPT !.h = 0, !.ok = ok, !.at = at].cmd = task[l].cmd
    BY <1>1, <2>1, <2>2 DEF TaskType, Steps
  <2> QED BY <2>1, <2>2, <2>3 DEF AfterClose, Carried
<1> QED BY <1>2, <1>3

LEMMA InstalledTypes ==
    ASSUME TypeInv, NEW t, t.path \in Paths, Installed(t)
    PROVE  committed' \subseteq Nat /\ stale' \subseteq Paths
<1>1. \A s \in Uploads : s \in Nat
  BY DEF Uploads, TypeInv, HostTypes
<1>2. committed \subseteq Nat /\ stale \subseteq Paths
  BY DEF TypeInv, DeviceTypes
<1> QED BY <1>1, <1>2 DEF Installed

LEMMA StartCloseTypes ==
    ASSUME TypeInv, NEW l \in Links, NEW h \in Handles, NEW commit,
           StartClose(l, h, commit),
           UNCHANGED <<apiPath, inbox, replies, prefsVars, hostVars, reboots>>,
           link' \in [Links -> {"up", "dropped", "down"}]
    PROVE  TypeInv'
<1> USE DEF prefsVars
<1>1. /\ StoreInv /\ HostTypes /\ LinkTypes /\ DeviceTypes
      /\ task[l] \in TaskType /\ task \in [Links -> TaskType] /\ Carried(task[l])
      /\ NoReg \in [d : Drives, h : Handles]
  BY IdleTypes DEF TypeInv, LinkTypes
<1>2. HostTypes'
  BY <1>1, SameHosts
<1>3. CASE AfterClose(l, FALSE) /\ UNCHANGED <<storeVars, history>>
  <2>1. PICK me \in TaskType : Carried(me) /\ task' = [task EXCEPT ![l] = me]
    BY <1>3, AfterCloseTask
  <2>2. LinkTypes'
    BY <1>1, <2>1, TaskPut DEF LinkTypes
  <2>3. DeviceTypes'
    BY <1>1, <1>3 DEF AfterClose, DeviceTypes
  <2> QED BY <1>1, <1>2, <1>3, <2>2, <2>3, SameStore DEF TypeInv
<1>4. CASE Owns("R", h) /\ UNCHANGED collided /\ \E ok \in BOOLEAN :
              /\ CloseRam(commit, ok) /\ AfterClose(l, ok)
              /\ IF ok /\ commit THEN Installed(txn["R"])
                                 ELSE UNCHANGED <<committed, stale>>
  <2>1. PICK ok \in BOOLEAN :
           /\ CloseRam(commit, ok) /\ AfterClose(l, ok)
           /\ IF ok /\ commit THEN Installed(txn["R"])
                              ELSE UNCHANGED <<committed, stale>>
    BY <1>4
  <2>2. PICK me \in TaskType : Carried(me) /\ task' = [task EXCEPT ![l] = me]
    BY <2>1, AfterCloseTask
  <2>3. LinkTypes'
    BY <1>1, <2>2, TaskPut DEF LinkTypes
  <2>4. txn["R"].path \in Paths
    BY <1>1, <1>4 DEF Owns, StoreInv
  <2>5. committed' \subseteq Nat /\ stale' \subseteq Paths
    BY <1>1, <2>1, <2>4, InstalledTypes DEF DeviceTypes
  <2>6. DeviceTypes'
    BY <1>1, <1>4, <2>1, <2>5 DEF AfterClose, DeviceTypes
  <2> QED BY <1>1, <1>2, <2>1, <2>3, <2>6, CloseRamKeeps DEF TypeInv
<1>5. CASE /\ task' = [task EXCEPT ![l].at = "fclose", ![l].h = h]
           /\ UNCHANGED <<storeVars, reg, history>>
  <2>1. task' = [task EXCEPT ![l] = [task[l] EXCEPT !.at = "fclose", !.h = h]]
    BY <1>1, <1>5
  <2>2. /\ [task[l] EXCEPT !.at = "fclose", !.h = h] \in TaskType
        /\ [task[l] EXCEPT !.at = "fclose", !.h = h].cmd = task[l].cmd
        /\ [task[l] EXCEPT !.at = "fclose", !.h = h].at = "fclose"
    BY <1>1 DEF TaskType, Steps
  <2>3. LinkTypes'
    BY <1>1, <2>1, <2>2, TaskPut DEF LinkTypes, Carried
  <2> QED BY <1>1, <1>2, <1>5, <2>3, SameStore, SameDevice DEF TypeInv
<1> QED BY <1>3, <1>4, <1>5 DEF StartClose

LEMMA RespondTypes ==
    ASSUME TypeInv, NEW l \in Links, NEW ok \in BOOLEAN, NEW h \in Handles,
           Respond(l, ok, h)
    PROVE  HostTypes' /\ LinkTypes'
<1>1. HostTypes /\ LinkTypes /\ replies[l] \in Seq(Reply)
  BY DEF TypeInv, LinkTypes
<1>2. [ok |-> ok, h |-> h] \in Reply
  BY DEF Reply
<1>3. Append(replies[l], [ok |-> ok, h |-> h]) \in Seq(Reply)
  BY <1>1, <1>2
<1>4. replies' \in [Links -> Seq(Reply)]
  BY <1>1, <1>3 DEF Respond, LinkTypes
<1>5. LinkTypes'
  BY <1>1, <1>4, IdleTypes, TaskPut DEF Respond, LinkTypes
<1> QED BY <1>1, <1>5, SameHosts DEF Respond

LEMMA RestartTypes ==
    ASSUME TypeInv, Restart, reboots' \in Nat PROVE TypeInv'
<1>1. StoreInv /\ HostTypes /\ LinkTypes /\ DeviceTypes
  BY DEF TypeInv
<1>2. HostTypes'
  BY <1>1, IdleTypes DEF Restart, HostTypes
<1>3. LinkTypes'
  <2>1. \A k \in Links : Carried(task'[k])
    BY IdleTypes DEF Restart
  <2> QED BY <1>1, <2>1, IdleTypes DEF Restart, LinkTypes, Carried
<1>4. DeviceTypes'
  BY <1>1, IdleTypes DEF Restart, DeviceTypes
<1> QED BY <1>1, <1>2, <1>3, <1>4, RebootKeeps DEF Restart, TypeInv

LEMMA DispatchTypes ==
    ASSUME TypeInv, NEW l \in Links, Dispatch(l) PROVE TypeInv'
<1> USE DEF prefsVars
<1>1. StoreInv /\ HostTypes /\ LinkTypes /\ DeviceTypes
  BY DEF TypeInv
<1>2. /\ task[l] \in TaskType /\ task \in [Links -> TaskType]
      /\ task[l].h \in Handles /\ task[l].ok \in BOOLEAN
      /\ reg \in [d : Drives, h : Handles] /\ reg.d \in Drives
      /\ 0 \in Handles /\ Carried(task[l])
  BY <1>1 DEF LinkTypes, TaskType, DeviceTypes
<1>3. ASSUME task[l].at \notin {"idle", "fclose", "settled"}
      PROVE  task[l].cmd \in Asking /\ task[l].cmd.path \in Paths
             /\ task[l].cmd.save \in Nat /\ task[l].cmd.ix \in Nat
             /\ task[l].cmd.h \in Handles
  BY <1>2, <1>3 DEF Carried, Asking
<1>4. CASE Receive(l)
  <2> DEFINE cmd == Head(inbox[l])
             me == [IdleTask EXCEPT !.at = FirstStep(cmd.op), !.cmd = cmd]
  <2>1. cmd \in Asking /\ Tail(inbox[l]) \in Seq(Asking)
    BY <1>1, <1>4 DEF Receive, LinkTypes
  <2>2. FirstStep(cmd.op) \in Steps
    BY DEF FirstStep, Steps
  <2>3. me \in TaskType /\ me.cmd = cmd
    <3>1. cmd \in Cmd
      BY <2>1, AskingType
    <3> HIDE DEF cmd
    <3> QED BY <2>2, <3>1, IdleTypes DEF TaskType
  <2>4. inbox' \in [Links -> Seq(Asking)]
    BY <1>1, <1>4, <2>1 DEF Receive, LinkTypes
  <2>5. task' = [task EXCEPT ![l] = me]
    BY <1>4 DEF Receive
  <2> HIDE DEF me
  <2>6. LinkTypes'
    BY <1>1, <1>4, <2>1, <2>3, <2>4, <2>5, TaskPut DEF Receive, LinkTypes, Carried
  <2> QED BY <1>1, <1>4, <2>6, SameStore, SameHosts, SameDevice DEF Receive, TypeInv
<1>5. CASE AbortStale(l)
  <2>1. /\ StartClose(l, reg.h, FALSE) /\ reg.h \in Handles
        /\ UNCHANGED <<apiPath, inbox, replies, prefsVars, hostVars, reboots>>
        /\ link' \in [Links -> {"up", "dropped", "down"}]
    BY <1>1, <1>2, <1>5 DEF AbortStale, AbortOpenTransaction, Continue, LinkTypes
  <2> QED BY <2>1, StartCloseTypes
<1>6. CASE CheckOpen(l)
  <2> DEFINE p == task[l].cmd.path
  <2>1. p \in Paths
    BY <1>3, <1>6 DEF CheckOpen
  <2>2. CASE CanOpen(p) /\ AllocHandle(p) /\ Continue /\ UNCHANGED apiPath
             /\ task' = [task EXCEPT ![l].at = "install", ![l].h = NextHandle(DriveOf(p))]
    <3>1. NextHandle(DriveOf(p)) \in Handles
      BY <1>1, HandleType, DriveType DEF StoreInv
    <3>2. task' = [task EXCEPT ![l] = [task[l] EXCEPT !.at = "install",
                                                      !.h = NextHandle(DriveOf(p))]]
      BY <1>2, <2>2
    <3>3. /\ [task[l] EXCEPT !.at = "install", !.h = NextHandle(DriveOf(p))] \in TaskType
          /\ [task[l] EXCEPT !.at = "install", !.h = NextHandle(DriveOf(p))].cmd = task[l].cmd
      BY <1>2, <3>1 DEF TaskType, Steps
    <3>4. HostTypes' /\ LinkTypes'
      BY <1>3, <1>6, <2>2, <3>2, <3>3, ContinueTypes DEF CheckOpen, Carried
    <3>5. StoreInv'
      BY <1>1, <2>2, AllocKeeps
    <3> QED BY <1>1, <1>6, <2>2, <3>4, <3>5 DEF CheckOpen, Continue, DeviceTypes, TypeInv
  <2>3. CASE apiPath' = NoPath /\ Respond(l, FALSE, 0) /\ UNCHANGED storeVars
    <3>1. HostTypes' /\ LinkTypes'
      BY <1>2, <2>3, RespondTypes
    <3> QED BY <1>1, <1>6, <2>3, <3>1, SameStore DEF CheckOpen, Respond, DeviceTypes, TypeInv
  <2> QED BY <1>6, <2>2, <2>3 DEF CheckOpen
<1>7. CASE InstallOpen(l)
  <2> DEFINE p == task[l].cmd.path
             h == task[l].h
  <2>1. p \in Paths
    BY <1>3, <1>7 DEF InstallOpen
  <2>2. CASE Install(p, h) /\ reg' = [d |-> DriveOf(p), h |-> h] /\ apiPath' = p
             /\ Respond(l, TRUE, h)
    <3>1. HostTypes' /\ LinkTypes'
      BY <1>2, <2>2, RespondTypes
    <3>2. StoreInv' /\ reg' \in [d : Drives, h : Handles]
      BY <1>1, <1>2, <2>1, <2>2, InstallKeeps, DriveType
    <3> QED BY <1>1, <1>7, <2>1, <2>2, <3>1, <3>2
            DEF InstallOpen, Respond, DeviceTypes, TypeInv
  <2>3. CASE apiPath' = NoPath /\ Respond(l, FALSE, 0) /\ UNCHANGED <<storeVars, reg>>
    <3>1. HostTypes' /\ LinkTypes'
      BY <1>2, <2>3, RespondTypes
    <3> QED BY <1>1, <1>7, <2>3, <3>1, SameStore DEF InstallOpen, Respond, DeviceTypes, TypeInv
  <2> QED BY <1>7, <2>2, <2>3 DEF InstallOpen
<1>8. CASE WriteChunk(l)
  <2>1. PICK ok \in BOOLEAN : Respond(l, ok, 0)
    BY <1>8 DEF WriteChunk
  <2>2. HostTypes' /\ LinkTypes'
    BY <1>2, <2>1, RespondTypes
  <2> DEFINE chunk == [save |-> task[l].cmd.save, ix |-> task[l].cmd.ix]
  <2>3. chunk \in Chunk /\ [chunk EXCEPT !.ix = 0] \in Chunk
    BY <1>3, <1>8 DEF WriteChunk, Chunk
  <2>4. \/ AppendWrite(reg.d, task[l].cmd.h, chunk)
        \/ AppendWrite(reg.d, task[l].cmd.h, [chunk EXCEPT !.ix = 0])
        \/ UNCHANGED storeVars
    BY <1>8 DEF WriteChunk
  <2> HIDE DEF chunk
  <2>5. StoreInv'
    BY <1>1, <1>2, <2>3, <2>4, AppendKeeps, SameStore
  <2> QED BY <1>1, <1>8, <2>1, <2>2, <2>5 DEF WriteChunk, Respond, DeviceTypes, TypeInv
<1>9. CASE CloseFile(l)
  <2>1. /\ StartClose(l, task[l].cmd.h, task[l].cmd.op = "commit")
        /\ task[l].cmd.h \in Handles
        /\ UNCHANGED <<apiPath, inbox, replies, prefsVars, hostVars, reboots>>
        /\ link' \in [Links -> {"up", "dropped", "down"}]
    BY <1>1, <1>3, <1>9 DEF CloseFile, Continue, LinkTypes
  <2> QED BY <2>1, StartCloseTypes
<1>10. CASE RegisterScreen(l)
  <2>1. HostTypes' /\ LinkTypes'
    BY <1>10, GotoTypes DEF RegisterScreen, Steps
  <2>2. StoreInv'
    BY <1>1, <1>10, RemoveKeeps, SameStore DEF RegisterScreen
  <2> QED BY <1>1, <1>10, <2>1, <2>2 DEF RegisterScreen, Continue, DeviceTypes, TypeInv
<1>11. CASE NotifyChanged(l)
  <2>1. HostTypes' /\ LinkTypes'
    BY <1>11, GotoTypes DEF NotifyChanged, Steps
  <2> QED BY <1>1, <1>11, <2>1, SameStore DEF NotifyChanged, Continue, DeviceTypes, TypeInv
<1>12. CASE FinishClose(l)
  <2>1. HostTypes' /\ LinkTypes'
    BY <1>2, <1>12, RespondTypes DEF FinishClose
  <2> QED BY <1>1, <1>12, <2>1, SameStore DEF FinishClose, Respond, DeviceTypes, TypeInv
<1>13. CASE DeleteFile(l)
  <2>1. PICK ok \in BOOLEAN :
           /\ RemoveTree(task[l].cmd.path, ok)
           /\ task' = [task EXCEPT ![l].at = "unregister", ![l].ok = ok]
    BY <1>13 DEF DeleteFile
  <2>2. task' = [task EXCEPT ![l] = [task[l] EXCEPT !.at = "unregister", !.ok = ok]]
    BY <1>2, <2>1
  <2>3. /\ [task[l] EXCEPT !.at = "unregister", !.ok = ok] \in TaskType
        /\ [task[l] EXCEPT !.at = "unregister", !.ok = ok].cmd = task[l].cmd
    BY <1>2 DEF TaskType, Steps
  <2>4. HostTypes' /\ LinkTypes'
    BY <1>3, <1>13, <2>2, <2>3, ContinueTypes DEF DeleteFile, Carried
  <2>5. StoreInv' /\ task[l].cmd.path \in Paths
    BY <1>1, <1>3, <1>13, <2>1, RemoveKeeps DEF DeleteFile
  <2> QED BY <1>1, <1>13, <2>4, <2>5 DEF DeleteFile, Continue, DeviceTypes, TypeInv
<1>14. CASE MoveFile(l)
  <2> DEFINE commit == task[l].cmd.op = "commit"
  <2>1. PICK ok \in BOOLEAN :
           /\ MoveTmp(task[l].h, commit, ok)
           /\ task' = [task EXCEPT ![l].at = "settled", ![l].ok = ok]
           /\ IF ok /\ commit THEN Installed(txn["F"])
                              ELSE UNCHANGED <<committed, stale>>
    BY <1>14 DEF MoveFile
  <2> HIDE DEF commit
  <2>2. committed' \subseteq Nat /\ stale' \subseteq Paths
    BY <1>1, <2>1, MoveFacts, InstalledTypes DEF DeviceTypes
  <2>3. task' = [task EXCEPT ![l] = [task[l] EXCEPT !.at = "settled", !.ok = ok]]
    BY <1>2, <2>1
  <2>4. /\ [task[l] EXCEPT !.at = "settled", !.ok = ok] \in TaskType
        /\ [task[l] EXCEPT !.at = "settled", !.ok = ok].cmd = task[l].cmd
        /\ [task[l] EXCEPT !.at = "settled", !.ok = ok].at = "settled"
    BY <1>2 DEF TaskType, Steps
  <2>5. HostTypes' /\ LinkTypes'
    BY <1>2, <1>14, <2>3, <2>4, ContinueTypes DEF MoveFile, Carried
  <2>6. collided' \in BOOLEAN
    BY <1>14 DEF MoveFile
  <2>7. DeviceTypes'
    BY <1>1, <1>14, <2>2, <2>6 DEF MoveFile, Continue, DeviceTypes
  <2> QED BY <1>1, <2>1, <2>5, <2>7, MoveKeeps DEF TypeInv
<1>15. CASE EndClose(l)
  <2>1. PICK me \in TaskType : Carried(me) /\ task' = [task EXCEPT ![l] = me]
    BY <1>2, <1>15, AfterCloseTask DEF EndClose
  <2>2. HostTypes' /\ LinkTypes'
    BY <1>15, <2>1, ContinueTypes DEF EndClose
  <2>3. DeviceTypes'
    BY <1>1, <1>15, IdleTypes DEF EndClose, AfterClose, Continue, DeviceTypes
  <2> QED BY <1>1, <1>15, <2>2, <2>3, EndKeeps DEF EndClose, TypeInv
<1>16. CASE PanicWrite(l)
  BY <1>1, <1>16, RestartTypes DEF PanicWrite, DeviceTypes
<1>17. CASE NotifyDeleted(l)
  <2>1. HostTypes' /\ LinkTypes'
    BY <1>2, <1>17, RespondTypes DEF NotifyDeleted
  <2> QED BY <1>1, <1>17, <2>1, SameStore DEF NotifyDeleted, Respond, DeviceTypes, TypeInv
<1> QED BY <1>4, <1>5, <1>6, <1>7, <1>8, <1>9, <1>10, <1>11, <1>12, <1>13, <1>14,
           <1>15, <1>16, <1>17
        DEF Dispatch

-----------------------------------------------------------------------------
(* Cables, savers, power.                                                   *)

LEMMA CableTypes ==
    ASSUME TypeInv, NEW l \in Links, Cable(l) PROVE TypeInv'
<1> USE DEF prefsVars, hostVars
<1>1. StoreInv /\ HostTypes /\ LinkTypes /\ DeviceTypes
  BY DEF TypeInv
<1>2. CASE Unplug(l)
  <2>1. HostTypes'
    BY <1>1, <1>2, NoClientsType DEF Unplug
  <2>2. LinkTypes'
    BY <1>1, <1>2 DEF Unplug, LinkTypes
  <2> QED BY <1>1, <1>2, <2>1, <2>2, SameStore, SameDevice DEF Unplug, TypeInv
<1>3. CASE NoticeUnplug(l)
  <2>1. /\ StartClose(l, reg.h, FALSE) /\ reg.h \in Handles
        /\ UNCHANGED <<apiPath, inbox, replies, prefsVars, hostVars, reboots>>
        /\ link' \in [Links -> {"up", "dropped", "down"}]
    BY <1>1, <1>3 DEF NoticeUnplug, AbortOpenTransaction, LinkTypes, DeviceTypes
  <2> QED BY <2>1, StartCloseTypes
<1>4. CASE Replug(l)
  <2>1. LinkTypes'
    BY <1>1, <1>4 DEF Replug, LinkTypes
  <2> QED BY <1>1, <1>4, <2>1, SameStore, SameHosts, SameDevice DEF Replug, TypeInv
<1> QED BY <1>2, <1>3, <1>4 DEF Cable

LEMMA SaverPut ==
    ASSUME DeviceTypes, NEW s \in Savers, NEW me \in SaverType,
           saver' = [saver EXCEPT ![s] = me], prefs' \in Nat,
           UNCHANGED <<reg, apiPath, reboots, committed, stale>>,
           collided' \in BOOLEAN
    PROVE  DeviceTypes'
BY DEF DeviceTypes

LEMMA SaveTypes ==
    ASSUME TypeInv, NEW s \in Savers, Save(s) PROVE TypeInv'
<1> USE DEF saverRest, hostVars
<1>1. StoreInv /\ HostTypes /\ LinkTypes /\ DeviceTypes
  BY DEF TypeInv
<1>2. /\ saver[s] \in SaverType /\ saver \in [Savers -> SaverType]
      /\ saver[s].h \in Handles /\ saver[s].v \in Nat
      /\ prefs \in Nat /\ prefs + 1 \in Nat
      /\ PrefsPath \in Paths /\ DriveOf(PrefsPath) = "F"
  BY <1>1 DEF DeviceTypes, SaverType, DriveOf
<1>3. ASSUME UNCHANGED saverRest PROVE HostTypes' /\ LinkTypes'
  BY <1>1, <1>3, SameHosts, SameLinks
<1>4. CASE SavePrefs(s)
  <2>1. CASE CanOpen(PrefsPath)
    <3>1. NextHandle("F") \in Handles
      BY <1>1, HandleType DEF StoreInv
    <3>2. [at |-> "install", h |-> NextHandle("F"), v |-> prefs + 1] \in SaverType
      BY <1>2, <3>1 DEF SaverType
    <3>3. DeviceTypes'
      BY <1>1, <1>2, <1>4, <2>1, <3>2, SaverPut DEF SavePrefs, DeviceTypes
    <3> QED BY <1>1, <1>3, <1>4, <2>1, <3>3, AllocKeeps DEF SavePrefs, TypeInv
  <2>2. CASE ~CanOpen(PrefsPath)
    BY <1>1, <1>2, <1>3, <1>4, <2>2, SameStore DEF SavePrefs, DeviceTypes, TypeInv
  <2> QED BY <2>1, <2>2
<1>5. \A at \in {"close", "fclose", "settled"} :
         /\ [saver[s] EXCEPT !.at = at] \in SaverType
         /\ [saver EXCEPT ![s].at = at] = [saver EXCEPT ![s] = [saver[s] EXCEPT !.at = at]]
  BY <1>2 DEF SaverType
<1>6. CASE InstallPrefs(s)
  <2>1. DeviceTypes'
    BY <1>1, <1>2, <1>5, <1>6, IdleTypes, SaverPut DEF InstallPrefs, DeviceTypes
  <2> QED BY <1>1, <1>2, <1>3, <1>6, <2>1, InstallKeeps, SameStore DEF InstallPrefs, TypeInv
<1>7. CASE ClosePrefs(s)
  <2>1. DeviceTypes'
    BY <1>1, <1>2, <1>5, <1>7, IdleTypes, SaverPut DEF ClosePrefs, DeviceTypes
  <2>2. [save |-> 0, ix |-> saver[s].v] \in Chunk
    BY <1>2 DEF Chunk
  <2> QED BY <1>1, <1>2, <1>3, <1>7, <2>1, <2>2, AppendKeeps, SameStore DEF ClosePrefs, TypeInv
<1>8. CASE MovePrefs(s)
  <2>1. collided' \in BOOLEAN
    BY <1>8 DEF MovePrefs
  <2>2. DeviceTypes'
    BY <1>1, <1>2, <1>5, <1>8, <2>1, SaverPut DEF MovePrefs
  <2> QED BY <1>1, <1>3, <1>8, <2>2, MoveKeeps DEF MovePrefs, TypeInv
<1>9. CASE EndPrefs(s)
  <2>1. DeviceTypes'
    BY <1>1, <1>2, <1>9, IdleTypes, SaverPut DEF EndPrefs, DeviceTypes
  <2> QED BY <1>1, <1>3, <1>9, <2>1, EndKeeps DEF EndPrefs, TypeInv
<1>10. CASE PanicSave(s)
  BY <1>1, <1>10, RestartTypes DEF PanicSave, DeviceTypes
<1> QED BY <1>4, <1>6, <1>7, <1>8, <1>9, <1>10 DEF Save, StoreStep

LEMMA TypeStep == TypeInv /\ [Next]_vars => TypeInv'
<1> SUFFICES ASSUME TypeInv, [Next]_vars PROVE TypeInv'
  OBVIOUS
<1>1. CASE MountFlash
  BY <1>1, MountKeeps, SameHosts, SameLinks, SameDevice
     DEF MountFlash, TypeInv, prefsVars
<1>2. CASE UNCHANGED vars
  BY <1>2, SameStore, SameHosts, SameLinks, SameDevice
     DEF vars, TypeInv, storeVars, hostVars
<1>3. CASE Reboot
  <2>1. reboots' \in Nat
    BY <1>3 DEF Reboot, TypeInv, DeviceTypes
  <2> QED BY <1>3, <2>1, RestartTypes DEF Reboot
<1> QED BY <1>1, <1>2, <1>3, ClientTypes, ProgramTypes, DispatchTypes, CableTypes,
           SaveTypes DEF Next

(* The types of what clients, links, dispatchers, savers and stores hold:   *)
(* handles stay within their width though the counters wrap.                *)
THEOREM TypeCorrect == Spec => []TypeOK
BY TypeInit, TypeStep, TypesSuffice, PTL DEF Spec

-----------------------------------------------------------------------------
(* One program on one cable.                                                *)

(* One client on one link, whose commands are answered before it gives up;  *)
(* the counters do not come round to a handle that is in use.               *)
Alone(c, l) ==
    /\ Clients = {c} /\ Links = {l}
    /\ SlowDevice = FALSE
    /\ MaxSaves + MaxPrefs < HandleSpace

Request(c) == [op |-> client[c].op, save |-> client[c].save, path |-> client[c].path,
               h |-> client[c].h, ix |-> client[c].ix]

Busy(l) == task[l].at # "idle"

(* There is one command on its way, or one answer.                          *)
Channel(c, l) ==
    /\ session[l] => link[l] = "up"
    /\ client[c].op # "none" => session[l]
    /\ client[c].waiting => client[c].op # "none"
    /\ inbox[l] # <<>> => ~Busy(l) /\ inbox[l] = <<Head(inbox[l])>>
    /\ link[l] # "up" => inbox[l] = <<>>
    /\ session[l] /\ ~client[c].waiting =>
          ~Busy(l) /\ inbox[l] = <<>> /\ replies[l] = <<>>
    /\ client[c].waiting =>
          \/ replies[l] = <<>> /\ inbox[l] = <<Request(c)>>
          \/ replies[l] = <<>> /\ Busy(l) /\ task[l].cmd = Request(c)
          \/ ~Busy(l) /\ inbox[l] = <<>> /\ replies[l] = <<Head(replies[l])>>

(* The registered transaction is the one its filesystem has, and no close   *)
(* has been at its files.                                                   *)
Owned == reg.h # 0 /\ txn[reg.d].h = reg.h /\ txn[reg.d].fp

Part(s, n) == [i \in 1 .. n |-> [save |-> s, ix |-> i]]
Sent(x) == IF x.op = "write" THEN x.ix - 1 ELSE NChunks

(* A request x that is not carried out yet: what it may count on.           *)
Proper(x) ==
    /\ x.op # "none" => x.path \in HostPaths
    /\ x.op \in Ops \ {"delete"} => x.save \in Uploads /\ target[x.save] = x.path
    /\ x.op = "delete" => \E n \in 1 .. Len(deletes) : deletes[n] = x.path
    /\ x.op = "open" => x.save \notin committed /\ x.ix = 0
    /\ x.op = "write" => x.ix \in 1 .. NChunks
    /\ x.op \in {"write", "commit", "abort"} => reg.h \in {0, x.h}
    /\ x.op \in {"write", "commit"} /\ Owned =>
          /\ txn[reg.d].path = x.path
          /\ txn[reg.d].data = Part(x.save, Sent(x))
          /\ x.save \notin committed

Fits(at, op) ==
    /\ at \in {"stale", "check", "install"} => op = "open"
    /\ at = "write" => op = "write"
    /\ at = "close" => op \in {"commit", "abort"}
    /\ at \in {"fclose", "settled"} => op \in {"none", "open", "commit", "abort"}
    /\ at \in {"register", "notify"} => op = "commit"
    /\ at = "clear" => op \in {"commit", "abort"}
    /\ at \in {"remove", "unregister"} => op = "delete"

After(me, reply) ==
    IF reply.ok THEN AfterSuccess(me, reply.h) ELSE AfterFailure(me)

(* Whatever is on its way is proper, and an answer leads to what is.        *)
Work(c, l) ==
    /\ ~client[c].waiting => Proper(client[c])
    /\ inbox[l] # <<>> => Proper(Head(inbox[l])) /\ Head(inbox[l]).op # "none"
    /\ Busy(l) => Proper(task[l].cmd) /\ Fits(task[l].at, task[l].cmd.op)
    /\ client[c].waiting /\ replies[l] # <<>> => Proper(After(client[c], Head(replies[l])))
    /\ committed \subseteq Uploads
    /\ ~collided =>
          /\ acked \subseteq committed
          /\ client[c].waiting /\ replies[l] # <<>> =>
                (client[c].op = "commit" /\ Head(replies[l]).ok =>
                    client[c].save \in committed)

(* The file of the command has been replaced, the screens are not told yet. *)
Telling(l) ==
    \/ task[l].at \in {"register", "notify"}
    \/ task[l].at = "settled" /\ task[l].cmd.op = "commit" /\ task[l].ok

(* What the dispatcher has in hand.                                         *)
Hand(l) ==
    /\ task[l].at \in {"check", "install", "register", "notify", "clear"} => reg.h = 0
    /\ task[l].at \in {"fclose", "settled"} =>
          reg.d = "F" /\ reg.h = task[l].h /\ reg.h # 0
    /\ ~Busy(l) => task[l].cmd.op = "none"
    /\ Owned => apiPath = txn[reg.d].path /\ reg.d = DriveOf(apiPath)
    /\ ~collided =>
          /\ reg.h # 0 /\ txn[reg.d].h = reg.h /\ task[l].at # "settled" =>
                txn[reg.d].fp
          /\ Telling(l) => apiPath = task[l].cmd.path
          /\ task[l].at \in {"settled", "register", "notify", "clear"} /\ task[l].ok =>
                (task[l].cmd.op = "commit" => task[l].cmd.save \in committed)
          /\ stale = IF Telling(l) \/ task[l].at = "unregister"
                     THEN {task[l].cmd.path} ELSE {}

(* An open is on its way.                                                   *)
Coming(c, l) ==
    \/ client[c].op = "open" /\ ~client[c].waiting
    \/ inbox[l] # <<>> /\ Head(inbox[l]).op = "open"
    \/ task[l].at \in {"stale", "fclose", "settled", "check"} /\ task[l].cmd.op = "open"

(* No two of those who write have the same handle.                          *)
Apart(l) ==
    /\ \A d \in Drives : txn[d].h <= next[d]
    /\ reg.h <= next[reg.d]
    /\ task[l].at = "install" =>
          task[l].h # 0 /\ task[l].h <= next[DriveOf(task[l].cmd.path)]
    /\ \A s \in Savers : saver[s].at # "idle" =>
          /\ saver[s].h # 0 /\ saver[s].h <= next["F"]
          /\ reg.d = "F" => reg.h # saver[s].h
          /\ task[l].at = "install" /\ DriveOf(task[l].cmd.path) = "F" =>
                task[l].h # saver[s].h
    /\ \A s, t \in Savers :
          s # t /\ saver[s].at # "idle" /\ saver[t].at # "idle" => saver[s].h # saver[t].h
    /\ \A s \in Savers :
          saver[s].at \in {"close", "fclose", "settled"} /\ txn["F"].h = saver[s].h =>
             /\ txn["F"].path = PrefsPath
             /\ txn["F"].data = IF saver[s].at = "close" THEN <<>>
                                                         ELSE PrefsImage(saver[s].v)

(* Every handle was given to an upload or to a change of the preferences.   *)
Counted(c, l) ==
    /\ \A d \in Drives :
          next[d] + (IF Coming(c, l) THEN 1 ELSE 0) <= Len(target) + prefs
    /\ Len(target) <= MaxSaves /\ prefs <= MaxPrefs

(* With one task that saves preferences, newer ones replace older ones.     *)
PrefsInv ==
    /\ \A s \in Savers : saver[s].at \in {"install", "close", "fclose"} =>
          /\ saver[s].v = prefs /\ prefs > 0
          /\ file[PrefsPath] # PrefsImage(prefs)
    /\ \/ file[PrefsPath] = Absent
       \/ \E v \in 1 .. prefs : file[PrefsPath] = PrefsImage(v)

-----------------------------------------------------------------------------
(* Parts of uploads, and requests.                                          *)

LEMMA Parts ==
    ASSUME NEW s \in Nat
    PROVE  /\ Part(s, 0) = <<>>
           /\ Whole(s) = Part(s, NChunks)
           /\ \A n \in Nat \ {0} :
                 Append(Part(s, n - 1), [save |-> s, ix |-> n]) = Part(s, n)
<1>1. Part(s, 0) = <<>>
  BY DEF Part
<1>2. Whole(s) = Part(s, NChunks)
  BY DEF Part, Whole
<1>3. ASSUME NEW n \in Nat \ {0}
      PROVE  Append(Part(s, n - 1), [save |-> s, ix |-> n]) = Part(s, n)
  <2> DEFINE e == [save |-> s, ix |-> n]
  <2>1. \A i \in Nat : [save |-> s, ix |-> i] \in Chunk
    BY DEF Chunk
  <2>2. Part(s, n - 1) \in Seq(Chunk) /\ Part(s, n) \in Seq(Chunk) /\ e \in Chunk
    BY <2>1 DEF Part
  <2>3. Len(Part(s, n - 1)) = n - 1 /\ Len(Part(s, n)) = n
    BY DEF Part
  <2>4. /\ Append(Part(s, n - 1), e) \in Seq(Chunk)
        /\ Len(Append(Part(s, n - 1), e)) = n
        /\ \A i \in 1 .. n - 1 : Append(Part(s, n - 1), e)[i] = Part(s, n - 1)[i]
        /\ Append(Part(s, n - 1), e)[n] = e
    BY <2>2, <2>3, AppendProperties
  <2>5. /\ \A i \in 1 .. n - 1 : Part(s, n - 1)[i] = Part(s, n)[i]
        /\ Part(s, n)[n] = e
    BY DEF Part
  <2>6. \A i \in 1 .. n : i \in 1 .. n - 1 \/ i = n
    OBVIOUS
  <2>7. \A i \in 1 .. n : Append(Part(s, n - 1), e)[i] = Part(s, n)[i]
    BY <2>4, <2>5, <2>6
  <2> HIDE DEF e
  <2> QED BY <2>2, <2>3, <2>4, <2>7, SeqEqual DEF e
<1> QED BY <1>1, <1>2, <1>3

(* What is next after an answer.                                            *)
LEMMA AfterFields ==
    ASSUME NEW me \in ClientType, NEW reply \in Reply, NEW a, a = After(me, reply)
    PROVE  /\ a.op # "open" /\ a.op # "delete" /\ ~a.waiting
           /\ a.op # "none" => a.save = me.save /\ a.path = me.path
                               /\ me.op \in {"open", "write", "commit"}
           /\ a.op = "abort" => ~reply.ok /\ me.op \in {"write", "commit"} /\ a.h = me.h
           /\ a.op \in {"write", "commit"} =>
                 /\ reply.ok /\ me.op \in {"open", "write"}
                 /\ a.h = IF me.op = "open" THEN reply.h ELSE me.h
                 /\ a.op = "write" <=> me.ix < NChunks
                 /\ a.op = "write" => a.ix = me.ix + 1
<1>1. Idle.op = "none" /\ Idle.waiting = FALSE
  BY DEF Idle
<1>2. CASE ~reply.ok /\ me.op \in {"write", "commit"}
  <2>1. a = [me EXCEPT !.op = "abort", !.waiting = FALSE]
    BY <1>2 DEF After, AfterFailure
  <2> QED BY <1>2, <2>1 DEF ClientType
<1>3. CASE ~reply.ok /\ me.op \notin {"write", "commit"}
  <2>1. a = Idle
    BY <1>3 DEF After, AfterFailure
  <2> QED BY <1>1, <2>1
<1>4. CASE reply.ok /\ me.op \in {"open", "write"} /\ me.ix < NChunks
  <2>1. a = [me EXCEPT !.op = "write", !.ix = me.ix + 1, !.waiting = FALSE,
                       !.h = IF me.op = "open" THEN reply.h ELSE me.h]
    BY <1>4 DEF After, AfterSuccess, ClientType
  <2> QED BY <1>4, <2>1 DEF ClientType
<1>5. CASE reply.ok /\ me.op \in {"open", "write"} /\ ~(me.ix < NChunks)
  <2>1. me.ix >= NChunks
    BY <1>5 DEF ClientType
  <2>2. a = [me EXCEPT !.op = "commit", !.waiting = FALSE,
                       !.h = IF me.op = "open" THEN reply.h ELSE me.h]
    BY <1>5, <2>1 DEF After, AfterSuccess, ClientType
  <2> QED BY <1>5, <2>2 DEF ClientType
<1>6. CASE reply.ok /\ me.op \notin {"open", "write"}
  <2>1. a = Idle
    BY <1>6 DEF After, AfterSuccess
  <2> QED BY <1>1, <2>1
<1>7. reply.ok \in BOOLEAN
  BY DEF Reply
<1> QED BY <1>2, <1>3, <1>4, <1>5, <1>6, <1>7

LEMMA NoneProper == \A x : x.op = "none" => Proper(x)
BY DEF Proper, Ops

LEMMA LikeProper ==
    \A x, y : /\ x.op = y.op /\ x.save = y.save /\ x.path = y.path
              /\ x.h = y.h /\ x.ix = y.ix
              /\ Proper(x)
              => Proper(y)
BY DEF Proper, Sent

(* A step that leaves the registered transaction alone, or the registry     *)
(* empty, or comes between a transaction and its own close.                 *)
Stays ==
    \/ reg'.h = 0
    \/ /\ reg' = reg
       /\ \/ txn'[reg.d] = txn[reg.d]
          \/ txn'[reg.d].h # reg.h
          \/ ~txn'[reg.d].fp /\ collided'

LEMMA StaysOwned ==
    ASSUME Stays, Owned'
    PROVE  Owned /\ reg' = reg /\ txn'[reg.d] = txn[reg.d]
BY DEF Stays, Owned

(* What a step has to keep of what is on its way.                           *)
LEMMA ProperStays ==
    ASSUME \A s \in Uploads : s \in Uploads' /\ target'[s] = target[s],
           \A n \in 1 .. Len(deletes) :
              n \in 1 .. Len(deletes') /\ deletes'[n] = deletes[n],
           committed' = committed, Stays
    PROVE  \A x : Proper(x) => Proper(x)'
<1>1. SUFFICES ASSUME NEW x, Proper(x) PROVE Proper(x)'
  OBVIOUS
<1>2. x.op \in Ops \ {"delete"} => x.save \in Uploads' /\ target'[x.save] = x.path
  BY <1>1 DEF Proper
<1>3. x.op = "delete" => \E n \in 1 .. Len(deletes') : deletes'[n] = x.path
  BY <1>1 DEF Proper
<1>4. x.op \in {"write", "commit", "abort"} => reg'.h \in {0, x.h}
  BY <1>1 DEF Proper, Stays
<1>5. x.op \in {"write", "commit"} /\ Owned' =>
          /\ txn'[reg'.d].path = x.path
          /\ txn'[reg'.d].data = Part(x.save, Sent(x))
          /\ x.save \notin committed'
  BY <1>1, StaysOwned DEF Proper
<1>6. Part(x.save, Sent(x))' = Part(x.save, Sent(x))
  BY DEF Part, Sent
<1> QED BY <1>1, <1>2, <1>3, <1>4, <1>5, <1>6 DEF Proper

LEMMA SameProper ==
    ASSUME UNCHANGED <<target, deletes, committed, reg, txn>>
    PROVE  \A x : Proper(x) => Proper(x)'
BY ProperStays DEF Uploads, Stays

-----------------------------------------------------------------------------
(* What is kept.                                                            *)

LEMMA OneEach ==
    ASSUME NEW c, NEW l, Alone(c, l)
    PROVE  /\ c \in Clients /\ l \in Links /\ LinkOf[c] = l
           /\ \A b \in Clients : b = c
           /\ \A k \in Links : k = l
BY DEF Alone

(* While the dispatcher is busy, the client waits for it, or is gone.       *)
LEMMA BusyChannel ==
    ASSUME NEW c, NEW l, Channel(c, l), Busy(l)
    PROVE  /\ inbox[l] = <<>>
           /\ client[c].waiting => replies[l] = <<>> /\ task[l].cmd = Request(c)
           /\ ~client[c].waiting => client[c].op = "none"
           /\ link[l] # "up" => ~client[c].waiting
<1>1. inbox[l] = <<>>
  BY DEF Channel
<1>2. inbox[l] # <<Request(c)>>
  BY <1>1
<1> QED BY <1>1, <1>2 DEF Channel

(* Steps of a command that do not answer it.                                *)
LEMMA ContinueChannel ==
    ASSUME NEW c, NEW l, Channel(c, l), Busy(l), Continue,
           task'[l].at # "idle", task'[l].cmd = task[l].cmd
    PROVE  Channel(c, l)'
<1>1. UNCHANGED <<inbox, replies, link, session, client>>
  BY DEF Continue, hostVars
<1>2. Request(c)' = Request(c)
  BY <1>1 DEF Request
<1> QED BY <1>1, <1>2, BusyChannel DEF Channel, Busy

LEMMA ContinueWork ==
    ASSUME NEW c, NEW l, Channel(c, l), Work(c, l), Busy(l), Continue,
           task'[l].at # "idle", task'[l].cmd = task[l].cmd,
           Fits(task'[l].at, task[l].cmd.op),
           \A x : x = task[l].cmd => Proper(x)',
           committed \subseteq committed', committed' \subseteq Uploads,
           collided => collided'
    PROVE  Work(c, l)'
<1>1. UNCHANGED <<inbox, replies, client, acked, target>>
  BY DEF Continue, hostVars
<1>2. /\ inbox[l] = <<>>
      /\ client[c].waiting => replies[l] = <<>>
      /\ ~client[c].waiting => client[c].op = "none"
  BY BusyChannel
<1>3. \A x : x.op = "none" => Proper(x)'
  BY NoneProper DEF Proper, Ops
<1>4. ~client'[c].waiting => Proper(client[c])'
  BY <1>1, <1>2, <1>3
<1>5. Proper(task[l].cmd)'
  OBVIOUS
<1> QED BY <1>1, <1>2, <1>4, <1>5 DEF Work, Busy, Fits, Uploads

LEMMA AnswerChannel ==
    ASSUME NEW c, NEW l, TypeInv, l \in Links, Channel(c, l), Busy(l),
           NEW ok \in BOOLEAN, NEW h \in Handles, Respond(l, ok, h)
    PROVE  /\ Channel(c, l)'
           /\ task'[l] = IdleTask /\ ~Busy(l)'
           /\ client[c].waiting => replies'[l] = <<[ok |-> ok, h |-> h]>>
<1>1. /\ UNCHANGED <<inbox, link, session, client>>
      /\ task'[l] = IdleTask /\ task'[l].at = "idle"
  BY IdleTypes DEF Respond, hostVars, TypeInv, LinkTypes
<1>2. client[c].waiting => replies'[l] = Append(replies[l], [ok |-> ok, h |-> h])
  BY BusyChannel DEF Respond, TypeInv, LinkTypes
<1>3. client[c].waiting => replies'[l] = <<[ok |-> ok, h |-> h]>>
  BY <1>2, BusyChannel
<1>4. client[c].waiting => replies'[l] = <<Head(replies'[l])>>
  BY <1>3
<1>5. session[l] => client[c].waiting
  BY DEF Channel
<1> QED BY <1>1, <1>3, <1>4, <1>5, BusyChannel DEF Channel, Busy

LEMMA AnswerWork ==
    ASSUME NEW c, NEW l, TypeInv, c \in Clients, l \in Links,
           Channel(c, l), Work(c, l), Busy(l),
           NEW ok \in BOOLEAN, NEW h \in Handles, Respond(l, ok, h),
           committed' = committed, collided' = collided,
           \A x : x.save = task[l].cmd.save /\ x.path = task[l].cmd.path
                  /\ x.h = (IF task[l].cmd.op = "open" THEN h ELSE task[l].cmd.h)
                  /\ (x.op \in {"write", "commit"} =>
                        /\ ok /\ task[l].cmd.op \in {"open", "write"}
                        /\ x.op = "write" <=> task[l].cmd.ix < NChunks
                        /\ x.op = "write" => x.ix = task[l].cmd.ix + 1)
                  /\ (x.op = "abort" => ~ok /\ task[l].cmd.op \in {"write", "commit"})
                  /\ x.op \in {"write", "commit", "abort"}
                  => Proper(x)',
           ~collided /\ task[l].cmd.op = "commit" /\ ok => task[l].cmd.save \in committed
    PROVE  Work(c, l)'
<1> DEFINE r == [ok |-> ok, h |-> h]
           me == client[c]
           a == After(me, r)
<1>1. /\ UNCHANGED <<inbox, client, acked, target>>
      /\ task'[l] = IdleTask /\ ~Busy(l)'
      /\ me.waiting => replies'[l] = <<r>>
  BY AnswerChannel DEF Respond, hostVars
<1>2. /\ inbox[l] = <<>>
      /\ me.waiting => task[l].cmd = Request(c)
      /\ ~me.waiting => me.op = "none"
  BY BusyChannel
<1>3. \A x : x.op = "none" => Proper(x)'
  BY DEF Proper, Ops
<1>4. me \in ClientType /\ r \in Reply /\ r.ok = ok /\ r.h = h
  BY DEF TypeInv, HostTypes, Reply
<1>5. ASSUME me.waiting
      PROVE  /\ \A x : x = a => Proper(x)'
             /\ ~collided /\ me.op = "commit" /\ ok => me.save \in committed
  <2>1. /\ task[l].cmd.op = me.op /\ task[l].cmd.save = me.save
        /\ task[l].cmd.path = me.path /\ task[l].cmd.h = me.h /\ task[l].cmd.ix = me.ix
    BY <1>2, <1>5 DEF Request
  <2>2. /\ a.op \notin {"open", "delete"}
        /\ a.op # "none" => a.save = me.save /\ a.path = me.path
                            /\ me.op \in {"open", "write", "commit"}
        /\ a.op = "abort" => ~ok /\ me.op \in {"write", "commit"} /\ a.h = me.h
        /\ a.op \in {"write", "commit"} =>
              /\ ok /\ me.op \in {"open", "write"}
              /\ a.h = IF me.op = "open" THEN h ELSE me.h
              /\ a.op = "write" <=> me.ix < NChunks
              /\ a.op = "write" => a.ix = me.ix + 1
    <3> HIDE DEF r, me
    <3> QED BY <1>4, AfterFields
  <2>3. a.op \in {"write", "commit", "abort", "none"}
    <3>1. \A x : x \in ClientType => x.op \in Ops \cup {"none"}
      BY DEF ClientType
    <3>2. me.op # "none" => me.path \in Paths
      BY DEF TypeInv, HostTypes
    <3>3. a \in ClientType
      BY <1>4, <3>2, AfterType DEF After
    <3> QED BY <2>2, <3>1, <3>3 DEF Ops
  <2> HIDE DEF a, me, r
  <2>4. \A x : x = a => Proper(x)'
    BY <1>3, <2>1, <2>2, <2>3
  <2>5. ~collided /\ me.op = "commit" /\ ok => me.save \in committed
    BY <2>1
  <2> QED BY <2>4, <2>5
<1>6. ~me.waiting => Proper(me)'
  BY <1>1, <1>2, <1>3
<1>7. me.waiting => Head(replies'[l]) = r
  BY <1>1
<1>8. (~collided' => acked' \subseteq committed') /\ committed' \subseteq Uploads'
  BY <1>1 DEF Work, Uploads
<1>9. me' = me /\ inbox'[l] = <<>>
  BY <1>1, <1>2
<1>10. me'.waiting => Proper(After(client[c], Head(replies[l])))'
  <2>1. me.waiting => After(client[c], Head(replies[l]))' = a
    BY <1>1, <1>7
  <2> HIDE DEF a
  <2> QED BY <1>1, <1>5, <2>1
<1> QED BY <1>1, <1>4, <1>5, <1>6, <1>7, <1>8, <1>9, <1>10 DEF Work

(* A step that hands out no handle.                                         *)
LEMMA ApartKeeps ==
    ASSUME NEW l, TypeInv, l \in Links, Apart(l),
           next' = next, saver' = saver,
           \A d \in Drives : txn'[d].h \in {0, txn[d].h},
           \/ txn'["F"].path = txn["F"].path /\ txn'["F"].data = txn["F"].data
           \/ txn'["F"].h = 0
           \/ Owned /\ reg.d = "F",
           reg' = reg \/ reg' = NoReg,
           task'[l].at = "install" => task'[l] = task[l]
    PROVE  Apart(l)'
<1>1. /\ next \in [Drives -> Handles] /\ txn \in [Drives -> Txn]
      /\ reg \in [d : Drives, h : Handles] /\ NoReg.h = 0 /\ NoReg.d \in Drives
      /\ saver \in [Savers -> SaverType]
  BY DEF TypeInv, StoreInv, StoreTypeOK, DeviceTypes, NoReg
<1>2. \A d \in Drives : next[d] \in Nat /\ txn[d].h \in Nat
  BY <1>1 DEF Txn
<1>3. \A d \in Drives : txn'[d].h <= next'[d]
  BY <1>2 DEF Apart
<1>4. reg'.h <= next'[reg'.d]
  BY <1>1, <1>2 DEF Apart
<1>5. task'[l].at = "install" =>
         task'[l].h # 0 /\ task'[l].h <= next'[DriveOf(task'[l].cmd.path)]
  BY DEF Apart
<1>6. \A s \in Savers : saver'[s].at # "idle" =>
          /\ saver'[s].h # 0 /\ saver'[s].h <= next'["F"]
          /\ reg'.d = "F" => reg'.h # saver'[s].h
          /\ task'[l].at = "install" /\ DriveOf(task'[l].cmd.path) = "F" =>
                task'[l].h # saver'[s].h
  BY <1>1 DEF Apart
<1>7. ASSUME NEW s \in Savers, saver'[s].at \in {"close", "fclose", "settled"},
             txn'["F"].h = saver'[s].h
      PROVE  /\ txn'["F"].path = PrefsPath
             /\ txn'["F"].data = IF saver[s].at = "close" THEN <<>>
                                                          ELSE PrefsImage(saver[s].v)
  <2>1. saver[s].at # "idle" /\ saver[s].h # 0 /\ txn["F"].h = saver[s].h
    BY <1>7 DEF Apart
  <2>2. ~(Owned /\ reg.d = "F")
    BY <2>1 DEF Owned, Apart
  <2> QED BY <1>7, <2>1, <2>2 DEF Apart
<1>8. \A p : DriveOf(p)' = DriveOf(p)
  BY DEF DriveOf
<1>9. \A s, t \in Savers :
         s # t /\ saver'[s].at # "idle" /\ saver'[t].at # "idle" => saver'[s].h # saver'[t].h
  BY DEF Apart
<1>10. \A v : PrefsImage(v)' = PrefsImage(v)
  BY DEF PrefsImage
<1> QED BY <1>3, <1>4, <1>5, <1>6, <1>7, <1>8, <1>9, <1>10 DEF Apart

LEMMA CountedKeeps ==
    ASSUME NEW c, NEW l, TypeInv, Counted(c, l), next' = next, prefs' = prefs,
           target' = target, Coming(c, l)' => Coming(c, l)
    PROVE  Counted(c, l)'
<1>1. \A d \in Drives : next[d] \in Nat
  BY DEF TypeInv, StoreInv, StoreTypeOK
<1>2. Len(target) \in Nat /\ prefs \in Nat
  BY DEF TypeInv, HostTypes, DeviceTypes
<1> QED BY <1>1, <1>2 DEF Counted

LEMMA HandKeeps ==
    ASSUME NEW l, Hand(l), task'[l] = task[l], UNCHANGED <<apiPath, stale>>,
           committed \subseteq committed', collided => collided', Stays, reg' = reg
    PROVE  Hand(l)'
<1>1. \A p : DriveOf(p)' = DriveOf(p)
  BY DEF DriveOf
<1>2. Owned' => apiPath' = txn'[reg'.d].path /\ reg'.d = DriveOf(apiPath)'
  BY <1>1, StaysOwned DEF Hand
<1>3. /\ task'[l].at \in {"check", "install", "register", "notify", "clear"} => reg'.h = 0
      /\ ~Busy(l)' => task'[l].cmd.op = "none"
  BY DEF Hand, Stays, Busy
<1>4. ~collided' /\ reg'.h # 0 /\ txn'[reg'.d].h = reg'.h /\ task'[l].at # "settled" =>
          txn'[reg'.d].fp
  BY DEF Hand, Stays
<1>5. ~collided' =>
          /\ Telling(l)' => apiPath' = task'[l].cmd.path
          /\ task'[l].at \in {"settled", "register", "notify", "clear"} /\ task'[l].ok =>
                (task'[l].cmd.op = "commit" => task'[l].cmd.save \in committed')
          /\ stale' = IF Telling(l)' \/ task'[l].at = "unregister"
                      THEN {task'[l].cmd.path} ELSE {}
  BY DEF Hand, Telling
<1>6. task'[l].at \in {"fclose", "settled"} =>
          reg'.d = "F" /\ reg'.h = task'[l].h /\ reg'.h # 0
  BY DEF Hand, Stays
<1> QED BY <1>2, <1>3, <1>4, <1>5, <1>6 DEF Hand

(* An open transaction has an owner.                                        *)
Saving(s) == saver[s].at \in {"close", "fclose", "settled"}

LEMMA OwnerKeeps ==
    ASSUME TypeInv, NoOrphanTxn, saver' = saver,
           \A d \in Drives : txn'[d].h \in {0, txn[d].h},
           reg' = reg \/ reg.h = 0 \/ txn'[reg.d].h # reg.h
    PROVE  NoOrphanTxn'
<1>1. reg \in [d : Drives, h : Handles]
  BY DEF TypeInv, DeviceTypes
<1>2. SUFFICES ASSUME NEW d \in Drives, txn'[d].h # 0
      PROVE  \/ reg' = [d |-> d, h |-> txn'[d].h]
             \/ d = "F" /\ \E s \in Savers :
                  saver'[s].at \in {"close", "fclose", "settled"} /\ saver'[s].h = txn'[d].h
  BY DEF NoOrphanTxn
<1>3. txn'[d].h = txn[d].h /\ txn[d].h # 0
  BY <1>2
<1>4. \/ reg = [d |-> d, h |-> txn[d].h]
      \/ d = "F" /\ \E s \in Savers : Saving(s) /\ saver[s].h = txn[d].h
  BY <1>3 DEF NoOrphanTxn, Saving
<1>5. CASE reg = [d |-> d, h |-> txn[d].h]
  <2>1. reg.d = d /\ reg.h = txn[d].h
    BY <1>5
  <2> QED BY <1>3, <1>5, <2>1
<1>6. CASE d = "F" /\ \E s \in Savers : Saving(s) /\ saver[s].h = txn[d].h
  BY <1>3, <1>6 DEF Saving
<1> QED BY <1>4, <1>5, <1>6

-----------------------------------------------------------------------------
(* The steps of the program.                                                *)

Held(c, l) ==
    /\ Channel(c, l) /\ Work(c, l) /\ Hand(l) /\ Apart(l) /\ Counted(c, l)
    /\ NoOrphanTxn

(* The device stands still.                                                 *)
LEMMA HostKeeps ==
    ASSUME NEW l, TypeInv, l \in Links, Hand(l), Apart(l), NoOrphanTxn,
           UNCHANGED deviceVars
    PROVE  Hand(l)' /\ Apart(l)' /\ NoOrphanTxn'
<1>1. UNCHANGED <<txn, next, reg, apiPath, task, saver, committed, stale, collided>>
  BY DEF deviceVars
<1>2. Hand(l)'
  BY <1>1, HandKeeps DEF Stays
<1>3. Apart(l)'
  BY <1>1, ApartKeeps
<1>4. NoOrphanTxn'
  BY <1>1 DEF NoOrphanTxn
<1> QED BY <1>2, <1>3, <1>4

(* A client at rest: nothing is on its way.                                 *)
LEMMA Quiet ==
    ASSUME NEW c, NEW l, Channel(c, l), session[l], ~client[c].waiting
    PROVE  ~Busy(l) /\ inbox[l] = <<>> /\ replies[l] = <<>> /\ link[l] = "up"
BY DEF Channel

LEMMA BeginSaveKeeps ==
    ASSUME NEW c, NEW l, Alone(c, l), TypeInv, Held(c, l),
           NEW p \in HostPaths, BeginSave(c, p)
    PROVE  Held(c, l)'
<1> DEFINE me == [Idle EXCEPT !.op = "open", !.path = p, !.save = Len(target) + 1]
<1>1. c \in Clients /\ l \in Links /\ LinkOf[c] = l
  BY OneEach
<1>2. /\ session[l] /\ client[c].op = "none" /\ ~client[c].waiting
      /\ Len(target) < MaxSaves
  BY <1>1 DEF BeginSave, Held, Channel
<1>3. ~Busy(l) /\ inbox[l] = <<>> /\ replies[l] = <<>> /\ link[l] = "up"
  BY <1>2, Quiet DEF Held
<1>4. /\ me.op = "open" /\ me.path = p /\ me.save = Len(target) + 1
      /\ me.ix = 0 /\ ~me.waiting
  BY DEF Idle
<1>5. client'[c] = me
  BY <1>1 DEF BeginSave, TypeInv, HostTypes
<1> HIDE DEF me
<1>6. /\ UNCHANGED deviceVars
      /\ UNCHANGED <<inbox, replies, session, deletes, acked>>
      /\ UNCHANGED <<txn, next, reg, task, link, prefs, committed, collided>>
      /\ target' = Append(target, p)
  BY DEF BeginSave, deviceVars
<1>7. /\ target \in Seq(Paths) /\ p \in Paths /\ Len(target) \in Nat
      /\ prefs \in Nat /\ \A d \in Drives : next[d] \in Nat
  BY DEF TypeInv, HostTypes, DeviceTypes, StoreInv, StoreTypeOK
<1>8. /\ Len(target') = Len(target) + 1
      /\ \A s \in Uploads : s \in Uploads' /\ target'[s] = target[s]
      /\ Len(target) + 1 \in Uploads' /\ target'[Len(target) + 1] = p
      /\ Len(target) + 1 \notin Uploads
  BY <1>6, <1>7 DEF Uploads
<1>9. Channel(c, l)'
  BY <1>2, <1>3, <1>4, <1>5, <1>6 DEF Channel, Busy
<1>10. Work(c, l)'
  <2>2. (~collided' => acked' \subseteq committed') /\ committed' \subseteq Uploads'
    BY <1>6, <1>8 DEF Held, Work
  <2>3. ~Busy(l)' /\ inbox'[l] = <<>> /\ replies'[l] = <<>>
    BY <1>3, <1>6 DEF Busy
  <2>4. Proper(client[c])'
    BY <1>4, <1>5, <1>6, <1>8 DEF Proper, Held, Work, Ops
  <2> QED BY <2>2, <2>3, <2>4 DEF Work
<1>11. Counted(c, l)'
  BY <1>2, <1>6, <1>7, <1>8, SMTT(20) DEF Held, Counted
<1> QED BY <1>1, <1>6, <1>9, <1>10, <1>11, HostKeeps DEF Held

LEMMA BeginDeleteKeeps ==
    ASSUME NEW c, NEW l, Alone(c, l), TypeInv, Held(c, l),
           NEW p \in HostPaths, BeginDelete(c, p)
    PROVE  Held(c, l)'
<1> DEFINE me == [Idle EXCEPT !.op = "delete", !.path = p]
<1>1. c \in Clients /\ l \in Links /\ LinkOf[c] = l
  BY OneEach
<1>2. session[l] /\ client[c].op = "none" /\ ~client[c].waiting
  BY <1>1 DEF BeginDelete, Held, Channel
<1>3. ~Busy(l) /\ inbox[l] = <<>> /\ replies[l] = <<>> /\ link[l] = "up"
  BY <1>2, Quiet DEF Held
<1>4. me.op = "delete" /\ me.path = p /\ ~me.waiting
  BY DEF Idle
<1>5. client'[c] = me
  BY <1>1 DEF BeginDelete, TypeInv, HostTypes
<1> HIDE DEF me
<1>6. /\ UNCHANGED deviceVars
      /\ UNCHANGED <<inbox, replies, session, target, acked>>
      /\ UNCHANGED <<txn, next, reg, task, link, prefs, committed, collided>>
      /\ deletes' = Append(deletes, p)
  BY DEF BeginDelete, deviceVars
<1>7. \E n \in 1 .. Len(deletes') : deletes'[n] = p
  <2>1. deletes \in Seq(Paths) /\ p \in Paths
    BY DEF TypeInv, HostTypes
  <2>2. Len(deletes) + 1 \in 1 .. Len(deletes') /\ deletes'[Len(deletes) + 1] = p
    BY <1>6, <2>1
  <2> QED BY <2>2
<1>8. Channel(c, l)'
  BY <1>2, <1>3, <1>4, <1>5, <1>6 DEF Channel, Busy
<1>9. Work(c, l)'
  <2>1. Proper(client[c])'
    BY <1>4, <1>5, <1>7 DEF Proper, Ops
  <2>2. (~collided' => acked' \subseteq committed') /\ committed' \subseteq Uploads'
    BY <1>6 DEF Held, Work, Uploads
  <2>3. ~Busy(l)' /\ inbox'[l] = <<>> /\ replies'[l] = <<>>
    BY <1>3, <1>6 DEF Busy
  <2> QED BY <2>1, <2>2, <2>3 DEF Work
<1>10. Counted(c, l)'
  <2>1. Coming(c, l)' => Coming(c, l)
    BY <1>3, <1>4, <1>5, <1>6 DEF Coming, Busy
  <2> QED BY <1>6, <2>1, CountedKeeps DEF Held
<1> QED BY <1>1, <1>6, <1>8, <1>9, <1>10, HostKeeps DEF Held

LEMMA SendKeeps ==
    ASSUME NEW c, NEW l, Alone(c, l), TypeInv, Held(c, l), Send(c)
    PROVE  Held(c, l)'
<1>1. c \in Clients /\ l \in Links /\ LinkOf[c] = l
  BY OneEach
<1>2. client[c].op # "none" /\ ~client[c].waiting /\ session[l]
  BY <1>1 DEF Send, Held, Channel
<1>3. ~Busy(l) /\ inbox[l] = <<>> /\ replies[l] = <<>> /\ link[l] = "up"
  BY <1>2, Quiet DEF Held
<1>4. /\ UNCHANGED deviceVars
      /\ UNCHANGED <<replies, session, target, deletes, acked>>
      /\ UNCHANGED <<txn, next, reg, task, link, prefs, committed, collided>>
  BY DEF Send, deviceVars
<1>5. /\ client'[c].waiting /\ client'[c].op = client[c].op
      /\ client'[c].save = client[c].save /\ client'[c].path = client[c].path
      /\ client'[c].h = client[c].h /\ client'[c].ix = client[c].ix
  <2>1. client[c] \in ClientType /\ client' = [client EXCEPT ![c].waiting = TRUE]
        /\ client \in [Clients -> ClientType]
    BY <1>1 DEF Send, TypeInv, HostTypes
  <2> QED BY <1>1, <2>1 DEF ClientType
<1>6. inbox'[l] = <<Request(c)>> /\ Head(inbox'[l]) = Request(c)
  <2>1. inbox' = [inbox EXCEPT ![l] = Append(@, Request(c))]
    BY <1>1 DEF Send, Request
  <2> QED BY <1>1, <1>3, <2>1 DEF TypeInv, LinkTypes
<1>7. Request(c)' = Request(c)
  BY <1>5 DEF Request
<1>8. Channel(c, l)'
  BY <1>2, <1>3, <1>4, <1>5, <1>6, <1>7 DEF Channel, Busy
<1>9. Work(c, l)'
  <2>1. Proper(Request(c))
    BY <1>2, LikeProper DEF Request, Held, Work
  <2>2. Proper(Request(c))'
    <3>1. \A x : x = Request(c) => Proper(x)'
      BY <1>4, <2>1, SameProper
    <3> QED BY <1>7, <3>1
  <2>3. Proper(Head(inbox[l]))' /\ Head(inbox'[l]).op # "none"
    BY <1>2, <1>6, <1>7, <2>2 DEF Request
  <2>4. (~collided' => acked' \subseteq committed') /\ committed' \subseteq Uploads'
    BY <1>4 DEF Held, Work, Uploads
  <2>5. ~Busy(l)' /\ replies'[l] = <<>>
    BY <1>3, <1>4 DEF Busy
  <2> QED BY <1>5, <2>3, <2>4, <2>5 DEF Work
<1>10. Counted(c, l)'
  <2>1. Request(c).op = client[c].op
    BY DEF Request
  <2>2. Coming(c, l)' => Coming(c, l)
    BY <1>2, <1>3, <1>4, <1>5, <1>6, <2>1 DEF Coming, Busy
  <2> QED BY <1>4, <2>2, CountedKeeps DEF Held
<1> QED BY <1>1, <1>4, <1>8, <1>9, <1>10, HostKeeps DEF Held

LEMMA TakeReplyKeeps ==
    ASSUME NEW c, NEW l, Alone(c, l), TypeInv, Held(c, l), TakeReply(c)
    PROVE  Held(c, l)'
<1> DEFINE r == Head(replies[l])
           a == After(client[c], r)
<1>1. c \in Clients /\ l \in Links /\ LinkOf[c] = l
  BY OneEach
<1>2. client[c].waiting /\ replies[l] # <<>> /\ client[c].op # "none" /\ session[l]
  BY <1>1 DEF TakeReply, Held, Channel
<1>3. ~Busy(l) /\ inbox[l] = <<>> /\ replies[l] = <<r>> /\ link[l] = "up"
  BY <1>2 DEF Held, Channel
<1>4. /\ UNCHANGED deviceVars
      /\ UNCHANGED <<inbox, session, target, deletes>>
      /\ UNCHANGED <<txn, next, reg, task, link, prefs, committed, collided>>
  BY DEF TakeReply, deviceVars
<1>5. replies'[l] = <<>>
  <2>1. Tail(<<r>>) = <<>>
    OBVIOUS
  <2>2. replies'[l] = Tail(replies[l])
    BY <1>1 DEF TakeReply, TypeInv, LinkTypes
  <2> HIDE DEF r
  <2> QED BY <1>3, <2>1, <2>2
<1>6. client'[c] = a
  <2>1. client' = [client EXCEPT ![c] =
             IF r.ok THEN AfterSuccess(client[c], r.h) ELSE AfterFailure(client[c])]
    BY <1>1 DEF TakeReply, TypeInv, HostTypes
  <2> QED BY <1>1, <2>1 DEF After, TypeInv, HostTypes
<1>7. a.op # "open" /\ ~a.waiting
  <2>1. client[c] \in ClientType /\ r \in Reply
    BY <1>1, <1>2 DEF TypeInv, HostTypes, LinkTypes
  <2> HIDE DEF r
  <2> QED BY <2>1, AfterFields
<1>8. /\ Proper(a)
      /\ ~collided /\ client[c].op = "commit" /\ r.ok => client[c].save \in committed
  BY <1>2 DEF Held, Work
<1> HIDE DEF a
<1>9. ~collided' => acked' \subseteq committed'
  BY <1>1, <1>4, <1>8 DEF TakeReply, Held, Work
<1> HIDE DEF r
<1>10. Channel(c, l)'
  BY <1>2, <1>3, <1>4, <1>5, <1>6, <1>7 DEF Channel, Busy
<1>11. Work(c, l)'
  <2>1. \A x : Proper(x) => Proper(x)'
    BY <1>4, SameProper
  <2>2. Proper(client[c])'
    <3>1. \A x : x = a => Proper(x)'
      BY <1>8, <2>1
    <3> QED BY <1>6, <3>1
  <2>3. ~Busy(l)' /\ inbox'[l] = <<>> /\ replies'[l] = <<>>
    BY <1>3, <1>4, <1>5 DEF Busy
  <2>4. committed' \subseteq Uploads'
    BY <1>4 DEF Held, Work, Uploads
  <2> QED BY <1>9, <2>2, <2>3, <2>4 DEF Work
<1>12. Counted(c, l)'
  <2>1. Coming(c, l)' => Coming(c, l)
    BY <1>3, <1>4, <1>6, <1>7 DEF Coming, Busy
  <2> QED BY <1>4, <2>1, CountedKeeps DEF Held
<1> QED BY <1>1, <1>4, <1>10, <1>11, <1>12, HostKeeps DEF Held

LEMMA OpenSessionKeeps ==
    ASSUME NEW c, NEW l, Alone(c, l), TypeInv, Held(c, l), OpenSession(l)
    PROVE  Held(c, l)'
<1>1. c \in Clients /\ l \in Links
  BY OneEach
<1>2. ~session[l] /\ link[l] = "up" /\ ~Busy(l) /\ inbox[l] = <<>>
  BY DEF OpenSession, Alone, Busy
<1>3. client[c].op = "none" /\ ~client[c].waiting
  BY <1>2 DEF Held, Channel
<1>4. /\ UNCHANGED deviceVars
      /\ UNCHANGED <<inbox, client, target, deletes, acked>>
      /\ UNCHANGED <<txn, next, reg, task, link, prefs, committed, collided>>
      /\ replies'[l] = <<>>
  BY <1>1 DEF OpenSession, deviceVars, TypeInv, LinkTypes
<1>5. Channel(c, l)'
  BY <1>2, <1>3, <1>4 DEF Channel, Busy
<1>6. Work(c, l)'
  <2>1. Proper(client[c])'
    BY <1>3, <1>4 DEF Proper, Ops
  <2>2. (~collided' => acked' \subseteq committed') /\ committed' \subseteq Uploads'
    BY <1>4 DEF Held, Work, Uploads
  <2> QED BY <1>2, <1>3, <1>4, <2>1, <2>2 DEF Work, Busy
<1>7. Counted(c, l)'
  <2>1. Coming(c, l)' => Coming(c, l)
    BY <1>4 DEF Coming
  <2> QED BY <1>4, <2>1, CountedKeeps DEF Held
<1> QED BY <1>1, <1>4, <1>5, <1>6, <1>7, HostKeeps DEF Held

LEMMA DieKeeps ==
    ASSUME NEW c, NEW l, Alone(c, l), TypeInv, Held(c, l), Die(l)
    PROVE  Held(c, l)'
<1>1. c \in Clients /\ l \in Links /\ LinkOf[c] = l
  BY OneEach
<1>2. /\ UNCHANGED deviceVars
      /\ UNCHANGED <<inbox, replies, target, deletes, acked>>
      /\ UNCHANGED <<txn, next, reg, task, link, prefs, committed, collided>>
      /\ ~session'[l]
  BY <1>1 DEF Die, deviceVars, TypeInv, HostTypes
<1>3. client'[c].op = "none" /\ ~client'[c].waiting
  BY <1>1 DEF Die, NoClients, Idle
<1>4. Channel(c, l)'
  BY <1>2, <1>3 DEF Held, Channel, Busy
<1>5. Work(c, l)'
  <2>1. \A x : Proper(x) => Proper(x)'
    BY <1>2, SameProper
  <2>2. Proper(client[c])'
    BY <1>3 DEF Proper, Ops
  <2>3. inbox[l] # <<>> => Proper(Head(inbox[l]))' /\ Head(inbox[l]).op # "none"
    <3>1. inbox[l] # <<>> => \A x : x = Head(inbox[l]) => Proper(x)'
      BY <2>1 DEF Held, Work
    <3> QED BY <1>2, <3>1 DEF Held, Work
  <2>4. Busy(l) => Proper(task[l].cmd)' /\ Fits(task[l].at, task[l].cmd.op)
    <3>1. Busy(l) => \A x : x = task[l].cmd => Proper(x)'
      BY <2>1 DEF Held, Work
    <3> QED BY <1>2, <3>1 DEF Held, Work
  <2>5. (~collided' => acked' \subseteq committed') /\ committed' \subseteq Uploads'
    BY <1>2 DEF Held, Work, Uploads
  <2> QED BY <1>2, <1>3, <2>2, <2>3, <2>4, <2>5 DEF Work, Busy, Fits
<1>6. Counted(c, l)'
  <2>1. Coming(c, l)' => Coming(c, l)
    BY <1>2, <1>3 DEF Coming
  <2> QED BY <1>2, <2>1, CountedKeeps DEF Held
<1> QED BY <1>1, <1>2, <1>4, <1>5, <1>6, HostKeeps DEF Held

-----------------------------------------------------------------------------
(* The cable, the power and the mount.                                      *)

(* A step beside the command that is carried out.                           *)
LEMMA WorkKeeps ==
    ASSUME NEW c, NEW l, Work(c, l), \A x : Proper(x) => Proper(x)',
           task'[l] = task[l], UNCHANGED <<committed, acked, target>>, collided => collided',
           inbox'[l] \in {inbox[l], <<>>},
           \/ client'[c] = client[c] /\ replies'[l] = replies[l]
           \/ client'[c].op = "none" /\ ~client'[c].waiting
    PROVE  Work(c, l)'
<1>1. Proper(client[c])' \/ client'[c].waiting
  <2>1. CASE client'[c] = client[c]
    <3>1. ~client[c].waiting => \A x : x = client[c] => Proper(x)'
      BY DEF Work
    <3> QED BY <2>1, <3>1
  <2>2. CASE client'[c].op = "none"
    BY <2>2 DEF Proper, Ops
  <2> QED BY <2>1, <2>2
<1>2. inbox'[l] # <<>> => Proper(Head(inbox[l]))' /\ Head(inbox'[l]).op # "none"
  <2>1. inbox'[l] # <<>> => inbox'[l] = inbox[l]
    OBVIOUS
  <2>2. inbox[l] # <<>> => Head(inbox[l]).op # "none"
                           /\ \A x : x = Head(inbox[l]) => Proper(x)'
    BY DEF Work
  <2> QED BY <2>1, <2>2
<1>3. Busy(l) => Proper(task[l].cmd)' /\ Fits(task[l].at, task[l].cmd.op)
  <2>1. Busy(l) => \A x : x = task[l].cmd => Proper(x)'
    BY DEF Work
  <2> QED BY <2>1 DEF Work
<1>4. ASSUME client'[c].waiting, replies'[l] # <<>>
      PROVE  /\ Proper(After(client[c], Head(replies[l])))'
             /\ ~collided' /\ client'[c].op = "commit" /\ Head(replies'[l]).ok =>
                   client'[c].save \in committed'
  <2>1. client'[c] = client[c] /\ replies'[l] = replies[l]
    BY <1>4
  <2>2. \A x : x = After(client[c], Head(replies[l])) => Proper(x)'
    BY <1>4, <2>1 DEF Work
  <2>3. After(client[c], Head(replies[l]))' = After(client[c], Head(replies[l]))
    BY <2>1
  <2>4. ~collided /\ client[c].op = "commit" /\ Head(replies[l]).ok =>
            client[c].save \in committed
    BY <1>4, <2>1 DEF Work
  <2> QED BY <2>1, <2>2, <2>3, <2>4
<1>5. (~collided' => acked' \subseteq committed') /\ committed' \subseteq Uploads'
  BY DEF Work, Uploads
<1> QED BY <1>1, <1>2, <1>3, <1>4, <1>5 DEF Work, Busy, Fits

LEMMA UnplugKeeps ==
    ASSUME NEW c, NEW l, Alone(c, l), TypeInv, Held(c, l), Unplug(l)
    PROVE  Held(c, l)'
<1>1. c \in Clients /\ l \in Links /\ LinkOf[c] = l
  BY OneEach
<1>2. /\ UNCHANGED <<file, tmp, txn, next, mounted, reg, apiPath, task, saver, prefs,
                     target, deletes, acked, committed, stale, collided>>
      /\ ~session'[l] /\ inbox'[l] = <<>> /\ replies'[l] = <<>>
  BY <1>1 DEF Unplug, storeVars, prefsVars, TypeInv, HostTypes, LinkTypes
<1>3. client'[c].op = "none" /\ ~client'[c].waiting
  BY <1>1 DEF Unplug, NoClients, Idle
<1>4. Channel(c, l)'
  BY <1>2, <1>3 DEF Channel
<1>5. Work(c, l)'
  <2>1. \A x : Proper(x) => Proper(x)'
    BY <1>2, SameProper
  <2> QED BY <1>2, <1>3, <2>1, WorkKeeps DEF Held
<1>6. Hand(l)'
  BY <1>2, HandKeeps DEF Held, Stays
<1>7. Apart(l)'
  BY <1>1, <1>2, ApartKeeps DEF Held
<1>8. Counted(c, l)'
  <2>1. Coming(c, l)' => Coming(c, l)
    BY <1>2, <1>3 DEF Coming
  <2> QED BY <1>2, <2>1, CountedKeeps DEF Held
<1>9. NoOrphanTxn'
  BY <1>2 DEF Held, NoOrphanTxn
<1> QED BY <1>4, <1>5, <1>6, <1>7, <1>8, <1>9 DEF Held

(* A step beside the commands that leaves the transactions alone.           *)
LEMMA StillKeeps ==
    ASSUME NEW c, NEW l, Alone(c, l), TypeInv, Held(c, l),
           UNCHANGED <<txn, next, reg, apiPath, task, inbox, replies, saver, session,
                       client, target, deletes, acked, committed, stale, collided>>,
           prefs' \in {prefs, prefs + 1}, prefs' <= MaxPrefs, Channel(c, l)'
    PROVE  Held(c, l)'
<1>1. c \in Clients /\ l \in Links
  BY OneEach
<1>2. Work(c, l)'
  <2>1. \A x : Proper(x) => Proper(x)'
    BY SameProper
  <2> QED BY <2>1, WorkKeeps DEF Held
<1>3. Hand(l)'
  BY HandKeeps DEF Held, Stays
<1>4. Apart(l)'
  BY <1>1, ApartKeeps DEF Held
<1>5. Counted(c, l)'
  <2>1. Coming(c, l)' <=> Coming(c, l)
    BY DEF Coming
  <2>2. prefs \in Nat /\ Len(target) \in Nat /\ \A d \in Drives : next[d] \in Nat
    BY DEF TypeInv, DeviceTypes, HostTypes, StoreInv, StoreTypeOK
  <2> QED BY <2>1, <2>2 DEF Held, Counted
<1>6. NoOrphanTxn'
  BY DEF Held, NoOrphanTxn
<1> QED BY <1>2, <1>3, <1>4, <1>5, <1>6 DEF Held

LEMMA ReplugKeeps ==
    ASSUME NEW c, NEW l, Alone(c, l), TypeInv, Held(c, l), Replug(l)
    PROVE  Held(c, l)'
<1>1. c \in Clients /\ l \in Links
  BY OneEach
<1>2. UNCHANGED <<txn, next, reg, apiPath, task, inbox, replies, saver, prefs, session,
                  client, target, deletes, acked, committed, stale, collided>>
  BY DEF Replug, storeVars, prefsVars, hostVars
<1>3. link'[l] = "up"
  BY <1>1 DEF Replug, TypeInv, LinkTypes
<1>4. Channel(c, l)'
  <2>1. Request(c)' = Request(c)
    BY <1>2 DEF Request
  <2> QED BY <1>2, <1>3, <2>1 DEF Held, Channel, Busy
<1>5. prefs' <= MaxPrefs
  BY <1>2 DEF Held, Counted
<1> QED BY <1>2, <1>4, <1>5, StillKeeps

LEMMA MountKeepsHeld ==
    ASSUME NEW c, NEW l, Alone(c, l), TypeInv, Held(c, l), MountFlash
    PROVE  Held(c, l)'
<1>1. UNCHANGED <<txn, next, reg, apiPath, task, inbox, replies, link, saver, prefs,
                  session, client, target, deletes, acked, committed, stale, collided>>
  BY DEF MountFlash, Mount, prefsVars, hostVars
<1>2. Channel(c, l)'
  <2>1. Request(c)' = Request(c)
    BY <1>1 DEF Request
  <2> QED BY <1>1, <2>1 DEF Held, Channel, Busy
<1>3. prefs' <= MaxPrefs
  BY <1>1 DEF Held, Counted
<1> QED BY <1>1, <1>2, <1>3, StillKeeps

LEMMA RestartKeeps ==
    ASSUME NEW c, NEW l, Alone(c, l), TypeInv, Held(c, l), Restart
    PROVE  Held(c, l)'
<1>1. c \in Clients /\ l \in Links
  BY OneEach
<1>2. /\ ~session'[l] /\ inbox'[l] = <<>> /\ replies'[l] = <<>>
      /\ client'[c].op = "none" /\ ~client'[c].waiting
      /\ task'[l].at = "idle" /\ task'[l].cmd.op = "none" /\ stale' = {}
      /\ reg' = NoReg /\ reg'.h = 0 /\ reg'.d \in Drives
      /\ UNCHANGED <<prefs, target, deletes, acked, committed, collided>>
      /\ \A s \in Savers : saver'[s].at = "idle"
      /\ \A d \in Drives : txn'[d].h = 0 /\ next'[d] = 0
  BY <1>1 DEF Restart, StoreReboot, Idle, IdleTask, NoCmd, IdleSaver, NoReg, NoTxn
<1>3. Channel(c, l)'
  BY <1>2 DEF Channel
<1>4. Work(c, l)'
  <2>1. Proper(client[c])'
    BY <1>2 DEF Proper, Ops
  <2>2. (~collided' => acked' \subseteq committed') /\ committed' \subseteq Uploads'
    BY <1>2 DEF Held, Work, Uploads
  <2> QED BY <1>2, <2>1, <2>2 DEF Work, Busy
<1>5. Hand(l)'
  BY <1>2 DEF Hand, Owned, Telling, Busy
<1>6. Apart(l)'
  BY <1>2 DEF Apart
<1>7. Counted(c, l)'
  <2>1. ~Coming(c, l)'
    BY <1>2 DEF Coming
  <2>2. prefs \in Nat /\ Len(target) \in Nat
    BY DEF TypeInv, DeviceTypes, HostTypes
  <2>3. \A d \in Drives : next'[d] + 0 <= Len(target') + prefs'
    BY <1>2, <2>2
  <2> QED BY <1>2, <2>1, <2>3 DEF Held, Counted
<1>8. NoOrphanTxn'
  BY <1>2 DEF NoOrphanTxn
<1> QED BY <1>3, <1>4, <1>5, <1>6, <1>7, <1>8 DEF Held

-----------------------------------------------------------------------------
(* A command is taken up.                                                   *)

LEMMA ReceiveKeeps ==
    ASSUME NEW c, NEW l, Alone(c, l), TypeInv, Held(c, l), Receive(l)
    PROVE  Held(c, l)'
<1> DEFINE x == Head(inbox[l])
<1>1. c \in Clients /\ l \in Links
  BY OneEach
<1>2. /\ ~Busy(l) /\ inbox[l] # <<>> /\ inbox[l] = <<x>>
      /\ Proper(x) /\ x.op # "none"
  BY DEF Receive, Held, Channel, Work, Busy
<1>3. /\ UNCHANGED <<txn, next, reg, apiPath, replies, link, saver, prefs, session,
                     client, target, deletes, acked, committed, stale, collided>>
      /\ inbox'[l] = <<>>
  <2>1. inbox'[l] = Tail(inbox[l])
    BY <1>1 DEF Receive, TypeInv, LinkTypes
  <2>2. Tail(<<x>>) = <<>>
    OBVIOUS
  <2> HIDE DEF x
  <2> QED BY <1>2, <2>1, <2>2 DEF Receive, storeVars, prefsVars, hostVars
<1>4. task'[l].at = FirstStep(x.op) /\ task'[l].cmd = x
  BY <1>1 DEF Receive, TypeInv, LinkTypes, IdleTask
<1>5. x.op \in Ops
  <2>1. inbox[l] \in Seq(Asking)
    BY <1>1 DEF TypeInv, LinkTypes
  <2>2. x \in Asking
    BY <1>2, <2>1
  <2> HIDE DEF x
  <2> QED BY <1>2, <2>2 DEF Asking
<1>6. client[c].waiting => x = Request(c) /\ replies[l] = <<>>
  BY <1>2 DEF Held, Channel
<1> HIDE DEF x
<1>7. /\ FirstStep(x.op) \in {"stale", "write", "close", "remove"}
      /\ Fits(FirstStep(x.op), x.op)
      /\ FirstStep(x.op) = "stale" => x.op = "open"
  BY <1>5 DEF FirstStep, Fits, Ops
<1>8. Channel(c, l)'
  <2>1. Request(c)' = Request(c)
    BY <1>3 DEF Request
  <2>2. ~(session[l] /\ ~client[c].waiting)
    BY <1>2 DEF Held, Channel
  <2> QED BY <1>3, <1>4, <1>6, <1>7, <2>1, <2>2 DEF Held, Channel, Busy
<1>9. Work(c, l)'
  <2>1. \A y : Proper(y) => Proper(y)'
    BY <1>3, SameProper
  <2>2. Proper(task[l].cmd)'
    <3>1. \A y : y = x => Proper(y)'
      BY <1>2, <2>1
    <3> QED BY <1>4, <3>1
  <2>3. ~client'[c].waiting => Proper(client[c])'
    <3>1. ~client[c].waiting => \A y : y = client[c] => Proper(y)'
      BY <2>1 DEF Held, Work
    <3> QED BY <1>3, <3>1
  <2>4. client'[c].waiting => replies'[l] = <<>>
    BY <1>3, <1>6
  <2>5. (~collided' => acked' \subseteq committed') /\ committed' \subseteq Uploads'
    BY <1>3 DEF Held, Work, Uploads
  <2> QED BY <1>3, <1>4, <1>7, <2>2, <2>3, <2>4, <2>5 DEF Work, Fits
<1>10. Hand(l)'
  <2>1. ~collided' =>
            /\ stale' = {}
            /\ reg'.h # 0 /\ txn'[reg'.d].h = reg'.h => txn'[reg'.d].fp
    BY <1>2, <1>3 DEF Held, Hand, Busy, Telling
  <2>2. Owned' => apiPath' = txn'[reg'.d].path /\ reg'.d = DriveOf(apiPath)'
    BY <1>3 DEF Owned, Held, Hand, DriveOf
  <2>3. ~Telling(l)'
    BY <1>4, <1>7 DEF Telling
  <2> QED BY <1>4, <1>7, <2>1, <2>2, <2>3 DEF Hand, Busy
<1>11. Apart(l)'
  BY <1>1, <1>3, <1>4, <1>7, ApartKeeps DEF Held
<1>12. Counted(c, l)'
  <2>1. Coming(c, l)' => Coming(c, l)
    BY <1>2, <1>3, <1>4, <1>7 DEF Coming, x
  <2> QED BY <1>3, <2>1, CountedKeeps DEF Held
<1>13. NoOrphanTxn'
  BY <1>3 DEF Held, NoOrphanTxn
<1> QED BY <1>8, <1>9, <1>10, <1>11, <1>12, <1>13 DEF Held

(* What the steps of a command start from.                                  *)
LEMMA AtWork ==
    ASSUME NEW c, NEW l, Alone(c, l), TypeInv, Held(c, l), Busy(l)
    PROVE  /\ c \in Clients /\ l \in Links
           /\ task \in [Links -> TaskType] /\ task[l] \in TaskType
           /\ task[l].at \notin {"fclose", "settled"} =>
                 task[l].cmd \in Asking /\ task[l].cmd.path \in Paths
           /\ task[l].cmd.save \in Nat
           /\ task[l].cmd.ix \in Nat /\ task[l].cmd.h \in Handles
           /\ task[l].h \in Handles /\ task[l].ok \in BOOLEAN
           /\ Proper(task[l].cmd) /\ Fits(task[l].at, task[l].cmd.op)
           /\ reg \in [d : Drives, h : Handles] /\ reg.d \in Drives /\ reg.h \in Nat
           /\ txn \in [Drives -> Txn] /\ next \in [Drives -> Handles]
           /\ inbox[l] = <<>>
           /\ client[c].op = "open" => client[c].waiting
<1>1. c \in Clients /\ l \in Links
  BY OneEach
<1>2. /\ task \in [Links -> TaskType] /\ task[l] \in TaskType /\ Carried(task[l])
      /\ reg \in [d : Drives, h : Handles] /\ reg.d \in Drives /\ reg.h \in Nat
      /\ txn \in [Drives -> Txn] /\ next \in [Drives -> Handles]
  BY <1>1 DEF TypeInv, LinkTypes, DeviceTypes, StoreInv, StoreTypeOK
<1>3. /\ task[l].cmd.save \in Nat
      /\ task[l].cmd.ix \in Nat /\ task[l].cmd.h \in Handles
      /\ task[l].h \in Handles /\ task[l].ok \in BOOLEAN
  BY <1>2 DEF TaskType, Cmd
<1>4. task[l].at \notin {"fclose", "settled"} =>
         task[l].cmd \in Asking /\ task[l].cmd.path \in Paths
  BY <1>2 DEF Carried, Asking, Busy
<1>5. Proper(task[l].cmd) /\ Fits(task[l].at, task[l].cmd.op)
  BY DEF Held, Work
<1>6. inbox[l] = <<>> /\ (client[c].op = "open" => client[c].waiting)
  BY BusyChannel DEF Held
<1> QED BY <1>1, <1>2, <1>3, <1>4, <1>5, <1>6

-----------------------------------------------------------------------------
(* The steps of a close, whichever command it is part of.                   *)

(* Nothing but the task's place changes between the client and the device:  *)
(* in the middle of a command, or where the dispatcher finds the host gone. *)
GoesOn(l) ==
    \/ Busy(l) /\ Continue
    \/ /\ ~Busy(l) /\ link[l] # "up" /\ link'[l] # "up"
       /\ UNCHANGED <<inbox, replies, prefsVars, hostVars>>

LEMMA GoesChannel ==
    ASSUME NEW c, NEW l, Channel(c, l), GoesOn(l),
           task'[l].at = "idle" => task[l].cmd.op = "none",
           task'[l].at # "idle" => task'[l].cmd = task[l].cmd
    PROVE  Channel(c, l)'
<1>1. UNCHANGED <<inbox, replies, session, client>>
  BY DEF GoesOn, Continue, hostVars
<1>2. CASE ~Busy(l)
  <2>1. /\ ~session[l] /\ client[c].op = "none" /\ ~client[c].waiting
        /\ inbox[l] = <<>>
    BY <1>2 DEF GoesOn, Channel
  <2> QED BY <1>1, <2>1 DEF Channel
<1>3. CASE Busy(l) /\ task'[l].at # "idle"
  BY <1>3, ContinueChannel DEF GoesOn
<1>4. CASE Busy(l) /\ task'[l].at = "idle"
  <2>1. inbox[l] = <<>> /\ (client[c].waiting => task[l].cmd = Request(c))
    BY <1>4, BusyChannel
  <2>2. client[c].waiting => task[l].cmd.op = client[c].op
    BY <2>1 DEF Request
  <2>3. ~client[c].waiting
    BY <1>4, <2>2 DEF Channel
  <2>4. ~session[l] /\ client[c].op = "none"
    BY <1>4, <2>3 DEF Channel
  <2> QED BY <1>1, <2>1, <2>3, <2>4 DEF Channel
<1> QED BY <1>2, <1>3, <1>4

LEMMA GoesWork ==
    ASSUME NEW c, NEW l, Channel(c, l), Work(c, l), GoesOn(l),
           task'[l].at = "idle" => task[l].cmd.op = "none",
           task'[l].at # "idle" =>
              task'[l].cmd = task[l].cmd /\ Fits(task'[l].at, task[l].cmd.op),
           \A x : x = task[l].cmd => Proper(x)',
           committed \subseteq committed', committed' \subseteq Uploads,
           collided => collided'
    PROVE  Work(c, l)'
<1>1. UNCHANGED <<inbox, replies, session, client, acked, target>>
  BY DEF GoesOn, Continue, hostVars
<1>2. \A x : x.op = "none" => Proper(x)'
  BY NoneProper DEF Proper, Ops
<1>3. CASE Busy(l) /\ task'[l].at # "idle"
  BY <1>3, ContinueWork DEF GoesOn
<1>4. CASE ~Busy(l) \/ task'[l].at = "idle"
  <2>1. ~client[c].waiting /\ client[c].op = "none" /\ inbox[l] = <<>>
    <3>1. CASE ~Busy(l)
      BY <3>1 DEF GoesOn, Channel
    <3>2. CASE Busy(l) /\ task'[l].at = "idle"
      <4>1. /\ client[c].waiting => task[l].cmd = Request(c)
            /\ ~client[c].waiting => client[c].op = "none"
            /\ inbox[l] = <<>>
        BY <3>2, BusyChannel
      <4>2. client[c].waiting => task[l].cmd.op = client[c].op
        BY <4>1 DEF Request
      <4> QED BY <3>2, <4>1, <4>2 DEF Channel
    <3> QED BY <1>4, <3>1, <3>2
  <2>2. Proper(client[c])'
    BY <1>1, <1>2, <2>1
  <2>3. Busy(l)' => Proper(task[l].cmd)' /\ Fits(task'[l].at, task'[l].cmd.op)
    BY DEF Busy
  <2>4. (~collided' => acked' \subseteq committed') /\ committed' \subseteq Uploads'
    BY <1>1 DEF Work, Uploads
  <2> QED BY <1>1, <2>1, <2>2, <2>3, <2>4 DEF Work, Busy, Fits
<1> QED BY <1>3, <1>4

(* What a step of a close starts from.                                      *)
LEMMA AtClose ==
    ASSUME NEW c, NEW l, Alone(c, l), TypeInv, Held(c, l),
           task[l].at \in {"idle", "stale", "close", "fclose", "settled"}
    PROVE  /\ c \in Clients /\ l \in Links
           /\ task \in [Links -> TaskType] /\ task[l] \in TaskType
           /\ reg \in [d : Drives, h : Handles] /\ reg.d \in Drives /\ reg.h \in Nat
           /\ txn \in [Drives -> Txn]
           /\ Proper(task[l].cmd) /\ task[l].cmd.save \in Nat
           /\ task[l].cmd.op \in {"none", "open", "commit", "abort"}
           /\ task[l].at = "idle" => task[l].cmd.op = "none"
           /\ task[l].at = "stale" => task[l].cmd.op = "open"
           /\ task[l].at = "close" => task[l].cmd.op \in {"commit", "abort"}
           /\ task[l].cmd.op \in {"open", "commit", "abort"} =>
                 task[l].cmd.path \in Paths
<1>1. c \in Clients /\ l \in Links
  BY OneEach
<1>2. /\ task \in [Links -> TaskType] /\ task[l] \in TaskType
      /\ reg \in [d : Drives, h : Handles] /\ reg.d \in Drives /\ reg.h \in Nat
      /\ txn \in [Drives -> Txn]
  BY <1>1 DEF TypeInv, LinkTypes, DeviceTypes, StoreInv, StoreTypeOK
<1>3. task[l].cmd.save \in Nat
  BY <1>2 DEF TaskType, Cmd
<1>4. CASE Busy(l)
  <2>1. Proper(task[l].cmd) /\ Fits(task[l].at, task[l].cmd.op)
    BY <1>4, AtWork
  <2>2. task[l].cmd.op \in {"open", "commit", "abort"} => task[l].cmd.path \in Paths
    BY <2>1 DEF Proper
  <2> QED BY <1>1, <1>2, <1>3, <1>4, <2>1, <2>2 DEF Fits, Busy
<1>5. CASE ~Busy(l)
  <2>1. task[l].cmd.op = "none"
    BY <1>5 DEF Held, Hand
  <2> QED BY <1>1, <1>2, <1>3, <1>5, <2>1, NoneProper DEF Busy
<1> QED BY <1>4, <1>5

(* The registered transaction is at an end, and the registry cleared.       *)
LEMMA AfterCloseKeeps ==
    ASSUME NEW c, NEW l, Alone(c, l), TypeInv, Held(c, l), GoesOn(l),
           task[l].at \in {"idle", "stale", "close", "settled"},
           NEW ok \in BOOLEAN, AfterClose(l, ok),
           UNCHANGED <<next, apiPath, collided>>,
           \A e \in Drives : txn'[e] = txn[e] \/ txn'[e].h = 0,
           reg.h = 0 \/ txn'[reg.d].h # reg.h,
           committed \subseteq committed', committed' \subseteq Uploads,
           task[l].cmd.op # "commit" => committed' = committed,
           ~collided /\ task[l].cmd.op = "commit" /\ ok =>
              apiPath = task[l].cmd.path /\ task[l].cmd.save \in committed',
           ~collided => stale' = IF task[l].cmd.op = "commit" /\ ok
                                 THEN {task[l].cmd.path} ELSE {}
    PROVE  Held(c, l)'
<1> DEFINE cmd == task[l].cmd
<1>1. /\ c \in Clients /\ l \in Links /\ task \in [Links -> TaskType]
      /\ task[l] \in TaskType /\ cmd.op \in {"none", "open", "commit", "abort"}
      /\ task[l].at = "idle" => cmd.op = "none"
      /\ task[l].at = "close" => cmd.op \in {"commit", "abort"}
      /\ cmd.op = "commit" => cmd.path \in Paths
      /\ Proper(cmd)
  BY AtClose
<1>2. UNCHANGED <<inbox, saver, prefs, client, target, deletes>>
  BY DEF GoesOn, Continue, prefsVars, hostVars
<1>3. reg' = NoReg /\ reg'.h = 0
  BY DEF AfterClose, NoReg
<1>4. ~Owned'
  BY <1>3 DEF Owned
<1>5. CASE cmd.op = "none"
  <2>1. task'[l] = IdleTask
    BY <1>1, <1>5 DEF AfterClose
  <2>2. task'[l].at = "idle" /\ task'[l].cmd.op = "none"
    BY <2>1 DEF IdleTask, NoCmd
  <2>3. ~Telling(l)' /\ ~Busy(l)'
    BY <2>2 DEF Telling, Busy
  <2>4. Channel(c, l)'
    BY <1>5, <2>2, GoesChannel DEF Held
  <2>5. \A x : x = cmd => Proper(x)'
    BY <1>5, NoneProper DEF Proper, Ops
  <2>6. Work(c, l)'
    BY <1>5, <2>2, <2>5, GoesWork DEF Held
  <2>7. Hand(l)'
    BY <1>3, <1>4, <1>5, <2>2, <2>3 DEF Hand, Busy
  <2>8. Apart(l)'
    BY <1>1, <1>2, <1>3, <2>2, ApartKeeps DEF Held
  <2>9. Counted(c, l)'
    <3>1. Coming(c, l)' => Coming(c, l)
      BY <1>2, <2>2 DEF Coming
    <3> QED BY <1>2, <3>1, CountedKeeps DEF Held
  <2>10. NoOrphanTxn'
    BY <1>2, <1>3, OwnerKeeps DEF Held
  <2> QED BY <2>4, <2>6, <2>7, <2>8, <2>9, <2>10 DEF Held
<1>6. CASE cmd.op # "none"
  <2> DEFINE at == IF cmd.op = "open" THEN "check"
                   ELSE IF cmd.op = "commit" /\ ok /\ apiPath # NoPath
                   THEN "register" ELSE "clear"
  <2>1. task' = [task EXCEPT ![l] = [task[l] EXCEPT !.h = 0, !.ok = ok, !.at = at]]
    BY <1>1, <1>6 DEF AfterClose
  <2>2. task'[l].at = at /\ task'[l].ok = ok /\ task'[l].cmd = cmd
    BY <1>1, <2>1 DEF TaskType
  <2>3. /\ at \in {"check", "register", "clear"} /\ Fits(at, cmd.op)
        /\ at = "check" => cmd.op = "open"
        /\ at = "register" => cmd.op = "commit" /\ ok
        /\ ~collided /\ cmd.op = "commit" /\ ok => at = "register"
    BY <1>1, <1>6 DEF Fits
  <2> HIDE DEF at, cmd
  <2>4. Telling(l)' <=> at = "register"
    BY <2>2, <2>3 DEF Telling
  <2>5. Channel(c, l)'
    BY <2>2, <2>3, GoesChannel DEF Held, cmd
  <2>6. Work(c, l)'
    <3>1. ASSUME NEW x, x = cmd PROVE Proper(x)'
      <4>1. cmd.op # "none" => cmd.path \in HostPaths
        BY <1>1 DEF Proper
      <4>2. cmd.op \in Ops \ {"delete"} => cmd.save \in Uploads' /\ target'[cmd.save] = cmd.path
        BY <1>1, <1>2 DEF Proper, Uploads
      <4>3. cmd.op = "open" => cmd.save \notin committed' /\ cmd.ix = 0
        BY <1>1 DEF Proper, cmd
      <4>4. cmd.op \notin {"delete", "write"}
        BY <1>1
      <4> QED BY <1>3, <1>4, <3>1, <4>1, <4>2, <4>3, <4>4 DEF Proper
    <3> QED BY <2>2, <2>3, <3>1, GoesWork DEF Held, cmd
  <2>7. Hand(l)'
    <3>1. ~collided => (Telling(l)' => apiPath = cmd.path)
      BY <2>3, <2>4 DEF cmd
    <3>2. ~collided => stale' = IF Telling(l)' \/ at = "unregister" THEN {cmd.path} ELSE {}
      BY <2>3, <2>4 DEF cmd
    <3>3. ~collided /\ ok /\ cmd.op = "commit" => cmd.save \in committed'
      BY DEF cmd
    <3>4. Busy(l)' /\ task'[l].at \notin {"fclose", "settled"}
      BY <2>2, <2>3 DEF Busy
    <3> QED BY <1>3, <1>4, <2>2, <3>1, <3>2, <3>3, <3>4 DEF Hand
  <2>8. Apart(l)'
    BY <1>1, <1>2, <1>3, <2>2, <2>3, ApartKeeps DEF Held
  <2>9. Counted(c, l)'
    <3>1. Coming(c, l)' => Coming(c, l)
      BY <1>1, <1>2, <1>6, <2>2, <2>3 DEF Coming, cmd
    <3> QED BY <1>2, <3>1, CountedKeeps DEF Held
  <2>10. NoOrphanTxn'
    BY <1>2, <1>3, OwnerKeeps DEF Held
  <2> QED BY <2>5, <2>6, <2>7, <2>8, <2>9, <2>10 DEF Held
<1> QED BY <1>5, <1>6

(* The task waits for fclose.                                               *)
LEMMA WaitKeeps ==
    ASSUME NEW c, NEW l, Alone(c, l), TypeInv, Held(c, l), GoesOn(l),
           task[l].at \in {"idle", "stale", "close"},
           reg.d = "F", reg.h # 0,
           task' = [task EXCEPT ![l].at = "fclose", ![l].h = reg.h],
           UNCHANGED <<txn, next, reg, apiPath, committed, stale, collided>>
    PROVE  Held(c, l)'
<1> DEFINE cmd == task[l].cmd
<1>1. /\ c \in Clients /\ l \in Links /\ task \in [Links -> TaskType]
      /\ task[l] \in TaskType /\ Proper(cmd)
      /\ cmd.op \in {"none", "open", "commit", "abort"}
      /\ task[l].at = "idle" => cmd.op = "none"
      /\ task[l].at = "close" => cmd.op \in {"commit", "abort"}
  BY AtClose
<1>2. UNCHANGED <<inbox, saver, prefs, client, target, deletes>>
  BY DEF GoesOn, Continue, prefsVars, hostVars
<1>3. task'[l].at = "fclose" /\ task'[l].h = reg.h /\ task'[l].cmd = cmd
  BY <1>1 DEF TaskType
<1> HIDE DEF cmd
<1>4. Channel(c, l)'
  BY <1>3, GoesChannel DEF Held, cmd
<1>5. Work(c, l)'
  <2>1. \A x : Proper(x) => Proper(x)'
    BY <1>2, SameProper
  <2>2. \A x : x = cmd => Proper(x)'
    BY <1>1, <2>1
  <2>3. Fits("fclose", cmd.op)
    BY <1>1 DEF Fits
  <2>4. committed' \subseteq Uploads
    BY DEF Held, Work
  <2> QED BY <1>3, <2>2, <2>3, <2>4, GoesWork DEF Held, cmd
<1>6. Hand(l)'
  <2>1. ~Telling(l)' /\ Busy(l)'
    BY <1>3 DEF Telling, Busy
  <2>2. ~collided => stale' = {} /\ (txn[reg.d].h = reg.h => txn[reg.d].fp)
    BY DEF Held, Hand, Telling
  <2>3. Owned' => apiPath' = txn'[reg'.d].path /\ reg'.d = DriveOf(apiPath)'
    BY DEF Owned, Held, Hand, DriveOf
  <2> QED BY <1>3, <2>1, <2>2, <2>3 DEF Hand
<1>7. Apart(l)'
  BY <1>1, <1>2, <1>3, ApartKeeps DEF Held
<1>8. Counted(c, l)'
  <2>1. Coming(c, l)' => Coming(c, l)
    BY <1>1, <1>2, <1>3 DEF Coming, cmd
  <2> QED BY <1>2, <2>1, CountedKeeps DEF Held
<1>9. NoOrphanTxn'
  BY <1>2 DEF Held, NoOrphanTxn
<1> QED BY <1>4, <1>5, <1>6, <1>7, <1>8, <1>9 DEF Held

(* closeWrite of the registered transaction, or of none.                    *)
LEMMA StartKeeps ==
    ASSUME NEW c, NEW l, Alone(c, l), TypeInv, Held(c, l), GoesOn(l),
           task[l].at \in {"idle", "stale", "close"},
           NEW h, NEW commit, StartClose(l, h, commit), UNCHANGED apiPath,
           reg.h \in {0, h},
           commit => task[l].at = "close" /\ task[l].cmd.h = h,
           task[l].cmd.op = "commit" => commit, commit => task[l].cmd.op = "commit"
    PROVE  Held(c, l)'
<1> DEFINE cmd == task[l].cmd
<1>1. /\ c \in Clients /\ l \in Links /\ Proper(cmd) /\ cmd.save \in Nat
      /\ txn \in [Drives -> Txn] /\ reg.d \in Drives /\ "R" \in Drives
      /\ cmd.op = "commit" => cmd.path \in Paths
  BY AtClose
<1>2. ~collided => stale = {}
  BY DEF Held, Hand, Telling
<1>3. committed \subseteq Uploads /\ FALSE \in BOOLEAN
  BY DEF Held, Work
<1>4. CASE /\ reg.h = 0 \/ ~Owns(reg.d, h)
           /\ AfterClose(l, FALSE)
           /\ UNCHANGED <<storeVars, history>>
  <2>1. UNCHANGED <<next, txn, committed, stale, collided>>
    BY <1>4 DEF storeVars
  <2>2. reg.h = 0 \/ txn'[reg.d].h # reg.h
    BY <1>4, <2>1 DEF Owns
  <2> HIDE DEF cmd
  <2> QED BY <1>2, <1>3, <1>4, <2>1, <2>2, AfterCloseKeeps
<1>5. CASE /\ reg.h # 0 /\ reg.d = "R" /\ Owns("R", h) /\ UNCHANGED collided
           /\ \E ok \in BOOLEAN :
                 /\ CloseRam(commit, ok)
                 /\ AfterClose(l, ok)
                 /\ IF ok /\ commit THEN Installed(txn["R"])
                                    ELSE UNCHANGED <<committed, stale>>
  <2>1. PICK ok \in BOOLEAN :
           /\ CloseRam(commit, ok)
           /\ AfterClose(l, ok)
           /\ IF ok /\ commit THEN Installed(txn["R"])
                              ELSE UNCHANGED <<committed, stale>>
    BY <1>5
  <2>2. /\ next' = next /\ txn'["R"].h = 0
        /\ \A e \in Drives : txn'[e] = txn[e] \/ txn'[e].h = 0
    BY <1>1, <2>1, NoTxnType DEF CloseRam
  <2>3. reg.h = h /\ txn["R"].h = reg.h /\ txn'[reg.d].h # reg.h
    BY <1>5, <2>2 DEF Owns
  <2>4. ASSUME ~collided, commit
        PROVE  /\ apiPath = cmd.path /\ txn["R"].path = cmd.path
               /\ cmd.save \in Uploads /\ target[cmd.save] = cmd.path
               /\ txn["R"].data = Whole(cmd.save)
    <3>1. Owned /\ cmd.op = "commit"
      BY <1>5, <2>3, <2>4 DEF Held, Hand, Owned
    <3>2. apiPath = txn["R"].path
      BY <1>5, <3>1 DEF Held, Hand
    <3>3. /\ txn["R"].path = cmd.path /\ txn["R"].data = Part(cmd.save, NChunks)
          /\ cmd.save \in Uploads /\ target[cmd.save] = cmd.path
      BY <1>1, <1>5, <3>1 DEF Proper, Ops, Sent
    <3> HIDE DEF cmd
    <3> QED BY <1>1, <3>2, <3>3, Parts
  <2>5. committed \subseteq committed' /\ committed' \subseteq Uploads
    BY <1>3, <2>1 DEF Installed
  <2>6. ~commit => committed' = committed /\ stale' = stale
    BY <2>1
  <2>7. ~collided /\ commit /\ ok => cmd.save \in committed' /\ stale' = {cmd.path}
    <3> HIDE DEF cmd
    <3> QED BY <1>2, <2>1, <2>4 DEF Installed
  <2>8. ~ok => committed' = committed /\ stale' = stale
    BY <2>1
  <2>9. ~collided => stale' = IF cmd.op = "commit" /\ ok THEN {cmd.path} ELSE {}
    BY <1>2, <2>6, <2>7, <2>8
  <2>10. task[l].at \in {"idle", "stale", "close", "settled"}
    OBVIOUS
  <2> QED BY <1>5, <2>1, <2>2, <2>3, <2>4, <2>5, <2>6, <2>7, <2>9, <2>10, AfterCloseKeeps
<1>6. CASE /\ reg.h # 0 /\ reg.d = "F" /\ Owns("F", h)
           /\ task' = [task EXCEPT ![l].at = "fclose", ![l].h = h]
           /\ UNCHANGED <<storeVars, reg, history>>
  <2>1. UNCHANGED <<next, txn, committed, stale, collided>>
    BY <1>6 DEF storeVars
  <2>2. reg.h = h
    BY <1>6
  <2> QED BY <1>6, <2>1, <2>2, WaitKeeps
<1> QED BY <1>4, <1>5, <1>6 DEF StartClose

(* fclose has returned, and the file is put in place or removed.            *)
LEMMA MoveFileKeeps ==
    ASSUME NEW c, NEW l, Alone(c, l), TypeInv, Held(c, l), MoveFile(l)
    PROVE  Held(c, l)'
<1> DEFINE cmd == task[l].cmd
           h == task[l].h
           commit == cmd.op = "commit"
<1>1. task[l].at = "fclose" /\ Busy(l)
  BY DEF MoveFile, Busy
<1>2. /\ c \in Clients /\ l \in Links /\ task \in [Links -> TaskType]
      /\ task[l] \in TaskType /\ Proper(cmd) /\ cmd.save \in Nat
      /\ cmd.op \in {"none", "open", "commit", "abort"}
      /\ reg.d = "F" /\ reg.h = h /\ reg.h # 0
  BY <1>1, AtClose DEF Held, Hand
<1>3. PICK ok \in BOOLEAN :
         /\ MoveTmp(h, commit, ok)
         /\ task' = [task EXCEPT ![l].at = "settled", ![l].ok = ok]
         /\ IF ok /\ commit THEN Installed(txn["F"])
                            ELSE UNCHANGED <<committed, stale>>
  BY DEF MoveFile
<1>4. /\ collided' = (collided \/ ~Owns("F", h)) /\ Continue
      /\ UNCHANGED <<reg, apiPath, inbox, replies, link, saver, prefs, client, target,
                     deletes, acked>>
  BY DEF MoveFile, Continue, prefsVars, hostVars
<1>5. /\ next' = next /\ txn'["R"] = txn["R"] /\ ~txn'["F"].fp
      /\ txn'["F"].h = txn["F"].h
      /\ txn'["F"].path = txn["F"].path /\ txn'["F"].data = txn["F"].data
  BY <1>3, MoveFacts DEF TypeInv
<1>6. task'[l].at = "settled" /\ task'[l].ok = ok /\ task'[l].cmd = cmd /\ task'[l].h = h
  BY <1>2, <1>3 DEF TaskType
<1>7. ~Owned' /\ \A e \in Drives : txn'[e].h = txn[e].h
  BY <1>2, <1>4, <1>5 DEF Owned, Drives
<1>8. ASSUME ~collided'
      PROVE  /\ ~collided /\ stale = {}
             /\ commit => /\ apiPath = cmd.path /\ txn["F"].path = cmd.path
                          /\ cmd.save \in Uploads /\ target[cmd.save] = cmd.path
                          /\ txn["F"].data = Whole(cmd.save)
  <2>1. ~collided /\ Owns("F", h)
    BY <1>4, <1>8
  <2>2. stale = {}
    BY <1>1, <2>1 DEF Held, Hand, Telling
  <2>3. Owned
    BY <1>1, <1>2, <2>1 DEF Owns, Owned, Held, Hand
  <2>4. apiPath = txn["F"].path
    BY <1>2, <2>3 DEF Held, Hand
  <2>5. commit => /\ txn["F"].path = cmd.path /\ txn["F"].data = Part(cmd.save, NChunks)
                  /\ cmd.save \in Uploads /\ target[cmd.save] = cmd.path
    BY <1>2, <2>3 DEF Proper, Ops, Sent
  <2>6. Whole(cmd.save) = Part(cmd.save, NChunks)
    BY <1>2, Parts
  <2> HIDE DEF cmd
  <2> QED BY <2>1, <2>2, <2>4, <2>5, <2>6
<1> HIDE DEF cmd, h, commit
<1>9. committed \subseteq committed' /\ committed' \subseteq Uploads
  <2>1. committed \subseteq Uploads
    BY DEF Held, Work
  <2> QED BY <1>3, <2>1 DEF Installed
<1>10. ~collided' /\ commit /\ ok => cmd.save \in committed' /\ stale' = {cmd.path}
  BY <1>3, <1>8 DEF Installed
<1>11. ~(commit /\ ok) => committed' = committed /\ stale' = stale
  BY <1>3
<1>12. Channel(c, l)'
  BY <1>1, <1>4, <1>6, ContinueChannel DEF Held, cmd
<1>13. Work(c, l)'
  <2>1. ASSUME NEW x, x = cmd PROVE Proper(x)'
    <3>1. cmd.op # "none" => cmd.path \in HostPaths
      BY <1>2 DEF Proper
    <3>2. cmd.op \in Ops \ {"delete"} => cmd.save \in Uploads' /\ target'[cmd.save] = cmd.path
      BY <1>2, <1>4 DEF Proper, Uploads
    <3>3. cmd.op = "open" => cmd.save \notin committed' /\ cmd.ix = 0
      BY <1>2, <1>11 DEF Proper, Ops, commit
    <3>4. cmd.op \in {"commit", "abort"} => reg'.h \in {0, cmd.h}
      BY <1>2, <1>4 DEF Proper
    <3>5. cmd.op \notin {"delete", "write"}
      BY <1>2
    <3> QED BY <1>7, <2>1, <3>1, <3>2, <3>3, <3>4, <3>5 DEF Proper
  <2>2. Fits("settled", cmd.op)
    BY <1>2 DEF Fits
  <2>3. collided => collided'
    BY <1>4
  <2> QED BY <1>1, <1>4, <1>6, <1>9, <2>1, <2>2, <2>3, ContinueWork DEF Held, cmd
<1>14. Hand(l)'
  <2>1. Telling(l)' <=> commit /\ ok
    BY <1>6 DEF Telling, commit
  <2>2. ~collided' => stale' = IF Telling(l)' THEN {cmd.path} ELSE {}
    BY <1>8, <1>10, <1>11, <2>1
  <2>3. ~collided' => (Telling(l)' => apiPath' = cmd.path)
    BY <1>4, <1>8, <2>1
  <2>4. ~collided' /\ ok /\ cmd.op = "commit" => cmd.save \in committed'
    BY <1>10 DEF commit
  <2>5. Busy(l)' /\ reg'.d = "F" /\ reg'.h = h /\ reg'.h # 0
    BY <1>2, <1>4, <1>6 DEF Busy
  <2> QED BY <1>6, <1>7, <2>2, <2>3, <2>4, <2>5 DEF Hand
<1>15. Apart(l)'
  BY <1>2, <1>4, <1>5, <1>6, <1>7, ApartKeeps DEF Held
<1>16. Counted(c, l)'
  <2>1. Coming(c, l)' => Coming(c, l)
    BY <1>1, <1>4, <1>6 DEF Coming, cmd
  <2> QED BY <1>4, <1>5, <2>1, CountedKeeps DEF Held
<1>17. NoOrphanTxn'
  BY <1>4, <1>7, OwnerKeeps DEF Held
<1> QED BY <1>12, <1>13, <1>14, <1>15, <1>16, <1>17 DEF Held

LEMMA EndCloseKeeps ==
    ASSUME NEW c, NEW l, Alone(c, l), TypeInv, Held(c, l), EndClose(l)
    PROVE  Held(c, l)'
<1>1. task[l].at = "settled" /\ GoesOn(l)
  BY DEF EndClose, Busy, GoesOn
<1>2. /\ txn \in [Drives -> Txn] /\ "F" \in Drives
      /\ task[l] \in TaskType /\ reg.d = "F" /\ reg.h # 0
  BY <1>1, AtClose DEF Held, Hand
<1>3. /\ UNCHANGED <<next, apiPath, committed, stale, collided>>
      /\ AfterClose(l, task[l].ok) /\ txn' = [txn EXCEPT !["F"] = NoTxn]
  BY DEF EndClose, EndTxn
<1>4. txn'["F"].h = 0 /\ \A e \in Drives : txn'[e] = txn[e] \/ txn'[e].h = 0
  BY <1>2, <1>3, NoTxnType
<1>5. task[l].ok \in BOOLEAN
  BY <1>2 DEF TaskType
<1>6. ~collided =>
         /\ stale = IF task[l].cmd.op = "commit" /\ task[l].ok
                    THEN {task[l].cmd.path} ELSE {}
         /\ task[l].cmd.op = "commit" /\ task[l].ok =>
               apiPath = task[l].cmd.path /\ task[l].cmd.save \in committed
  BY <1>1 DEF Held, Hand, Telling
<1>7. committed \subseteq Uploads
  BY DEF Held, Work
<1> QED BY <1>1, <1>2, <1>3, <1>4, <1>5, <1>6, <1>7, AfterCloseKeeps

LEMMA AbortStaleKeeps ==
    ASSUME NEW c, NEW l, Alone(c, l), TypeInv, Held(c, l), AbortStale(l)
    PROVE  Held(c, l)'
<1>1. task[l].at = "stale" /\ GoesOn(l)
  BY DEF AbortStale, Busy, GoesOn
<1>2. task[l].cmd.op = "open"
  BY <1>1, AtClose
<1> QED BY <1>1, <1>2, StartKeeps DEF AbortStale, AbortOpenTransaction

LEMMA NoticeUnplugKeeps ==
    ASSUME NEW c, NEW l, Alone(c, l), TypeInv, Held(c, l), NoticeUnplug(l)
    PROVE  Held(c, l)'
<1>1. task[l].at = "idle" /\ task[l].cmd.op = "none" /\ l \in Links
  BY AtClose DEF NoticeUnplug
<1>2. link'[l] = "down" /\ link[l] = "dropped"
  BY <1>1 DEF NoticeUnplug, TypeInv, LinkTypes
<1>3. GoesOn(l)
  BY <1>1, <1>2 DEF NoticeUnplug, GoesOn, Busy
<1> QED BY <1>1, <1>3, StartKeeps DEF NoticeUnplug, AbortOpenTransaction

LEMMA CloseFileKeeps ==
    ASSUME NEW c, NEW l, Alone(c, l), TypeInv, Held(c, l), CloseFile(l)
    PROVE  Held(c, l)'
<1>1. task[l].at = "close" /\ GoesOn(l)
  BY DEF CloseFile, Busy, GoesOn
<1>2. task[l].cmd.op \in {"commit", "abort"} /\ Proper(task[l].cmd)
  BY <1>1, AtClose
<1>3. reg.h \in {0, task[l].cmd.h}
  BY <1>2 DEF Proper
<1> QED BY <1>1, <1>2, <1>3, StartKeeps DEF CloseFile

-----------------------------------------------------------------------------
(* The other steps of an open and of a write.                               *)

(* A refused open.                                                          *)
LEMMA RefuseKeeps ==
    ASSUME NEW c, NEW l, Alone(c, l), TypeInv, Held(c, l),
           task[l].at \in {"check", "install"}, apiPath' = NoPath,
           Respond(l, FALSE, 0), UNCHANGED <<storeVars, reg, committed, stale, collided>>
    PROVE  Held(c, l)'
<1>1. Busy(l) /\ FALSE \in BOOLEAN /\ 0 \in Handles
  BY DEF Busy
<1>2. c \in Clients /\ l \in Links /\ task[l].cmd.op = "open" /\ reg.h = 0
  BY <1>1, AtWork DEF Fits, Held, Hand
<1>3. UNCHANGED <<txn, next, reg, inbox, saver, prefs, client, target, deletes, acked,
                  committed, stale, collided>>
  BY DEF Respond, storeVars, prefsVars, hostVars
<1>4. Channel(c, l)' /\ task'[l] = IdleTask /\ task'[l].at = "idle"
  BY <1>1, <1>2, AnswerChannel, IdleTypes DEF Held
<1>5. Work(c, l)'
  BY <1>1, <1>2, AnswerWork DEF Held
<1>6. Hand(l)'
  <2>1. ~collided' => stale' = {}
    BY <1>3 DEF Held, Hand, Telling
  <2>2. task'[l].cmd.op = "none"
    BY <1>4 DEF IdleTask, NoCmd
  <2> QED BY <1>2, <1>3, <1>4, <2>1, <2>2 DEF Hand, Owned, Telling
<1>7. Apart(l)'
  BY <1>2, <1>3, <1>4, ApartKeeps DEF Held
<1>8. Counted(c, l)'
  <2>1. Coming(c, l)' => Coming(c, l)
    BY <1>3, <1>4 DEF Coming
  <2> QED BY <1>3, <2>1, CountedKeeps DEF Held
<1>9. NoOrphanTxn'
  BY <1>3 DEF Held, NoOrphanTxn
<1> QED BY <1>4, <1>5, <1>6, <1>7, <1>8, <1>9 DEF Held

LEMMA CheckOpenKeeps ==
    ASSUME NEW c, NEW l, Alone(c, l), TypeInv, Held(c, l), CheckOpen(l)
    PROVE  Held(c, l)'
<1> DEFINE p == task[l].cmd.path
           D == DriveOf(p)
<1>1. task[l].at = "check" /\ Busy(l)
  BY DEF CheckOpen, Busy
<1>2. CASE ~CanOpen(p) /\ apiPath' = NoPath /\ Respond(l, FALSE, 0) /\ UNCHANGED storeVars
  BY <1>1, <1>2, RefuseKeeps DEF CheckOpen
<1>3. CASE /\ CanOpen(p) /\ AllocHandle(p) /\ Continue /\ UNCHANGED apiPath
           /\ task' = [task EXCEPT ![l].at = "install", ![l].h = NextHandle(D)]
  <2>1. /\ c \in Clients /\ l \in Links /\ task \in [Links -> TaskType]
        /\ next \in [Drives -> Handles] /\ txn \in [Drives -> Txn]
        /\ reg.d \in Drives /\ reg.h \in Nat /\ D \in Drives
    BY <1>1, AtWork, DriveType
  <2>2. /\ UNCHANGED <<txn, reg, apiPath, inbox, replies, link, saver, prefs, session,
                       client, target, deletes, acked, committed, stale, collided>>
        /\ next' = [next EXCEPT ![D] = NextHandle(D)]
    BY <1>3 DEF CheckOpen, Continue, prefsVars, hostVars, AllocHandle
  <2> HIDE DEF p, D
  <2>3. task'[l].at = "install" /\ task'[l].cmd = task[l].cmd /\ task'[l].h = NextHandle(D)
    BY <1>3, <2>1 DEF TaskType
  <2>4. /\ Len(target) \in Nat /\ prefs \in Nat
        /\ \A d \in Drives : next[d] \in Nat /\ txn[d].h \in Nat
    BY <2>1 DEF TypeInv, HostTypes, DeviceTypes, Txn
  <2>5. /\ \A d \in Drives : next[d] + 1 <= Len(target) + prefs
        /\ Len(target) <= MaxSaves /\ prefs <= MaxPrefs
    <3>1. Coming(c, l)
      BY <1>1, AtWork DEF Coming, Fits
    <3> QED BY <3>1 DEF Held, Counted
  <2>6. next[D] + 1 < HandleSpace
    BY <2>1, <2>4, <2>5 DEF Alone
  <2>7. NextHandle(D) = next[D] + 1
    BY <2>1, <2>6, HandleType DEF TypeInv, StoreInv
  <2>8. /\ \A d \in Drives : next'[d] \in Nat /\ next[d] <= next'[d]
        /\ next'[D] = next[D] + 1
        /\ \A d \in Drives : next'[d] <= next[d] + 1
    <3>1. next' = [next EXCEPT ![D] = next[D] + 1]
      BY <2>2, <2>7
    <3>2. DOMAIN next = Drives /\ D \in Drives /\ \A d \in Drives : next[d] \in Nat
      BY <2>1, <2>4
    <3> QED BY <3>1, <3>2
  <2>9. Channel(c, l)'
    BY <1>1, <1>3, <2>3, ContinueChannel DEF Held
  <2>10. Work(c, l)'
    <3>1. \A x : Proper(x) => Proper(x)'
      BY <2>2, SameProper
    <3>2. \A x : x = task[l].cmd => Proper(x)'
      BY <1>1, <3>1, AtWork
    <3>3. Fits("install", task[l].cmd.op)
      BY <1>1 DEF Held, Work, Fits
    <3>4. committed' \subseteq Uploads
      BY <2>2 DEF Held, Work
    <3> QED BY <1>1, <1>3, <2>2, <2>3, <3>2, <3>3, <3>4, ContinueWork DEF Held
  <2>11. Hand(l)'
    <3>1. reg'.h = 0 /\ (~collided' => stale' = {})
      BY <1>1, <2>2 DEF Held, Hand, Telling
    <3> QED BY <2>3, <3>1 DEF Hand, Owned, Telling, Busy
  <2>12. Apart(l)'
    <3>1. /\ \A d \in Drives : txn'[d].h <= next'[d]
          /\ reg'.h <= next'[reg'.d]
      <4>1. (\A d \in Drives : txn[d].h <= next[d]) /\ reg.h <= next[reg.d]
        BY DEF Held, Apart
      <4>2. ASSUME NEW d \in Drives, NEW h \in Nat, h <= next[d] PROVE h <= next'[d]
        <5>1. next[d] \in Nat /\ next'[d] \in Nat /\ next[d] <= next'[d]
          BY <2>4, <2>8
        <5> QED BY <4>2, <5>1
      <4>3. txn' = txn /\ reg' = reg
        BY <2>2
      <4> QED BY <2>1, <2>4, <4>1, <4>2, <4>3
    <3>2. DriveOf(task'[l].cmd.path) = D
      BY <2>3 DEF D, p
    <3>3. task'[l].h # 0 /\ task'[l].h <= next'[D]
      BY <2>1, <2>3, <2>4, <2>7, <2>8
    <3>4. ASSUME NEW s \in Savers, saver[s].at # "idle"
          PROVE  /\ saver[s].h # 0 /\ saver[s].h <= next'["F"]
                 /\ reg.d = "F" => reg.h # saver[s].h
                 /\ D = "F" => task'[l].h # saver[s].h
      <4>1. saver[s].h \in Nat
        BY DEF TypeInv, DeviceTypes, SaverType
      <4> QED BY <2>3, <2>4, <2>7, <2>8, <3>4, <4>1, SMTT(20) DEF Held, Apart
    <3>5. \A s \in Savers :
             saver'[s].at \in {"close", "fclose", "settled"} /\ txn'["F"].h = saver'[s].h =>
                /\ txn'["F"].path = PrefsPath
                /\ txn'["F"].data = IF saver'[s].at = "close" THEN <<>>
                                    ELSE PrefsImage(saver[s].v)'
      BY <2>2 DEF Held, Apart, PrefsImage
    <3>6. \A q : DriveOf(q)' = DriveOf(q)
      BY DEF DriveOf
    <3>7. \A s, t \in Savers : s # t /\ saver'[s].at # "idle" /\ saver'[t].at # "idle"
                                => saver'[s].h # saver'[t].h
      BY <2>2 DEF Held, Apart
    <3> QED BY <2>2, <3>1, <3>2, <3>3, <3>4, <3>5, <3>6, <3>7 DEF Apart
  <2>13. Counted(c, l)'
    <3>1. ~Coming(c, l)'
      BY <1>1, <2>2, <2>3, AtWork DEF Coming
    <3>2. \A d \in Drives : next'[d] + 0 <= Len(target') + prefs'
      BY <2>2, <2>4, <2>5, <2>8
    <3> QED BY <2>2, <2>5, <3>1, <3>2 DEF Counted
  <2>14. NoOrphanTxn'
    BY <2>2 DEF Held, NoOrphanTxn
  <2> QED BY <2>9, <2>10, <2>11, <2>12, <2>13, <2>14 DEF Held
<1> QED BY <1>2, <1>3 DEF CheckOpen

LEMMA InstallOpenKeeps ==
    ASSUME NEW c, NEW l, Alone(c, l), TypeInv, Held(c, l), InstallOpen(l)
    PROVE  Held(c, l)'
<1> DEFINE p == task[l].cmd.path
           D == DriveOf(p)
           h == task[l].h
<1>1. task[l].at = "install" /\ Busy(l)
  BY DEF InstallOpen, Busy
<1>2. CASE apiPath' = NoPath /\ Respond(l, FALSE, 0) /\ UNCHANGED <<storeVars, reg>>
  BY <1>1, <1>2, RefuseKeeps DEF InstallOpen
<1>3. CASE Install(p, h) /\ reg' = [d |-> D, h |-> h] /\ apiPath' = p /\ Respond(l, TRUE, h)
  <2>1. /\ c \in Clients /\ l \in Links /\ p \in Paths /\ h \in Handles /\ D \in Drives
        /\ next \in [Drives -> Handles] /\ txn \in [Drives -> Txn]
        /\ task[l].cmd.op = "open" /\ Proper(task[l].cmd) /\ reg.h = 0
        /\ task[l].cmd.save \in Nat /\ TRUE \in BOOLEAN
    BY <1>1, AtWork, DriveType DEF Fits, Held, Hand
  <2>2. UNCHANGED <<next, inbox, link, saver, prefs, session, client, target, deletes,
                    acked, committed, stale, collided>>
    BY <1>3 DEF InstallOpen, Respond, Install, prefsVars, hostVars
  <2>3. h # 0 /\ h <= next[D] /\ h \in Nat
    BY <1>1, <2>1 DEF Held, Apart
  <2>4. reg'.d = D /\ reg'.h = h
    BY <1>3
  <2>5. /\ txn'[D].h = h /\ txn'[D].path = p /\ txn'[D].data = <<>> /\ txn'[D].fp
        /\ \A e \in Drives : e # D => txn'[e] = txn[e]
    BY <1>3, <2>1 DEF Install, NewTxn
  <2>6. Channel(c, l)' /\ task'[l] = IdleTask /\ task'[l].at = "idle"
    BY <1>1, <1>3, <2>1, AnswerChannel, IdleTypes DEF Held
  <2>7. ASSUME NEW x, x.save = task[l].cmd.save, x.path = p, x.h = h,
               x.op \in {"write", "commit"},
               x.op = "write" <=> task[l].cmd.ix < NChunks,
               x.op = "write" => x.ix = task[l].cmd.ix + 1
        PROVE  Proper(x)'
    <3>1. /\ task[l].cmd.ix = 0 /\ x.save \notin committed /\ p \in HostPaths
          /\ x.save \in Uploads /\ target[x.save] = p
      BY <2>1, <2>7 DEF Proper, Ops
    <3>2. x.op = "write" => x.ix = 1 /\ x.ix \in 1 .. NChunks
      BY <2>7, <3>1
    <3>3. Sent(x) = 0
      BY <2>7, <3>1, <3>2 DEF Sent
    <3>4. Part(x.save, Sent(x)) = <<>>
      BY <2>1, <2>7, <3>3, Parts
    <3>5. Part(x.save, Sent(x))' = Part(x.save, Sent(x))
      BY DEF Part, Sent
    <3> HIDE DEF p, D, h
    <3>6. Owned' => /\ txn'[reg'.d].path = x.path
                    /\ txn'[reg'.d].data = Part(x.save, Sent(x))
                    /\ x.save \notin committed'
      BY <2>2, <2>4, <2>5, <2>7, <3>1, <3>4
    <3>7. x.save \in Uploads' /\ target'[x.save] = x.path
      BY <2>2, <2>7, <3>1 DEF Uploads
    <3> QED BY <2>4, <2>7, <3>1, <3>2, <3>5, <3>6, <3>7 DEF Proper
  <2>8. Work(c, l)'
    BY <1>1, <1>3, <2>1, <2>2, <2>7, AnswerWork DEF Held
  <2>9. Hand(l)'
    <3>1. ~collided' => stale' = {}
      BY <1>1, <2>2 DEF Held, Hand, Telling
    <3>2. DriveOf(apiPath)' = D
      BY <1>3 DEF DriveOf
    <3>3. task'[l].cmd.op = "none" /\ ~Telling(l)'
      BY <2>6 DEF IdleTask, NoCmd, Telling
    <3> QED BY <1>3, <2>4, <2>5, <2>6, <3>1, <3>2, <3>3 DEF Hand
  <2>10. Apart(l)'
    <3>1. \A d \in Drives : txn'[d].h <= next'[d]
      BY <2>1, <2>2, <2>3, <2>5 DEF Held, Apart
    <3>2. \A s \in Savers : saver[s].at # "idle" /\ D = "F" => saver[s].h # h
      BY <1>1 DEF Held, Apart
    <3>3. \A s \in Savers : saver'[s].at # "idle" =>
             /\ saver'[s].h # 0 /\ saver'[s].h <= next'["F"]
             /\ reg'.d = "F" => reg'.h # saver'[s].h
      BY <2>2, <2>4, <3>2 DEF Held, Apart
    <3>4. ASSUME NEW s \in Savers, saver'[s].at \in {"close", "fclose", "settled"},
                 txn'["F"].h = saver'[s].h
          PROVE  /\ txn'["F"].path = PrefsPath
                 /\ txn'["F"].data = IF saver'[s].at = "close" THEN <<>>
                                     ELSE PrefsImage(saver[s].v)'
      <4>1. saver[s].at # "idle"
        BY <2>2, <3>4
      <4>2. D # "F"
        BY <2>2, <2>5, <3>2, <3>4, <4>1
      <4> QED BY <2>2, <2>5, <3>4, <4>1, <4>2 DEF Held, Apart, PrefsImage
    <3>5. \A s, t \in Savers : s # t /\ saver'[s].at # "idle" /\ saver'[t].at # "idle"
                                => saver'[s].h # saver'[t].h
      BY <2>2 DEF Held, Apart
    <3> QED BY <2>2, <2>3, <2>4, <2>6, <3>1, <3>3, <3>4, <3>5 DEF Apart
  <2>11. Counted(c, l)'
    <3>1. Coming(c, l)' => Coming(c, l)
      BY <2>2, <2>6 DEF Coming
    <3>2. task' = [task EXCEPT ![l] = IdleTask]
      BY <1>3 DEF Respond
    <3> QED BY <2>2, <3>1, CountedKeeps DEF Held
  <2>12. NoOrphanTxn'
    <3>1. SUFFICES ASSUME NEW d \in Drives, txn'[d].h # 0
          PROVE  \/ reg' = [d |-> d, h |-> txn'[d].h]
                 \/ d = "F" /\ \E s \in Savers :
                      /\ saver'[s].at \in {"close", "fclose", "settled"}
                      /\ saver'[s].h = txn'[d].h
      BY DEF NoOrphanTxn
    <3>2. CASE d = D
      BY <1>3, <2>5, <3>2
    <3>3. CASE d # D
      <4>1. txn'[d].h = txn[d].h /\ txn[d].h # 0
        BY <2>5, <3>1, <3>3
      <4>2. ~(reg = [d |-> d, h |-> txn[d].h])
        BY <2>1, <4>1
      <4> QED BY <2>2, <4>1, <4>2 DEF Held, NoOrphanTxn
    <3> QED BY <3>2, <3>3
  <2> QED BY <2>6, <2>8, <2>9, <2>10, <2>11, <2>12 DEF Held
<1> QED BY <1>1, <1>2, <1>3 DEF InstallOpen

LEMMA WriteChunkKeeps ==
    ASSUME NEW c, NEW l, Alone(c, l), TypeInv, Held(c, l), WriteChunk(l)
    PROVE  Held(c, l)'
<1> DEFINE cmd == task[l].cmd
           chunk == [save |-> cmd.save, ix |-> cmd.ix]
<1>1. task[l].at = "write" /\ Busy(l)
  BY DEF WriteChunk, Busy
<1>2. /\ c \in Clients /\ l \in Links /\ cmd.op = "write" /\ Proper(cmd)
      /\ cmd.save \in Nat /\ cmd.ix \in Nat
      /\ reg \in [d : Drives, h : Handles] /\ reg.d \in Drives
      /\ txn \in [Drives -> Txn]
  BY <1>1, AtWork DEF Fits
<1>3. PICK ok \in BOOLEAN :
         /\ Respond(l, ok, 0)
         /\ ok => reg.h # 0 /\ AppendWrite(reg.d, cmd.h, chunk)
         /\ ~ok => \/ reg.h # 0 /\ AppendWrite(reg.d, cmd.h, [chunk EXCEPT !.ix = 0])
                   \/ UNCHANGED storeVars
  <2>1. TRUE \in BOOLEAN /\ FALSE \in BOOLEAN
    OBVIOUS
  <2> QED BY <2>1 DEF WriteChunk
<1>4. UNCHANGED <<reg, apiPath, inbox, link, saver, prefs, session, client, target,
                  deletes, acked, committed, stale, collided>>
  BY <1>3 DEF WriteChunk, Respond, prefsVars, hostVars
<1>5. ASSUME NEW e, reg.h # 0, AppendWrite(reg.d, cmd.h, e)
      PROVE  /\ Owned /\ next' = next
             /\ \A d \in Drives : /\ txn'[d].h = txn[d].h /\ txn'[d].path = txn[d].path
                                  /\ txn'[d].fp = txn[d].fp
             /\ \A d \in Drives : d # reg.d => txn'[d] = txn[d]
             /\ txn'[reg.d].data = Append(txn[reg.d].data, e)
  <2>1. txn[reg.d].h = cmd.h /\ reg.h = cmd.h
    BY <1>2, <1>5 DEF AppendWrite, Owns, Proper
  <2>2. txn' = [txn EXCEPT ![reg.d] =
                   [txn[reg.d] EXCEPT !.data = Append(txn[reg.d].data, e)]]
    BY <1>2, <1>5 DEF AppendWrite
  <2>3. txn[reg.d] \in Txn
    BY <1>2
  <2> QED BY <1>2, <1>5, <2>1, <2>2, <2>3 DEF AppendWrite, Owned, Txn
<1>6. /\ next' = next
      /\ \A d \in Drives : /\ txn'[d].h = txn[d].h /\ txn'[d].path = txn[d].path
                           /\ txn'[d].fp = txn[d].fp
      /\ \A d \in Drives : txn'[d] = txn[d] \/ (Owned /\ d = reg.d)
  BY <1>3, <1>5 DEF storeVars
<1>7. Channel(c, l)' /\ task'[l] = IdleTask /\ task'[l].at = "idle"
  <2>1. 0 \in Handles /\ Respond(l, ok, 0) /\ Channel(c, l)
    BY <1>3 DEF Held
  <2>2. l \in Links /\ Busy(l)
    BY <1>1, <1>2
  <2>3. Channel(c, l)' /\ task'[l] = IdleTask
    BY <2>1, <2>2, AnswerChannel
  <2> QED BY <2>3, IdleTypes
<1>8. ASSUME NEW x, x.save = cmd.save, x.path = cmd.path, x.h = cmd.h,
             x.op \in {"write", "commit"} =>
                /\ ok
                /\ x.op = "write" <=> cmd.ix < NChunks
                /\ x.op = "write" => x.ix = cmd.ix + 1,
             x.op \in {"write", "commit", "abort"}
      PROVE  Proper(x)'
  <2>1. /\ cmd.path \in HostPaths /\ cmd.save \in Uploads /\ target[cmd.save] = cmd.path
        /\ reg.h \in {0, cmd.h} /\ cmd.ix \in 1 .. NChunks
        /\ Owned => /\ txn[reg.d].path = cmd.path
                    /\ txn[reg.d].data = Part(cmd.save, cmd.ix - 1)
                    /\ cmd.save \notin committed
    BY <1>2 DEF Proper, Ops, Sent
  <2>2. x.op = "write" => x.ix \in 1 .. NChunks
    BY <1>2, <1>8, <2>1
  <2>3. x.op \in {"write", "commit"} => Sent(x) = cmd.ix
    BY <1>2, <1>8, <2>1 DEF Sent
  <2>4. ASSUME x.op \in {"write", "commit"}, Owned'
        PROVE  /\ txn'[reg'.d].path = x.path
               /\ txn'[reg'.d].data = Part(x.save, Sent(x))
               /\ x.save \notin committed'
    <3>1. AppendWrite(reg.d, cmd.h, chunk) /\ reg.h # 0
      BY <1>3, <1>8, <2>4
    <3>2. Owned /\ txn'[reg.d].data = Append(txn[reg.d].data, chunk)
      BY <1>5, <3>1
    <3>3. Append(Part(cmd.save, cmd.ix - 1), chunk) = Part(cmd.save, cmd.ix)
      <4>1. cmd.ix \in Nat \ {0}
        BY <1>2, <2>1
      <4>2. \A n \in Nat \ {0} :
               Append(Part(cmd.save, n - 1), [save |-> cmd.save, ix |-> n]) = Part(cmd.save, n)
        BY <1>2, Parts
      <4> HIDE DEF cmd
      <4> QED BY <4>1, <4>2
    <3> HIDE DEF cmd, chunk
    <3> QED BY <1>2, <1>4, <1>6, <1>8, <2>1, <2>3, <2>4, <3>2, <3>3
  <2>5. Part(x.save, Sent(x))' = Part(x.save, Sent(x))
    BY DEF Part, Sent
  <2>6. x.save \in Uploads' /\ target'[x.save] = x.path
    BY <1>4, <1>8, <2>1 DEF Uploads
  <2> HIDE DEF cmd
  <2> QED BY <1>4, <1>8, <2>1, <2>2, <2>4, <2>5, <2>6 DEF Proper
<1>9. Work(c, l)'
  <2>1. 0 \in Handles
    OBVIOUS
  <2> QED BY <1>1, <1>2, <1>3, <1>4, <1>8, <2>1, AnswerWork DEF Held
<1>10. Hand(l)'
  <2>1. ~collided' =>
            /\ stale' = {}
            /\ reg'.h # 0 /\ txn'[reg'.d].h = reg'.h => txn'[reg'.d].fp
    BY <1>1, <1>2, <1>4, <1>6 DEF Held, Hand, Telling
  <2>2. Owned' => Owned
    BY <1>2, <1>4, <1>6 DEF Owned
  <2>3. \A q : DriveOf(q)' = DriveOf(q)
    BY DEF DriveOf
  <2>4. Owned' => apiPath' = txn'[reg'.d].path /\ reg'.d = DriveOf(apiPath)'
    BY <1>2, <1>4, <1>6, <2>2, <2>3 DEF Held, Hand
  <2>5. task'[l].cmd.op = "none" /\ ~Telling(l)'
    BY <1>7 DEF IdleTask, NoCmd, Telling
  <2> QED BY <1>4, <1>7, <2>1, <2>4, <2>5 DEF Hand
<1>11. Apart(l)'
  BY <1>2, <1>4, <1>6, <1>7, ApartKeeps DEF Held
<1>12. Counted(c, l)'
  <2>1. Coming(c, l)' => Coming(c, l)
    BY <1>4, <1>7 DEF Coming
  <2> QED BY <1>4, <1>6, <2>1, CountedKeeps DEF Held
<1>13. NoOrphanTxn'
  BY <1>4, <1>6, OwnerKeeps DEF Held
<1> QED BY <1>7, <1>9, <1>10, <1>11, <1>12, <1>13 DEF Held

-----------------------------------------------------------------------------
(* The steps after a close, and those of a deletion.                        *)

(* A step that goes on and leaves the transactions alone.                   *)
LEMMA GoOnKeeps ==
    ASSUME NEW c, NEW l, Alone(c, l), TypeInv, Held(c, l), Busy(l), Continue,
           UNCHANGED <<txn, next, reg, apiPath, committed, collided>>,
           task'[l].cmd = task[l].cmd, task'[l].at \in {"notify", "clear", "unregister"},
           Fits(task'[l].at, task[l].cmd.op), Hand(l)'
    PROVE  Held(c, l)'
<1>1. UNCHANGED <<inbox, client, saver, prefs, target, deletes>>
  BY DEF Continue, prefsVars, hostVars
<1>2. Channel(c, l)'
  BY ContinueChannel DEF Held
<1>3. Work(c, l)'
  <2>1. \A x : x = task[l].cmd => Proper(x)'
    BY <1>1, AtWork, SameProper
  <2>2. committed' \subseteq Uploads
    BY DEF Held, Work
  <2> QED BY <2>1, <2>2, ContinueWork DEF Held
<1>4. Apart(l)'
  BY <1>1, AtWork, ApartKeeps DEF Held
<1>5. Counted(c, l)'
  <2>1. Coming(c, l)' => Coming(c, l)
    BY <1>1 DEF Coming
  <2> QED BY <1>1, <2>1, CountedKeeps DEF Held
<1>6. NoOrphanTxn'
  BY <1>1 DEF Held, NoOrphanTxn
<1> QED BY <1>2, <1>3, <1>4, <1>5, <1>6 DEF Held

(* The last step of a command, which leaves the transactions alone.         *)
LEMMA AnswerKeeps ==
    ASSUME NEW c, NEW l, Alone(c, l), TypeInv, Held(c, l), Busy(l),
           NEW ok \in BOOLEAN, Respond(l, ok, 0),
           task[l].at \in {"clear", "unregister"},
           UNCHANGED <<txn, next, reg, committed, collided>>, ~collided => stale' = {},
           \/ apiPath' = apiPath
           \/ reg.h = 0,
           task[l].cmd.op \in {"commit", "abort", "delete"},
           ~collided /\ task[l].cmd.op = "commit" /\ ok => task[l].cmd.save \in committed
    PROVE  Held(c, l)'
<1>1. UNCHANGED <<inbox, saver, prefs, client, target, deletes, acked>>
  BY DEF Respond, prefsVars, hostVars
<1>2. c \in Clients /\ l \in Links /\ Proper(task[l].cmd) /\ 0 \in Handles
  BY AtWork
<1>3. Channel(c, l)' /\ task'[l] = IdleTask
  BY <1>2, AnswerChannel DEF Held
<1>4. task'[l].at = "idle"
  BY <1>3, IdleTypes
<1>5. ASSUME NEW x, x.save = task[l].cmd.save, x.path = task[l].cmd.path,
             x.h = task[l].cmd.h, x.op = "abort", task[l].cmd.op = "commit"
      PROVE  Proper(x)'
  <2>1. Proper(x)
    BY <1>2, <1>5 DEF Proper, Ops
  <2> QED BY <1>1, <2>1, SameProper
<1>6. Work(c, l)'
  BY <1>2, <1>5, AnswerWork DEF Held
<1>7. Hand(l)'
  <2>1. Owned' => apiPath' = txn'[reg'.d].path /\ reg'.d = DriveOf(apiPath)'
    BY DEF Owned, Held, Hand, DriveOf
  <2>2. ~collided' /\ reg'.h # 0 /\ txn'[reg'.d].h = reg'.h => txn'[reg'.d].fp
    BY DEF Held, Hand
  <2>3. task'[l].cmd.op = "none" /\ ~Telling(l)'
    BY <1>3, <1>4 DEF IdleTask, NoCmd, Telling
  <2> QED BY <1>4, <2>1, <2>2, <2>3 DEF Hand
<1>8. Apart(l)'
  BY <1>1, <1>2, <1>4, ApartKeeps DEF Held
<1>9. Counted(c, l)'
  <2>1. Coming(c, l)' => Coming(c, l)
    BY <1>1, <1>4 DEF Coming
  <2> QED BY <1>1, <2>1, CountedKeeps DEF Held
<1>10. NoOrphanTxn'
  BY <1>1 DEF Held, NoOrphanTxn
<1> QED BY <1>3, <1>6, <1>7, <1>8, <1>9, <1>10 DEF Held

LEMMA RegisterScreenKeeps ==
    ASSUME NEW c, NEW l, Alone(c, l), TypeInv, Held(c, l), RegisterScreen(l)
    PROVE  Held(c, l)'
<1>1. task[l].at = "register" /\ Busy(l)
  BY DEF RegisterScreen, Busy
<1>2. /\ UNCHANGED <<txn, next, reg, apiPath, committed, stale, collided>> /\ Continue
      /\ task[l].cmd.op = "commit"
  BY <1>1, AtWork DEF RegisterScreen, RemoveTree, storeVars, Fits
<1>3. /\ task'[l].at = "notify" /\ task'[l].cmd = task[l].cmd /\ task'[l].ok = task[l].ok
  BY <1>1, AtWork DEF RegisterScreen, Goto, TaskType
<1>4. Hand(l)'
  BY <1>1, <1>2, <1>3 DEF Held, Hand, Owned, DriveOf, Telling, Busy
<1> QED BY <1>1, <1>2, <1>3, <1>4, GoOnKeeps DEF Fits

LEMMA NotifyChangedKeeps ==
    ASSUME NEW c, NEW l, Alone(c, l), TypeInv, Held(c, l), NotifyChanged(l)
    PROVE  Held(c, l)'
<1>1. task[l].at = "notify" /\ Busy(l)
  BY DEF NotifyChanged, Busy
<1>2. /\ UNCHANGED <<txn, next, reg, apiPath, committed, collided>> /\ Continue
      /\ task[l].cmd.op = "commit"
  BY <1>1, AtWork DEF NotifyChanged, storeVars, Fits
<1>3. /\ task'[l].at = "clear" /\ task'[l].cmd = task[l].cmd /\ task'[l].ok = task[l].ok
  BY <1>1, AtWork DEF NotifyChanged, Goto, TaskType
<1>4. ~collided => stale' = {}
  BY <1>1 DEF NotifyChanged, Held, Hand, Telling
<1>5. Hand(l)'
  BY <1>1, <1>2, <1>3, <1>4 DEF Held, Hand, Owned, DriveOf, Telling, Busy
<1> QED BY <1>1, <1>2, <1>3, <1>5, GoOnKeeps DEF Fits

LEMMA FinishCloseKeeps ==
    ASSUME NEW c, NEW l, Alone(c, l), TypeInv, Held(c, l), FinishClose(l)
    PROVE  Held(c, l)'
<1>1. task[l].at = "clear" /\ Busy(l)
  BY DEF FinishClose, Busy
<1>2. /\ task[l].ok \in BOOLEAN /\ task[l].cmd.op \in {"commit", "abort"}
      /\ reg.h = 0
      /\ ~collided =>
            /\ stale = {}
            /\ task[l].cmd.op = "commit" /\ task[l].ok => task[l].cmd.save \in committed
  BY <1>1, AtWork DEF Fits, Held, Hand, Telling
<1>3. UNCHANGED <<txn, next, reg, committed, stale, collided>> /\ Respond(l, task[l].ok, 0)
  BY DEF FinishClose, storeVars
<1> QED BY <1>1, <1>2, <1>3, AnswerKeeps

LEMMA DeleteFileKeeps ==
    ASSUME NEW c, NEW l, Alone(c, l), TypeInv, Held(c, l), DeleteFile(l)
    PROVE  Held(c, l)'
<1>1. task[l].at = "remove" /\ Busy(l)
  BY DEF DeleteFile, Busy
<1>2. /\ UNCHANGED <<txn, next, reg, apiPath, committed, collided>> /\ Continue
      /\ task[l].cmd.op = "delete"
  BY <1>1, AtWork DEF DeleteFile, RemoveTree, Fits
<1>3. task'[l].at = "unregister" /\ task'[l].cmd = task[l].cmd
  BY <1>1, AtWork DEF DeleteFile, TaskType
<1>4. ~collided => stale' = {task[l].cmd.path}
  BY <1>1 DEF DeleteFile, Held, Hand, Telling
<1>5. Hand(l)'
  BY <1>1, <1>2, <1>3, <1>4 DEF Held, Hand, Owned, DriveOf, Telling, Busy
<1> QED BY <1>1, <1>2, <1>3, <1>5, GoOnKeeps DEF Fits

LEMMA NotifyDeletedKeeps ==
    ASSUME NEW c, NEW l, Alone(c, l), TypeInv, Held(c, l), NotifyDeleted(l)
    PROVE  Held(c, l)'
<1>1. task[l].at = "unregister" /\ Busy(l)
  BY DEF NotifyDeleted, Busy
<1>2. task[l].ok \in BOOLEAN /\ task[l].cmd.op = "delete"
  BY <1>1, AtWork DEF Fits
<1>3. ~collided => stale' = {}
  BY <1>1 DEF NotifyDeleted, Held, Hand, Telling
<1>4. UNCHANGED <<txn, next, reg, apiPath, committed, collided>> /\ Respond(l, task[l].ok, 0)
  BY DEF NotifyDeleted, storeVars
<1> QED BY <1>1, <1>2, <1>3, <1>4, AnswerKeeps

LEMMA DispatchKeeps ==
    ASSUME NEW c, NEW l, Alone(c, l), TypeInv, Held(c, l), Dispatch(l)
    PROVE  Held(c, l)'
BY ReceiveKeeps, AbortStaleKeeps, CheckOpenKeeps, InstallOpenKeeps, WriteChunkKeeps,
   RestartKeeps, CloseFileKeeps, MoveFileKeeps, EndCloseKeeps, RegisterScreenKeeps,
   NotifyChangedKeeps, FinishCloseKeeps, DeleteFileKeeps, NotifyDeletedKeeps
   DEF Dispatch, PanicWrite

-----------------------------------------------------------------------------
(* The preferences.                                                         *)

LEMMA PrefsDrive == PrefsPath \in Paths /\ DriveOf(PrefsPath) = "F" /\ "F" \in Drives
BY DEF DriveOf

(* What a step of a saver leaves alone.                                     *)
LEMMA SaverKeeps ==
    ASSUME NEW c, NEW l, Alone(c, l), TypeInv, Held(c, l), UNCHANGED saverRest,
           collided => collided', Stays
    PROVE  Channel(c, l)' /\ Work(c, l)' /\ Hand(l)' /\ (Coming(c, l)' <=> Coming(c, l))
<1>1. UNCHANGED <<reg, apiPath, task, inbox, replies, link, session, client, target,
                  deletes, acked, committed, stale>>
  BY DEF saverRest, hostVars
<1>2. Channel(c, l)'
  <2>1. Request(c)' = Request(c)
    BY <1>1 DEF Request
  <2> QED BY <1>1, <2>1 DEF Held, Channel, Busy
<1>3. Work(c, l)'
  <2>1. \A x : Proper(x) => Proper(x)'
    BY <1>1, ProperStays DEF Uploads
  <2> QED BY <1>1, <2>1, WorkKeeps DEF Held
<1>4. Hand(l)'
  BY <1>1, HandKeeps DEF Held
<1>5. Coming(c, l)' <=> Coming(c, l)
  BY <1>1 DEF Coming
<1> QED BY <1>2, <1>3, <1>4, <1>5

LEMMA SavePrefsKeeps ==
    ASSUME NEW c, NEW l, Alone(c, l), TypeInv, Held(c, l), NEW s \in Savers, SavePrefs(s)
    PROVE  Held(c, l)'
<1>1. /\ prefs \in Nat /\ prefs' = prefs + 1 /\ prefs' <= MaxPrefs
      /\ Len(target) \in Nat /\ saver[s].at = "idle"
      /\ reg \in [d : Drives, h : Handles] /\ reg.d \in Drives /\ reg.h \in Nat
      /\ next \in [Drives -> Handles] /\ txn \in [Drives -> Txn]
      /\ saver \in [Savers -> SaverType]
      /\ l \in Links /\ task[l].h \in Nat
  BY OneEach DEF SavePrefs, TypeInv, DeviceTypes, HostTypes, StoreInv, StoreTypeOK,
                 LinkTypes, TaskType
<1>2. /\ UNCHANGED saverRest
      /\ UNCHANGED <<reg, apiPath, task, inbox, replies, link, session, client, target,
                     deletes, acked, committed, stale, collided>>
  BY DEF SavePrefs, saverRest, hostVars
<1>3. CASE UNCHANGED <<storeVars, saver>>
  <2>1. UNCHANGED <<txn, next, saver>>
    BY <1>3 DEF storeVars
  <2>2. Channel(c, l)'
    BY <1>2, <2>1, SaverKeeps DEF Stays
  <2> QED BY <1>1, <1>2, <2>1, <2>2, StillKeeps
<1>4. CASE /\ AllocHandle(PrefsPath)
           /\ saver' = [saver EXCEPT ![s] = [at |-> "install", h |-> NextHandle("F"),
                                            v |-> prefs + 1]]
  <2>1. /\ next' = [next EXCEPT !["F"] = NextHandle("F")]
        /\ txn' = txn
    BY <1>4, PrefsDrive DEF AllocHandle
  <2>2. /\ \A d \in Drives : next[d] \in Nat /\ txn[d].h \in Nat
        /\ \A d \in Drives : next[d] <= Len(target) + prefs
        /\ Len(target) <= MaxSaves
    <3>1. \A d \in Drives : next[d] \in Nat /\ txn[d].h \in Nat
      BY <1>1 DEF Txn
    <3>2. \A d \in Drives : next[d] <= Len(target) + prefs
      <4>1. SUFFICES ASSUME NEW d \in Drives PROVE next[d] <= Len(target) + prefs
        OBVIOUS
      <4>2. \/ next[d] + 1 <= Len(target) + prefs
            \/ next[d] + 0 <= Len(target) + prefs
        BY DEF Held, Counted
      <4> QED BY <1>1, <3>1, <4>2
    <3>3. Len(target) <= MaxSaves
      BY DEF Held, Counted
    <3> QED BY <3>1, <3>2, <3>3
  <2>3. NextHandle("F") = next["F"] + 1
    <3>1. next["F"] + 1 < HandleSpace
      <4>1. /\ next["F"] \in Nat /\ next["F"] <= Len(target) + prefs
            /\ prefs + 1 <= MaxPrefs
        BY <1>1, <2>2, PrefsDrive
      <4> QED BY <1>1, <2>2, <4>1 DEF Alone
    <3> QED BY <3>1, PrefsDrive, HandleType DEF TypeInv, StoreInv
  <2>4. /\ \A d \in Drives : next[d] <= next'[d] /\ next'[d] <= next[d] + 1 /\ next'[d] \in Nat
        /\ next'["F"] = next["F"] + 1
    <3>1. next' = [next EXCEPT !["F"] = next["F"] + 1]
      BY <2>1, <2>3
    <3>2. DOMAIN next = Drives /\ \A d \in Drives : next[d] \in Nat
      BY <1>1, <2>2
    <3> QED BY <3>1, <3>2, PrefsDrive
  <2>5. /\ saver'[s].at = "install" /\ saver'[s].h = next["F"] + 1
        /\ \A t \in Savers : t # s => saver'[t] = saver[t]
    BY <1>1, <1>4, <2>3
  <2>6. Channel(c, l)' /\ Work(c, l)' /\ Hand(l)' /\ (Coming(c, l)' <=> Coming(c, l))
    BY <1>2, <2>1, SaverKeeps DEF Stays
  <2>7. Apart(l)'
    <3>1. \A d \in Drives : txn'[d].h <= next'[d]
      BY <2>1, <2>2, <2>4 DEF Held, Apart
    <3>2. reg'.h <= next'[reg'.d]
      <4>1. reg.h <= next[reg.d]
        BY DEF Held, Apart
      <4>2. next[reg.d] <= next'[reg.d] /\ next[reg.d] \in Nat /\ next'[reg.d] \in Nat
        BY <1>1, <2>2, <2>4
      <4> QED BY <1>1, <1>2, <4>1, <4>2
    <3>3. task'[l].at = "install" => task'[l].h # 0
                                     /\ task'[l].h <= next'[DriveOf(task'[l].cmd.path)]
      <4> DEFINE D == DriveOf(task[l].cmd.path)
      <4>1. D \in Drives
        BY DriveType
      <4>2. task[l].at = "install" => task[l].h # 0 /\ task[l].h <= next[D]
        BY DEF Held, Apart
      <4>3. next[D] <= next'[D] /\ next[D] \in Nat /\ next'[D] \in Nat
        BY <2>2, <2>4, <4>1
      <4>4. DriveOf(task'[l].cmd.path) = D
        BY <1>2
      <4> HIDE DEF D
      <4>5. task' = task /\ task[l].h \in Nat
        BY <1>1, <1>2
      <4> QED BY <4>2, <4>3, <4>4, <4>5
    <3>4. ASSUME NEW t \in Savers, saver'[t].at # "idle"
          PROVE  /\ saver'[t].h # 0 /\ saver'[t].h <= next'["F"]
                 /\ reg'.d = "F" => reg'.h # saver'[t].h
                 /\ task'[l].at = "install" /\ DriveOf(task'[l].cmd.path) = "F" =>
                       task'[l].h # saver'[t].h
      <4>1. CASE t = s
        <5>1. reg.d = "F" => reg.h <= next["F"]
          BY DEF Held, Apart
        <5>2. task[l].at = "install" /\ DriveOf(task[l].cmd.path) = "F" =>
                 task[l].h <= next["F"]
          BY DEF Held, Apart
        <5>3. /\ saver'[t].h = next["F"] + 1 /\ next'["F"] = next["F"] + 1
              /\ next["F"] \in Nat /\ next'["F"] \in Nat
          BY <2>2, <2>4, <2>5, <4>1, PrefsDrive
        <5>4. reg' = reg /\ reg.h \in Nat /\ task' = task /\ task[l].h \in Nat
          BY <1>1, <1>2
        <5>5. DriveOf(task'[l].cmd.path) = DriveOf(task[l].cmd.path)
          BY <5>4
        <5> QED BY <5>1, <5>2, <5>3, <5>4, <5>5
      <4>2. CASE t # s
        <5>1. saver'[t] = saver[t] /\ saver[t].h \in Nat
          BY <1>1, <2>5, <4>2 DEF SaverType
        <5>2. saver[t].h # 0 /\ saver[t].h <= next["F"]
          BY <3>4, <5>1 DEF Held, Apart
        <5>3. /\ reg.d = "F" => reg.h # saver[t].h
              /\ task[l].at = "install" /\ DriveOf(task[l].cmd.path) = "F" =>
                    task[l].h # saver[t].h
          BY <3>4, <5>1 DEF Held, Apart
        <5> QED BY <1>2, <2>2, <2>4, <5>1, <5>2, <5>3, PrefsDrive
      <4> QED BY <4>1, <4>2
    <3>5. \A t \in Savers :
             saver'[t].at \in {"close", "fclose", "settled"} /\ txn'["F"].h = saver'[t].h =>
                /\ txn'["F"].path = PrefsPath
                /\ txn'["F"].data = IF saver'[t].at = "close" THEN <<>>
                                    ELSE PrefsImage(saver[t].v)'
      BY <2>1, <2>5 DEF Held, Apart, PrefsImage
    <3>6. \A q : DriveOf(q)' = DriveOf(q)
      BY DEF DriveOf
    <3>7. ASSUME NEW t \in Savers, NEW u \in Savers, t # u,
                 saver'[t].at # "idle", saver'[u].at # "idle"
          PROVE  saver'[t].h # saver'[u].h
      <4>1. \A x \in Savers : saver[x].h \in Nat
        BY <1>1 DEF SaverType
      <4>2. \A x \in Savers : saver[x].at # "idle" => saver[x].h <= next["F"]
        BY DEF Held, Apart
      <4>3. next["F"] \in Nat
        BY <2>2, PrefsDrive
      <4>4. CASE t # s /\ u # s
        BY <2>5, <3>7, <4>4 DEF Held, Apart
      <4>5. CASE t = s
        <5>1. u # s /\ saver'[u] = saver[u] /\ saver[u].h \in Nat
              /\ saver[u].h <= next["F"] /\ saver'[t].h = next["F"] + 1
          BY <2>5, <3>7, <4>1, <4>2, <4>5
        <5> QED BY <4>3, <5>1
      <4>6. CASE u = s
        <5>1. t # s /\ saver'[t] = saver[t] /\ saver[t].h \in Nat
              /\ saver[t].h <= next["F"] /\ saver'[u].h = next["F"] + 1
          BY <2>5, <3>7, <4>1, <4>2, <4>6
        <5> QED BY <4>3, <5>1
      <4> QED BY <4>4, <4>5, <4>6
    <3> QED BY <3>1, <3>2, <3>3, <3>4, <3>5, <3>6, <3>7 DEF Apart
  <2>8. Counted(c, l)'
    <3>1. \A d \in Drives :
             next'[d] + (IF Coming(c, l) THEN 1 ELSE 0) <= Len(target') + prefs'
      <4>1. PICK k \in {0, 1} : k = IF Coming(c, l) THEN 1 ELSE 0
        OBVIOUS
      <4>2. \A d \in Drives : next[d] + k <= Len(target) + prefs
        BY <4>1 DEF Held, Counted
      <4>3. \A d \in Drives : next'[d] + k <= Len(target') + prefs'
        <5>1. SUFFICES ASSUME NEW d \in Drives
              PROVE  next'[d] + k <= Len(target') + prefs'
          OBVIOUS
        <5>2. /\ next[d] \in Nat /\ next'[d] \in Nat /\ next'[d] <= next[d] + 1
              /\ next[d] + k <= Len(target) + prefs
          BY <2>2, <2>4, <4>2
        <5> DEFINE L == Len(target)
        <5>3. /\ L \in Nat /\ L = Len(target') /\ next[d] + k <= L + prefs
              /\ prefs \in Nat /\ prefs' = prefs + 1
          BY <1>1, <1>2, <5>2
        <5> HIDE DEF L
        <5>4. next'[d] + k <= L + prefs'
          BY <4>1, <5>2, <5>3
        <5> QED BY <5>3, <5>4
      <4> QED BY <4>1, <4>3
    <3> QED BY <1>1, <1>2, <2>2, <2>6, <3>1 DEF Counted
  <2>9. NoOrphanTxn'
    <3>1. SUFFICES ASSUME NEW d \in Drives, txn'[d].h # 0
          PROVE  \/ reg' = [d |-> d, h |-> txn'[d].h]
                 \/ d = "F" /\ \E t \in Savers :
                      /\ saver'[t].at \in {"close", "fclose", "settled"}
                      /\ saver'[t].h = txn'[d].h
      BY DEF NoOrphanTxn
    <3> QED BY <1>1, <1>2, <2>1, <2>5, <3>1 DEF Held, NoOrphanTxn
  <2> QED BY <2>6, <2>7, <2>8, <2>9 DEF Held
<1> QED BY <1>3, <1>4 DEF SavePrefs

(* A step of a saver that takes no new handle: txn["F"] becomes or stays    *)
(* its own, or is ended or left to another.                                 *)
LEMMA OwnTxnKeeps ==
    ASSUME NEW c, NEW l, Alone(c, l), TypeInv, Held(c, l), NEW s \in Savers,
           saver[s].at # "idle", UNCHANGED <<next, prefs, saverRest>>,
           \A t \in Savers : t # s => saver'[t] = saver[t],
           saver'[s].at # "idle" => saver'[s].h = saver[s].h,
           txn'["R"] = txn["R"], collided => collided',
           \/ /\ saver'[s].at \in {"close", "fclose", "settled"}
              /\ txn'["F"].h = saver[s].h /\ txn'["F"].path = PrefsPath
              /\ txn'["F"].data = IF saver'[s].at = "close" THEN <<>>
                                  ELSE PrefsImage(saver'[s].v)
           \/ txn'["F"].h = 0
           \/ /\ txn["F"].h # saver[s].h /\ txn'["F"].h = txn["F"].h
              /\ txn'["F"].path = txn["F"].path /\ txn'["F"].data = txn["F"].data
              /\ txn'["F"] = txn["F"] \/ (~txn'["F"].fp /\ collided')
    PROVE  Held(c, l)'
<1>1. /\ UNCHANGED <<reg, task, target>>
      /\ reg \in [d : Drives, h : Handles] /\ reg.d \in Drives
      /\ l \in Links /\ saver[s].h # 0 /\ saver[s].h <= next["F"]
  BY OneEach DEF saverRest, hostVars, TypeInv, DeviceTypes, Held, Apart
<1>2. Stays
  <2>1. reg.d = "F" => reg.h # saver[s].h
    BY DEF Held, Apart
  <2>2. CASE reg.h = 0
    BY <1>1, <2>2 DEF Stays
  <2>3. CASE reg.h # 0 /\ reg.d = "R"
    BY <1>1, <2>3 DEF Stays
  <2>4. CASE reg.h # 0 /\ reg.d = "F"
    BY <1>1, <2>1, <2>4 DEF Stays
  <2> QED BY <1>1, <2>2, <2>3, <2>4 DEF Drives
<1>3. Channel(c, l)' /\ Work(c, l)' /\ Hand(l)' /\ (Coming(c, l)' <=> Coming(c, l))
  BY <1>2, SaverKeeps
<1>4. Apart(l)'
  <2>1. \A d \in Drives : txn'[d].h <= next'[d]
    <3>1. \A d \in Drives : next[d] \in Nat
      BY DEF TypeInv, StoreInv, StoreTypeOK
    <3>2. txn'["F"].h <= next["F"]
      BY <1>1, <3>1, PrefsDrive DEF Held, Apart
    <3>3. txn'["R"].h <= next["R"]
      BY DEF Held, Apart, Drives
    <3> QED BY <3>2, <3>3 DEF Drives
  <2>2. \A t \in Savers : saver'[t].at # "idle" =>
            saver[t].at # "idle" /\ saver'[t].h = saver[t].h
    OBVIOUS
  <2>3. \A t \in Savers : saver'[t].at # "idle" =>
            /\ saver'[t].h # 0 /\ saver'[t].h <= next'["F"]
            /\ reg'.d = "F" => reg'.h # saver'[t].h
            /\ task'[l].at = "install" /\ DriveOf(task'[l].cmd.path) = "F" =>
                  task'[l].h # saver'[t].h
    BY <1>1, <2>2 DEF Held, Apart
  <2>4. \A t, u \in Savers : t # u /\ saver'[t].at # "idle" /\ saver'[u].at # "idle"
                              => saver'[t].h # saver'[u].h
    BY <2>2 DEF Held, Apart
  <2>5. ASSUME NEW t \in Savers, saver'[t].at \in {"close", "fclose", "settled"},
               txn'["F"].h = saver'[t].h
        PROVE  /\ txn'["F"].path = PrefsPath
               /\ txn'["F"].data = IF saver'[t].at = "close" THEN <<>>
                                   ELSE PrefsImage(saver'[t].v)
    <3>1. txn'["F"].h # 0 /\ saver'[t].h = saver[t].h
      BY <2>2, <2>3, <2>5
    <3>2. CASE t = s
      BY <2>5, <3>1, <3>2
    <3>3. CASE t # s
      <4>1. saver'[t] = saver[t] /\ txn'["F"].h # saver[s].h
        BY <2>5, <3>1, <3>3 DEF Held, Apart
      <4>2. /\ txn'["F"].h = txn["F"].h /\ txn'["F"].path = txn["F"].path
            /\ txn'["F"].data = txn["F"].data
        BY <3>1, <4>1
      <4> QED BY <2>5, <4>1, <4>2 DEF Held, Apart
    <3> QED BY <3>2, <3>3
  <2>6. (\A q : DriveOf(q)' = DriveOf(q)) /\ (\A v : PrefsImage(v)' = PrefsImage(v))
    BY DEF DriveOf, PrefsImage
  <2>7. reg'.h <= next'[reg'.d]
    BY <1>1 DEF Held, Apart
  <2>8. task'[l].at = "install" => task'[l].h # 0
                                   /\ task'[l].h <= next'[DriveOf(task'[l].cmd.path)]
    BY <1>1 DEF Held, Apart
  <2> QED BY <2>1, <2>3, <2>4, <2>5, <2>6, <2>7, <2>8 DEF Apart
<1>5. Counted(c, l)'
  BY <1>1, <1>3, CountedKeeps DEF Held
<1>6. NoOrphanTxn'
  <2>1. SUFFICES ASSUME NEW d \in Drives, txn'[d].h # 0
        PROVE  \/ reg' = [d |-> d, h |-> txn'[d].h]
               \/ d = "F" /\ \E t \in Savers : Saving(t)' /\ saver'[t].h = txn'[d].h
    BY DEF NoOrphanTxn, Saving
  <2>2. CASE d = "F" /\ Saving(s)' /\ txn'["F"].h = saver[s].h
    BY <2>2 DEF Saving
  <2>3. CASE txn'[d].h = txn[d].h /\ (d = "F" => txn["F"].h # saver[s].h)
    <3>1. \/ reg = [d |-> d, h |-> txn[d].h]
          \/ d = "F" /\ \E t \in Savers : Saving(t) /\ saver[t].h = txn[d].h
      BY <2>1, <2>3 DEF Held, NoOrphanTxn, Saving
    <3>2. CASE reg = [d |-> d, h |-> txn[d].h]
      BY <1>1, <2>3, <3>2
    <3>3. CASE d = "F" /\ \E t \in Savers : Saving(t) /\ saver[t].h = txn[d].h
      <4>1. PICK t \in Savers : Saving(t) /\ saver[t].h = txn[d].h
        BY <3>3
      <4>2. t # s /\ saver'[t] = saver[t]
        BY <2>3, <3>3, <4>1
      <4> QED BY <2>3, <3>3, <4>1, <4>2 DEF Saving
    <3> QED BY <3>1, <3>2, <3>3
  <2> QED BY <2>1, <2>2, <2>3 DEF Drives, Saving
<1> QED BY <1>3, <1>4, <1>5, <1>6 DEF Held

LEMMA SaveKeeps ==
    ASSUME NEW c, NEW l, Alone(c, l), TypeInv, Held(c, l), NEW s \in Savers, Save(s)
    PROVE  Held(c, l)'
<1>1. /\ txn \in [Drives -> Txn] /\ txn["F"] \in Txn
      /\ saver \in [Savers -> SaverType] /\ saver[s] \in SaverType
      /\ saver[s].at # "idle" => saver[s].h # 0
  BY PrefsDrive DEF TypeInv, StoreInv, StoreTypeOK, DeviceTypes, Held, Apart
<1>2. ASSUME NEW at, saver' = [saver EXCEPT ![s].at = at]
      PROVE  /\ \A t \in Savers : t # s => saver'[t] = saver[t]
             /\ saver'[s].at = at /\ saver'[s].h = saver[s].h /\ saver'[s].v = saver[s].v
  BY <1>1, <1>2 DEF SaverType
<1>3. ASSUME saver' = [saver EXCEPT ![s] = IdleSaver]
      PROVE  /\ \A t \in Savers : t # s => saver'[t] = saver[t]
             /\ saver'[s].at = "idle"
  BY <1>1, <1>3 DEF IdleSaver
<1>4. CASE InstallPrefs(s)
  <2>1. saver[s].at = "install" /\ UNCHANGED <<next, prefs, saverRest, collided>>
    BY <1>4 DEF InstallPrefs, Install, storeVars
  <2>2. CASE Install(PrefsPath, saver[s].h) /\ saver' = [saver EXCEPT ![s].at = "close"]
    <3>1. txn' = [txn EXCEPT !["F"] = NewTxn(PrefsPath, saver[s].h)]
      BY <2>2, PrefsDrive DEF Install
    <3>2. /\ txn'["R"] = txn["R"] /\ txn'["F"].h = saver[s].h
          /\ txn'["F"].path = PrefsPath /\ txn'["F"].data = <<>>
      BY <1>1, <3>1 DEF NewTxn, Drives
    <3> QED BY <1>2, <2>1, <2>2, <3>2, OwnTxnKeeps
  <2>3. CASE saver' = [saver EXCEPT ![s] = IdleSaver] /\ UNCHANGED storeVars
    <3>1. txn' = txn /\ txn["F"].h # saver[s].h
      <4>1. saver[s].h # txn["F"].h
        <5>1. reg.d = "F" => reg.h # saver[s].h
          BY <2>1 DEF Held, Apart
        <5>2. \A t \in Savers : Saving(t) => saver[t].h # saver[s].h
          BY <2>1 DEF Held, Apart, Saving
        <5>3. txn["F"].h # 0 => \/ reg = [d |-> "F", h |-> txn["F"].h]
                               \/ \E t \in Savers : Saving(t) /\ saver[t].h = txn["F"].h
          BY PrefsDrive DEF Held, NoOrphanTxn, Saving
        <5>4. CASE reg = [d |-> "F", h |-> txn["F"].h]
          BY <5>1, <5>4
        <5> QED BY <1>1, <2>1, <5>2, <5>3, <5>4
      <4> QED BY <2>3, <4>1 DEF storeVars
    <3> QED BY <1>3, <2>1, <2>3, <3>1, OwnTxnKeeps
  <2> QED BY <1>4, <2>2, <2>3 DEF InstallPrefs
<1>5. CASE ClosePrefs(s)
  <2>1. saver[s].at = "close" /\ UNCHANGED <<next, prefs, saverRest, collided>>
    BY <1>5 DEF ClosePrefs, AppendWrite, storeVars
  <2> DEFINE e == [save |-> 0, ix |-> saver[s].v]
  <2>2. CASE AppendWrite("F", saver[s].h, e) /\ saver' = [saver EXCEPT ![s].at = "fclose"]
    <3>1. txn["F"].h = saver[s].h /\ txn["F"].path = PrefsPath /\ txn["F"].data = <<>>
      BY <2>1, <2>2 DEF AppendWrite, Owns, Held, Apart
    <3>2. txn' = [txn EXCEPT !["F"] =
                     [txn["F"] EXCEPT !.data = Append(txn["F"].data, e)]]
      BY <1>1, <2>2 DEF AppendWrite
    <3>3. Append(<<>>, e) = <<e>>
      OBVIOUS
    <3>4. PrefsImage(saver[s].v) = <<e>>
      BY DEF PrefsImage
    <3> HIDE DEF e
    <3>5. /\ txn'["R"] = txn["R"] /\ txn'["F"].h = saver[s].h
          /\ txn'["F"].path = PrefsPath /\ txn'["F"].data = PrefsImage(saver[s].v)
      BY <1>1, <3>1, <3>2, <3>3, <3>4 DEF Txn, Drives
    <3>6. saver'[s].at = "fclose" /\ txn'["F"].data = PrefsImage(saver'[s].v)
      BY <1>2, <2>2, <3>5
    <3> QED BY <1>2, <2>1, <2>2, <3>5, <3>6, OwnTxnKeeps
  <2>3. CASE ~Owns("F", saver[s].h) /\ saver' = [saver EXCEPT ![s] = IdleSaver]
             /\ UNCHANGED storeVars
    <3>1. txn' = txn /\ txn["F"].h # saver[s].h
      BY <1>1, <2>1, <2>3 DEF Owns, storeVars
    <3> QED BY <1>3, <2>1, <2>3, <3>1, OwnTxnKeeps
  <2> QED BY <1>5, <2>2, <2>3 DEF ClosePrefs
<1>6. CASE MovePrefs(s)
  <2>1. /\ saver[s].at = "fclose" /\ UNCHANGED <<prefs, saverRest>>
        /\ saver' = [saver EXCEPT ![s].at = "settled"]
        /\ collided' = (collided \/ ~Owns("F", saver[s].h))
    BY <1>6 DEF MovePrefs
  <2>2. PICK ok \in BOOLEAN : MoveTmp(saver[s].h, TRUE, ok)
    BY <1>6 DEF MovePrefs
  <2>3. /\ next' = next /\ txn'["R"] = txn["R"] /\ ~txn'["F"].fp
        /\ txn'["F"].h = txn["F"].h
        /\ txn'["F"].path = txn["F"].path /\ txn'["F"].data = txn["F"].data
    BY <2>2, MoveFacts DEF TypeInv
  <2>4. CASE txn["F"].h = saver[s].h
    <3>1. txn["F"].path = PrefsPath /\ txn["F"].data = PrefsImage(saver[s].v)
      BY <2>1, <2>4 DEF Held, Apart
    <3>2. saver'[s].at = "settled" /\ txn'["F"].data = PrefsImage(saver'[s].v)
      BY <1>2, <2>1, <2>3, <3>1
    <3> QED BY <1>2, <2>1, <2>3, <2>4, <3>1, <3>2, OwnTxnKeeps
  <2>5. CASE txn["F"].h # saver[s].h
    <3>1. collided'
      BY <2>1, <2>5 DEF Owns
    <3> QED BY <1>2, <2>1, <2>3, <2>5, <3>1, OwnTxnKeeps
  <2> QED BY <2>4, <2>5
<1>7. CASE EndPrefs(s)
  <2>1. /\ saver[s].at = "settled" /\ UNCHANGED <<next, prefs, saverRest, collided>>
        /\ saver' = [saver EXCEPT ![s] = IdleSaver]
        /\ txn' = [txn EXCEPT !["F"] = NoTxn]
    BY <1>7 DEF EndPrefs, EndTxn
  <2>2. txn'["R"] = txn["R"] /\ txn'["F"].h = 0
    BY <1>1, <2>1, NoTxnType DEF Drives
  <2> QED BY <1>3, <2>1, <2>2, OwnTxnKeeps
<1>8. CASE PanicSave(s)
  BY <1>8, RestartKeeps DEF PanicSave
<1> QED BY <1>4, <1>5, <1>6, <1>7, <1>8, SavePrefsKeeps DEF Save, StoreStep

-----------------------------------------------------------------------------
(* What one program on one cable can rely on.                               *)

LEMMA HeldInit == ASSUME NEW c, NEW l, Alone(c, l), Init PROVE Held(c, l)
<1>1. c \in Clients /\ l \in Links
  BY OneEach
<1>2. /\ session[l] = FALSE /\ client[c].op = "none" /\ client[c].waiting = FALSE
      /\ inbox[l] = <<>> /\ replies[l] = <<>> /\ task[l].at = "idle"
      /\ task[l].cmd.op = "none" /\ reg.h = 0 /\ reg.d \in Drives /\ stale = {} /\ acked = {} /\ committed = {}
      /\ prefs = 0 /\ Len(target) = 0
      /\ \A d \in Drives : txn[d].h = 0 /\ next[d] = 0
      /\ \A s \in Savers : saver[s].at = "idle"
  BY <1>1 DEF Init, StoreInit, Idle, IdleTask, NoCmd, NoReg, NoTxn, IdleSaver
<1>3. Channel(c, l)
  BY <1>2 DEF Channel
<1>4. Work(c, l)
  BY <1>2, NoneProper DEF Work, Busy
<1>5. Hand(l)
  BY <1>2 DEF Hand, Owned, Telling, Busy
<1>6. Apart(l)
  BY <1>2 DEF Apart
<1>7. Counted(c, l)
  BY <1>2 DEF Counted, Coming
<1>8. NoOrphanTxn
  BY <1>2 DEF NoOrphanTxn
<1> QED BY <1>3, <1>4, <1>5, <1>6, <1>7, <1>8 DEF Held

LEMMA StutterKeeps ==
    ASSUME NEW c, NEW l, Alone(c, l), TypeInv, Held(c, l), UNCHANGED vars
    PROVE  Held(c, l)'
<1>1. UNCHANGED <<txn, next, reg, apiPath, task, inbox, replies, link, saver, prefs,
                  session, client, target, deletes, acked, committed, stale, collided>>
  BY DEF vars
<1>2. Request(c)' = Request(c)
  BY <1>1 DEF Request
<1>3. Channel(c, l)'
  BY <1>1, <1>2 DEF Held, Channel, Busy
<1>4. prefs' <= MaxPrefs
  BY <1>1 DEF Held, Counted
<1> QED BY <1>1, <1>3, <1>4, StillKeeps

LEMMA HeldStep ==
    ASSUME NEW c, NEW l, Alone(c, l), TypeInv, Held(c, l), [Next]_vars
    PROVE  Held(c, l)'
<1>1. \A b \in Clients : b = c
  BY OneEach
<1>2. \A k \in Links : k = l
  BY OneEach
<1>3. ASSUME NEW b \in Clients, Client(b) PROVE Held(c, l)'
  <2>1. Client(c)
    BY <1>1, <1>3
  <2>2. ~TimeOut(c)
    BY DEF TimeOut, Alone
  <2> QED BY <2>1, <2>2, BeginSaveKeeps, BeginDeleteKeeps, SendKeeps, TakeReplyKeeps
          DEF Client
<1>4. ASSUME NEW k \in Links, Program(k) \/ Dispatch(k) \/ Cable(k) PROVE Held(c, l)'
  <2>1. Program(l) \/ Dispatch(l) \/ Cable(l)
    BY <1>2, <1>4
  <2> QED BY <2>1, OpenSessionKeeps, DieKeeps, DispatchKeeps, UnplugKeeps,
             NoticeUnplugKeeps, ReplugKeeps DEF Program, Cable
<1> QED BY <1>3, <1>4, SaveKeeps, RestartKeeps, MountKeepsHeld, StutterKeeps
        DEF Next, Reboot

LEMMA HeldAlways ==
    ASSUME NEW c, NEW l, Alone(c, l) PROVE Spec => [](TypeInv /\ Held(c, l))
<1>1. Init => TypeInv /\ Held(c, l)
  BY TypeInit, HeldInit
<1>2. TypeInv /\ Held(c, l) /\ [Next]_vars => (TypeInv /\ Held(c, l))'
  BY TypeStep, HeldStep
<1> QED BY <1>1, <1>2, PTL DEF Spec

(* A transaction that is open on a filesystem always belongs to somebody    *)
(* who will end it, whatever was unplugged, killed, refused or interrupted: *)
(* the device never refuses every upload until its next power cycle.        *)
THEOREM NothingOrphaned ==
    ASSUME NEW c, NEW l, Alone(c, l) PROVE Spec => []NoOrphanTxn
<1>1. TypeInv /\ Held(c, l) => NoOrphanTxn
  BY DEF Held
<1> QED BY <1>1, HeldAlways, PTL

(* An upload whose commit was answered OK is in the file that was named,    *)
(* and the screens have been told of it when the device is at rest.         *)
THEOREM AckedIsDone ==
    ASSUME NEW c, NEW l, Alone(c, l) PROVE Spec => []AckedTakesEffect
<1>1. TypeInv /\ Held(c, l) => AckedTakesEffect
  BY OneEach DEF Held, Work, Hand, Telling, AckedTakesEffect, AckedIsCommitted, ScreensTold
<1> QED BY <1>1, HeldAlways, PTL

-----------------------------------------------------------------------------
(* Uploads are atomic.                                                      *)

(* As Alone, with one task at most that saves preferences, and chunks in    *)
(* every upload: two uploads without any to one path are the same bytes, so *)
(* that committed, a history of the bytes, takes both.                      *)
OneSaver == \A s, t \in Savers : s = t

(* What the abstract uploads see.                                           *)
seen == <<file, target, deletes, committed, prefs, stale>>

LEMMA PrefsStay ==
    ASSUME PrefsInv, file'[PrefsPath] = file[PrefsPath], prefs' = prefs,
           \A s \in Savers : saver'[s].at \in {"install", "close", "fclose"} =>
               saver[s].at \in {"install", "close", "fclose"} /\ saver'[s].v = saver[s].v
    PROVE  PrefsInv'
<1>1. \A v : PrefsImage(v)' = PrefsImage(v)
  BY DEF PrefsImage
<1> QED BY <1>1 DEF PrefsInv

LEMMA Images ==
    ASSUME NEW v \in Nat
    PROVE  /\ PrefsImage(v) # Absent
           /\ \A w \in Nat : PrefsImage(v) = PrefsImage(w) => v = w
           /\ <<>> \o PrefsImage(v) = PrefsImage(v)
<1>1. PrefsImage(v) # Absent
  BY ImageType, ContentAssumption DEF ContentAssumption
<1>2. ASSUME NEW w \in Nat, PrefsImage(v) = PrefsImage(w) PROVE v = w
  <2>1. PrefsImage(v)[1].ix = v /\ PrefsImage(w)[1].ix = w
    BY DEF PrefsImage
  <2> QED BY <1>2, <2>1
<1>3. <<>> \o PrefsImage(v) = PrefsImage(v)
  <2>1. PrefsImage(v) \in Seq(Chunk)
    BY ImageType DEF Data
  <2> HIDE DEF PrefsImage
  <2> QED BY <2>1
<1> QED BY <1>1, <1>2, <1>3

LEMMA WholeDiffer ==
    ASSUME NChunks # 0, NEW s \in Nat, NEW t \in Nat, Whole(s) = Whole(t) PROVE s = t
<1>1. 1 \in 1 .. NChunks
  OBVIOUS
<1>2. Whole(s)[1].save = s /\ Whole(t)[1].save = t
  BY <1>1 DEF Whole
<1> QED BY <1>2

LEMMA ClientAtomic ==
    ASSUME NEW c, NEW l, Alone(c, l), TypeInv, Held(c, l), PrefsInv, Client(c)
    PROVE  (Atomic!Next \/ UNCHANGED seen) /\ PrefsInv'
<1>1. UNCHANGED <<file, committed, prefs, stale, saver>>
  BY DEF Client, BeginSave, BeginDelete, Send, TakeReply, TimeOut, deviceVars
<1>2. PrefsInv'
  BY <1>1, PrefsStay
<1>3. ASSUME NEW p \in HostPaths, BeginSave(c, p) PROVE Atomic!Next
  <2>1. Atomic!BeginUpload(p)
    BY <1>1, <1>3 DEF BeginSave, Atomic!BeginUpload
  <2> QED BY <2>1 DEF Atomic!Next
<1>4. ASSUME NEW p \in HostPaths, BeginDelete(c, p) PROVE Atomic!Next
  <2>1. Atomic!BeginDelete(p)
    BY <1>1, <1>4 DEF BeginDelete, Atomic!BeginDelete
  <2> QED BY <2>1 DEF Atomic!Next
<1>5. CASE Send(c) \/ TakeReply(c) \/ TimeOut(c)
  <2>1. UNCHANGED target /\ UNCHANGED deletes
    BY <1>5 DEF Send, TakeReply, TimeOut
  <2> QED BY <1>1, <1>2, <2>1 DEF seen
<1> QED BY <1>2, <1>3, <1>4, <1>5 DEF Client

LEMMA AbortFacts ==
    ASSUME NEW l, AbortOpenTransaction(l) PROVE UNCHANGED <<file, committed, stale, collided>>
BY DEF AbortOpenTransaction, StartClose, CloseRam, storeVars

(* A step in which no closeWrite goes wrong comes after none that did.      *)
LEMMA OnceCollided ==
    ASSUME [Next]_vars, collided PROVE collided'
<1>1. ASSUME NEW c \in Clients, Client(c) PROVE collided'
  BY <1>1 DEF Client, BeginSave, BeginDelete, Send, TakeReply, TimeOut, deviceVars
<1>2. ASSUME NEW l \in Links, Program(l) \/ Cable(l) PROVE collided'
  <2>1. CASE Program(l)
    BY <2>1 DEF Program, OpenSession, Die, deviceVars
  <2>2. CASE Cable(l)
    BY <2>2, AbortFacts DEF Cable, Unplug, NoticeUnplug, Replug
  <2> QED BY <1>2, <2>1, <2>2
<1>3. ASSUME NEW l \in Links, Dispatch(l) PROVE collided'
  <2>1. CASE Receive(l) \/ CheckOpen(l) \/ InstallOpen(l) \/ WriteChunk(l)
    BY <2>1 DEF Receive, CheckOpen, InstallOpen, WriteChunk
  <2>2. CASE AbortStale(l)
    BY <2>2, AbortFacts DEF AbortStale
  <2>3. CASE CloseFile(l)
    BY <2>3 DEF CloseFile, StartClose
  <2>4. CASE MoveFile(l) \/ EndClose(l)
    BY <2>4 DEF MoveFile, EndClose
  <2>5. CASE RegisterScreen(l) \/ NotifyChanged(l) \/ FinishClose(l)
    BY <2>5 DEF RegisterScreen, NotifyChanged, FinishClose
  <2>6. CASE DeleteFile(l) \/ NotifyDeleted(l)
    BY <2>6 DEF DeleteFile, NotifyDeleted
  <2>7. CASE PanicWrite(l)
    BY <2>7 DEF PanicWrite, Restart
  <2> QED BY <1>3, <2>1, <2>2, <2>3, <2>4, <2>5, <2>6, <2>7 DEF Dispatch
<1>4. ASSUME NEW s \in Savers, Save(s) PROVE collided'
  BY <1>4 DEF Save, StoreStep, SavePrefs, InstallPrefs, ClosePrefs, PanicSave, MovePrefs,
              EndPrefs, Restart
<1>5. CASE Reboot \/ MountFlash \/ UNCHANGED vars
  BY <1>5 DEF Reboot, Restart, MountFlash, vars
<1> QED BY <1>1, <1>2, <1>3, <1>4, <1>5 DEF Next

(* Steps that only the host, the dispatcher or the cable notices.           *)
LEMMA UnseenSteps ==
    ASSUME NEW l, PrefsInv,
           \/ Program(l) \/ Cable(l) \/ MountFlash
           \/ Receive(l) \/ AbortStale(l) \/ CheckOpen(l) \/ InstallOpen(l)
           \/ WriteChunk(l) \/ EndClose(l) \/ FinishClose(l)
    PROVE  UNCHANGED seen /\ PrefsInv'
<1> USE DEF storeVars, prefsVars, hostVars
<1>1. CASE Program(l)
  BY <1>1, PrefsStay DEF Program, OpenSession, Die, deviceVars, seen
<1>2. CASE Cable(l)
  BY <1>2, PrefsStay, AbortFacts DEF Cable, Unplug, NoticeUnplug, Replug, seen
<1>3. CASE MountFlash
  BY <1>3, PrefsStay DEF MountFlash, Mount, seen
<1>4. CASE Receive(l)
  BY <1>4, PrefsStay DEF Receive, seen
<1>5. CASE AbortStale(l)
  BY <1>5, PrefsStay, AbortFacts DEF AbortStale, Continue, seen
<1>6. CASE CheckOpen(l)
  BY <1>6, PrefsStay DEF CheckOpen, Continue, Respond, AllocHandle, seen
<1>7. CASE InstallOpen(l)
  BY <1>7, PrefsStay DEF InstallOpen, Respond, Install, seen
<1>8. CASE WriteChunk(l)
  BY <1>8, PrefsStay DEF WriteChunk, Respond, AppendWrite, seen
<1>9. CASE EndClose(l)
  BY <1>9, PrefsStay DEF EndClose, EndTxn, Continue, seen
<1>10. CASE FinishClose(l)
  BY <1>10, PrefsStay DEF FinishClose, Respond, seen
<1> QED BY <1>1, <1>2, <1>3, <1>4, <1>5, <1>6, <1>7, <1>8, <1>9, <1>10

(* The whole of an upload is put at its path.                               *)
LEMMA UploadAtomic ==
    ASSUME TypeInv, PrefsInv, NChunks # 0,
           NEW s \in Uploads, target[s] \in HostPaths, s \notin committed,
           NEW t, t.path = target[s], t.data = Whole(s),
           Installed(t), file' = [file EXCEPT ![t.path] = t.data],
           UNCHANGED <<target, deletes, prefs, saver>>
    PROVE  Atomic!Next /\ PrefsInv'
<1>1. /\ file \in [Paths -> Data \cup {Absent, Emptied}]
      /\ \A u \in Uploads : u \in Nat
  BY DEF TypeInv, StoreInv, StoreTypeOK, Uploads
<1>2. {u \in Uploads : target[u] = t.path /\ t.data = Whole(u)} = {s}
  <2>1. \A u \in Uploads : Whole(s) = Whole(u) => u = s
    BY <1>1, WholeDiffer
  <2> QED BY <2>1
<1>3. Atomic!Whole(s) = Whole(s)
  BY DEF Atomic!Whole, Whole
<1>4. /\ committed' = committed \cup {s}
      /\ stale' = stale \cup {target[s]}
      /\ file' = [file EXCEPT ![target[s]] = Whole(s)]
  BY <1>2 DEF Installed
<1>5. Atomic!Upload(s)
  BY <1>3, <1>4 DEF Atomic!Upload
<1>6. Atomic!Next
  BY <1>5 DEF Atomic!Next, Uploads
<1>7. file'[PrefsPath] = file[PrefsPath]
  BY <1>1, <1>4
<1> QED BY <1>6, <1>7, PrefsStay

(* A close in RAM, and the part of one on flash before fclose.              *)
LEMMA CloseFileAtomic ==
    ASSUME NEW c, NEW l, Alone(c, l), TypeInv, Held(c, l), PrefsInv, NChunks # 0,
           ~collided, CloseFile(l)
    PROVE  (Atomic!Next \/ UNCHANGED seen) /\ PrefsInv'
<1> DEFINE cmd == task[l].cmd
           commit == cmd.op = "commit"
           old == txn["R"]
<1>1. task[l].at = "close" /\ Busy(l)
  BY DEF CloseFile, Busy
<1>2. /\ Proper(cmd) /\ cmd.op \in {"commit", "abort"} /\ cmd.save \in Nat
  BY <1>1, AtClose
<1>3. /\ cmd.path \in HostPaths /\ cmd.save \in Uploads /\ target[cmd.save] = cmd.path
      /\ reg.h \in {0, cmd.h}
  BY <1>2 DEF Proper, Ops
<1>4. UNCHANGED <<target, deletes, prefs, saver>>
  BY DEF CloseFile, Continue, prefsVars, hostVars
<1>5. CASE UNCHANGED <<file, committed, stale>>
  BY <1>4, <1>5, PrefsStay DEF seen
<1>6. CASE /\ reg.h # 0 /\ reg.d = "R" /\ Owns("R", cmd.h) /\ commit
           /\ \E ok \in BOOLEAN : /\ CloseRam(commit, ok)
                                  /\ IF ok /\ commit THEN Installed(old)
                                     ELSE UNCHANGED <<committed, stale>>
  <2>1. reg.h = cmd.h /\ Owned
    BY <1>1, <1>3, <1>6 DEF Owns, Owned, Held, Hand
  <2>2. /\ old.path = cmd.path /\ old.data = Part(cmd.save, NChunks)
        /\ cmd.save \notin committed
    BY <1>2, <1>6, <2>1 DEF Proper, Sent
  <2>3. apiPath = old.path /\ DriveOf(apiPath) = "R"
    BY <1>6, <2>1 DEF Held, Hand
  <2>4. old.path \in RamPaths
    BY <2>3 DEF DriveOf
  <2>5. old.data = Whole(cmd.save)
    BY <1>2, <2>2, Parts
  <2>6. PICK ok \in BOOLEAN : /\ CloseRam(commit, ok)
                              /\ IF ok /\ commit THEN Installed(old)
                                 ELSE UNCHANGED <<committed, stale>>
    BY <1>6
  <2>7. CASE ok
    <3>1. Installed(old)
      BY <1>6, <2>6, <2>7
    <3>2. file' = [file EXCEPT ![old.path] = old.data]
      BY <1>6, <2>6, <2>7 DEF CloseRam
    <3> HIDE DEF cmd, old
    <3> QED BY <1>3, <1>4, <2>2, <2>5, <3>1, <3>2, UploadAtomic
  <2>8. CASE ~ok
    <3>1. UNCHANGED <<committed, stale>> /\ LoseCommit("R")
      BY <1>6, <2>6, <2>8 DEF CloseRam
    <3>2. file' = [file EXCEPT ![old.path] =
                       IF file[old.path] = Absent THEN Absent ELSE Emptied]
      BY <2>4, <3>1 DEF LoseCommit, TypeInv, StoreInv, StoreTypeOK
    <3>3. file \in [Paths -> Data \cup {Absent, Emptied}]
      BY DEF TypeInv, StoreInv, StoreTypeOK
    <3> HIDE DEF old, cmd
    <3>4. CASE file[old.path] = Absent
      <4>1. file' = file
        BY <2>4, <3>2, <3>3, <3>4
      <4> QED BY <1>5, <3>1, <4>1
    <3>5. CASE file[old.path] # Absent
      <4>1. file' = [file EXCEPT ![target[cmd.save]] = Emptied]
        BY <1>3, <2>2, <3>2, <3>5
      <4>2. Atomic!LoseUpload(cmd.save)
        BY <1>3, <1>4, <2>2, <2>4, <3>1, <4>1 DEF Atomic!LoseUpload
      <4>3. Atomic!Next
        BY <1>3, <4>2 DEF Atomic!Next, Uploads
      <4>4. file'[PrefsPath] = file[PrefsPath]
        BY <1>3, <3>3, <4>1
      <4> QED BY <1>4, <4>3, <4>4, PrefsStay
    <3> QED BY <3>4, <3>5
  <2> QED BY <2>7, <2>8
<1>7. \/ UNCHANGED <<file, committed, stale>>
      \/ /\ reg.h # 0 /\ reg.d = "R" /\ Owns("R", cmd.h) /\ commit
         /\ \E ok \in BOOLEAN : /\ CloseRam(commit, ok)
                                /\ IF ok /\ commit THEN Installed(old)
                                   ELSE UNCHANGED <<committed, stale>>
  <2>1. StartClose(l, cmd.h, commit)
    BY DEF CloseFile
  <2>2. ASSUME NEW ok, CloseRam(commit, ok), ~commit PROVE UNCHANGED file
    BY <2>2 DEF CloseRam
  <2> HIDE DEF cmd, commit, old
  <2> QED BY <2>1, <2>2 DEF StartClose, storeVars, old
<1> QED BY <1>5, <1>6, <1>7

(* The rest of one on flash.                                                *)
LEMMA MoveFileAtomic ==
    ASSUME NEW c, NEW l, Alone(c, l), TypeInv, Held(c, l), PrefsInv, NChunks # 0,
           ~collided, ~collided', MoveFile(l)
    PROVE  (Atomic!Next \/ UNCHANGED seen) /\ PrefsInv'
<1> DEFINE cmd == task[l].cmd
           h == task[l].h
           commit == cmd.op = "commit"
           old == txn["F"]
<1>1. task[l].at = "fclose" /\ Owns("F", h)
  BY DEF MoveFile
<1>2. /\ Proper(cmd) /\ cmd.save \in Nat /\ old \in Txn
      /\ reg.d = "F" /\ reg.h = h /\ reg.h # 0
  BY <1>1, AtClose, PrefsDrive DEF Held, Hand
<1>3. Owned
  BY <1>1, <1>2 DEF Owns, Owned, Held, Hand
<1>4. PICK ok \in BOOLEAN :
         /\ MoveTmp(h, commit, ok)
         /\ IF ok /\ commit THEN Installed(old) ELSE UNCHANGED <<committed, stale>>
  BY DEF MoveFile
<1>5. UNCHANGED <<target, deletes, prefs, saver>>
  BY DEF MoveFile, Continue, prefsVars, hostVars
<1>6. CASE ok /\ commit
  <2>1. /\ old.path = cmd.path /\ old.data = Part(cmd.save, NChunks)
        /\ cmd.save \notin committed /\ cmd.path \in HostPaths
        /\ cmd.save \in Uploads /\ target[cmd.save] = cmd.path
    BY <1>2, <1>3, <1>6 DEF Proper, Ops, Sent
  <2>2. old.data = Whole(cmd.save)
    BY <1>2, <2>1, Parts
  <2>3. PICK data \in Flushed(old, Owns("F", h)) : file' = [file EXCEPT ![old.path] = data]
    BY <1>4, <1>6, MoveFacts DEF TypeInv
  <2>4. data = old.data
    <3> HIDE DEF old
    <3> QED BY <1>1, <1>2, <2>3, FlushedType
  <2>5. file' = [file EXCEPT ![old.path] = old.data]
    BY <2>3, <2>4
  <2>6. Installed(old)
    BY <1>4, <1>6
  <2> HIDE DEF cmd, old
  <2> QED BY <1>5, <2>1, <2>2, <2>5, <2>6, UploadAtomic
<1>7. CASE ~(ok /\ commit)
  <2>1. UNCHANGED <<file, committed, stale>>
    BY <1>4, <1>7, MoveFacts DEF TypeInv
  <2> QED BY <1>5, <2>1, PrefsStay DEF seen
<1> QED BY <1>6, <1>7

LEMMA RestartAtomic ==
    ASSUME PrefsInv, Restart PROVE Atomic!Next /\ PrefsInv'
<1>1. /\ file' = [p \in Paths |-> IF p \in RamPaths THEN Absent ELSE file[p]]
      /\ stale' = {} /\ UNCHANGED <<target, deletes, committed, prefs>>
      /\ \A s \in Savers : saver'[s].at = "idle"
  BY DEF Restart, StoreReboot, IdleSaver
<1>2. Atomic!PowerCycle
  BY <1>1 DEF Atomic!PowerCycle
<1>3. file'[PrefsPath] = file[PrefsPath]
  BY <1>1
<1> QED BY <1>1, <1>2, <1>3, PrefsStay DEF Atomic!Next

LEMMA DispatchAtomic ==
    ASSUME NEW c, NEW l, Alone(c, l), TypeInv, Held(c, l), PrefsInv, NChunks # 0,
           ~collided, ~collided', Dispatch(l)
    PROVE  (Atomic!Next \/ UNCHANGED seen) /\ PrefsInv'
<1>1. file \in [Paths -> Data \cup {Absent, Emptied}]
  BY DEF TypeInv, StoreInv, StoreTypeOK
<1>2. CASE RegisterScreen(l)
  <2>1. task[l].at = "register" /\ Busy(l)
    BY <1>2 DEF RegisterScreen, Busy
  <2>2. stale = {task[l].cmd.path} /\ apiPath = task[l].cmd.path
    BY <2>1 DEF Held, Hand, Telling
  <2>3. UNCHANGED <<target, deletes, committed, prefs, stale, saver>>
    BY <1>2 DEF RegisterScreen, Continue, prefsVars, hostVars
  <2>4. CASE UNCHANGED file
    BY <2>3, <2>4, PrefsStay DEF seen
  <2>5. CASE apiPath \in ScreenPaths /\ file' = [file EXCEPT ![apiPath] = Absent]
    <3>1. Atomic!RejectScreen(apiPath)
      BY <2>2, <2>3, <2>5 DEF Atomic!RejectScreen
    <3>2. Atomic!Next
      BY <2>5, <3>1 DEF Atomic!Next
    <3>3. file'[PrefsPath] = file[PrefsPath]
      BY <1>1, <2>5
    <3> QED BY <2>3, <3>2, <3>3, PrefsStay
  <2> QED BY <1>2, <2>4, <2>5 DEF RegisterScreen, RemoveTree, storeVars
<1>3. CASE NotifyChanged(l)
  <2>1. task[l].at = "notify" /\ Busy(l)
    BY <1>3 DEF NotifyChanged, Busy
  <2>2. apiPath \in HostPaths
    BY <2>1, AtWork DEF Held, Hand, Telling, Proper, Fits
  <2>3. /\ UNCHANGED <<file, target, deletes, committed, prefs, saver>>
        /\ stale' = stale \ {apiPath}
    BY <1>3 DEF NotifyChanged, Continue, prefsVars, hostVars, storeVars
  <2>4. Atomic!TellScreens(apiPath)
    BY <2>3 DEF Atomic!TellScreens
  <2> QED BY <2>2, <2>3, <2>4, PrefsStay DEF Atomic!Next
<1>4. CASE DeleteFile(l)
  <2> DEFINE p == task[l].cmd.path
  <2>1. task[l].at = "remove" /\ Busy(l)
    BY <1>4 DEF DeleteFile, Busy
  <2>2. p \in HostPaths /\ \E n \in 1 .. Len(deletes) : deletes[n] = p
    BY <2>1, AtWork DEF Proper, Fits
  <2>3. /\ UNCHANGED <<target, deletes, committed, prefs, saver>>
        /\ stale' = stale \cup {p}
        /\ file' \in {file, [file EXCEPT ![p] = Absent]}
    BY <1>4 DEF DeleteFile, RemoveTree, Continue, prefsVars, hostVars
  <2> HIDE DEF p
  <2>4. Atomic!Delete(p)
    BY <2>2, <2>3 DEF Atomic!Delete
  <2>5. file'[PrefsPath] = file[PrefsPath]
    BY <1>1, <2>2, <2>3
  <2> QED BY <2>2, <2>3, <2>4, <2>5, PrefsStay DEF Atomic!Next
<1>5. CASE NotifyDeleted(l)
  <2> DEFINE p == task[l].cmd.path
  <2>1. task[l].at = "unregister" /\ Busy(l)
    BY <1>5 DEF NotifyDeleted, Busy
  <2>2. p \in HostPaths
    BY <2>1, AtWork DEF Proper, Fits
  <2>3. /\ UNCHANGED <<file, target, deletes, committed, prefs, saver>>
        /\ stale' = stale \ {p}
    BY <1>5 DEF NotifyDeleted, Respond, prefsVars, hostVars, storeVars
  <2> HIDE DEF p
  <2>4. Atomic!TellScreens(p)
    BY <2>3 DEF Atomic!TellScreens
  <2> QED BY <2>2, <2>3, <2>4, PrefsStay DEF Atomic!Next
<1>6. CASE PanicWrite(l)
  BY <1>6, RestartAtomic DEF PanicWrite
<1> QED BY <1>2, <1>3, <1>4, <1>5, <1>6, CloseFileAtomic, MoveFileAtomic, UnseenSteps
        DEF Dispatch

LEMMA SaveAtomic ==
    ASSUME NEW c, NEW l, Alone(c, l), TypeInv, Held(c, l), PrefsInv, OneSaver,
           ~collided', NEW s \in Savers, Save(s)
    PROVE  (Atomic!Next \/ UNCHANGED seen) /\ PrefsInv'
<1>1. /\ file \in [Paths -> Data \cup {Absent, Emptied}]
      /\ saver \in [Savers -> SaverType] /\ saver[s] \in SaverType
      /\ prefs \in Nat /\ \A t \in Savers : t = s
  BY DEF TypeInv, StoreInv, StoreTypeOK, DeviceTypes, OneSaver
<1>2. ASSUME \/ SavePrefs(s) \/ InstallPrefs(s) \/ ClosePrefs(s)
             \/ MovePrefs(s) \/ EndPrefs(s)
      PROVE  UNCHANGED <<target, deletes, committed, stale>>
  BY <1>2 DEF SavePrefs, InstallPrefs, ClosePrefs, MovePrefs, EndPrefs, saverRest, hostVars
<1>3. \A v : Atomic!PrefsImage(v) = PrefsImage(v)
  BY DEF Atomic!PrefsImage, PrefsImage
<1>4. \A v : PrefsImage(v)' = PrefsImage(v)
  BY DEF PrefsImage
<1>5. CASE SavePrefs(s)
  <2>1. prefs' = prefs + 1 /\ file' = file /\ saver[s].at = "idle"
    BY <1>5 DEF SavePrefs, AllocHandle, storeVars
  <2>2. saver'[s].at # "idle" => saver'[s].v = prefs'
    BY <1>1, <1>5, <2>1 DEF SavePrefs
  <2>3. file[PrefsPath] # PrefsImage(prefs + 1)
    <3>1. CASE file[PrefsPath] = Absent
      BY <1>1, <3>1, Images
    <3>2. ASSUME NEW v \in 1 .. prefs, file[PrefsPath] = PrefsImage(v)
          PROVE  file[PrefsPath] # PrefsImage(prefs + 1)
      <4>1. v \in Nat /\ prefs + 1 \in Nat /\ v # prefs + 1
        BY <1>1
      <4> QED BY <3>2, <4>1, Images
    <3> QED BY <3>1, <3>2 DEF PrefsInv
  <2>4. PrefsInv'
    <3>1. \A t \in Savers : saver'[t].at # "idle" =>
              saver'[t].v = prefs' /\ prefs' > 0 /\ file'[PrefsPath] # PrefsImage(prefs')
      BY <1>1, <2>1, <2>2, <2>3
    <3>2. file'[PrefsPath] = Absent \/ \E v \in 1 .. prefs' : file'[PrefsPath] = PrefsImage(v)
      BY <1>1, <2>1 DEF PrefsInv
    <3> QED BY <1>4, <3>1, <3>2 DEF PrefsInv
  <2>5. Atomic!ChangePrefs
    BY <1>2, <1>5, <2>1 DEF Atomic!ChangePrefs
  <2> QED BY <2>4, <2>5 DEF Atomic!Next
<1>6. CASE InstallPrefs(s)
  <2>1. UNCHANGED <<file, prefs>> /\ saver[s].at = "install"
    BY <1>6 DEF InstallPrefs, Install, storeVars
  <2>2. saver'[s].at # "idle" => saver'[s].v = saver[s].v
    BY <1>1, <1>6 DEF InstallPrefs, IdleSaver, SaverType
  <2>3. saver'[s].at \in {"close", "idle"}
    BY <1>1, <1>6 DEF InstallPrefs, IdleSaver, SaverType
  <2> QED BY <1>1, <1>2, <1>6, <2>1, <2>2, <2>3, PrefsStay DEF seen
<1>7. CASE ClosePrefs(s)
  <2>1. UNCHANGED <<file, prefs>> /\ saver[s].at = "close"
    BY <1>7 DEF ClosePrefs, AppendWrite, storeVars
  <2>2. saver'[s].at # "idle" => saver'[s].v = saver[s].v
    BY <1>1, <1>7 DEF ClosePrefs, IdleSaver, SaverType
  <2>3. saver'[s].at \in {"fclose", "idle"}
    BY <1>1, <1>7 DEF ClosePrefs, IdleSaver, SaverType
  <2> QED BY <1>1, <1>2, <1>7, <2>1, <2>2, <2>3, PrefsStay DEF seen
<1>8. CASE MovePrefs(s)
  <2>1. /\ prefs' = prefs /\ saver[s].at = "fclose" /\ Owns("F", saver[s].h)
        /\ saver' = [saver EXCEPT ![s].at = "settled"]
    BY <1>8 DEF MovePrefs
  <2>2. saver'[s].at = "settled"
    BY <1>1, <2>1 DEF SaverType
  <2>3. txn["F"].path = PrefsPath /\ txn["F"].data = PrefsImage(saver[s].v)
    BY <2>1 DEF Owns, Held, Apart
  <2>4. saver[s].v = prefs /\ prefs > 0 /\ file[PrefsPath] # PrefsImage(prefs)
    BY <2>1 DEF PrefsInv
  <2>5. PICK ok \in BOOLEAN : MoveTmp(saver[s].h, TRUE, ok)
    BY <1>8 DEF MovePrefs
  <2>6. CASE ~ok
    <3>1. UNCHANGED file
      BY <2>5, <2>6, MoveFacts DEF TypeInv
    <3>2. PrefsInv'
      BY <1>1, <1>4, <2>1, <2>2, <3>1 DEF PrefsInv
    <3> QED BY <1>2, <1>8, <2>1, <3>1, <3>2 DEF seen
  <2>7. CASE ok
    <3>1. PICK data \in Flushed(txn["F"], Owns("F", saver[s].h)) :
             file' = [file EXCEPT ![txn["F"].path] = data]
      BY <2>5, <2>7, MoveFacts DEF TypeInv
    <3>2. txn["F"] \in Txn
      BY PrefsDrive DEF TypeInv, StoreInv, StoreTypeOK
    <3>3. data = txn["F"].data
      BY <2>1, <3>1, <3>2, FlushedType
    <3>4. file' = [file EXCEPT ![PrefsPath] = PrefsImage(prefs)]
      BY <2>3, <2>4, <3>1, <3>3
    <3>5. Atomic!StorePrefs(prefs)
      <4>1. \A w \in prefs .. prefs : w = prefs
        BY <1>1
      <4> QED BY <1>2, <1>8, <1>3, <2>1, <2>4, <3>4, <4>1 DEF Atomic!StorePrefs
    <3>6. prefs \in 1 .. prefs
      BY <1>1, <2>4
    <3>7. Atomic!Next
      BY <3>5, <3>6 DEF Atomic!Next
    <3>8. file'[PrefsPath] = PrefsImage(prefs)
      BY <1>1, <3>4
    <3>9. PrefsInv'
      BY <1>1, <1>4, <2>1, <2>2, <3>6, <3>8 DEF PrefsInv
    <3> QED BY <3>7, <3>9
  <2> QED BY <2>6, <2>7
<1>9. CASE EndPrefs(s)
  <2>1. UNCHANGED <<file, prefs>> /\ saver[s].at = "settled"
    BY <1>9 DEF EndPrefs, EndTxn
  <2>2. saver'[s].at = "idle"
    BY <1>1, <1>9 DEF EndPrefs, IdleSaver
  <2> QED BY <1>1, <1>2, <1>9, <2>1, <2>2, PrefsStay DEF seen
<1>10. CASE PanicSave(s)
  BY <1>10, RestartAtomic DEF PanicSave
<1> QED BY <1>5, <1>6, <1>7, <1>8, <1>9, <1>10 DEF Save, StoreStep

LEMMA AtomicStep ==
    ASSUME NEW c, NEW l, Alone(c, l), TypeInv, Held(c, l), PrefsInv, OneSaver,
           NChunks # 0, ~collided, ~collided', [Next]_vars
    PROVE  (Atomic!Next \/ UNCHANGED seen) /\ PrefsInv'
<1>1. \A b \in Clients : b = c
  BY OneEach
<1>2. \A k \in Links : k = l
  BY OneEach
<1>3. ASSUME NEW b \in Clients, Client(b)
      PROVE  (Atomic!Next \/ UNCHANGED seen) /\ PrefsInv'
  <2>1. Client(c)
    BY <1>1, <1>3
  <2> QED BY <2>1, ClientAtomic
<1>4. ASSUME NEW k \in Links, Program(k) \/ Dispatch(k) \/ Cable(k)
      PROVE  (Atomic!Next \/ UNCHANGED seen) /\ PrefsInv'
  <2>1. Program(l) \/ Dispatch(l) \/ Cable(l)
    BY <1>2, <1>4
  <2> QED BY <2>1, DispatchAtomic, UnseenSteps
<1>5. CASE MountFlash
  BY <1>5, UnseenSteps
<1>6. CASE UNCHANGED vars
  BY <1>6, PrefsStay DEF vars, seen
<1> QED BY <1>3, <1>4, <1>5, <1>6, SaveAtomic, RestartAtomic DEF Next, Reboot

(* Each step of an upload, of a deletion, of a change of the preferences or *)
(* of a power cycle is one atomic change of the files, or is not to be seen *)
(* in them, until a close works on the files of another transaction: an     *)
(* upload takes place as a whole, once, or not at all, whatever the task    *)
(* that saves preferences does between the steps of its close.              *)
THEOREM UploadsAreAtomic ==
    ASSUME NEW c, NEW l, Alone(c, l), OneSaver, NChunks # 0
    PROVE  Spec => ImplementsAtomicFiles
<1> DEFINE Sound == collided \/ PrefsInv
<1>1. Init => Atomic!Init /\ Sound
  BY DEF Init, StoreInit, Atomic!Init, PrefsInv, IdleSaver
<1>2. ASSUME TypeInv, Held(c, l), Sound, [Next]_vars
      PROVE  [collided' \/ Atomic!Next]_(Atomic!vars) /\ Sound'
  <2>1. CASE collided'
    BY <2>1
  <2>2. CASE ~collided'
    <3>1. ~collided /\ PrefsInv
      BY <1>2, <2>2, OnceCollided
    <3> QED BY <1>2, <2>2, <3>1, AtomicStep DEF seen, Atomic!vars
  <2> QED BY <2>1, <2>2
<1> HIDE DEF Sound
<1> QED BY <1>1, <1>2, HeldAlways, PTL DEF Spec, ImplementsAtomicFiles

-----------------------------------------------------------------------------
(* Without a second task.                                                   *)

(* The only dispatcher is the only one to open and close transactions.      *)
Untouched(l) ==
    ~collided /\ (task[l].at = "fclose" => Owns("F", task[l].h))

LEMMA SameUntouched ==
    ASSUME NEW l, Untouched(l), UNCHANGED <<txn, task, collided>> PROVE Untouched(l)'
BY DEF Untouched, Owns

LEMMA StartUntouched ==
    ASSUME TypeInv, NEW l \in Links, Untouched(l), NEW h, NEW commit,
           StartClose(l, h, commit), task[l].at # "fclose"
    PROVE  Untouched(l)'
<1>1. task \in [Links -> TaskType] /\ task[l] \in TaskType
  BY DEF TypeInv, LinkTypes
<1>2. ASSUME NEW ok, AfterClose(l, ok) PROVE task'[l].at # "fclose"
  BY <1>1, <1>2 DEF AfterClose, IdleTask, TaskType
<1>3. collided' = collided
  BY DEF StartClose
<1>4. CASE \E ok \in BOOLEAN : AfterClose(l, ok)
  BY <1>2, <1>3, <1>4 DEF Untouched
<1>5. CASE /\ Owns("F", h) /\ UNCHANGED storeVars
           /\ task' = [task EXCEPT ![l].at = "fclose", ![l].h = h]
  <2>1. task'[l].h = h /\ txn' = txn
    BY <1>1, <1>5 DEF TaskType, storeVars
  <2> QED BY <1>3, <1>5, <2>1 DEF Untouched, Owns
<1> QED BY <1>4, <1>5 DEF StartClose

LEMMA DispatchUntouched ==
    ASSUME TypeInv, NEW l \in Links, Untouched(l), Dispatch(l) PROVE Untouched(l)'
<1>1. task \in [Links -> TaskType] /\ task[l] \in TaskType /\ collided \in BOOLEAN
  BY DEF TypeInv, LinkTypes, DeviceTypes
<1>2. ASSUME task'[l].at # "fclose", collided' = collided PROVE Untouched(l)'
  BY <1>2 DEF Untouched
<1>3. IdleTask.at = "idle"
  BY DEF IdleTask
<1>4. CASE Receive(l)
  BY <1>1, <1>2, <1>4 DEF Receive, FirstStep, IdleTask
<1>5. CASE AbortStale(l)
  BY <1>5, StartUntouched DEF AbortStale, AbortOpenTransaction
<1>6. CASE CheckOpen(l) \/ InstallOpen(l) \/ WriteChunk(l)
  BY <1>1, <1>2, <1>3, <1>6 DEF CheckOpen, InstallOpen, WriteChunk, Respond, TaskType
<1>7. CASE CloseFile(l)
  BY <1>7, StartUntouched DEF CloseFile
<1>8. CASE MoveFile(l)
  <2>1. task[l].at = "fclose" /\ collided' = (collided \/ ~Owns("F", task[l].h))
    BY <1>8 DEF MoveFile
  <2>2. ~collided /\ Owns("F", task[l].h)
    BY <2>1 DEF Untouched
  <2>3. task[l].at = "fclose" /\ collided' = collided
    BY <1>1, <2>1, <2>2
  <2>4. task'[l].at = "settled"
    BY <1>1, <1>8 DEF MoveFile, TaskType
  <2> QED BY <1>2, <2>3, <2>4
<1>9. CASE EndClose(l)
  <2>1. AfterClose(l, task[l].ok) /\ collided' = collided
    BY <1>9 DEF EndClose
  <2> QED BY <1>1, <1>2, <1>3, <2>1 DEF AfterClose, TaskType
<1>10. CASE RegisterScreen(l) \/ NotifyChanged(l) \/ FinishClose(l)
  BY <1>1, <1>2, <1>3, <1>10 DEF RegisterScreen, NotifyChanged, FinishClose, Goto, Respond,
                                 TaskType
<1>11. CASE DeleteFile(l) \/ NotifyDeleted(l)
  BY <1>1, <1>2, <1>3, <1>11 DEF DeleteFile, NotifyDeleted, Respond, TaskType
<1>12. CASE PanicWrite(l)
  BY <1>2, <1>3, <1>12 DEF PanicWrite, Restart
<1> QED BY <1>4, <1>5, <1>6, <1>7, <1>8, <1>9, <1>10, <1>11, <1>12 DEF Dispatch

LEMMA UntouchedStep ==
    ASSUME TypeInv, NEW l \in Links, \A k \in Links : k = l, Savers = {},
           Untouched(l), [Next]_vars
    PROVE  Untouched(l)'
<1>1. ASSUME NEW c \in Clients, Client(c) PROVE Untouched(l)'
  <2>1. UNCHANGED <<txn, task, collided>>
    BY <1>1 DEF Client, BeginSave, BeginDelete, Send, TakeReply, TimeOut, deviceVars
  <2> QED BY <2>1, SameUntouched
<1>2. ASSUME Program(l) \/ Unplug(l) \/ Replug(l) \/ MountFlash \/ UNCHANGED vars
      PROVE  Untouched(l)'
  <2>1. UNCHANGED <<txn, task, collided>>
    BY <1>2 DEF Program, OpenSession, Die, deviceVars, Unplug, Replug, MountFlash, Mount,
                storeVars, vars
  <2> QED BY <2>1, SameUntouched
<1>3. CASE NoticeUnplug(l)
  BY <1>3, StartUntouched DEF NoticeUnplug, AbortOpenTransaction
<1>4. CASE Reboot
  BY <1>4 DEF Reboot, Restart, IdleTask, Untouched
<1>5. ASSUME NEW k \in Links, Program(k) \/ Dispatch(k) \/ Cable(k)
      PROVE  Untouched(l)'
  <2>1. k = l
    OBVIOUS
  <2>2. Program(l) \/ Dispatch(l) \/ Cable(l)
    BY <1>5, <2>1
  <2> QED BY <1>2, <1>3, <2>2, DispatchUntouched DEF Cable
<1> QED BY <1>1, <1>2, <1>4, <1>5 DEF Next

(* With one link, and no task that saves preferences, no close ever works   *)
(* on the files of another transaction, however late the answers come: the  *)
(* uploads of that link are atomic, and what they were told is done, from   *)
(* the first step to the last.                                              *)
THEOREM OneTaskNeverCollides ==
    ASSUME NEW l, Links = {l}, Savers = {}
    PROVE  Spec => []~collided
<1>1. l \in Links /\ \A k \in Links : k = l
  OBVIOUS
<1>2. Init => TypeInv /\ Untouched(l)
  BY <1>1, TypeInit DEF Init, IdleTask, Untouched
<1>3. TypeInv /\ Untouched(l) /\ [Next]_vars => (TypeInv /\ Untouched(l))'
  BY <1>1, TypeStep, UntouchedStep
<1>4. TypeInv /\ Untouched(l) => ~collided
  BY DEF Untouched
<1> QED BY <1>2, <1>3, <1>4, PTL DEF Spec

(* So, while no preferences are saved, one answered program has all that    *)
(* was promised to it, without exception: its uploads and deletions are     *)
(* those of AtomicFiles, an upload that was answered OK has taken place,    *)
(* and at rest the screens know of every change.                            *)
THEOREM OneTaskIsAtomic ==
    ASSUME NEW c, NEW l, Alone(c, l), Savers = {}, NChunks # 0
    PROVE  Spec => Atomic!Spec /\ []AckedIsCommitted /\ []ScreensTold
<1>1. Links = {l} /\ OneSaver
  BY DEF Alone, OneSaver
<1>2. Spec => []~collided
  BY <1>1, OneTaskNeverCollides
<1>3. Spec => Atomic!Init /\ [][collided' \/ Atomic!Next]_(Atomic!vars)
  BY <1>1, UploadsAreAtomic DEF ImplementsAtomicFiles
<1>4. ~collided' /\ [collided' \/ Atomic!Next]_(Atomic!vars)
        => [Atomic!Next]_(Atomic!vars)
  OBVIOUS
<1>5. AckedTakesEffect /\ ~collided => AckedIsCommitted /\ ScreensTold
  BY DEF AckedTakesEffect
<1> QED BY <1>2, <1>3, <1>4, <1>5, AckedIsDone, PTL DEF Atomic!Spec
=============================================================================
