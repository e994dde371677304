---------------------------- MODULE NetworkProofs ----------------------------
(***************************************************************************)
(* What holds of Network for any networks, cables and certificates, when   *)
(* one configuration at a time is applied.                                 *)
(***************************************************************************)
EXTENDS Network, SequenceTheorems, TLAPS

Reports == {"START", "DISCONNECTED", "GOT_IP"}
TryAgain == {"START", "DISCONNECTED"}

Asked == \E i \in 1 .. Len(events) : events[i] \in TryAgain

(* The event task is on its way to try again.                               *)
EventTries ==
    \/ At("event", "retry")
    \/ At("event", "stop") /\ task["event"].then = "retry"
    \/ At("event", "stopping") /\ task["event"].then = "retry"
    \/ At("event", "again") /\ task["event"].then = "retry"

(* One configuration is applied at a time, and its stops lead on to it.     *)
OneActive ==
    \A t \in Appliers :
        /\ \A u \in Appliers : t # u => At(t, "idle") \/ At(u, "idle")
        /\ task[t].at \in {"stop", "stopping", "again"} => task[t].then = "leave"

(* A driver that is not off has a network to join, and s_started knows.     *)
StationSense ==
    /\ radio # "off" => s_ssid # NoNet
    /\ radio # "off" => s_started \/ \E t \in Appliers : At(t, "started")
    /\ \A t \in Appliers :
          /\ task[t].at \in {"flags", "clear"} => radio = "off"
          /\ At(t, "join") => task[t].want.ssid # NoNet
          /\ At(t, "start") => s_ssid # NoNet

StationInv == TypeOK /\ OneActive /\ StationSense /\ NeverStranded

-----------------------------------------------------------------------------
(* Reports.                                                                 *)
LEMMA AppendReport ==
    ASSUME NEW q \in Seq(Reports), NEW r \in Reports
    PROVE  /\ Append(q, r) \in Seq(Reports)
           /\ \A i \in 1 .. Len(q) : i \in 1 .. Len(Append(q, r)) /\ Append(q, r)[i] = q[i]
           /\ Len(q) + 1 \in 1 .. Len(Append(q, r)) /\ Append(q, r)[Len(q) + 1] = r
<1>1. Append(q, r) \in Seq(Reports) /\ Len(Append(q, r)) = Len(q) + 1
  BY AppendProperties
<1>2. \A i \in 1 .. Len(q) : Append(q, r)[i] = q[i]
  BY AppendProperties
<1>3. Append(q, r)[Len(q) + 1] = r
  BY AppendProperties
<1>4. Len(q) \in Nat
  OBVIOUS
<1> QED BY <1>1, <1>2, <1>3, <1>4

LEMMA TailReport ==
    ASSUME NEW q \in Seq(Reports), q # <<>>
    PROVE  /\ Tail(q) \in Seq(Reports)
           /\ Head(q) = q[1]
           /\ \A i \in 1 .. Len(q) : i # 1 =>
                 i - 1 \in 1 .. Len(Tail(q)) /\ Tail(q)[i - 1] = q[i]
<1>1. /\ Tail(q) \in Seq(Reports) /\ Len(Tail(q)) = Len(q) - 1 /\ Len(q) \in Nat
      /\ \A i \in 1 .. Len(Tail(q)) : Tail(q)[i] = q[i + 1]
  BY HeadTailProperties
<1>2. ASSUME NEW i \in 1 .. Len(q), i # 1
      PROVE  i - 1 \in 1 .. Len(Tail(q)) /\ Tail(q)[i - 1] = q[i]
  <2>1. i - 1 \in 1 .. Len(Tail(q))
    BY <1>1, <1>2
  <2>2. Tail(q)[i - 1] = q[(i - 1) + 1]
    BY <1>1, <2>1
  <2> QED BY <2>1, <2>2
<1> QED BY <1>1, <1>2, HeadTailProperties

(* A report that is handled leaves the others.                              *)
LEMMA Handled ==
    ASSUME TypeOK, NEW r \in Reports, Handle(r)
    PROVE  /\ events' \in Seq(Reports)
           /\ Asked => r \in TryAgain \/ Asked'
           /\ At("event", "idle")
<1>1. events \in Seq(Reports) /\ events # <<>> /\ events' = Tail(events)
      /\ Head(events) = r /\ At("event", "idle")
  BY DEF TypeOK, Reports, Handle
<1>2. ASSUME Asked, r \notin TryAgain PROVE Asked'
  <2>1. PICK i \in 1 .. Len(events) : events[i] \in TryAgain
    BY <1>2 DEF Asked
  <2>2. i # 1
    BY <1>1, <1>2, <2>1, TailReport
  <2> QED BY <1>1, <2>1, <2>2, TailReport DEF Asked
<1> QED BY <1>1, <1>2, TailReport

(* A report that is added adds to them.                                     *)
LEMMA Reported ==
    ASSUME TypeOK, NEW r \in Reports, events' = Append(events, r)
    PROVE  /\ events' \in Seq(Reports)
           /\ Asked \/ r \in TryAgain => Asked'
BY AppendReport DEF TypeOK, Reports, Asked

-----------------------------------------------------------------------------
(* Tasks.                                                                   *)
LEMMA NoConfType == NoConf \in Conf /\ NoNet \in Ssid /\ Idle \in TaskState
BY DEF NoConf, Conf, Ssid, Idle, TaskState, Places

LEMMA GotoType ==
    ASSUME TypeOK, NEW t \in Tasks, NEW place \in Places, Goto(t, place)
    PROVE  /\ task' \in [Tasks -> TaskState]
           /\ task'[t] = [at |-> place, then |-> task[t].then, want |-> task[t].want]
           /\ \A u \in Tasks \ {t} : task'[u] = task[u]
<1>1. task[t] \in TaskState /\ task \in [Tasks -> TaskState]
  BY DEF TypeOK
<1>2. task' = [task EXCEPT ![t].at = place]
  BY DEF Goto
<1>3. task'[t] = [at |-> place, then |-> task[t].then, want |-> task[t].want]
  BY <1>1, <1>2 DEF TaskState
<1>4. task'[t] \in TaskState
  BY <1>1, <1>3 DEF TaskState
<1> QED BY <1>1, <1>2, <1>3, <1>4

LEMMA PutType ==
    ASSUME TypeOK, NEW t \in Tasks, NEW me \in TaskState,
           task' = [task EXCEPT ![t] = me]
    PROVE  /\ task' \in [Tasks -> TaskState]
           /\ task'[t] = me
           /\ \A u \in Tasks \ {t} : task'[u] = task[u]
BY DEF TypeOK

LEMMA StopType ==
    ASSUME TypeOK, NEW t \in Tasks, NEW place \in Places, StopThen(t, place)
    PROVE  /\ task' \in [Tasks -> TaskState]
           /\ task'[t] = [at |-> "stop", then |-> place, want |-> task[t].want]
           /\ \A u \in Tasks \ {t} : task'[u] = task[u]
<1>1. task[t].want \in Conf
  BY DEF TypeOK, TaskState
<1>2. [at |-> "stop", then |-> place, want |-> task[t].want] \in TaskState
  BY <1>1 DEF TaskState, Places
<1>3. task' = [task EXCEPT ![t] =
                 [at |-> "stop", then |-> place, want |-> task[t].want]]
  BY DEF StopThen
<1> QED BY <1>2, <1>3, PutType

(* Two tasks in httpd_stop of one server may change places.                 *)
InStop == {"stopping", "again"}

LEMMA SwapType ==
    ASSUME TypeOK, NEW t \in Tasks, StopAgain(t), ~Restart
    PROVE  /\ task' \in [Tasks -> TaskState]
           /\ \A v \in Tasks :
                 /\ task'[v].then = task[v].then /\ task'[v].want = task[v].want
                 /\ \/ task'[v].at = task[v].at
                    \/ task[v].at \in InStop /\ task'[v].at \in InStop
           /\ UNCHANGED <<prefVars, flagVars, httpVars, radioVars>>
<1>1. PICK u \in Tasks :
         /\ At(u, "stopping")
         /\ task' = [task EXCEPT ![t].at = "stopping", ![u].at = "again"]
  BY DEF StopAgain
<1>2. /\ task \in [Tasks -> TaskState] /\ At(t, "again") /\ t # u
      /\ task[t].at = "again" /\ task[u].at = "stopping"
  BY <1>1 DEF TypeOK, StopAgain, At
<1>3. task[t] \in TaskState /\ task[u] \in TaskState
  BY <1>2
<1>4. /\ task'[t] = [task[t] EXCEPT !.at = "stopping"]
      /\ task'[u] = [task[u] EXCEPT !.at = "again"]
      /\ \A v \in Tasks \ {t, u} : task'[v] = task[v]
      /\ task' = [v \in Tasks |-> task'[v]]
  BY <1>1, <1>2
<1>5. /\ task'[t] \in TaskState /\ task'[u] \in TaskState
      /\ \A v \in {t, u} : task'[v].then = task[v].then /\ task'[v].want = task[v].want
      /\ task'[t].at = "stopping" /\ task'[u].at = "again"
  BY <1>3, <1>4 DEF TaskState, Places
<1>6. \A v \in Tasks : task'[v] \in TaskState
  BY <1>2, <1>4, <1>5
<1>7. task' \in [Tasks -> TaskState]
  BY <1>4, <1>6
<1>8. ASSUME NEW v \in Tasks
      PROVE  /\ task'[v].then = task[v].then /\ task'[v].want = task[v].want
             /\ \/ task'[v].at = task[v].at
                \/ task[v].at \in InStop /\ task'[v].at \in InStop
  <2>1. CASE v = t
    BY <1>2, <1>5, <2>1 DEF InStop
  <2>2. CASE v = u
    BY <1>2, <1>5, <2>2 DEF InStop
  <2> QED BY <1>4, <2>1, <2>2
<1>9. UNCHANGED <<prefVars, flagVars, httpVars, radioVars>>
  BY DEF StopAgain
<1> QED BY <1>7, <1>8, <1>9

LEMMA Moves ==
    ASSUME TypeOK, NEW t \in Tasks, NEW place \in Places,
           Goto(t, place) \/ StopThen(t, place)
    PROVE  /\ Goto(t, place) => task'[t].at = place /\ task'[t].then = task[t].then
           /\ StopThen(t, place) => task'[t].at = "stop" /\ task'[t].then = place
           /\ task'[t].want = task[t].want
           /\ \A u \in Tasks : u # t => task'[u] = task[u]
<1>1. CASE Goto(t, place)
  <2>1. task' = [task EXCEPT ![t].at = place] /\ task \in [Tasks -> TaskState]
    BY <1>1 DEF Goto, TypeOK
  <2>2. task'[t] = [at |-> place, then |-> task[t].then, want |-> task[t].want]
    BY <1>1, GotoType
  <2>3. StopThen(t, place) =>
          task'[t] = [at |-> "stop", then |-> place, want |-> task[t].want]
    BY StopType
  <2> QED BY <2>1, <2>2, <2>3
<1>2. CASE StopThen(t, place)
  <2>1. task' = [task EXCEPT ![t] =
                   [at |-> "stop", then |-> place, want |-> task[t].want]]
        /\ task \in [Tasks -> TaskState]
    BY <1>2 DEF StopThen, TypeOK
  <2>2. task'[t] = [at |-> "stop", then |-> place, want |-> task[t].want]
    BY <1>2, StopType
  <2>3. Goto(t, place) =>
          task'[t] = [at |-> place, then |-> task[t].then, want |-> task[t].want]
    BY GotoType
  <2> QED BY <2>1, <2>2, <2>3
<1> QED BY <1>1, <1>2

LEMMA BootType ==
    ASSUME NEW conf \in Conf
    PROVE  /\ Booting(conf) \in [Tasks -> TaskState]
           /\ \A t \in Tasks :
                 /\ t # "main" => Booting(conf)[t].at = "idle"
                 /\ t = "main" => Booting(conf)[t].at = "apply"
<1>1. [at |-> "apply", then |-> "idle", want |-> conf] \in TaskState
  BY DEF TaskState, Places
<1>2. Idle.at = "idle"
  BY DEF Idle
<1> QED BY <1>1, <1>2, NoConfType DEF Booting

LEMMA InTasks ==
    /\ "event" \in Tasks /\ "httpd" \in Tasks /\ "event" \notin Appliers
    /\ \A t \in Appliers : t \in Tasks /\ t # "event"
    /\ \A h \in Hosts : h \in Appliers
    /\ "httpd" \in Appliers /\ "main" \in Appliers
BY NetworkAssumption DEF NetworkAssumption, Tasks, Appliers

-----------------------------------------------------------------------------
(* Types.                                                                   *)
LEMMA FreshType ==
    ASSUME NEW conf \in Conf,
           m_network' = conf, stored' \in Conf,
           s_stack_inited' = FALSE, s_started' = FALSE, s_connected' = FALSE,
           s_ssid' = NoNet, s_no_tls' = FALSE,
           s_server' = "none", refused' = FALSE, busy' = FALSE,
           task' = Booting(conf),
           radio' = "off", aim' = NoNet, events' = <<>>
    PROVE  TypeOK'
<1>1. task' \in [Tasks -> TaskState]
  BY BootType
<1>2. events' \in Seq({"START", "DISCONNECTED", "GOT_IP"})
  OBVIOUS
<1>3. s_ssid' \in Ssid /\ aim' \in Ssid
  BY NoConfType
<1>4. radio' \in {"off", "idle", "joining", "joined", "up"}
      /\ s_server' \in {"none", "http", "https"}
  OBVIOUS
<1>5. m_network' \in Conf
  OBVIOUS
<1> QED BY <1>1, <1>2, <1>3, <1>4, <1>5 DEF TypeOK

LEMMA RestartType == TypeOK /\ Restart => TypeOK'
<1> SUFFICES ASSUME TypeOK, Restart PROVE TypeOK'
  OBVIOUS
<1>1. stored \in Conf /\ stored' = stored
  BY DEF TypeOK, Restart
<1> QED BY <1>1, FreshType DEF Restart

LEMMA NetInit == Init => TypeOK
<1> SUFFICES ASSUME Init PROVE TypeOK
  OBVIOUS
<1>1. task \in [Tasks -> TaskState]
  BY BootType, NoConfType DEF Init
<1>2. events \in Seq({"START", "DISCONNECTED", "GOT_IP"})
  BY DEF Init
<1>3. /\ s_ssid \in Ssid /\ aim \in Ssid /\ m_network \in Conf /\ stored \in Conf
  BY NoConfType DEF Init
<1> QED BY <1>1, <1>2, <1>3 DEF TypeOK, Init

LEMMA TypeStep == TypeOK /\ [Next]_vars => TypeOK'
<1> SUFFICES ASSUME TypeOK, [Next]_vars PROVE TypeOK'
  OBVIOUS
<1> USE DEF prefVars, flagVars, httpVars, radioVars
<1>0. task \in [Tasks -> TaskState] /\ events \in Seq(Reports)
  BY DEF TypeOK, Reports
<1>a. \A t \in Tasks : /\ task[t].at \in Places /\ task[t].then \in Places
                       /\ task[t].want \in Conf /\ task[t].want.ssid \in Ssid
                       /\ task[t].want.noTls \in BOOLEAN
  BY DEF TypeOK, TaskState, Conf
<1>1. ASSUME NEW t \in Appliers, NEW conf \in Conf, Merge(t, conf),
             UNCHANGED <<stored, flagVars, s_server, refused, radioVars>>,
             busy' \in BOOLEAN
      PROVE  TypeOK'
  <2>1. [at |-> "apply", then |-> "idle", want |-> conf] \in TaskState
    BY DEF TaskState, Places
  <2>2. task' \in [Tasks -> TaskState] /\ m_network' = conf
    BY <1>1, <2>1, PutType, InTasks DEF Merge
  <2> QED BY <1>1, <2>2 DEF TypeOK
<1>2. ASSUME NEW h \in Hosts, SetNetwork(h) PROVE TypeOK'
  <2>1. PICK conf \in Conf : Merge(h, conf)
    BY <1>2 DEF SetNetwork
  <2>2. busy' \in BOOLEAN
    BY <1>2 DEF SetNetwork, TypeOK
  <2> QED BY <1>1, <1>2, <2>1, <2>2, InTasks DEF SetNetwork
<1>3. CASE Request
  <2>1. CASE UNCHANGED <<m_network, task>>
    BY <1>3, <2>1 DEF Request, TypeOK
  <2>2. CASE \E conf \in IF OverHttp THEN Conf ELSE {m_network} : Merge("httpd", conf)
    <3>1. PICK conf \in Conf : Merge("httpd", conf)
      BY <2>2 DEF TypeOK
    <3> QED BY <1>1, <1>3, <3>1, InTasks DEF Request
  <2> QED BY <1>3, <2>1, <2>2 DEF Request
<1>4. CASE Answer
  BY <1>4 DEF Answer, TypeOK
<1>5. ASSUME NEW t \in Appliers, Apply(t) PROVE TypeOK'
  <2>1. t \in Tasks
    BY InTasks
  <2>2. \/ StopThen(t, "leave") \/ Goto(t, "done") \/ Goto(t, "join")
    BY <1>5 DEF Apply
  <2>3. task' \in [Tasks -> TaskState]
    BY <2>1, <2>2, GotoType, StopType DEF Places
  <2>4. /\ s_ssid' \in Ssid /\ s_stack_inited' \in BOOLEAN
        /\ UNCHANGED <<prefVars, s_started, s_connected, s_no_tls, httpVars, radioVars>>
    BY <1>5, NoConfType DEF Apply, TypeOK
  <2> QED BY <2>3, <2>4 DEF TypeOK
<1>6. ASSUME NEW t \in Tasks, StopServer(t) PROVE TypeOK'
  <2>1. \E place \in Places : Goto(t, place)
    BY <1>6, <1>a DEF StopServer, Places
  <2>2. task' \in [Tasks -> TaskState]
    BY <2>1, GotoType
  <2> QED BY <1>6, <2>2 DEF StopServer, TypeOK
<1>7. ASSUME NEW t \in Tasks, Stopped(t) PROVE TypeOK'
  <2>1. task' \in [Tasks -> TaskState]
    BY <1>7, <1>a, GotoType DEF Stopped
  <2> QED BY <1>7, <2>1 DEF Stopped, TypeOK
<1>8. ASSUME NEW t \in Appliers, Leave(t) \/ Halt(t) PROVE TypeOK'
  <2>1. t \in Tasks
    BY InTasks
  <2>2. task' \in [Tasks -> TaskState]
    BY <1>8, <2>1, GotoType DEF Leave, Halt, Places
  <2>3. /\ radio' \in {"off", "idle"} /\ UNCHANGED <<aim, prefVars, flagVars, httpVars>>
        /\ events' = Append(events, "DISCONNECTED") \/ events' = events
    BY <1>8 DEF Leave, Halt, Drop
  <2>4. events' \in Seq(Reports)
    BY <1>0, <2>3, Reported DEF Reports
  <2> QED BY <2>2, <2>3, <2>4 DEF TypeOK, Reports
<1>9. ASSUME NEW t \in Appliers,
             ClearFlags(t) \/ ClearSsid(t) \/ Join(t) \/ Started(t)
      PROVE  TypeOK'
  <2>1. t \in Tasks
    BY InTasks
  <2>2. \E place \in {"clear", "join", "done", "start"} : Goto(t, place)
    BY <1>9 DEF ClearFlags, ClearSsid, Join, Started
  <2>3. task' \in [Tasks -> TaskState]
    BY <2>1, <2>2, GotoType DEF Places
  <2>4. /\ s_ssid' \in Ssid /\ s_no_tls' \in BOOLEAN /\ s_started' \in BOOLEAN
        /\ s_connected' \in BOOLEAN
        /\ UNCHANGED <<prefVars, s_stack_inited, httpVars, radioVars>>
    BY <1>9, <1>a, <2>1, NoConfType DEF ClearFlags, ClearSsid, Join, Started, TypeOK
  <2> QED BY <2>3, <2>4 DEF TypeOK
<1>10. ASSUME NEW t \in Appliers, Start(t) PROVE TypeOK'
  <2>1. t \in Tasks
    BY InTasks
  <2>2. task' \in [Tasks -> TaskState]
    BY <1>10, <2>1, GotoType DEF Start, Places
  <2>3. events' \in Seq(Reports)
    BY <1>0, <1>10, Reported DEF Start, Reports
  <2>4. aim' \in Ssid /\ radio' \in {radio, "idle"}
    BY <1>10, <1>a, <2>1 DEF Start
  <2> QED BY <1>10, <2>2, <2>3, <2>4 DEF Start, TypeOK, Reports
<1>11. ASSUME NEW t \in Appliers, Done(t) PROVE TypeOK'
  <2>1. task' \in [Tasks -> TaskState]
    BY <1>11, InTasks, PutType, NoConfType DEF Done
  <2> QED BY <1>11, <2>1 DEF Done, TypeOK
<1>12. CASE OnStart \/ OnDisconnected \/ OnGotIp
  <2>1. events' \in Seq(Reports) /\ "event" \in Tasks
    BY <1>12, Handled, InTasks DEF OnStart, OnDisconnected, OnGotIp, Reports
  <2>2. CASE OnStart
    BY <2>1, <2>2 DEF OnStart, Connect, TypeOK, Reports
  <2>3. CASE OnDisconnected
    <3>1. task' \in [Tasks -> TaskState]
      BY <2>1, <2>3, GotoType, StopType DEF OnDisconnected, Places
    <3> QED BY <2>1, <2>3, <3>1 DEF OnDisconnected, TypeOK, Reports
  <2>4. CASE OnGotIp
    <3>1. task' \in [Tasks -> TaskState]
      BY <2>1, <2>4, GotoType DEF OnGotIp, Places
    <3> QED BY <2>1, <2>4, <3>1 DEF OnGotIp, TypeOK, Reports
  <2> QED BY <1>12, <2>2, <2>3, <2>4
<1>13. CASE Retry
  <2>1. task' \in [Tasks -> TaskState]
    BY <1>13, InTasks, PutType, NoConfType DEF Retry
  <2>2. radio' \in {radio, "joining"}
    BY <1>13 DEF Retry, Connect
  <2> QED BY <1>13, <2>1, <2>2 DEF Retry, TypeOK
<1>14. CASE Serve
  <2> DEFINE me == [at |-> IF s_server = "none" THEN "serving" ELSE "stop",
                    then |-> "serving",
                    want |-> [NoConf EXCEPT !.noTls = s_no_tls]]
  <2>1. [NoConf EXCEPT !.noTls = s_no_tls] \in Conf
    BY NoConfType DEF NoConf, Conf, TypeOK
  <2>2. me \in TaskState
    BY <2>1 DEF TaskState, Places
  <2>3. task' \in [Tasks -> TaskState]
    BY <1>14, <2>2, InTasks, PutType DEF Serve
  <2> QED BY <1>14, <2>3 DEF Serve, TypeOK
<1>15. CASE Serving
  <2>1. task' \in [Tasks -> TaskState]
    BY <1>15, InTasks, PutType, NoConfType DEF Serving
  <2>2. s_server' \in {"none", "http", "https"} /\ refused' \in BOOLEAN
    BY <1>15 DEF Serving, Mode
  <2> QED BY <1>15, <2>1, <2>2 DEF Serving, TypeOK
<1>16. CASE Associate
  BY <1>16 DEF Associate, TypeOK
<1>17. CASE Lease \/ Lose
  <2>1. events' \in Seq(Reports)
    BY <1>0, <1>17, Reported DEF Lease, Lose, Drop, Reports
  <2> QED BY <1>17, <2>1 DEF Lease, Lose, Drop, TypeOK, Reports
<1>18. CASE PowerCycle
  BY <1>18, RestartType DEF PowerCycle
<1>19. CASE UNCHANGED vars
  BY <1>19 DEF vars, TypeOK
<1>b. ASSUME NEW t \in Tasks, StopAgain(t) PROVE TypeOK'
  <2>1. CASE ~Restart
    BY <1>b, <2>1, SwapType DEF TypeOK
  <2> QED BY <2>1, RestartType
<1>20. CASE Next
  BY <1>b, <1>2, <1>3, <1>4, <1>5, <1>6, <1>7, <1>8, <1>9, <1>10, <1>11, <1>12, <1>13,
     <1>14, <1>15, <1>16, <1>17, <1>18, <1>20, InTasks
     DEF Next, ApplierStep, EventStep
<1> QED BY <1>19, <1>20

(* The types of the flags, the tasks and the reports.                       *)
THEOREM TypeCorrect == Spec => []TypeOK
BY NetInit, TypeStep, PTL DEF Spec

-----------------------------------------------------------------------------
(* A station that is started is never left alone.                           *)
LEMMA Stranded ==
    NeverStranded <=> (radio = "idle" => \/ Asked \/ EventTries
                                         \/ \E t \in Appliers : At(t, "halt"))
BY DEF NeverStranded, Asked, TryAgain, EventTries

(* What a step of the applier that is active has to keep.                   *)
LEMMA ApplierKeeps ==
    ASSUME StationInv, TypeOK', NEW t \in Appliers, ~At(t, "idle"),
           \A u \in Tasks : u # t => task'[u] = task[u],
           task'[t].at \in {"stop", "stopping", "again"} => task'[t].then = "leave",
           radio' # "off" => s_ssid' # NoNet,
           radio' # "off" => s_started' \/ task'[t].at = "started",
           task'[t].at \in {"flags", "clear"} => radio' = "off",
           task'[t].at = "join" => task'[t].want.ssid # NoNet,
           task'[t].at = "start" => s_ssid' # NoNet,
           radio' = "idle" => \/ Asked'
                              \/ task'[t].at = "halt"
                              \/ radio = "idle" /\ events' = events /\ ~At(t, "halt")
    PROVE  StationInv'
<1>1. \A u \in Appliers : u # t => task'[u].at = "idle" /\ task[u].at = "idle"
  BY InTasks DEF StationInv, OneActive, At
<1>2. OneActive'
  BY <1>1 DEF OneActive, At
<1>3. StationSense'
  BY <1>1 DEF StationSense, At
<1>4. ASSUME radio' = "idle", radio = "idle", events' = events, ~At(t, "halt")
      PROVE  Asked' \/ EventTries'
  <2>1. \A u \in Appliers : ~At(u, "halt")
    BY <1>1, <1>4 DEF At
  <2>2. Asked \/ EventTries
    BY <1>4, <2>1, Stranded DEF StationInv
  <2>3. task'["event"] = task["event"]
    BY InTasks
  <2> QED BY <1>4, <2>2, <2>3 DEF Asked, EventTries, At
<1>5. NeverStranded'
  BY <1>4 DEF NeverStranded, Asked, TryAgain, EventTries, At
<1> QED BY <1>2, <1>3, <1>5 DEF StationInv

(* What any other step has to keep.                                         *)
LEMMA OthersKeep ==
    ASSUME StationInv, TypeOK', \A t \in Appliers : task'[t] = task[t],
           s_ssid' = s_ssid, s_started' = s_started,
           radio' = "off" <=> radio = "off",
           radio' = "idle" =>
              \/ Asked' \/ EventTries'
              \/ radio = "idle" /\ ~Asked /\ ~EventTries
    PROVE  StationInv'
<1>1. OneActive' /\ StationSense'
  BY DEF StationInv, OneActive, StationSense, At
<1>2. ASSUME radio' = "idle", ~Asked', ~EventTries'
      PROVE  \E t \in Appliers : At(t, "halt")'
  BY <1>2, Stranded DEF StationInv, At
<1>3. NeverStranded'
  BY <1>2 DEF NeverStranded, Asked, TryAgain, EventTries, At
<1> QED BY <1>1, <1>3 DEF StationInv

(* A command starts to be applied while nothing else is.                    *)
LEMMA CommandKeeps ==
    ASSUME StationInv, TypeOK', NEW t \in Appliers, NEW conf \in Conf,
           Merge(t, conf), \A u \in Appliers : At(u, "idle"),
           UNCHANGED <<flagVars, radioVars>>
    PROVE  StationInv'
<1>1. [at |-> "apply", then |-> "idle", want |-> conf] \in TaskState
  BY DEF TaskState, Places
<1>2. task'[t].at = "apply" /\ \A u \in Tasks : u # t => task'[u] = task[u]
  BY <1>1, PutType, InTasks DEF Merge, StationInv
<1>3. \A u \in Appliers : u # t => task'[u].at = "idle"
  BY <1>2, InTasks DEF At
<1>4. OneActive' /\ StationSense'
  BY <1>2, <1>3 DEF StationInv, OneActive, StationSense, At, flagVars, radioVars
<1>5. task'["event"] = task["event"] /\ events' = events /\ radio' = radio
  BY <1>2, InTasks DEF radioVars
<1>6. radio = "idle" => Asked \/ EventTries
  BY Stranded DEF StationInv, At
<1>7. NeverStranded'
  BY <1>5, <1>6 DEF NeverStranded, Asked, TryAgain, EventTries, At
<1> QED BY <1>4, <1>7 DEF StationInv

LEMMA FreshStation ==
    ASSUME TypeOK, radio = "off", NEW conf \in Conf, task = Booting(conf)
    PROVE  StationInv
<1>1. \A t \in Tasks : /\ t # "main" => task[t].at = "idle"
                       /\ t = "main" => task[t].at = "apply"
  BY BootType
<1> QED BY <1>1, InTasks DEF StationInv, OneActive, StationSense, NeverStranded, At

LEMMA RestartKeeps == TypeOK /\ Restart => StationInv'
<1> SUFFICES ASSUME TypeOK, Restart PROVE StationInv'
  OBVIOUS
<1>1. stored \in Conf /\ radio' = "off" /\ task' = Booting(stored) /\ TypeOK'
  BY RestartType DEF TypeOK, Restart
<1>2. \A t \in Tasks : /\ t # "main" => task'[t].at = "idle"
                       /\ t = "main" => task'[t].at = "apply"
  BY <1>1, BootType
<1> QED BY <1>1, <1>2, InTasks
        DEF StationInv, OneActive, StationSense, NeverStranded, At

(* The steps of the tasks that apply a configuration.                       *)
LEMMA ApplierStation ==
    ASSUME StationInv, TypeOK', NEW t \in Appliers, ApplierStep(t)
    PROVE  StationInv'
<1> USE DEF prefVars, flagVars, httpVars, radioVars
<1>1. TypeOK /\ OneActive /\ StationSense /\ t \in Tasks
  BY InTasks DEF StationInv
<1>2. ~At(t, "idle")
  BY DEF ApplierStep, Apply, Leave, Halt, ClearFlags, ClearSsid, Join, Start,
         Started, Done, StopServer, Stopped, At
<1>3. \A u \in Appliers : u # t => task[u].at = "idle"
  BY <1>2 DEF OneActive, StationInv, At
<1>a. /\ radio # "off" => s_ssid # NoNet
      /\ radio # "off" => s_started \/ At(t, "started")
      /\ task[t].at \in {"flags", "clear"} => radio = "off"
      /\ At(t, "join") => task[t].want.ssid # NoNet
      /\ At(t, "start") => s_ssid # NoNet
      /\ task[t].at \in {"stop", "stopping", "again"} => task[t].then = "leave"
  BY <1>1, <1>3 DEF StationSense, OneActive, At
<1>4. CASE Apply(t)
  <2>1. CASE StopThen(t, "leave") /\ s_started /\ UNCHANGED s_ssid
    <3>1. /\ task'[t].at = "stop" /\ task'[t].then = "leave"
          /\ \A u \in Tasks : u # t => task'[u] = task[u]
      BY <1>1, <2>1, Moves DEF Places
    <3> QED BY <1>2, <1>4, <1>a, <2>1, <3>1, ApplierKeeps DEF Apply, At
  <2>2. CASE Goto(t, "done") /\ (UNCHANGED s_ssid \/ ~s_started)
    <3>1. /\ task'[t].at = "done" /\ \A u \in Tasks : u # t => task'[u] = task[u]
      BY <1>1, <2>2, Moves DEF Places
    <3> QED BY <1>2, <1>4, <1>a, <2>2, <3>1, ApplierKeeps DEF Apply, At
  <2>3. CASE Goto(t, "join") /\ task[t].want.ssid # NoNet /\ UNCHANGED s_ssid
    <3>1. /\ task'[t].at = "join" /\ task'[t].want = task[t].want
          /\ \A u \in Tasks : u # t => task'[u] = task[u]
      BY <1>1, <2>3, Moves DEF Places
    <3> QED BY <1>2, <1>4, <1>a, <2>3, <3>1, ApplierKeeps DEF Apply, At
  <2> QED BY <1>4, <2>1, <2>2, <2>3 DEF Apply
<1>5. CASE StopServer(t)
  <2>1. PICK place \in {"leave", "stopping", "again"} : Goto(t, place)
    BY <1>5, <1>a DEF StopServer, At
  <2>2. At(t, "stop") /\ UNCHANGED <<flagVars, radioVars>>
    BY <1>5 DEF StopServer
  <2>3. /\ task'[t].at = place /\ task'[t].then = task[t].then
        /\ \A u \in Tasks : u # t => task'[u] = task[u]
    BY <1>1, <2>1, Moves DEF Places
  <2> QED BY <1>2, <1>a, <2>1, <2>2, <2>3, ApplierKeeps DEF At
<1>6. CASE Stopped(t)
  <2>1. Goto(t, "leave") /\ UNCHANGED <<flagVars, radioVars>> /\ At(t, "stopping")
    BY <1>6, <1>a DEF Stopped, At
  <2>2. task'[t].at = "leave" /\ \A u \in Tasks : u # t => task'[u] = task[u]
    BY <1>1, <2>1, Moves DEF Places
  <2> QED BY <1>2, <1>a, <2>1, <2>2, ApplierKeeps DEF At
<1>7. CASE Leave(t)
  <2>1. task'[t].at = "halt" /\ \A u \in Tasks : u # t => task'[u] = task[u]
    BY <1>1, <1>7, Moves DEF Leave, Places
  <2>2. /\ At(t, "leave") /\ UNCHANGED flagVars
        /\ radio' = (IF radio = "off" THEN "off" ELSE "idle")
    BY <1>7 DEF Leave, Drop
  <2> QED BY <1>2, <1>a, <2>1, <2>2, ApplierKeeps DEF At
<1>8. CASE Halt(t)
  <2>1. task'[t].at = "flags" /\ \A u \in Tasks : u # t => task'[u] = task[u]
    BY <1>1, <1>8, Moves DEF Halt, Places
  <2>2. radio' = "off"
    BY <1>8 DEF Halt, Drop
  <2> QED BY <1>2, <2>1, <2>2, ApplierKeeps
<1>9. CASE ClearFlags(t)
  <2>1. PICK place \in {"clear", "join"} :
          Goto(t, place) /\ (place = "join" => task[t].want.ssid # NoNet)
    BY <1>9 DEF ClearFlags
  <2>2. /\ task'[t].at = place /\ task'[t].want = task[t].want
        /\ \A u \in Tasks : u # t => task'[u] = task[u]
    BY <1>1, <2>1, Moves DEF Places
  <2>3. radio' = "off"
    BY <1>9, <1>a DEF ClearFlags, At
  <2> QED BY <1>2, <2>1, <2>2, <2>3, ApplierKeeps
<1>10. CASE ClearSsid(t)
  <2>1. task'[t].at = "done" /\ \A u \in Tasks : u # t => task'[u] = task[u]
    BY <1>1, <1>10, Moves DEF ClearSsid, Places
  <2>2. radio' = "off"
    BY <1>10, <1>a DEF ClearSsid, At
  <2> QED BY <1>2, <2>1, <2>2, ApplierKeeps
<1>11. CASE Join(t)
  <2>1. task'[t].at = "start" /\ \A u \in Tasks : u # t => task'[u] = task[u]
    BY <1>1, <1>11, Moves DEF Join, Places
  <2>2. /\ At(t, "join") /\ s_ssid' # NoNet
        /\ UNCHANGED <<s_started, radio, events>>
    BY <1>11, <1>a DEF Join
  <2> QED BY <1>2, <1>a, <2>1, <2>2, ApplierKeeps DEF At
<1>12. CASE Start(t)
  <2>1. task'[t].at = "started" /\ \A u \in Tasks : u # t => task'[u] = task[u]
    BY <1>1, <1>12, Moves DEF Start, Places
  <2>2. At(t, "start") /\ s_ssid' = s_ssid /\ s_ssid # NoNet
    BY <1>12, <1>a DEF Start
  <2>3. CASE radio = "off"
    <3>1. Asked'
      BY <1>1, <1>12, <2>3, Reported DEF Start, Reports, TryAgain
    <3> QED BY <1>2, <2>1, <2>2, <3>1, ApplierKeeps
  <2>4. CASE radio # "off"
    <3>1. UNCHANGED <<radio, events>> /\ ~At(t, "halt")
      BY <1>12, <2>4 DEF Start, At
    <3> QED BY <1>2, <2>1, <2>2, <3>1, ApplierKeeps
  <2> QED BY <2>3, <2>4
<1>13. CASE Started(t)
  <2>1. task'[t].at = "done" /\ \A u \in Tasks : u # t => task'[u] = task[u]
    BY <1>1, <1>13, Moves DEF Started, Places
  <2>2. /\ At(t, "started") /\ s_started' = TRUE
        /\ UNCHANGED <<s_ssid, radio, events>>
    BY <1>13 DEF Started
  <2> QED BY <1>2, <1>a, <2>1, <2>2, ApplierKeeps DEF At
<1>14. CASE Done(t)
  <2>1. task'[t].at = "idle" /\ \A u \in Tasks : u # t => task'[u] = task[u]
    BY <1>1, <1>14, PutType, NoConfType DEF Done, Idle
  <2>2. At(t, "done") /\ UNCHANGED <<flagVars, radioVars>>
    BY <1>14 DEF Done
  <2> QED BY <1>2, <1>a, <2>1, <2>2, ApplierKeeps DEF At
<1> QED BY <1>4, <1>5, <1>6, <1>7, <1>8, <1>9, <1>10, <1>11, <1>12, <1>13, <1>14
        DEF ApplierStep

(* The steps of the event task.                                             *)
LEMMA EventStation ==
    ASSUME StationInv, TypeOK', EventStep PROVE StationInv'
<1> USE DEF prefVars, flagVars, httpVars, radioVars
<1>1. TypeOK /\ StationSense /\ "event" \in Tasks
  BY InTasks DEF StationInv
<1>2. ASSUME \A t \in Tasks : t # "event" => task'[t] = task[t]
      PROVE  \A t \in Appliers : task'[t] = task[t]
  BY <1>2, InTasks
<1>3. ASSUME NEW r \in Reports, Handle(r)
      PROVE  ~EventTries /\ (Asked => r \in TryAgain \/ Asked')
  BY <1>1, <1>3, Handled DEF EventTries, At
<1>4. CASE OnStart
  <2>1. radio' # "idle" /\ (radio' = "off" <=> radio = "off")
    BY <1>4 DEF OnStart, Connect
  <2> QED BY <1>1, <1>4, <2>1, OthersKeep DEF OnStart
<1>5. CASE OnDisconnected
  <2>1. StopThen("event", "retry") \/ Goto("event", "retry")
    BY <1>5 DEF OnDisconnected
  <2>2. EventTries' /\ \A t \in Tasks : t # "event" => task'[t] = task[t]
    BY <1>1, <2>1, Moves DEF Places, EventTries, At
  <2> QED BY <1>2, <1>5, <2>2, OthersKeep DEF OnDisconnected
<1>6. CASE OnGotIp
  <2>1. ~EventTries /\ (Asked => Asked')
    BY <1>3, <1>6 DEF OnGotIp, Reports, TryAgain
  <2>2. \A t \in Tasks : t # "event" => task'[t] = task[t]
    BY <1>1, <1>6, Moves DEF OnGotIp, Places
  <2> QED BY <1>2, <1>6, <2>1, <2>2, OthersKeep DEF OnGotIp
<1>7. CASE Retry
  <2>1. radio' # "idle" /\ (radio' = "off" <=> radio = "off")
    BY <1>1, <1>7 DEF Retry, Connect, StationSense
  <2>2. \A t \in Tasks : t # "event" => task'[t] = task[t]
    BY <1>1, <1>7, PutType, NoConfType DEF Retry
  <2> QED BY <1>2, <1>7, <2>1, <2>2, OthersKeep DEF Retry
<1>8. CASE Serve \/ Serving
  <2>1. \A t \in Tasks : t # "event" => task'[t] = task[t]
    BY <1>1, <1>8 DEF Serve, Serving, TypeOK
  <2>2. ~EventTries /\ UNCHANGED <<flagVars, radioVars>>
    BY <1>8 DEF Serve, Serving, EventTries, At
  <2>3. Asked => Asked'
    BY <2>2 DEF Asked
  <2> QED BY <1>2, <2>1, <2>2, <2>3, OthersKeep
<1>9. CASE StopServer("event") \/ Stopped("event")
  <2>1. /\ UNCHANGED <<flagVars, radioVars>>
        /\ At("event", "stop") \/ At("event", "stopping")
        /\ \E place \in {task["event"].then} \cup InStop : Goto("event", place)
    BY <1>9 DEF StopServer, Stopped, InStop
  <2>2. task["event"].then \in Places
    BY <1>1 DEF TypeOK, TaskState
  <2>3. /\ \A t \in Tasks : t # "event" => task'[t] = task[t]
        /\ task'["event"].then = task["event"].then
        /\ task'["event"].at \in {task["event"].then} \cup InStop
    BY <1>1, <2>1, <2>2, Moves DEF Places, InStop
  <2>4. EventTries => EventTries'
    BY <2>1, <2>3 DEF EventTries, At, InStop
  <2>5. Asked => Asked'
    BY <2>1 DEF Asked
  <2> QED BY <1>2, <2>1, <2>3, <2>4, <2>5, OthersKeep
<1> QED BY <1>4, <1>5, <1>6, <1>7, <1>8, <1>9 DEF EventStep

LEMMA AgainStation ==
    ASSUME StationInv, TypeOK', NEW t \in Tasks, StopAgain(t) PROVE StationInv'
<1>1. CASE Restart
  BY <1>1, RestartKeeps DEF StationInv
<1>2. CASE ~Restart
  <2>1. /\ UNCHANGED <<flagVars, radioVars>>
        /\ \A v \in Tasks :
              /\ task'[v].then = task[v].then /\ task'[v].want = task[v].want
              /\ \/ task'[v].at = task[v].at
                 \/ task[v].at \in InStop /\ task'[v].at \in InStop
    BY <1>2, SwapType DEF StationInv
  <2>2. OneActive'
    BY <2>1, InTasks DEF StationInv, OneActive, At, InStop
  <2>3. StationSense'
    BY <2>1, InTasks DEF StationInv, StationSense, At, InStop, flagVars, radioVars
  <2>4. (EventTries => EventTries') /\ (Asked => Asked')
    BY <2>1, InTasks DEF EventTries, Asked, At, InStop, radioVars
  <2>5. \A v \in Appliers : At(v, "halt") => At(v, "halt")'
    BY <2>1, InTasks DEF At, InStop
  <2>6. NeverStranded'
    BY <2>1, <2>4, <2>5, Stranded
       DEF StationInv, radioVars, NeverStranded, Asked, TryAgain, EventTries, At
  <2> QED BY <2>2, <2>3, <2>6 DEF StationInv
<1> QED BY <1>1, <1>2

LEMMA StationInit == Init => StationInv
<1> SUFFICES ASSUME Init PROVE StationInv
  OBVIOUS
<1>1. TypeOK /\ radio = "off" /\ task = Booting(NoConf)
  BY NetInit DEF Init
<1> QED BY <1>1, NoConfType, FreshStation

LEMMA StationStep ==
    ASSUME Overlap = FALSE PROVE StationInv /\ [Next]_vars => StationInv'
<1> SUFFICES ASSUME StationInv, [Next]_vars PROVE StationInv'
  OBVIOUS
<1>1. TypeOK /\ TypeOK'
  BY TypeStep DEF StationInv
<1>2. ASSUME NEW h \in Hosts, SetNetwork(h) PROVE StationInv'
  <2>1. PICK conf \in Conf : Merge(h, conf)
    BY <1>2 DEF SetNetwork
  <2>2. (\A u \in Appliers : At(u, "idle")) /\ UNCHANGED <<flagVars, radioVars>>
    BY <1>2 DEF SetNetwork, MayCommand
  <2> QED BY <1>1, <2>1, <2>2, CommandKeeps, InTasks
<1>3. CASE Request
  <2>1. CASE UNCHANGED <<m_network, task>>
    <3>1. UNCHANGED <<task, flagVars, radioVars>> /\ radio = "up"
      BY <1>3, <2>1 DEF Request
    <3> QED BY <1>1, <3>1, OthersKeep DEF flagVars, radioVars
  <2>2. CASE MayCommand("httpd") /\ \E conf \in Conf : Merge("httpd", conf)
    <3>1. (\A u \in Appliers : At(u, "idle")) /\ UNCHANGED <<flagVars, radioVars>>
      BY <1>3, <2>2 DEF Request, MayCommand
    <3> QED BY <1>1, <2>2, <3>1, CommandKeeps, InTasks
  <2> QED BY <1>1, <1>3, <2>1, <2>2 DEF Request, TypeOK
<1>4. CASE Answer \/ Associate \/ Lease \/ UNCHANGED vars
  <2>1. UNCHANGED <<task, flagVars>> /\ (radio' = "off" <=> radio = "off")
    BY <1>4 DEF Answer, Associate, Lease, vars, radioVars
  <2>2. radio' = "idle" => radio = "idle" /\ events' = events
    BY <1>4 DEF Answer, Associate, Lease, vars, radioVars
  <2>3. radio' = "idle" => (Asked => Asked') /\ (EventTries => EventTries')
    BY <2>1, <2>2 DEF Asked, EventTries, At
  <2> QED BY <1>1, <2>1, <2>2, <2>3, OthersKeep DEF flagVars
<1>5. ASSUME NEW t \in Appliers, ApplierStep(t) PROVE StationInv'
  BY <1>1, <1>5, ApplierStation
<1>6. CASE EventStep
  BY <1>1, <1>6, EventStation
<1>7. CASE Lose
  <2>1. /\ radio' = "idle" /\ radio # "off" /\ UNCHANGED <<task, flagVars>>
        /\ events' = Append(events, "DISCONNECTED")
    BY <1>7 DEF Lose, Drop, Associated
  <2>2. Asked'
    BY <1>1, <2>1, Reported DEF Reports, TryAgain
  <2> QED BY <1>1, <2>1, <2>2, OthersKeep DEF flagVars
<1>8. CASE PowerCycle
  BY <1>1, <1>8, RestartKeeps DEF PowerCycle
<1>9. ASSUME NEW t \in Tasks, StopAgain(t) PROVE StationInv'
  BY <1>1, <1>9, AgainStation
<1> QED BY <1>9, <1>2, <1>3, <1>4, <1>5, <1>6, <1>7, <1>8 DEF Next

(* While one configuration at a time is applied, a started station that is  *)
(* not joining has somebody who will make it try, whatever the networks,    *)
(* the cables and the reports that are late.                                *)
THEOREM StationTries ==
    ASSUME Overlap = FALSE PROVE Spec => []NeverStranded
<1>1. StationInv => NeverStranded
  BY DEF StationInv
<1> QED BY <1>1, StationInit, StationStep, PTL DEF Spec
-----------------------------------------------------------------------------
(* What everything settles in.                                              *)

(* What the last report that is waiting says when all is well, and the      *)
(* other one.                                                               *)
Truth == IF radio = "up" THEN "GOT_IP" ELSE "DISCONNECTED"
Untrue == IF radio = "up" THEN "DISCONNECTED" ELSE "GOT_IP"

Has(q, r) == \E i \in 1 .. Len(q) : q[i] = r
Promised(q, bad, good) ==
    \A i \in 1 .. Len(q) :
        q[i] = bad => \E j \in 1 .. Len(q) : i < j /\ q[j] = good

(* Whatever the waiting reports say of the session, the last says the       *)
(* truth, and s_connected does when there is none.                          *)
LinkInv ==
    /\ Promised(events, Untrue, Truth)
    /\ (s_connected <=> radio = "up") \/ Has(events, Truth)

Ending == {"stop", "stopping", "again", "leave", "halt"}
Changing == Ending \cup {"apply", "flags"}

(* What is true while t applies what m_network holds.                       *)
Applies(t) ==
    /\ task[t].at # "idle" => task[t].want = m_network
    /\ task[t].at \in Ending \cup {"flags"} => s_started
    /\ task[t].at \in {"clear", "join", "start", "started"} => ~s_started
    /\ task[t].at \in {"join", "start"} => radio = "off"
    /\ task[t].at \in {"join", "start", "started"} => s_stack_inited
    /\ task[t].at \in {"start", "started"} => Same(m_network)
    /\ task[t].at = "started" => radio # "off" /\ aim = s_ssid

(* A started station joins s_ssid, and that is the configured one except    *)
(* while a change is made.                                                  *)
ConfigInv ==
    /\ \A t \in Appliers : Applies(t)
    /\ s_started => s_stack_inited /\ aim = s_ssid
    /\ s_started => radio # "off" \/ \E t \in Appliers : task[t].at = "flags"
    /\ s_started => Same(m_network) \/ \E t \in Appliers : task[t].at \in Changing

(* The event task serves in the mode of s_no_tls, or will.                  *)
Serves ==
    \/ At("event", "serve")
    \/ At("event", "serving") /\ task["event"].want.noTls = s_no_tls
    \/ /\ task["event"].at \in {"stop"} \cup InStop /\ task["event"].then = "serving"
       /\ task["event"].want.noTls = s_no_tls
    \/ At("event", "idle") /\ (s_server = Mode(s_no_tls) \/ refused)

(* A session whose report is handled is served until it is ended.           *)
Reached == radio = "up" /\ ~Has(events, "GOT_IP")
ServedInv == Reached => Serves \/ \E t \in Appliers : task[t].at \in Ending

SettledInv == StationInv /\ LinkInv /\ ConfigInv /\ ServedInv

-----------------------------------------------------------------------------
(* Reports, once more.                                                      *)
LEMMA HasAppended ==
    ASSUME NEW q \in Seq(Reports), NEW r \in Reports, NEW good
    PROVE  /\ Has(Append(q, r), good) <=> Has(q, good) \/ r = good
           /\ \A bad : Promised(q, bad, good) /\ r # bad => Promised(Append(q, r), bad, good)
           /\ \A bad : bad # r => Promised(Append(q, r), bad, r)
<1>1. /\ Len(q) \in Nat /\ Len(Append(q, r)) = Len(q) + 1
      /\ \A i \in 1 .. Len(q) : Append(q, r)[i] = q[i]
      /\ Append(q, r)[Len(q) + 1] = r
  BY AppendProperties
<1>2. \A i \in 1 .. Len(q) + 1 : i \in 1 .. Len(q) \/ i = Len(q) + 1
  BY <1>1
<1>3. /\ \A i \in 1 .. Len(q) : i \in 1 .. Len(q) + 1 /\ i < Len(q) + 1
      /\ Len(q) + 1 \in 1 .. Len(q) + 1
  BY <1>1
<1>4. Has(Append(q, r), good) <=> Has(q, good) \/ r = good
  BY <1>1, <1>2, <1>3 DEF Has
<1>5. ASSUME NEW bad, Promised(q, bad, good), r # bad
      PROVE  Promised(Append(q, r), bad, good)
  BY <1>1, <1>2, <1>3, <1>5 DEF Promised
<1>6. ASSUME NEW bad, bad # r
      PROVE  Promised(Append(q, r), bad, r)
  BY <1>1, <1>2, <1>3, <1>6 DEF Promised
<1> QED BY <1>4, <1>5, <1>6

LEMMA HasLeft ==
    ASSUME NEW q \in Seq(Reports), q # <<>>, NEW good
    PROVE  /\ Has(q, good) => Has(Tail(q), good) \/ Head(q) = good
           /\ Has(Tail(q), good) => Has(q, good)
           /\ \A bad : Promised(q, bad, good) => Promised(Tail(q), bad, good)
           /\ Promised(q, Head(q), good) => Has(Tail(q), good)
<1>1. /\ Len(Tail(q)) = Len(q) - 1 /\ Len(q) \in Nat /\ Head(q) = q[1]
      /\ \A i \in 1 .. Len(Tail(q)) : Tail(q)[i] = q[i + 1]
  BY HeadTailProperties
<1>2. \A i \in 1 .. Len(q) : i # 1 =>
         i - 1 \in 1 .. Len(Tail(q)) /\ Tail(q)[i - 1] = q[i]
  BY TailReport
<1>3. \A i \in 1 .. Len(Tail(q)) : i + 1 \in 1 .. Len(q) /\ i + 1 # 1
  BY <1>1
<1>4. Has(q, good) => Has(Tail(q), good) \/ Head(q) = good
  BY <1>1, <1>2 DEF Has
<1>5. Has(Tail(q), good) => Has(q, good)
  BY <1>1, <1>3 DEF Has
<1>6. ASSUME NEW bad, Promised(q, bad, good) PROVE Promised(Tail(q), bad, good)
  <2>1. SUFFICES ASSUME NEW i \in 1 .. Len(Tail(q)), Tail(q)[i] = bad
                 PROVE  \E j \in 1 .. Len(Tail(q)) : i < j /\ Tail(q)[j] = good
    BY DEF Promised
  <2>2. PICK j \in 1 .. Len(q) : i + 1 < j /\ q[j] = good
    BY <1>1, <1>3, <1>6, <2>1 DEF Promised
  <2>3. j # 1 /\ i < j - 1
    BY <2>2
  <2> QED BY <1>2, <2>2, <2>3
<1>7. ASSUME Promised(q, Head(q), good) PROVE Has(Tail(q), good)
  <2>1. 1 \in 1 .. Len(q)
    BY <1>1, EmptySeq
  <2>2. PICK j \in 1 .. Len(q) : 1 < j /\ q[j] = good
    BY <1>1, <1>7, <2>1 DEF Promised
  <2>3. j # 1
    BY <2>2
  <2> QED BY <1>2, <2>2, <2>3 DEF Has
<1> QED BY <1>4, <1>5, <1>6, <1>7

(* A report of the truth settles it.                                        *)
LEMMA TruthReported ==
    ASSUME TypeOK, events' = Append(events, Truth') PROVE LinkInv'
<1>1. events \in Seq(Reports) /\ Truth' \in Reports /\ Untrue' # Truth'
  BY DEF TypeOK, Reports, Truth, Untrue
<1>2. Promised(events', Untrue', Truth') /\ Has(events', Truth')
  BY <1>1, HasAppended
<1> QED BY <1>2 DEF LinkInv

(* A report of a start settles nothing, nor does no report.                 *)
LEMMA NothingReported ==
    ASSUME TypeOK, LinkInv, radio' = "up" <=> radio = "up",
           events' = events \/ events' = Append(events, "START"),
           s_connected' = s_connected \/ (s_connected' = FALSE /\ radio' # "up")
    PROVE  LinkInv'
<1>1. events \in Seq(Reports) /\ "START" \in Reports /\ "START" # Untrue
  BY DEF TypeOK, Reports, Untrue
<1>2. Truth' = Truth /\ Untrue' = Untrue
  BY DEF Truth, Untrue
<1>3. Promised(events', Untrue, Truth) /\ (Has(events, Truth) => Has(events', Truth))
  <2>1. Promised(events, Untrue, Truth)
    BY DEF LinkInv
  <2>2. CASE events' = Append(events, "START")
    BY <1>1, <2>1, <2>2, HasAppended
  <2> QED BY <2>1, <2>2
<1>4. (s_connected' <=> radio' = "up") \/ Has(events', Truth')
  BY <1>2, <1>3 DEF LinkInv
<1> QED BY <1>2, <1>3, <1>4 DEF LinkInv

(* The handler of a report believes it.                                     *)
LEMMA ReportHandled ==
    ASSUME TypeOK, LinkInv, radio' = "up" <=> radio = "up",
           NEW r \in Reports, Handle(r),
           r = "GOT_IP" => s_connected' = TRUE,
           r = "DISCONNECTED" => s_connected' = FALSE,
           r = "START" => s_connected' = s_connected
    PROVE  LinkInv'
<1>1. /\ events \in Seq(Reports) /\ events # <<>>
      /\ events' = Tail(events) /\ Head(events) = r
  BY DEF TypeOK, Reports, Handle
<1>2. /\ Truth' = Truth /\ Untrue' = Untrue
      /\ r = Truth \/ r = Untrue \/ (r = "START" /\ r # Truth)
      /\ r = Truth => (s_connected' <=> radio' = "up")
  BY Zenon DEF Truth, Untrue, Reports
<1>3. Promised(events', Untrue, Truth)
  BY <1>1, HasLeft DEF LinkInv
<1>4. CASE r = Untrue
  BY <1>1, <1>2, <1>3, <1>4, HasLeft DEF LinkInv
<1>5. CASE r = Truth
  BY <1>2, <1>3, <1>5 DEF LinkInv
<1>6. CASE r = "START" /\ r # Truth
  <2>1. Has(events, Truth) => Has(events', Truth)
    BY <1>1, <1>6, HasLeft
  <2>2. (s_connected' <=> radio' = "up") \/ Has(events', Truth')
    BY <1>2, <1>6, <2>1 DEF LinkInv
  <2> QED BY <1>2, <1>3, <2>2 DEF LinkInv
<1> QED BY <1>2, <1>4, <1>5, <1>6

LEMMA RestartLinks == Restart => LinkInv'
BY DEF Restart, LinkInv, Promised, Has, Truth, Untrue

LEMMA LinkStep ==
    ASSUME StationInv, LinkInv, [Next]_vars PROVE LinkInv'
<1> USE DEF prefVars, flagVars, httpVars, radioVars
<1>1. TypeOK /\ StationSense
  BY DEF StationInv
<1>2. ASSUME UNCHANGED <<s_connected, radioVars>> PROVE LinkInv'
  BY <1>1, <1>2, NothingReported
<1>3. ASSUME NEW t \in Appliers, Leave(t) \/ Halt(t) PROVE LinkInv'
  <2>1. CASE Associated
    <3>1. radio' # "up" /\ events' = Append(events, "DISCONNECTED")
      BY <1>3, <2>1 DEF Leave, Halt, Drop
    <3> QED BY <1>1, <3>1, TruthReported DEF Truth
  <2>2. CASE ~Associated
    <3>1. radio # "up" /\ radio' # "up" /\ UNCHANGED <<s_connected, events>>
      BY <1>3, <2>2 DEF Leave, Halt, Drop, Associated
    <3> QED BY <1>1, <3>1, NothingReported
  <2> QED BY <2>1, <2>2
<1>4. ASSUME NEW t \in Appliers, ApplierStep(t) PROVE LinkInv'
  <2>1. CASE \/ Apply(t) \/ ClearSsid(t) \/ Join(t) \/ Started(t) \/ Done(t)
             \/ Stopped(t) \/ StopServer(t)
    BY <1>2, <2>1 DEF Apply, ClearSsid, Join, Started, Done, Stopped, StopServer
  <2>3. CASE ClearFlags(t)
    <3>1. radio = "off" /\ UNCHANGED radioVars /\ s_connected' = FALSE
      BY <1>1, <2>3 DEF ClearFlags, StationSense, At
    <3> QED BY <1>1, <3>1, NothingReported
  <2>4. CASE Start(t)
    <3>1. /\ radio' = "up" <=> radio = "up"
          /\ events' = events \/ events' = Append(events, "START")
          /\ s_connected' = s_connected
      BY <2>4 DEF Start
    <3> QED BY <1>1, <3>1, NothingReported
  <2> QED BY <1>3, <1>4, <2>1, <2>3, <2>4 DEF ApplierStep
<1>5. CASE EventStep
  <2>1. CASE OnStart
    <3>1. Handle("START") /\ s_connected' = s_connected /\ (radio' = "up" <=> radio = "up")
      BY <2>1 DEF OnStart, Connect
    <3> QED BY <1>1, <3>1, ReportHandled DEF Reports
  <2>2. CASE OnDisconnected
    <3>1. Handle("DISCONNECTED") /\ s_connected' = FALSE /\ radio' = radio
      BY <2>2 DEF OnDisconnected
    <3> QED BY <1>1, <3>1, ReportHandled DEF Reports
  <2>3. CASE OnGotIp
    <3>1. Handle("GOT_IP") /\ s_connected' = TRUE /\ radio' = radio
      BY <2>3 DEF OnGotIp
    <3> QED BY <1>1, <3>1, ReportHandled DEF Reports
  <2>4. CASE Retry
    <3>1. UNCHANGED <<s_connected, events>> /\ (radio' = "up" <=> radio = "up")
      BY <2>4 DEF Retry, Connect
    <3> QED BY <1>1, <3>1, NothingReported
  <2>5. CASE Serve \/ Serving \/ Stopped("event") \/ StopServer("event")
    BY <1>2, <2>5 DEF Serve, Serving, Stopped, StopServer
  <2> QED BY <1>5, <2>1, <2>2, <2>3, <2>4, <2>5 DEF EventStep
<1>6. CASE Associate
  <2>1. UNCHANGED <<s_connected, events>> /\ (radio' = "up" <=> radio = "up")
    BY <1>6 DEF Associate
  <2> QED BY <1>1, <2>1, NothingReported
<1>7. CASE Lease \/ Lose
  <2>1. events' = Append(events, Truth')
    BY <1>7 DEF Lease, Lose, Drop, Truth
  <2> QED BY <1>1, <2>1, TruthReported
<1>8. CASE PowerCycle
  BY <1>8, RestartLinks DEF PowerCycle
<1>10. ASSUME NEW t \in Tasks, StopAgain(t) PROVE LinkInv'
  BY <1>2, <1>10, RestartLinks DEF StopAgain
<1>9. CASE (\E h \in Hosts : SetNetwork(h)) \/ Request \/ Answer \/ UNCHANGED vars
  <2>1. UNCHANGED <<s_connected, radioVars>>
    BY <1>9 DEF SetNetwork, Request, Answer, vars
  <2> QED BY <1>2, <2>1
<1> QED BY <1>4, <1>5, <1>6, <1>7, <1>8, <1>9, <1>10 DEF Next

-----------------------------------------------------------------------------
(* The configuration.                                                       *)

(* What a step of the applier that is active has to keep.                   *)
LEMMA ApplierKeepsConfig ==
    ASSUME StationInv, NEW t \in Appliers, ~At(t, "idle"),
           \A u \in Tasks : u # t => task'[u] = task[u],
           Applies(t)',
           s_started' => s_stack_inited' /\ aim' = s_ssid',
           s_started' => radio' # "off" \/ task'[t].at = "flags",
           s_started' => Same(m_network)' \/ task'[t].at \in Changing
    PROVE  ConfigInv'
<1>1. \A u \in Appliers : u # t => task'[u].at = "idle"
  BY InTasks DEF StationInv, OneActive, At
<1>2. \A u \in Appliers : u # t => Applies(u)'
  BY <1>1 DEF Applies, Ending
<1>3. \A u \in Appliers : Applies(u)'
  BY <1>2
<1> QED BY <1>3 DEF ConfigInv

(* What any other step has to keep.                                         *)
LEMMA OthersKeepConfig ==
    ASSUME ConfigInv, \A t \in Appliers : task'[t] = task[t],
           UNCHANGED <<m_network, s_stack_inited, s_started, s_ssid, s_no_tls, aim>>,
           radio' = "off" <=> radio = "off"
    PROVE  ConfigInv'
<1>1. \A t \in Appliers : Applies(t)'
  BY DEF ConfigInv, Applies, Same
<1>2. Same(m_network) => Same(m_network)'
  BY DEF Same
<1> QED BY <1>1, <1>2 DEF ConfigInv

LEMMA CommandKeepsConfig ==
    ASSUME StationInv, ConfigInv, NEW t \in Appliers, NEW conf \in Conf,
           Merge(t, conf), \A u \in Appliers : At(u, "idle"),
           UNCHANGED <<flagVars, radioVars>>
    PROVE  ConfigInv'
<1> USE DEF flagVars, radioVars
<1>1. [at |-> "apply", then |-> "idle", want |-> conf] \in TaskState
  BY DEF TaskState, Places
<1>2. /\ task'[t] = [at |-> "apply", then |-> "idle", want |-> conf]
      /\ \A u \in Tasks : u # t => task'[u] = task[u]
  BY <1>1, PutType, InTasks DEF Merge, StationInv
<1>3. m_network' = conf /\ task'[t].at = "apply" /\ task'[t].want = conf
  BY <1>2 DEF Merge
<1>4. \A u \in Appliers : u # t => task'[u].at = "idle"
  BY <1>2, InTasks DEF At
<1>5. \A u \in Appliers : Applies(u)'
  BY <1>3, <1>4 DEF Applies, Ending
<1>6. s_started => radio # "off"
  BY DEF ConfigInv, At
<1> QED BY <1>3, <1>5, <1>6 DEF ConfigInv, Changing

LEMMA FreshConfig ==
    ASSUME s_started = FALSE, task = Booting(m_network), m_network \in Conf
    PROVE  ConfigInv
<1>1. \A t \in Tasks :
         /\ t # "main" => Booting(m_network)[t] = Idle
         /\ t = "main" => Booting(m_network)[t] =
                             [at |-> "apply", then |-> "idle", want |-> m_network]
  BY DEF Booting
<1>2. \A t \in Tasks : task[t].at = "idle" \/ (task[t].at = "apply" /\ task[t].want = m_network)
  BY <1>1 DEF Idle
<1>3. \A t \in Appliers : Applies(t)
  BY <1>2, InTasks DEF Applies, Ending
<1> QED BY <1>3 DEF ConfigInv

LEMMA RestartKeepsConfig == TypeOK /\ Restart => ConfigInv'
<1> SUFFICES ASSUME TypeOK, Restart PROVE ConfigInv'
  OBVIOUS
<1>1. /\ s_started' = FALSE /\ task' = Booting(stored) /\ m_network' = stored
      /\ stored \in Conf
  BY DEF Restart, TypeOK
<1>2. \A t \in Tasks :
         /\ t # "main" => Booting(stored)[t] = Idle
         /\ t = "main" => Booting(stored)[t] =
                             [at |-> "apply", then |-> "idle", want |-> stored]
  BY DEF Booting
<1>3. \A t \in Tasks : task'[t].at = "idle" \/ (task'[t].at = "apply" /\ task'[t].want = m_network')
  BY <1>1, <1>2 DEF Idle
<1>4. \A t \in Appliers : Applies(t)'
  BY <1>3, InTasks DEF Applies, Ending
<1> QED BY <1>1, <1>4 DEF ConfigInv

(* The steps of the tasks that apply a configuration.                       *)
LEMMA ApplierConfig ==
    ASSUME StationInv, ConfigInv, NEW t \in Appliers, ApplierStep(t)
    PROVE  ConfigInv'
<1> USE DEF prefVars, flagVars, httpVars, radioVars
<1>1. TypeOK /\ t \in Tasks
  BY InTasks DEF StationInv
<1>2. ~At(t, "idle")
  BY DEF ApplierStep, Apply, Leave, Halt, ClearFlags, ClearSsid, Join, Start,
         Started, Done, StopServer, Stopped, At
<1>3. \A u \in Appliers : u # t => task[u].at = "idle"
  BY <1>2 DEF OneActive, StationInv, At
<1>4. /\ Applies(t)
      /\ s_started => s_stack_inited /\ aim = s_ssid
      /\ s_started => radio # "off" \/ task[t].at = "flags"
      /\ s_started => Same(m_network) \/ task[t].at \in Changing
      /\ radio # "off" => s_started \/ task[t].at = "started"
      /\ task[t].at \in {"flags", "clear"} => radio = "off"
      /\ task[t].at \in {"stop", "stopping", "again"} => task[t].then = "leave"
  BY <1>3 DEF ConfigInv, StationInv, StationSense, OneActive, Changing, Ending, At
<1>5. ASSUME NEW place \in Places, Goto(t, place) \/ StopThen(t, place)
      PROVE  /\ Goto(t, place) => task'[t].at = place
             /\ StopThen(t, place) => task'[t].at = "stop"
             /\ task'[t].want = task[t].want
             /\ \A u \in Tasks : u # t => task'[u] = task[u]
  BY <1>1, <1>5, Moves
<1>6. CASE Apply(t)
  <2>1. /\ At(t, "apply") /\ task[t].want = m_network
        /\ UNCHANGED <<m_network, s_started, s_no_tls, aim, radio>>
    BY <1>4, <1>6 DEF Apply, At, Applies
  <2>2. CASE StopThen(t, "leave") /\ s_started /\ s_ssid' = s_ssid
             /\ s_stack_inited'
    <3>1. task'[t].at = "stop" /\ task'[t].want = task[t].want
          /\ \A u \in Tasks : u # t => task'[u] = task[u]
      BY <1>5, <2>2 DEF Places
    <3>2. Applies(t)'
      BY <2>1, <2>2, <3>1 DEF Applies, Ending
    <3> QED BY <1>2, <1>4, <2>1, <2>2, <3>1, <3>2, ApplierKeepsConfig
            DEF Changing, Ending, At
  <2>3. CASE Goto(t, "done") /\ (s_started => Same(m_network))
             /\ (s_started => s_ssid' = s_ssid /\ s_stack_inited' = s_stack_inited)
    <3>1. task'[t].at = "done" /\ task'[t].want = task[t].want
          /\ \A u \in Tasks : u # t => task'[u] = task[u]
      BY <1>5, <2>3 DEF Places
    <3>2. Applies(t)'
      BY <2>1, <2>3, <3>1 DEF Applies, Ending
    <3>3. s_started' => Same(m_network)'
      BY <2>1, <2>3 DEF Same
    <3> QED BY <1>2, <1>4, <2>1, <2>3, <3>1, <3>2, <3>3, ApplierKeepsConfig
            DEF At
  <2>4. CASE Goto(t, "join") /\ ~s_started /\ s_ssid' = s_ssid /\ s_stack_inited'
    <3>1. task'[t].at = "join" /\ task'[t].want = task[t].want
          /\ \A u \in Tasks : u # t => task'[u] = task[u]
      BY <1>5, <2>4 DEF Places
    <3>2. Applies(t)'
      BY <1>4, <2>1, <2>4, <3>1 DEF Applies, Ending, At
    <3> QED BY <1>2, <2>1, <2>4, <3>1, <3>2, ApplierKeepsConfig
  <2> QED BY <1>4, <1>6, <2>1, <2>2, <2>3, <2>4 DEF Apply
<1>7. ASSUME UNCHANGED <<m_network, flagVars, radioVars>>, task[t].at \in Ending,
             task'[t].at \in Ending, task'[t].want = task[t].want,
             \A u \in Tasks : u # t => task'[u] = task[u]
      PROVE  ConfigInv'
  <2>1. Applies(t)'
    BY <1>4, <1>7 DEF Applies, Ending
  <2> QED BY <1>2, <1>4, <1>7, <2>1, ApplierKeepsConfig DEF Changing, Ending
<1>8. CASE StopServer(t) \/ Stopped(t)
  <2>1. /\ task[t].at \in {"stop", "stopping"}
        /\ UNCHANGED <<m_network, flagVars, radioVars>>
        /\ Goto(t, "leave") \/ Goto(t, "stopping") \/ Goto(t, "again")
    BY <1>4, <1>8 DEF StopServer, Stopped, At
  <2>2. /\ task'[t].at \in {"leave", "stopping", "again"} /\ task'[t].want = task[t].want
        /\ \A u \in Tasks : u # t => task'[u] = task[u]
    BY <1>5, <2>1 DEF Places
  <2> QED BY <1>7, <2>1, <2>2 DEF Ending
<1>9. CASE Leave(t)
  <2>1. /\ task'[t].at = "halt" /\ task'[t].want = task[t].want
        /\ \A u \in Tasks : u # t => task'[u] = task[u]
    BY <1>5, <1>9 DEF Leave, Places
  <2>2. /\ At(t, "leave") /\ UNCHANGED <<m_network, flagVars, aim>>
        /\ radio' = (IF radio = "off" THEN "off" ELSE "idle")
    BY <1>9 DEF Leave, Drop
  <2>3. Applies(t)'
    BY <1>4, <2>1, <2>2 DEF Applies, Ending, At
  <2> QED BY <1>2, <1>4, <2>1, <2>2, <2>3, ApplierKeepsConfig DEF Changing, Ending, At
<1>10. CASE Halt(t)
  <2>1. /\ task'[t].at = "flags" /\ task'[t].want = task[t].want
        /\ \A u \in Tasks : u # t => task'[u] = task[u]
    BY <1>5, <1>10 DEF Halt, Places
  <2>2. /\ At(t, "halt") /\ UNCHANGED <<m_network, flagVars, aim>>
    BY <1>10 DEF Halt, Drop
  <2>3. Applies(t)'
    BY <1>4, <2>1, <2>2 DEF Applies, Ending, At
  <2> QED BY <1>2, <1>4, <2>1, <2>2, <2>3, ApplierKeepsConfig DEF Changing, Ending, At
<1>11. CASE ClearFlags(t)
  <2>1. PICK place \in {"clear", "join"} :
          Goto(t, place) /\ (place = "join" => task[t].want.ssid # NoNet)
    BY <1>11 DEF ClearFlags
  <2>2. /\ task'[t].at = place /\ task'[t].want = task[t].want
        /\ \A u \in Tasks : u # t => task'[u] = task[u]
    BY <1>5, <2>1 DEF Places
  <2>3. /\ At(t, "flags") /\ s_started' = FALSE
        /\ UNCHANGED <<m_network, s_stack_inited, radio>>
    BY <1>11 DEF ClearFlags
  <2>4. Applies(t)'
    BY <1>4, <2>2, <2>3 DEF Applies, Ending, At
  <2> QED BY <1>2, <2>2, <2>3, <2>4, ApplierKeepsConfig
<1>12. CASE ClearSsid(t)
  <2>1. /\ task'[t].at = "done" /\ task'[t].want = task[t].want
        /\ \A u \in Tasks : u # t => task'[u] = task[u]
    BY <1>5, <1>12 DEF ClearSsid, Places
  <2>2. At(t, "clear") /\ UNCHANGED <<m_network, s_started>> /\ ~s_started
    BY <1>4, <1>12 DEF ClearSsid, Applies, At
  <2>3. Applies(t)'
    BY <1>4, <2>1, <2>2 DEF Applies, Ending, At
  <2> QED BY <1>2, <2>1, <2>2, <2>3, ApplierKeepsConfig
<1>13. CASE Join(t)
  <2>1. /\ task'[t].at = "start" /\ task'[t].want = task[t].want
        /\ \A u \in Tasks : u # t => task'[u] = task[u]
    BY <1>5, <1>13 DEF Join, Places
  <2>2. /\ At(t, "join") /\ s_ssid' = task[t].want.ssid /\ s_no_tls' = task[t].want.noTls
        /\ UNCHANGED <<m_network, s_started, s_stack_inited, radio>> /\ ~s_started
        /\ task[t].want = m_network
    BY <1>4, <1>13 DEF Join, Applies, At
  <2>3. Same(m_network)'
    BY <2>2 DEF Same
  <2>4. Applies(t)'
    BY <1>4, <2>1, <2>2, <2>3 DEF Applies, Ending, At
  <2> QED BY <1>2, <2>1, <2>2, <2>4, ApplierKeepsConfig
<1>14. CASE Start(t)
  <2>1. /\ task'[t].at = "started" /\ task'[t].want = task[t].want
        /\ \A u \in Tasks : u # t => task'[u] = task[u]
    BY <1>5, <1>14 DEF Start, Places
  <2>2. /\ At(t, "start") /\ aim' = task[t].want.ssid /\ radio' # "off"
        /\ UNCHANGED <<m_network, flagVars>> /\ ~s_started
        /\ task[t].want = m_network /\ Same(m_network) /\ s_stack_inited
    BY <1>4, <1>14 DEF Start, Applies, At
  <2>3. Same(m_network)' /\ aim' = s_ssid'
    BY <2>2 DEF Same
  <2>4. Applies(t)'
    BY <2>1, <2>2, <2>3 DEF Applies, Ending
  <2> QED BY <1>2, <2>1, <2>2, <2>4, ApplierKeepsConfig
<1>15. CASE Started(t)
  <2>1. /\ task'[t].at = "done" /\ task'[t].want = task[t].want
        /\ \A u \in Tasks : u # t => task'[u] = task[u]
    BY <1>5, <1>15 DEF Started, Places
  <2>2. /\ At(t, "started")
        /\ UNCHANGED <<m_network, s_stack_inited, s_ssid, s_no_tls, aim, radio>>
        /\ task[t].want = m_network /\ Same(m_network) /\ s_stack_inited
        /\ radio # "off" /\ aim = s_ssid
    BY <1>4, <1>15 DEF Started, Applies, At
  <2>3. Same(m_network)'
    BY <2>2 DEF Same
  <2>4. Applies(t)'
    BY <2>1, <2>2 DEF Applies, Ending
  <2> QED BY <1>2, <2>1, <2>2, <2>3, <2>4, ApplierKeepsConfig
<1>16. CASE Done(t)
  <2>1. task'[t].at = "idle" /\ \A u \in Tasks : u # t => task'[u] = task[u]
    BY <1>1, <1>16, PutType, NoConfType DEF Done, Idle
  <2>2. At(t, "done") /\ UNCHANGED <<m_network, flagVars, radioVars>>
    BY <1>16 DEF Done
  <2>3. Applies(t)' /\ (Same(m_network) => Same(m_network)')
    BY <2>1, <2>2 DEF Applies, Ending, Same
  <2> QED BY <1>2, <1>4, <2>1, <2>2, <2>3, ApplierKeepsConfig DEF Changing, Ending, At
<1> QED BY <1>6, <1>8, <1>9, <1>10, <1>11, <1>12, <1>13, <1>14, <1>15, <1>16
        DEF ApplierStep

LEMMA EventOnly ==
    ASSUME TypeOK, EventStep
    PROVE  /\ \A t \in Appliers : task'[t] = task[t]
           /\ UNCHANGED <<m_network, s_stack_inited, s_started, s_ssid, s_no_tls, aim>>
           /\ radio' = radio \/ (radio = "idle" /\ radio' = "joining")
<1> USE DEF prefVars, flagVars, httpVars, radioVars
<1>1. "event" \in Tasks /\ task["event"].then \in Places
  BY InTasks DEF TypeOK, TaskState
<1>2. CASE \/ \E place \in Places : Goto("event", place) \/ StopThen("event", place)
           \/ \E me \in TaskState : task' = [task EXCEPT !["event"] = me]
           \/ UNCHANGED task
  <2>1. \A t \in Tasks : t # "event" => task'[t] = task[t]
    BY <1>1, <1>2, Moves, PutType
  <2>2. \A t \in Appliers : task'[t] = task[t]
    BY <2>1, InTasks
  <2> QED BY <2>2 DEF EventStep, OnStart, OnDisconnected, Retry, OnGotIp, Serve,
                      Serving, StopServer, Stopped, Connect
<1>3. CASE Retry \/ Serve \/ Serving
  <2>1. \E me : task' = [task EXCEPT !["event"] = me]
    BY <1>3 DEF Retry, Serve, Serving
  <2>2. \A t \in Appliers : task'[t] = task[t]
    BY <2>1, InTasks DEF TypeOK
  <2> QED BY <1>3, <2>2 DEF Retry, Serve, Serving, Connect
<1> QED BY <1>1, <1>2, <1>3 DEF EventStep, OnStart, OnDisconnected, OnGotIp,
                                StopServer, Stopped, Places

LEMMA ConfigStep ==
    ASSUME Overlap = FALSE, StationInv, ConfigInv, [Next]_vars PROVE ConfigInv'
<1> USE DEF prefVars, flagVars, httpVars, radioVars
<1>1. TypeOK
  BY DEF StationInv
<1>2. ASSUME UNCHANGED <<m_network, task, s_stack_inited, s_started, s_ssid, s_no_tls, aim>>,
             radio' = "off" <=> radio = "off"
      PROVE  ConfigInv'
  BY <1>2, OthersKeepConfig
<1>3. ASSUME NEW t \in Appliers, NEW conf \in Conf, Merge(t, conf), MayCommand(t),
             UNCHANGED <<flagVars, radioVars>>
      PROVE  ConfigInv'
  BY <1>3, CommandKeepsConfig DEF MayCommand
<1>4. ASSUME NEW h \in Hosts, SetNetwork(h) PROVE ConfigInv'
  BY <1>3, <1>4, InTasks DEF SetNetwork
<1>5. CASE Request
  <2>1. CASE UNCHANGED <<m_network, task>>
    BY <1>2, <1>5, <2>1 DEF Request
  <2>2. CASE MayCommand("httpd") /\ \E conf \in Conf : Merge("httpd", conf)
    BY <1>3, <1>5, <2>2, InTasks DEF Request
  <2> QED BY <1>1, <1>5, <2>1, <2>2 DEF Request, TypeOK
<1>6. CASE EventStep
  BY <1>1, <1>6, EventOnly, OthersKeepConfig
<1>8. ASSUME NEW t \in Tasks, StopAgain(t), ~Restart PROVE ConfigInv'
  <2>1. /\ UNCHANGED <<m_network, flagVars, radioVars>>
        /\ \A v \in Tasks :
              /\ task'[v].then = task[v].then /\ task'[v].want = task[v].want
              /\ \/ task'[v].at = task[v].at
                 \/ task[v].at \in InStop /\ task'[v].at \in InStop
    BY <1>1, <1>8, SwapType
  <2>2. Same(m_network) <=> Same(m_network)'
    BY <2>1 DEF Same
  <2>3. ASSUME NEW v \in Appliers PROVE Applies(v)'
    <3>1. Applies(v) /\ v \in Tasks
      BY InTasks DEF ConfigInv
    <3> QED BY <2>1, <2>2, <3>1 DEF Applies, Ending, InStop
  <2>4. \A v \in Appliers :
           /\ task[v].at = "flags" => task'[v].at = "flags"
           /\ task[v].at \in Changing => task'[v].at \in Changing
    BY <2>1, InTasks DEF Changing, Ending, InStop
  <2> QED BY <2>1, <2>2, <2>3, <2>4 DEF ConfigInv
<1>7. CASE Answer \/ Associate \/ Lease \/ Lose \/ UNCHANGED vars
  <2>1. /\ UNCHANGED <<m_network, task, s_stack_inited, s_started, s_ssid, s_no_tls, aim>>
        /\ radio' = "off" <=> radio = "off"
    BY <1>7 DEF Answer, Associate, Lease, Lose, Drop, Associated, vars
  <2> QED BY <1>2, <2>1
<1> QED BY <1>1, <1>4, <1>5, <1>6, <1>7, <1>8, ApplierConfig, RestartKeepsConfig
        DEF Next, PowerCycle

-----------------------------------------------------------------------------
(* The server.                                                              *)

(* What a step that does not end a session has to keep.                     *)
LEMMA ServedKept ==
    ASSUME ServedInv, Reached' => Reached,
           (\E t \in Appliers : task[t].at \in Ending) =>
              ~Reached' \/ \E t \in Appliers : task'[t].at \in Ending,
           Reached /\ Serves =>
              ~Reached' \/ Serves' \/ \E t \in Appliers : task'[t].at \in Ending
    PROVE  ServedInv'
BY DEF ServedInv

LEMMA SameServed ==
    ASSUME task' = task, s_server' = s_server, refused' = refused, s_no_tls' = s_no_tls
    PROVE  (Serves => Serves')
BY DEF Serves, At

(* The steps of the tasks that apply a configuration.                       *)
LEMMA ApplierServed ==
    ASSUME StationInv, ConfigInv, ServedInv, NEW t \in Appliers, ApplierStep(t)
    PROVE  ServedInv'
<1> USE DEF prefVars, flagVars, httpVars, radioVars
<1>1. TypeOK /\ t \in Tasks /\ "event" \in Tasks /\ t # "event"
  BY InTasks DEF StationInv
<1>2. ~At(t, "idle")
  BY DEF ApplierStep, Apply, Leave, Halt, ClearFlags, ClearSsid, Join, Start,
         Started, Done, StopServer, Stopped, At
<1>3. \A u \in Appliers : u # t => task[u].at = "idle"
  BY <1>2 DEF OneActive, StationInv, At
<1>4. (\E u \in Appliers : task[u].at \in Ending) => task[t].at \in Ending
  BY <1>3 DEF Ending
<1>5. ASSUME task[t].at \notin Ending, radio' = radio, events' = events,
             \A u \in Tasks : u # t => task'[u] = task[u],
             radio = "up" => s_no_tls' = s_no_tls, UNCHANGED httpVars
      PROVE  ServedInv'
  <2>1. Reached' <=> Reached
    BY <1>5 DEF Reached
  <2>2. Reached /\ Serves => Serves'
    BY <1>1, <1>5 DEF Reached, Serves, At
  <2> QED BY <1>4, <1>5, <2>1, <2>2, ServedKept
<1>6. ASSUME task'[t].at \in Ending PROVE ServedInv'
  BY <1>6 DEF ServedInv
<1>7. ASSUME radio' # "up" PROVE ServedInv'
  BY <1>7 DEF ServedInv, Reached
<1>8. ASSUME NEW place \in Places, Goto(t, place) \/ StopThen(t, place)
      PROVE  /\ Goto(t, place) => task'[t].at = place
             /\ StopThen(t, place) => task'[t].at = "stop"
             /\ \A u \in Tasks : u # t => task'[u] = task[u]
  BY <1>1, <1>8, Moves
<1>9. CASE Apply(t)
  <2>1. StopThen(t, "leave") \/ Goto(t, "done") \/ Goto(t, "join")
    BY <1>9 DEF Apply
  <2>2. \A u \in Tasks : u # t => task'[u] = task[u]
    BY <1>8, <2>1 DEF Places
  <2> QED BY <1>5, <1>9, <2>2 DEF Apply, At, Ending
<1>10. CASE StopServer(t) \/ Stopped(t)
  <2>1. Goto(t, "leave") \/ Goto(t, "stopping") \/ Goto(t, "again")
    BY <1>10 DEF StopServer, Stopped, StationInv, OneActive, At
  <2> QED BY <1>6, <1>8, <2>1 DEF Ending, Places
<1>11. CASE Leave(t)
  BY <1>6, <1>8, <1>11 DEF Leave, Ending, Places
<1>12. CASE Halt(t)
  BY <1>7, <1>12 DEF Halt, Drop
<1>13. CASE ClearFlags(t)
  BY <1>7, <1>13 DEF ClearFlags, StationInv, StationSense, At
<1>14. CASE ClearSsid(t)
  BY <1>7, <1>14 DEF ClearSsid, StationInv, StationSense, At
<1>15. CASE Join(t)
  BY <1>7, <1>15 DEF Join, ConfigInv, Applies, At
<1>16. CASE Start(t)
  BY <1>7, <1>16 DEF Start, ConfigInv, Applies, At
<1>17. CASE Started(t)
  <2>1. \A u \in Tasks : u # t => task'[u] = task[u]
    BY <1>8, <1>17 DEF Started, Places
  <2> QED BY <1>5, <1>17, <2>1 DEF Started, At, Ending
<1>18. CASE Done(t)
  <2>1. \A u \in Tasks : u # t => task'[u] = task[u]
    BY <1>1, <1>18, PutType, NoConfType DEF Done
  <2> QED BY <1>5, <1>18, <2>1 DEF Done, At, Ending
<1> QED BY <1>9, <1>10, <1>11, <1>12, <1>13, <1>14, <1>15, <1>16, <1>17, <1>18
        DEF ApplierStep

(* A report that is handled while a session is up is not of its end.        *)
LEMMA HandledReached ==
    ASSUME TypeOK, LinkInv, NEW r \in Reports, Handle(r), radio = "up"
    PROVE  /\ r = "START" => (Has(events, "GOT_IP") <=> Has(events', "GOT_IP"))
           /\ r = "DISCONNECTED" => Has(events', "GOT_IP")
<1>1. /\ events \in Seq(Reports) /\ events # <<>>
      /\ events' = Tail(events) /\ Head(events) = r
  BY DEF TypeOK, Reports, Handle
<1>2. Promised(events, "DISCONNECTED", "GOT_IP")
  BY DEF LinkInv, Truth, Untrue
<1> QED BY <1>1, <1>2, HasLeft

(* The steps of the event task.                                             *)
LEMMA EventServed ==
    ASSUME StationInv, LinkInv, ServedInv, EventStep PROVE ServedInv'
<1> USE DEF prefVars, flagVars, httpVars, radioVars
<1>1. TypeOK /\ "event" \in Tasks
  BY InTasks DEF StationInv
<1>3. /\ (\E t \in Appliers : task[t].at \in Ending) =>
            \E t \in Appliers : task'[t].at \in Ending
      /\ radio' = "up" <=> radio = "up"
      /\ s_no_tls' = s_no_tls
  BY <1>1, EventOnly
<1>4. ASSUME Reached' => Reached, Reached /\ Serves => ~Reached' \/ Serves'
      PROVE  ServedInv'
  BY <1>3, <1>4, ServedKept
<1>5. ASSUME OnStart PROVE ServedInv'
  <2>1. Reached' => Reached
    BY <1>1, <1>3, <1>5, HandledReached DEF OnStart, Reached, Reports
  <2>2. Serves => Serves'
    BY <1>5, SameServed DEF OnStart
  <2> QED BY <1>4, <1>5, <2>1, <2>2
<1>6. ASSUME OnDisconnected PROVE ServedInv'
  <2>1. ~Reached'
    BY <1>1, <1>3, <1>6, HandledReached DEF OnDisconnected, Reached, Reports
  <2> QED BY <2>1 DEF ServedInv
<1>7. ASSUME OnGotIp PROVE ServedInv'
  <2>1. Goto("event", "serve")
    BY <1>7 DEF OnGotIp
  <2>2. task'["event"].at = "serve"
    BY <1>1, <2>1, Moves DEF Places
  <2> QED BY <2>2 DEF ServedInv, Serves, At
<1>8. ASSUME Retry PROVE ServedInv'
  <2>1. (Reached' => Reached) /\ ~Serves
    BY <1>3, <1>8 DEF Retry, Reached, Serves, At, InStop
  <2> QED BY <1>4, <1>8, <2>1
<1>9. ASSUME Serve PROVE ServedInv'
  <2>1. /\ task'["event"].at \in {"serving", "stop"}
        /\ task'["event"].then = "serving"
        /\ task'["event"].want.noTls = s_no_tls /\ s_no_tls' = s_no_tls
    BY <1>1, <1>9 DEF Serve, TypeOK, NoConf
  <2> QED BY <2>1 DEF ServedInv, Serves, At
<1>10. ASSUME Serving PROVE ServedInv'
  <2>1. /\ Reached' => Reached
        /\ At("event", "serving") /\ task'["event"].at = "idle"
    BY <1>1, <1>3, <1>10 DEF Serving, Reached, TypeOK, Idle
  <2>2. Serves => task["event"].want.noTls = s_no_tls
    BY <2>1 DEF Serves, At
  <2>3. s_server' = Mode(task["event"].want.noTls) \/ refused'
    BY <1>10 DEF Serving
  <2>4. Serves => s_server' = Mode(s_no_tls) \/ refused'
    BY <2>2, <2>3
  <2>5. Serves => Serves'
    <3>1. \A mode : mode = Mode(s_no_tls) => (mode = Mode(s_no_tls))'
      BY <1>3, <1>10 DEF Mode
    <3> QED BY <2>1, <2>4, <3>1 DEF Serves, At
  <2> QED BY <1>4, <1>10, <2>1, <2>5
<1>11. ASSUME StopServer("event") \/ Stopped("event") PROVE ServedInv'
  <2>1. /\ task["event"].at \in {"stop", "stopping"} /\ UNCHANGED <<events, s_no_tls>>
        /\ \E place \in {task["event"].then} \cup InStop : Goto("event", place)
    BY <1>11 DEF StopServer, Stopped, At, InStop
  <2>2. task["event"].then \in Places
    BY <1>1 DEF TypeOK, TaskState
  <2>3. /\ task'["event"].at \in {task["event"].then} \cup InStop
        /\ task'["event"].then = task["event"].then
        /\ task'["event"].want = task["event"].want
    BY <1>1, <2>1, <2>2, Moves DEF Places, InStop
  <2>4. Serves => Serves'
    BY <2>1, <2>3 DEF Serves, At, InStop
  <2>5. Reached' => Reached
    BY <1>3, <1>11, <2>1 DEF Reached
  <2> QED BY <1>4, <1>11, <2>4, <2>5
<1> QED BY <1>5, <1>6, <1>7, <1>8, <1>9, <1>10, <1>11 DEF EventStep

LEMMA AgainServed ==
    ASSUME StationInv, ServedInv, NEW t \in Tasks, StopAgain(t) PROVE ServedInv'
<1> USE DEF prefVars, flagVars, httpVars, radioVars
<1>1. CASE Restart
  BY <1>1 DEF Restart, ServedInv, Reached
<1>2. CASE ~Restart
  <2>1. /\ UNCHANGED <<flagVars, httpVars, radioVars>>
        /\ \A v \in Tasks :
              /\ task'[v].then = task[v].then /\ task'[v].want = task[v].want
              /\ \/ task'[v].at = task[v].at
                 \/ task[v].at \in InStop /\ task'[v].at \in InStop
    BY <1>2, SwapType DEF StationInv
  <2>2. Reached' <=> Reached
    BY <2>1 DEF Reached
  <2>3. \A v \in Appliers : task[v].at \in Ending => task'[v].at \in Ending
    BY <2>1, InTasks DEF Ending, InStop
  <2>4. Serves => Serves'
    BY <2>1, InTasks DEF Serves, At, InStop
  <2> QED BY <2>2, <2>3, <2>4, ServedKept
<1> QED BY <1>1, <1>2

LEMMA ServedStep ==
    ASSUME Overlap = FALSE, SettledInv, [Next]_vars PROVE ServedInv'
<1> USE DEF prefVars, flagVars, httpVars, radioVars
<1>1. TypeOK /\ StationInv /\ LinkInv /\ ConfigInv /\ ServedInv /\ "event" \in Tasks
  BY InTasks DEF SettledInv, StationInv
<1>2. ASSUME NEW t \in Appliers, NEW conf \in Conf, Merge(t, conf), MayCommand(t),
             UNCHANGED <<flagVars, s_server, refused, radioVars>>
      PROVE  ServedInv'
  <2>1. [at |-> "apply", then |-> "idle", want |-> conf] \in TaskState
    BY DEF TaskState, Places
  <2>2. task'["event"] = task["event"]
    BY <1>1, <1>2, <2>1, PutType, InTasks DEF Merge
  <2>3. Serves => Serves'
    BY <1>2, <2>2 DEF Serves, At
  <2>4. \A u \in Appliers : task[u].at \notin Ending
    BY <1>2 DEF MayCommand, At, Ending
  <2> QED BY <1>1, <1>2, <2>3, <2>4, ServedKept DEF Reached
<1>3. ASSUME UNCHANGED <<task, s_server, refused, s_no_tls>>,
             Reached' => Reached
      PROVE  ServedInv'
  BY <1>1, <1>3, SameServed, ServedKept
<1>4. ASSUME NEW h \in Hosts, SetNetwork(h) PROVE ServedInv'
  BY <1>2, <1>4, InTasks DEF SetNetwork
<1>5. CASE Request
  <2>1. CASE UNCHANGED <<m_network, task>>
    BY <1>3, <1>5, <2>1 DEF Request, Reached
  <2>2. CASE MayCommand("httpd") /\ \E conf \in Conf : Merge("httpd", conf)
    BY <1>2, <1>5, <2>2, InTasks DEF Request
  <2> QED BY <1>1, <1>5, <2>1, <2>2 DEF Request, TypeOK
<1>6. CASE Answer \/ Associate \/ UNCHANGED vars
  BY <1>3, <1>6 DEF Answer, Associate, vars, Reached
<1>7. CASE Lose
  BY <1>7 DEF Lose, Drop, ServedInv, Reached
<1>8. CASE Lease
  <2>1. Has(events', "GOT_IP")
    BY <1>1, <1>8, HasAppended DEF Lease, TypeOK, Reports
  <2> QED BY <2>1 DEF ServedInv, Reached
<1>9. CASE PowerCycle
  BY <1>9 DEF PowerCycle, Restart, ServedInv, Reached
<1> QED BY <1>1, <1>4, <1>5, <1>6, <1>7, <1>8, <1>9, ApplierServed, EventServed,
     AgainServed
        DEF Next

-----------------------------------------------------------------------------
LEMMA SettledInit == Init => SettledInv
<1> SUFFICES ASSUME Init PROVE SettledInv
  OBVIOUS
<1>1. ConfigInv
  BY NoConfType, FreshConfig DEF Init
<1>2. LinkInv /\ ServedInv
  BY DEF Init, LinkInv, Promised, Has, Truth, Untrue, ServedInv, Reached
<1> QED BY <1>1, <1>2, StationInit DEF SettledInv

LEMMA SettledStep ==
    ASSUME Overlap = FALSE PROVE SettledInv /\ [Next]_vars => SettledInv'
BY StationStep, LinkStep, ConfigStep, ServedStep DEF SettledInv

LEMMA Settled == SettledInv => SettlesAsConfigured
<1> SUFFICES ASSUME SettledInv, Quiet PROVE FlagsAreTrue /\ ServesAsConfigured
  BY DEF SettlesAsConfigured, FlagsAreTrue, ServesAsConfigured
<1>1. /\ \A r : ~Has(events, r)
      /\ \A t \in Appliers : task[t].at = "idle"
      /\ task["event"].at = "idle"
  BY InTasks DEF Quiet, Has, At
<1>2. s_connected <=> radio = "up"
  BY <1>1 DEF SettledInv, LinkInv
<1>3. s_started <=> radio # "off"
  BY <1>1 DEF SettledInv, ConfigInv, StationInv, StationSense, At
<1>4. ASSUME s_connected
      PROVE  aim = m_network.ssid /\ (s_server = Mode(m_network.noTls) \/ refused)
  <2>1. s_started /\ Reached
    BY <1>1, <1>2, <1>3, <1>4 DEF Reached
  <2>2. aim = s_ssid /\ Same(m_network)
    BY <1>1, <2>1 DEF SettledInv, ConfigInv, Changing, Ending
  <2>3. s_server = Mode(s_no_tls) \/ refused
    BY <1>1, <2>1 DEF SettledInv, ServedInv, Serves, Ending, At, InStop
  <2> QED BY <2>2, <2>3 DEF Same
<1> QED BY <1>2, <1>3, <1>4 DEF FlagsAreTrue, ServesAsConfigured

(* While one configuration at a time is applied, once every report is       *)
(* handled the flags are true, and a session is one with the configured     *)
(* network, served in the configured mode: whatever networks, cables and    *)
(* certificate, however many reports were late.                             *)
THEOREM SettlesRight ==
    ASSUME Overlap = FALSE PROVE Spec => []SettlesAsConfigured
BY SettledInit, SettledStep, Settled, PTL DEF Spec
=============================================================================
