------------------------------ MODULE Network ------------------------------
(***************************************************************************)
(* The WiFi session and the HTTP command API.                              *)
(*                                                                         *)
(*   app_main, dispatchers, HTTP server --network_apply--> radio           *)
(*       ^                      |                            | events      *)
(*       |                 stop_servers                      v             *)
(*   commands <------------ HTTP server <--start, stop-- event task        *)
(*                                                                         *)
(* Whoever applies a configuration and the event task share s_connected,   *)
(* s_ssid and s_server without a lock.  Stopping the server waits until    *)
(* its task has left the handler it is in.  mDNS comes and goes with the   *)
(* server; the key and the host name are parts of a configuration that     *)
(* s_no_tls stands for.                                                    *)
(***************************************************************************)
EXTENDS Naturals, Sequences

CONSTANTS
    Hosts,       \* dispatcher tasks of cables
    Nets,        \* SSIDs
    NoNet,       \* the empty SSID
    Provisioned, \* is the certificate set on the device?
    OverHttp,    \* is the network changed over the network, too?
    Overlap,     \* are configurations applied while others are?
    MaxEvents    \* bound: events waiting while the environment adds one

ASSUME NetworkAssumption ==
    /\ NoNet \notin Nets
    /\ Provisioned \in BOOLEAN /\ OverHttp \in BOOLEAN
    /\ Overlap \in BOOLEAN
    /\ MaxEvents \in Nat
    /\ Hosts \cap {"main", "httpd", "event"} = {}

VARIABLES
    m_network,      \* Prefs::m_network
    stored,         \* the network part of prefs/prefs.pb
    s_stack_inited,
    s_started,
    s_connected,
    s_ssid,
    s_no_tls,       \* with s_psk and s_hostname
    s_server,       \* s_server and s_is_https
    refused,        \* history: the last start of the server failed
    busy,           \* is the server's task in command_post_handler?
    task,           \* where each task is
    radio,          \* the WiFi driver: external
    aim,            \* the SSID of esp_wifi_set_config
    events          \* the default event loop's queue

prefVars == <<m_network, stored>>
flagVars == <<s_stack_inited, s_started, s_connected, s_ssid, s_no_tls>>
httpVars == <<s_server, refused, busy>>
radioVars == <<radio, aim, events>>
vars == <<prefVars, flagVars, httpVars, task, radioVars>>

Ssid == Nets \cup {NoNet}
Conf == [ssid : Ssid, noTls : BOOLEAN]
NoConf == [ssid |-> NoNet, noTls |-> FALSE]

Appliers == Hosts \cup {"main", "httpd"}
Tasks == Appliers \cup {"event"}
Places == {"idle", "apply", "stop", "stopping", "again", "leave", "halt",
           "flags", "clear", "join", "start", "started", "done", "serve", "serving",
           "retry"}

(* A task: where it is, where http_api_stop returns to, and its locals (the *)
(* configuration it applies; the event task's mtls).                        *)
TaskState == [at : Places, then : Places, want : Conf]
Idle == [at |-> "idle", then |-> "idle", want |-> NoConf]

TypeOK ==
    /\ m_network \in Conf /\ stored \in Conf
    /\ s_stack_inited \in BOOLEAN /\ s_started \in BOOLEAN
    /\ s_connected \in BOOLEAN
    /\ s_ssid \in Ssid /\ s_no_tls \in BOOLEAN
    /\ s_server \in {"none", "http", "https"}
    /\ refused \in BOOLEAN /\ busy \in BOOLEAN
    /\ task \in [Tasks -> TaskState]
    /\ radio \in {"off", "idle", "joining", "joined", "up"}
    /\ aim \in Ssid
    /\ events \in Seq({"START", "DISCONNECTED", "GOT_IP"})

(* app_main: the last thing it does is to apply what is stored.             *)
Booting(conf) ==
    [t \in Tasks |-> IF t = "main"
                     THEN [at |-> "apply", then |-> "idle", want |-> conf]
                     ELSE Idle]

Init ==
    /\ m_network = NoConf /\ stored = NoConf
    /\ s_stack_inited = FALSE /\ s_started = FALSE /\ s_connected = FALSE
    /\ s_ssid = NoNet /\ s_no_tls = FALSE
    /\ s_server = "none" /\ refused = FALSE /\ busy = FALSE
    /\ task = Booting(NoConf)
    /\ radio = "off" /\ aim = NoNet /\ events = <<>>

(* A power cycle, or a crash: everything but flash starts again.            *)
Restart ==
    /\ m_network' = stored
    /\ s_stack_inited' = FALSE /\ s_started' = FALSE /\ s_connected' = FALSE
    /\ s_ssid' = NoNet /\ s_no_tls' = FALSE
    /\ s_server' = "none" /\ refused' = FALSE /\ busy' = FALSE
    /\ task' = Booting(stored)
    /\ radio' = "off" /\ aim' = NoNet /\ events' = <<>>
    /\ UNCHANGED stored

-----------------------------------------------------------------------------
(* What tasks do.                                                           *)

At(t, place) == task[t].at = place
Goto(t, place) == task' = [task EXCEPT ![t].at = place]
StopThen(t, place) ==
    task' = [task EXCEPT ![t] =
               [at |-> "stop", then |-> place, want |-> @.want]]

(* A SetPreferences with a network: the fields that are set, any of them,   *)
(* are merged into m_network, and network_apply copies the whole, conf.     *)
Merge(t, conf) ==
    /\ m_network' = conf
    /\ task' = [task EXCEPT ![t] =
                  [at |-> "apply", then |-> "idle", want |-> conf]]

MayCommand(t) ==
    /\ At(t, "idle")
    /\ Overlap \/ \A u \in Appliers : At(u, "idle")
    /\ Len(events) < MaxEvents

SetNetwork(h) ==
    /\ MayCommand(h)
    /\ \E conf \in Conf : Merge(h, conf)
    /\ UNCHANGED <<stored, flagVars, httpVars, radioVars>>

(* A command over HTTP, which may be a SetPreferences as well.              *)
Request ==
    /\ s_server # "none" /\ ~busy /\ radio = "up"
    /\ \A t \in Tasks : ~At(t, "stopping")
    /\ busy' = TRUE
    /\ \/ UNCHANGED <<m_network, task>>
       \/ /\ MayCommand("httpd")
          /\ \E conf \in IF OverHttp THEN Conf ELSE {m_network} :
                Merge("httpd", conf)
    /\ UNCHANGED <<stored, flagVars, s_server, refused, radioVars>>

(* Mutant: dispatchers exclude one another, so that the command of the      *)
(* server's task waits for one that waits for that task.                    *)
AnswerLocked ==
    /\ busy /\ At("httpd", "idle")
    /\ \A h \in Hosts : At(h, "idle")
    /\ busy' = FALSE
    /\ UNCHANGED <<prefVars, flagVars, s_server, refused, task, radioVars>>

Answer ==
    /\ busy /\ At("httpd", "idle")
    /\ busy' = FALSE
    /\ UNCHANGED <<prefVars, flagVars, s_server, refused, task, radioVars>>

(* Mutant: only the SSID is compared.                                       *)
SameSsid(conf) == conf.ssid = s_ssid

Same(conf) == conf.ssid = s_ssid /\ conf.noTls = s_no_tls

(* network_apply, up to the first call that takes time.                     *)
Apply(t) ==
    LET conf == task[t].want IN
    /\ At(t, "apply")
    /\ \/ /\ conf.ssid = NoNet /\ s_started
          /\ StopThen(t, "leave")
          /\ UNCHANGED <<s_ssid, s_stack_inited>>
       \/ /\ conf.ssid = NoNet /\ ~s_started
          /\ s_ssid' = NoNet
          /\ Goto(t, "done")
          /\ UNCHANGED s_stack_inited
       \/ /\ conf.ssid # NoNet /\ s_started /\ Same(conf)
          /\ Goto(t, "done")
          /\ UNCHANGED <<s_ssid, s_stack_inited>>
       \/ /\ conf.ssid # NoNet /\ ~(s_started /\ Same(conf))
          /\ s_stack_inited' = TRUE
          /\ IF s_started THEN StopThen(t, "leave") ELSE Goto(t, "join")
          /\ UNCHANGED s_ssid
       \/ /\ conf.ssid # NoNet /\ ~s_stack_inited   \* ensure_stack fails
          /\ Goto(t, "done")
          /\ UNCHANGED <<s_ssid, s_stack_inited>>
    /\ UNCHANGED <<prefVars, s_started, s_connected, s_no_tls, httpVars,
                   radioVars>>

(* http_api_stop.  A task that finds the server being stopped by another    *)
(* calls httpd_stop all the same.                                           *)
StopServer(t) ==
    /\ At(t, "stop")
    /\ \/ /\ s_server = "none"
          /\ Goto(t, task[t].then)
       \/ /\ s_server # "none"
          /\ Goto(t, IF \E u \in Tasks : At(u, "stopping")
                     THEN "again" ELSE "stopping")
    /\ UNCHANGED <<prefVars, flagVars, httpVars, radioVars>>

(* Two tasks in httpd_stop poll one server, and the one that sees it end    *)
(* first frees it.  The other reads and frees memory that is free, or that  *)
(* is another server by now: it may wait for ever, or the heap check        *)
(* restarts the device.                                                     *)
StopAgain(t) ==
    /\ At(t, "again")
    /\ \/ Restart
       \/ /\ \E u \in Tasks :
                /\ At(u, "stopping")
                /\ task' = [task EXCEPT ![t].at = "stopping", ![u].at = "again"]
          /\ UNCHANGED <<prefVars, flagVars, httpVars, radioVars>>

(* httpd_stop returns when the server's task has ended.                     *)
Stopped(t) ==
    /\ At(t, "stopping")
    /\ ~busy
    /\ s_server' = "none"
    /\ Goto(t, task[t].then)
    /\ UNCHANGED <<prefVars, flagVars, refused, busy, radioVars>>

Associated == radio \in {"joining", "joined", "up"}

(* esp_wifi_disconnect, esp_wifi_stop: a session that ends is reported.     *)
Drop(next) ==
    /\ radio' = next
    /\ events' = IF Associated THEN Append(events, "DISCONNECTED") ELSE events
    /\ UNCHANGED aim

Leave(t) ==
    /\ At(t, "leave")
    /\ Drop(IF radio = "off" THEN "off" ELSE "idle")
    /\ Goto(t, "halt")
    /\ UNCHANGED <<prefVars, flagVars, httpVars>>

Halt(t) ==
    /\ At(t, "halt")
    /\ Drop("off")
    /\ Goto(t, "flags")
    /\ UNCHANGED <<prefVars, flagVars, httpVars>>

ClearFlags(t) ==
    /\ At(t, "flags")
    /\ s_started' = FALSE /\ s_connected' = FALSE
    /\ Goto(t, IF task[t].want.ssid = NoNet THEN "clear" ELSE "join")
    /\ UNCHANGED <<prefVars, s_stack_inited, s_ssid, s_no_tls, httpVars,
                   radioVars>>

ClearSsid(t) ==
    /\ At(t, "clear")
    /\ s_ssid' = NoNet
    /\ Goto(t, "done")
    /\ UNCHANGED <<prefVars, s_stack_inited, s_started, s_connected, s_no_tls,
                   httpVars, radioVars>>

Join(t) ==
    /\ At(t, "join")
    /\ s_ssid' = task[t].want.ssid
    /\ s_no_tls' = task[t].want.noTls
    /\ Goto(t, "start")
    /\ UNCHANGED <<prefVars, s_stack_inited, s_started, s_connected, httpVars,
                   radioVars>>

Start(t) ==
    /\ At(t, "start")
    /\ aim' = task[t].want.ssid
    /\ \/ /\ radio = "off"
          /\ radio' = "idle"
          /\ events' = Append(events, "START")
       \/ radio # "off" /\ UNCHANGED <<radio, events>>
    /\ Goto(t, "started")
    /\ UNCHANGED <<prefVars, flagVars, httpVars>>

Started(t) ==
    /\ At(t, "started")
    /\ s_started' = TRUE
    /\ Goto(t, "done")
    /\ UNCHANGED <<prefVars, s_stack_inited, s_connected, s_ssid, s_no_tls,
                   httpVars, radioVars>>

(* The end of apply_partial, which saves if it can, or of app_main.         *)
Done(t) ==
    /\ At(t, "done")
    /\ stored' \in IF t = "main" THEN {stored} ELSE {stored, m_network}
    /\ task' = [task EXCEPT ![t] = Idle]
    /\ UNCHANGED <<m_network, flagVars, httpVars, radioVars>>

-----------------------------------------------------------------------------
(* The event task.                                                          *)

(* esp_wifi_connect                                                         *)
Connect == radio' = IF radio = "idle" THEN "joining" ELSE radio

Handle(event) ==
    /\ At("event", "idle")
    /\ events # <<>> /\ Head(events) = event
    /\ events' = Tail(events)

OnStart ==
    /\ Handle("START")
    /\ Connect
    /\ UNCHANGED <<prefVars, flagVars, httpVars, task, aim>>

(* Mutant: only the loss of a session is retried, not a failed attempt.     *)
OnDisconnectedOnce ==
    /\ Handle("DISCONNECTED")
    /\ \/ s_connected /\ StopThen("event", "retry")
       \/ ~s_connected /\ UNCHANGED task
    /\ s_connected' = FALSE
    /\ UNCHANGED <<prefVars, s_stack_inited, s_started, s_ssid, s_no_tls,
                   httpVars, radio, aim>>

OnDisconnected ==
    /\ Handle("DISCONNECTED")
    /\ \/ s_connected /\ StopThen("event", "retry")
       \/ ~s_connected /\ Goto("event", "retry")
    /\ s_connected' = FALSE
    /\ UNCHANGED <<prefVars, s_stack_inited, s_started, s_ssid, s_no_tls,
                   httpVars, radio, aim>>

Retry ==
    /\ At("event", "retry")
    /\ IF s_ssid = NoNet THEN UNCHANGED radio ELSE Connect
    /\ task' = [task EXCEPT !["event"] = Idle]
    /\ UNCHANGED <<prefVars, flagVars, httpVars, aim, events>>

OnGotIp ==
    /\ Handle("GOT_IP")
    /\ s_connected' = TRUE
    /\ Goto("event", "serve")
    /\ UNCHANGED <<prefVars, s_stack_inited, s_started, s_ssid, s_no_tls,
                   httpVars, radio, aim>>

(* Mutant: the mode is kept in the wrong local.                             *)
ServeBare ==
    /\ At("event", "serve")
    /\ task' = [task EXCEPT !["event"] =
                  [at |-> IF s_server = "none" THEN "serving" ELSE "stop",
                   then |-> "serving",
                   want |-> [NoConf EXCEPT !.ssid = s_no_tls]]]
    /\ UNCHANGED <<prefVars, flagVars, httpVars, radioVars>>

(* start_servers: the mode is chosen, and a server that runs is stopped.    *)
Serve ==
    /\ At("event", "serve")
    /\ task' = [task EXCEPT !["event"] =
                  [at |-> IF s_server = "none" THEN "serving" ELSE "stop",
                   then |-> "serving",
                   want |-> [NoConf EXCEPT !.noTls = s_no_tls]]]
    /\ UNCHANGED <<prefVars, flagVars, httpVars, radioVars>>

Mode(noTls) == IF Provisioned /\ ~noTls THEN "https" ELSE "http"

Serving ==
    /\ At("event", "serving")
    /\ \/ s_server' = Mode(task["event"].want.noTls) /\ refused' = FALSE
       \/ s_server' = "none" /\ refused' = TRUE    \* httpd_start fails
    /\ task' = [task EXCEPT !["event"] = Idle]
    /\ UNCHANGED <<prefVars, flagVars, busy, radioVars>>

-----------------------------------------------------------------------------
(* The air, and the power.                                                  *)

Associate ==
    /\ radio = "joining"
    /\ radio' = "joined"
    /\ UNCHANGED <<prefVars, flagVars, httpVars, task, aim, events>>

Lease ==
    /\ radio = "joined"
    /\ radio' = "up"
    /\ events' = Append(events, "GOT_IP")
    /\ UNCHANGED <<prefVars, flagVars, httpVars, task, aim>>

(* The access point refuses, or is lost.                                    *)
Lose ==
    /\ Associated
    /\ Len(events) < MaxEvents
    /\ Drop("idle")
    /\ UNCHANGED <<prefVars, flagVars, httpVars, task>>

PowerCycle == Restart

ApplierStep(t) ==
    \/ Apply(t) \/ Leave(t) \/ Halt(t) \/ ClearFlags(t) \/ ClearSsid(t)
    \/ Join(t) \/ Start(t) \/ Started(t) \/ Done(t)
    \/ StopServer(t) \/ Stopped(t)

EventStep ==
    \/ OnStart \/ OnDisconnected \/ Retry \/ OnGotIp \/ Serve \/ Serving
    \/ StopServer("event") \/ Stopped("event")

Next ==
    \/ \E h \in Hosts : SetNetwork(h)
    \/ Request \/ Answer
    \/ \E t \in Appliers : ApplierStep(t)
    \/ EventStep
    \/ \E t \in Tasks : StopAgain(t)
    \/ Associate \/ Lease \/ Lose \/ PowerCycle

Spec == Init /\ [][Next]_vars

(* Tasks run; a handler returns; an access point that is asked again and    *)
(* again answers.  Nobody has to send a command, and nothing brings a task  *)
(* out of a server that was freed.                                          *)
FairSpec ==
    /\ Spec
    /\ \A t \in Appliers : WF_vars(ApplierStep(t))
    /\ WF_vars(EventStep)
    /\ WF_vars(Answer)
    /\ SF_vars(Associate) /\ SF_vars(Lease)

-----------------------------------------------------------------------------
(* Properties.                                                              *)

Quiet == events = <<>> /\ \A t \in Tasks : At(t, "idle")

(* Once every event is handled, s_started and s_connected say whether there *)
(* is a station and a session, though a session that came up or went down   *)
(* while a configuration was being applied reports it to flags that the new *)
(* one has set meanwhile.                                                   *)
FlagsAreTrue ==
    Quiet => /\ s_connected <=> radio = "up"
             /\ s_started <=> radio # "off"

(* Once every event is handled, a session that is up is one with the        *)
(* configured network, and has a server in the configured mode, unless it   *)
(* could not be started: no late report of a former session stops the       *)
(* server or leaves that one's mode, and no change goes unnoticed as "the   *)
(* same".                                                                   *)
ServesAsConfigured ==
    Quiet /\ s_connected =>
        /\ aim = m_network.ssid
        /\ s_server = Mode(m_network.noTls) \/ refused

(* What all the reports and configurations settle in, in any order.         *)
SettlesAsConfigured == FlagsAreTrue /\ ServesAsConfigured

(* A started station that is not joining has a report in the queue, or in   *)
(* hand, that will make it try, or is about to be stopped: no order of a    *)
(* loss, a start and a report of a former session leaves it idle for ever   *)
(* ("Keep retrying while a network is configured"), unless the event task   *)
(* stops a server that another task is stopping.                            *)
NeverStranded ==
    radio = "idle" =>
        \/ \E i \in 1 .. Len(events) : events[i] \in {"START", "DISCONNECTED"}
        \/ At("event", "retry")
        \/ At("event", "stop") /\ task["event"].then = "retry"
        \/ At("event", "stopping") /\ task["event"].then = "retry"
        \/ At("event", "again") /\ task["event"].then = "retry"
        \/ \E t \in Appliers : At(t, "halt")

(* A task is in httpd_stop of a server that another task stops or stopped:  *)
(* it, and the device with it, may come to any end.                         *)
StoppedTwice == \E t \in Tasks : At(t, "again")

(* A configured network is served again after any losses, however often,    *)
(* unless somebody changes the configuration, the device restarts or a      *)
(* server is stopped twice.                                                 *)
ComesUp ==
    s_started ~> \/ s_server # "none" \/ refused \/ StoppedTwice
                 \/ \E t \in Appliers : ~At(t, "idle")

(* Whoever applies a configuration comes to the end of apply_partial, where *)
(* the command is answered, unless the power goes or a server is stopped    *)
(* twice.                                                                   *)
ApplyEnds ==
    \A t \in Hosts \cup {"httpd"} :
        At(t, "apply") ~> At(t, "idle") \/ StoppedTwice

(* Neither the station nor a configuration waits for ever for the other's   *)
(* tasks, as long as each server is stopped by one task.                    *)
NothingHangs == ComesUp /\ ApplyEnds

(* A cleared SSID stops the servers: main/net/network.h:10-11.              *)
ClearedStops == Quiet /\ m_network.ssid = NoNet => s_server = "none"

(* Nobody stops a server that another task is stopping.                     *)
StoppedOnce ==
    \A t, u \in Tasks :
        At(t, "stopping") /\ At(u, "stop") => t = u \/ s_server = "none"
=============================================================================
