------------------------------ MODULE LogTunnel ------------------------------
(***************************************************************************)
(* Events and log lines on their way to the host.                          *)
(*                                                                         *)
(*   any task or ISR --ESP_LOGx--> s_vprintf --> s_queue ---\              *)
(*                                                           EventConsume  *)
(*   widgets --host_api_post_event--> s_evt_queue ----------/  of a link   *)
(*                                                                         *)
(* Neither producer ever waits.  A log line that cannot be queued is       *)
(* counted in s_pending_dropped and the count travels in num_dropped of a  *)
(* later record; an event that finds its queue full evicts the oldest.     *)
(*                                                                         *)
(* Log lines and events are numbered as they are emitted.  A count of lost *)
(* lines is the set of the lines it counts: the number on the wire is its  *)
(* cardinality, and counting a line twice shows as two sets that meet.     *)
(***************************************************************************)
EXTENDS Naturals, Sequences

CONSTANTS
    Tasks,      \* tasks that log
    Links,      \* links whose dispatcher serves EventConsume
    LogDepth,   \* LOG_PROTO_QUEUE_DEPTH: 32
    EvtDepth,   \* EVENT_QUEUE_DEPTH: 16
    MaxLines,   \* bound: log lines emitted
    MaxEvents,  \* bound: events posted
    BusyUI      \* do the widgets go on posting events for ever?

ASSUME LogTunnelAssumption ==
    /\ LogDepth \in Nat \ {0}
    /\ EvtDepth \in Nat \ {0}
    /\ MaxLines \in Nat
    /\ MaxEvents \in Nat
    /\ BusyUI \in BOOLEAN

VARIABLES
    ready,     \* s_ready
    lines,     \* log lines emitted since the tunnel was enabled
    emit,      \* each task's place in s_vprintf; s_in_emit while not "idle"
    pending,   \* s_pending_dropped: the lines it counts
    queue,     \* s_queue
    filtered,  \* history: lines below min_log_level, dropped on purpose
    events,    \* events posted
    post,      \* the poster's place in host_api_post_event
    evtq,      \* s_evt_queue
    evicted,   \* history: events lost to a full queue
    resp,      \* each dispatcher's place in serving an EventConsume
    seen,      \* history: log lines the host has received
    told,      \* history: lost log lines the host has been told of
    failed,    \* history: lines gone with a response that was not written
    shown,     \* history: the events the host received, in order, per link
    flush      \* a touchy_logs_flush in progress

logVars == <<ready, lines, emit, pending, queue, filtered>>
evtVars == <<events, post, evtq, evicted>>
hostVars == <<resp, seen, told, failed, shown>>
vars == <<ready, lines, emit, pending, queue, filtered,
          events, post, evtq, evicted,
          resp, seen, told, failed, shown, flush>>

Line == Nat
Record == [line : Line, dropped : SUBSET Line]
NoRecord == [line |-> 0, dropped |-> {}]

(* The lines in the records of a queue, and those they count as lost.       *)
LinesOf(q) == {q[i].line : i \in 1 .. Len(q)}
DroppedOf(q) == UNION {q[i].dropped : i \in 1 .. Len(q)}

EmitState == [at : {"idle", "format", "send"}, line : Line,
              dropped : SUBSET Line]
RespState == [at : {"idle", "logs", "event", "record"}, event : Nat,
              line : Line, dropped : SUBSET Line]

LogTypeOK ==
    /\ ready \in BOOLEAN
    /\ lines \in Nat
    /\ emit \in [Tasks -> EmitState]
    /\ pending \in SUBSET Line
    /\ queue \in Seq(Record)
    /\ Len(queue) <= LogDepth
    /\ filtered \in SUBSET Line

EvtTypeOK ==
    /\ events \in Nat
    /\ post \in [at : {"idle", "send", "evict", "again"}, event : Nat]
    /\ evtq \in Seq(Nat)
    /\ Len(evtq) <= EvtDepth
    /\ evicted \in SUBSET Nat

HostTypeOK ==
    /\ resp \in [Links -> RespState]
    /\ seen \in SUBSET Line
    /\ told \in SUBSET Line
    /\ failed \in SUBSET Line
    /\ shown \in [Links -> Seq(Nat)]
    /\ flush \in [at : {"no", "waiting", "true"}, due : SUBSET Line]

TypeOK == LogTypeOK /\ EvtTypeOK /\ HostTypeOK

Quiet == [at |-> "idle", line |-> 0, dropped |-> {}]
NoResp == [at |-> "idle", event |-> 0, line |-> 0, dropped |-> {}]
Poll == [at |-> "logs", event |-> 0, line |-> 0, dropped |-> {}]

Init ==
    /\ ready = FALSE
    /\ lines = 0
    /\ emit = [t \in Tasks |-> Quiet]
    /\ pending = {}
    /\ queue = <<>>
    /\ filtered = {}
    /\ events = 0
    /\ post = [at |-> "idle", event |-> 0]
    /\ evtq = <<>>
    /\ evicted = {}
    /\ resp = [l \in Links |-> NoResp]
    /\ seen = {} /\ told = {} /\ failed = {}
    /\ shown = [l \in Links |-> <<>>]
    /\ flush = [at |-> "no", due |-> {}]

-----------------------------------------------------------------------------
(* log_proto_enable, late in app_main.                                      *)
Enable ==
    /\ ~ready
    /\ ready' = TRUE
    /\ UNCHANGED <<lines, emit, pending, queue, filtered, evtVars, hostVars,
                   flush>>

(* The next line number; lines' is given by the action that emits it.       *)
NewLine == lines + 1

EmitLine == ready /\ lines < MaxLines /\ lines' = NewLine

(* s_vprintf, from the re-entrancy guard to the formatted line.             *)
BeginEmit(t) ==
    /\ EmitLine
    /\ emit[t].at = "idle"
    /\ emit' = [emit EXCEPT ![t] =
                  [at |-> "format", line |-> NewLine, dropped |-> {}]]
    /\ UNCHANGED <<ready, pending, queue, filtered, evtVars, hostVars, flush>>

(* A line logged by the code s_vprintf calls, or by an interrupt handler.   *)
EmitNested(t) ==
    /\ EmitLine
    /\ emit[t].at # "idle"
    /\ pending' = pending \cup {NewLine}
    /\ UNCHANGED <<ready, emit, queue, filtered, evtVars, hostVars, flush>>

EmitFromIsr ==
    /\ EmitLine
    /\ pending' = pending \cup {NewLine}
    /\ UNCHANGED <<ready, emit, queue, filtered, evtVars, hostVars, flush>>

(* vsnprintf fails, ...                                                     *)
FormatFails(t) ==
    /\ emit[t].at = "format"
    /\ pending' = pending \cup {emit[t].line}
    /\ emit' = [emit EXCEPT ![t] = Quiet]
    /\ UNCHANGED <<ready, lines, queue, filtered, evtVars, hostVars, flush>>

(* ... or the line is below the threshold, ...                              *)
Filter(t) ==
    /\ emit[t].at = "format"
    /\ filtered' = filtered \cup {emit[t].line}
    /\ emit' = [emit EXCEPT ![t] = Quiet]
    /\ UNCHANGED <<ready, lines, pending, queue, evtVars, hostVars, flush>>

(* Mutant: the count is read, not exchanged with zero.                       *)
ReadDropped(t) ==
    /\ emit[t].at = "format"
    /\ emit' = [emit EXCEPT ![t] =
                  [at |-> "send", line |-> emit[t].line, dropped |-> pending]]
    /\ UNCHANGED <<ready, lines, pending, queue, filtered, evtVars, hostVars,
                   flush>>

(* ... or enqueue takes the pending count ...                               *)
TakeDropped(t) ==
    /\ emit[t].at = "format"
    /\ emit' = [emit EXCEPT ![t] =
                  [at |-> "send", line |-> emit[t].line, dropped |-> pending]]
    /\ pending' = {}
    /\ UNCHANGED <<ready, lines, queue, filtered, evtVars, hostVars, flush>>

(* Mutant: the record is queued whatever the depth.                          *)
EnqueueUnbounded(t) ==
    /\ emit[t].at = "send"
    /\ queue' = Append(queue, [line |-> emit[t].line, dropped |-> emit[t].dropped])
    /\ emit' = [emit EXCEPT ![t] = Quiet]
    /\ UNCHANGED <<ready, lines, pending, filtered, evtVars, hostVars, flush>>

(* Mutant: a full queue gives the taken count back, the line not counted.    *)
EnqueueForgetsLine(t) ==
    LET rec == [line |-> emit[t].line, dropped |-> emit[t].dropped]
    IN  /\ emit[t].at = "send"
        /\ \/ /\ Len(queue) < LogDepth
              /\ queue' = Append(queue, rec)
              /\ UNCHANGED pending
           \/ /\ Len(queue) >= LogDepth
              /\ pending' = pending \cup rec.dropped
              /\ UNCHANGED queue
        /\ emit' = [emit EXCEPT ![t] = Quiet]
        /\ UNCHANGED <<ready, lines, filtered, evtVars, hostVars, flush>>

(* ... and tries to queue the record with it.                               *)
Enqueue(t) ==
    LET rec == [line |-> emit[t].line, dropped |-> emit[t].dropped]
    IN  /\ emit[t].at = "send"
        /\ \/ /\ Len(queue) < LogDepth
              /\ queue' = Append(queue, rec)
              /\ UNCHANGED pending
           \/ /\ Len(queue) >= LogDepth
              /\ pending' = pending \cup rec.dropped \cup {rec.line}
              /\ UNCHANGED queue
        /\ emit' = [emit EXCEPT ![t] = Quiet]
        /\ UNCHANGED <<ready, lines, filtered, evtVars, hostVars, flush>>

-----------------------------------------------------------------------------
(* host_api_post_event.  Its only caller holds the LVGL lock, so there is   *)
(* one poster at a time; the three queue calls are three steps.             *)
Post(at) == post' = [at |-> at, event |-> post.event]

PostEvent ==
    /\ post.at = "idle"
    /\ BusyUI \/ events < MaxEvents
    /\ events' = IF BusyUI THEN events ELSE events + 1
    /\ post' = [at |-> "send", event |-> events']
    /\ UNCHANGED <<evtq, evicted, logVars, hostVars, flush>>

(* Mutant: the event that finds the queue full is the one that is lost.      *)
SendOrDrop ==
    /\ post.at = "send"
    /\ \/ Len(evtq) < EvtDepth /\ evtq' = Append(evtq, post.event) /\ UNCHANGED evicted
       \/ Len(evtq) >= EvtDepth /\ evicted' = evicted \cup {post.event} /\ UNCHANGED evtq
    /\ Post("idle")
    /\ UNCHANGED <<events, logVars, hostVars, flush>>

SendEvent ==
    /\ post.at = "send"
    /\ \/ Len(evtq) < EvtDepth /\ evtq' = Append(evtq, post.event) /\ Post("idle")
       \/ Len(evtq) >= EvtDepth /\ UNCHANGED evtq /\ Post("evict")
    /\ UNCHANGED <<events, evicted, logVars, hostVars, flush>>

(* The queue may have been drained since: then there is nothing to evict,   *)
(* or an event is evicted although there is room.                           *)
EvictOldest ==
    /\ post.at = "evict"
    /\ \/ /\ evtq # <<>>
          /\ evtq' = Tail(evtq)
          /\ evicted' = evicted \cup {Head(evtq)}
       \/ evtq = <<>> /\ UNCHANGED <<evtq, evicted>>
    /\ Post("again")
    /\ UNCHANGED <<events, logVars, hostVars, flush>>

SendAgain ==
    /\ post.at = "again"
    /\ \/ /\ Len(evtq) < EvtDepth
          /\ evtq' = Append(evtq, post.event)
          /\ UNCHANGED evicted
       \/ /\ Len(evtq) >= EvtDepth
          /\ evicted' = evicted \cup {post.event}
          /\ UNCHANGED evtq
    /\ Post("idle")
    /\ UNCHANGED <<events, logVars, hostVars, flush>>

-----------------------------------------------------------------------------

(* Mutant: an empty event queue is NOT_FOUND at once.                        *)
ConsumeOnlyEvents(l) ==
    /\ resp[l].at = "idle" /\ evtq # <<>>
    /\ resp' = [resp EXCEPT ![l] =
          [at |-> "event", event |-> Head(evtq), line |-> 0, dropped |-> {}]]
    /\ evtq' = Tail(evtq)
    /\ UNCHANGED <<events, post, evicted, logVars, seen, told, failed, shown,
                   flush>>

(* EventConsume on link l: an event if there is one, ...                    *)
ConsumeEvent(l) ==
    /\ resp[l].at = "idle"
    /\ \/ /\ evtq # <<>>
          /\ resp' = [resp EXCEPT ![l] =
                [at |-> "event", event |-> Head(evtq), line |-> 0, dropped |-> {}]]
          /\ evtq' = Tail(evtq)
       \/ /\ evtq = <<>>
          /\ resp' = [resp EXCEPT ![l] = Poll]
          /\ UNCHANGED evtq
    /\ UNCHANGED <<events, post, evicted, logVars, seen, told, failed, shown,
                   flush>>

(* ... else a log record, else NOT_FOUND.                                   *)
ConsumeLog(l) ==
    /\ resp[l].at = "logs"
    /\ \/ /\ queue # <<>>
          /\ resp' = [resp EXCEPT ![l] =
                [at |-> "record", event |-> 0, line |-> Head(queue).line,
                 dropped |-> Head(queue).dropped]]
          /\ queue' = Tail(queue)
       \/ /\ queue = <<>>
          /\ resp' = [resp EXCEPT ![l] = NoResp]
          /\ UNCHANGED queue
    /\ UNCHANGED <<ready, lines, emit, pending, filtered, evtVars, seen, told,
                   failed, shown, flush>>

(* write_frame, and the host's client passes the payload on.                *)
WriteResponse(l) ==
    /\ resp[l].at \in {"event", "record"}
    /\ \/ /\ resp[l].at = "event"
          /\ shown' = IF BusyUI THEN shown
                      ELSE [shown EXCEPT ![l] = Append(@, resp[l].event)]
          /\ UNCHANGED <<seen, told>>
       \/ /\ resp[l].at = "record"
          /\ seen' = seen \cup {resp[l].line}
          /\ told' = told \cup resp[l].dropped
          /\ UNCHANGED shown
    /\ resp' = [resp EXCEPT ![l] = NoResp]
    /\ UNCHANGED <<failed, logVars, evtVars, flush>>

(* write_frame fails: the host is gone, the payload with it.                *)
WriteFails(l) ==
    /\ resp[l].at \in {"event", "record"}
    /\ failed' = IF resp[l].at = "record"
                 THEN failed \cup {resp[l].line} \cup resp[l].dropped
                 ELSE failed
    /\ resp' = [resp EXCEPT ![l] = NoResp]
    /\ UNCHANGED <<seen, told, shown, logVars, evtVars, flush>>

-----------------------------------------------------------------------------
(* touchy_logs_flush polls the length of the queue.  due is what was queued *)
(* when it was called; a time-out, which answers false, promises nothing.   *)
Queued == LinesOf(queue)

BeginFlush ==
    /\ flush.at = "no"
    /\ flush' = [at |-> "waiting", due |-> Queued]
    /\ UNCHANGED <<logVars, evtVars, hostVars>>

EndFlush ==
    /\ flush.at = "waiting"
    /\ \/ queue = <<>> /\ flush' = [at |-> "true", due |-> flush.due]
       \/ queue # <<>> /\ flush' = [at |-> "no", due |-> {}]
    /\ UNCHANGED <<logVars, evtVars, hostVars>>

-----------------------------------------------------------------------------
Emit(t) == BeginEmit(t) \/ EmitNested(t)
Finish(t) == FormatFails(t) \/ Filter(t) \/ TakeDropped(t) \/ Enqueue(t)
Poster == SendEvent \/ EvictOldest \/ SendAgain
Serve(l) == ConsumeEvent(l) \/ ConsumeLog(l) \/ WriteResponse(l)

Next ==
    \/ Enable
    \/ EmitFromIsr
    \/ \E t \in Tasks : Emit(t) \/ Finish(t)
    \/ PostEvent \/ Poster
    \/ \E l \in Links : Serve(l) \/ WriteFails(l)
    \/ BeginFlush \/ EndFlush

Spec == Init /\ [][Next]_vars

(* The host polls on every link and is read; the tasks in the middle of a   *)
(* call go on; a busy UI does post.                                         *)
FairSpec ==
    /\ Spec
    /\ WF_vars(Enable)
    /\ \A t \in Tasks : WF_vars(Finish(t))
    /\ WF_vars(Poster)
    /\ WF_vars(BusyUI /\ PostEvent)
    /\ \A l \in Links : WF_vars(Serve(l))

-----------------------------------------------------------------------------
(* Properties.                                                              *)

(* Where a lost line is counted.                                            *)
Folded == UNION {emit[t].dropped : t \in Tasks}
Carried == DroppedOf(queue)
Emitting == {emit[t].line : t \in Tasks}
Held == {resp[l].line : l \in Links}
            \cup UNION {resp[l].dropped : l \in Links}

(* Every way a line can have gone, or be going.                             *)
Accounted == filtered \cup Emitting \cup Queued \cup Held \cup seen
                 \cup pending \cup Folded \cup Carried \cup told \cup failed

(* No loss is silent: every line emitted reaches the host, or is counted in *)
(* a num_dropped that has reached it, or is still on one of the two ways;   *)
(* unless it was filtered or went with a response that was never written.   *)
NoSilentLoss == 1 .. lines \subseteq Accounted

(* No line is counted as lost in two places, nor counted as lost and        *)
(* delivered: the host's total is never more than what was lost.            *)
CountedOnce ==
    /\ \A i, j \in 1 .. Len(queue) :
          i # j => queue[i].dropped \cap queue[j].dropped = {}
    /\ \A t, u \in Tasks : t # u => emit[t].dropped \cap emit[u].dropped = {}
    /\ \A k, l \in Links : k # l => resp[k].dropped \cap resp[l].dropped = {}
    /\ LET Dropped == UNION {resp[l].dropped : l \in Links}
           Lost == <<pending, Folded, Carried, Dropped, told>>
       IN  \A i, j \in 1 .. 5 : i # j => Lost[i] \cap Lost[j] = {}
    /\ (pending \cup Folded \cup Carried \cup told)
           \cap (Queued \cup Emitting \cup seen) = {}

(* The host sees the events of one link in the order they were posted, with *)
(* gaps where older ones were evicted, and none of them twice.              *)
EventsInOrder ==
    \A l \in Links : \A i, j \in 1 .. Len(shown[l]) :
        i < j => shown[l][i] < shown[l][j]

(* An event gives way only to newer ones: what is queued is newer than what *)
(* was evicted.                                                             *)
OldestEvicted ==
    \A e \in evicted : \A i \in 1 .. Len(evtq) : e < evtq[i]

(* Although evicting and sending again are two calls that a dispatcher and  *)
(* another post may come between, the queue gives the host the newest       *)
(* events in the order they were posted.                                    *)
NewestInOrder == EventsInOrder /\ OldestEvicted

(* What host-api.md says, and what does not hold: no loss is silent on the  *)
(* host side, so no response takes log lines with it.                       *)
NoLineLostOnTheWire == failed = {}

(* What log_proto.cpp says of touchy_logs_flush, and what does not hold: a  *)
(* flush that answered true has seen the records written to the wire.       *)
FlushedIsWritten == flush.at = "true" => flush.due \subseteq seen \cup failed

(* A queued log record is handed to the host in the end.                    *)
LogsDelivered ==
    \A n \in 1 .. MaxLines : n \in Queued ~> n \in seen \cup failed
=============================================================================
