--------------------------- MODULE LogTunnelProofs ---------------------------
(***************************************************************************)
(* What holds of LogTunnel for every number of tasks and links, every      *)
(* depth of the two queues and every bound.                                *)
(***************************************************************************)
EXTENDS LogTunnel, TLAPS

USE LogTunnelAssumption DEF LogTunnelAssumption

-----------------------------------------------------------------------------
(* Queues of anything.                                                      *)
LEMMA AppendType ==
    ASSUME NEW S, NEW q \in Seq(S), NEW e \in S
    PROVE  Append(q, e) \in Seq(S) /\ Len(Append(q, e)) = Len(q) + 1
OBVIOUS

LEMMA TailType ==
    ASSUME NEW S, NEW q \in Seq(S), q # <<>>
    PROVE  /\ Head(q) \in S
           /\ Tail(q) \in Seq(S)
           /\ Len(Tail(q)) = Len(q) - 1
           /\ Len(q) \in Nat
OBVIOUS

(* The records of a queue: appending one adds what it carries, ...          *)
LEMMA AppendRecord ==
    ASSUME NEW q \in Seq(Record), NEW r \in Record
    PROVE  /\ LinesOf(Append(q, r)) = LinesOf(q) \cup {r.line}
           /\ DroppedOf(Append(q, r)) = DroppedOf(q) \cup r.dropped
<1> DEFINE a == Append(q, r)
<1>1. /\ Len(a) = Len(q) + 1
      /\ a[Len(q) + 1] = r
      /\ \A i \in 1 .. Len(q) : a[i] = q[i]
      /\ Len(q) \in Nat
  OBVIOUS
<1> HIDE DEF a
<1>2. 1 .. Len(a) = (1 .. Len(q)) \cup {Len(q) + 1}
  BY <1>1
<1>3. LinesOf(a) = LinesOf(q) \cup {r.line}
  BY <1>1, <1>2 DEF LinesOf
<1>4. DroppedOf(a) = DroppedOf(q) \cup r.dropped
  BY <1>1, <1>2 DEF DroppedOf
<1> QED BY <1>3, <1>4 DEF a

(* ... and taking the head takes away no more than the head carries.        *)
LEMMA TakeRecord ==
    ASSUME NEW q \in Seq(Record), q # <<>>
    PROVE  /\ Head(q) \in Record
           /\ LinesOf(q) = LinesOf(Tail(q)) \cup {Head(q).line}
           /\ DroppedOf(q) = DroppedOf(Tail(q)) \cup Head(q).dropped
<1> DEFINE b == Tail(q)
           h == Head(q)
<1>1. /\ Len(q) \in Nat /\ Len(q) > 0
      /\ Len(b) = Len(q) - 1
      /\ h = q[1]
      /\ h \in Record
      /\ \A i \in 1 .. Len(b) : b[i] = q[i + 1]
  OBVIOUS
<1> HIDE DEF b, h
<1>2. \A i \in 1 .. Len(q) : i = 1 \/ (i - 1 \in 1 .. Len(b) /\ b[i - 1] = q[i])
  <2> TAKE i \in 1 .. Len(q)
  <2>1. CASE i = 1
    BY <2>1
  <2>2. CASE i # 1
    <3>1. i - 1 \in 1 .. Len(b)
      BY <1>1, <2>2
    <3>2. b[i - 1] = q[(i - 1) + 1]
      BY <1>1, <3>1
    <3>3. (i - 1) + 1 = i
      OBVIOUS
    <3> QED BY <3>1, <3>2, <3>3
  <2> QED BY <2>1, <2>2
<1>3. \A i \in 1 .. Len(b) : i + 1 \in 1 .. Len(q) /\ b[i] = q[i + 1]
  BY <1>1
<1>4. 1 \in 1 .. Len(q)
  BY <1>1
<1>5. LinesOf(q) = LinesOf(b) \cup {h.line}
  BY <1>1, <1>2, <1>3, <1>4 DEF LinesOf
<1>6. DroppedOf(q) = DroppedOf(b) \cup h.dropped
  BY <1>1, <1>2, <1>3, <1>4, ZenonT(30) DEF DroppedOf
<1>7. Head(q) = h /\ Tail(q) = b
  BY DEF b, h
<1>8. h \in Record
  BY <1>1
<1> QED BY <1>5, <1>6, <1>7, <1>8

-----------------------------------------------------------------------------
(* The types, the depth of the two queues included: neither queue ever      *)
(* holds more than xQueueCreate was asked for.                              *)
LEMMA EvtTail ==
    ASSUME EvtTypeOK, evtq # <<>>
    PROVE  /\ Head(evtq) \in Nat
           /\ Tail(evtq) \in Seq(Nat)
           /\ Len(Tail(evtq)) <= EvtDepth
<1>1. evtq \in Seq(Nat) /\ Len(evtq) <= EvtDepth
  BY DEF EvtTypeOK
<1>2. Len(Tail(evtq)) = Len(evtq) - 1 /\ Len(evtq) \in Nat
  BY <1>1, TailType
<1>3. Head(evtq) \in Nat /\ Tail(evtq) \in Seq(Nat)
  BY <1>1, TailType
<1> QED BY <1>1, <1>2, <1>3

LEMMA QueueTail ==
    ASSUME LogTypeOK, queue # <<>>
    PROVE  /\ Head(queue) \in Record
           /\ Tail(queue) \in Seq(Record)
           /\ Len(Tail(queue)) <= LogDepth
<1>1. queue \in Seq(Record) /\ Len(queue) <= LogDepth
  BY DEF LogTypeOK
<1>2. Len(Tail(queue)) = Len(queue) - 1 /\ Len(queue) \in Nat
  BY <1>1, TailType
<1>3. Head(queue) \in Record /\ Tail(queue) \in Seq(Record)
  BY <1>1, TailType
<1> QED BY <1>1, <1>2, <1>3

LEMMA TypeInit == Init => TypeOK
<1> SUFFICES ASSUME Init PROVE TypeOK
  OBVIOUS
<1> USE DEF Init, Line
<1>1. LogTypeOK
  <2>1. emit \in [Tasks -> EmitState]
    BY DEF Quiet, EmitState
  <2>2. queue \in Seq(Record) /\ Len(queue) <= LogDepth
    OBVIOUS
  <2> QED BY <2>1, <2>2 DEF LogTypeOK
<1>2. EvtTypeOK
  BY DEF EvtTypeOK
<1>3. HostTypeOK
  BY DEF HostTypeOK, NoResp, RespState
<1> QED BY <1>1, <1>2, <1>3 DEF TypeOK

(* A step of a logging task, of the poster or of a dispatcher leaves the     *)
(* variables of the other two alone, but for the queue a dispatcher takes   *)
(* from.                                                                    *)
LEMMA TypeStep == TypeOK /\ [Next]_vars => TypeOK'
<1> SUFFICES ASSUME TypeOK, [Next]_vars PROVE TypeOK'
  OBVIOUS
<1> USE DEF TypeOK, Line
<1>1. CASE Enable
  <2>1. LogTypeOK'
    BY <1>1 DEF LogTypeOK, Enable
  <2>2. EvtTypeOK'
    BY <1>1 DEF EvtTypeOK, Enable, evtVars
  <2>3. HostTypeOK'
    BY <1>1 DEF HostTypeOK, Enable, hostVars
  <2> QED BY <2>1, <2>2, <2>3
<1>2. CASE EmitFromIsr
  <2>1. LogTypeOK'
    BY <1>2 DEF LogTypeOK, EmitFromIsr, EmitLine, NewLine
  <2>2. EvtTypeOK'
    BY <1>2 DEF EvtTypeOK, EmitFromIsr, evtVars
  <2>3. HostTypeOK'
    BY <1>2 DEF HostTypeOK, EmitFromIsr, hostVars
  <2> QED BY <2>1, <2>2, <2>3
<1>3. ASSUME NEW t \in Tasks, BeginEmit(t) PROVE TypeOK'
  <2>1. LogTypeOK'
    BY <1>3 DEF LogTypeOK, BeginEmit, EmitLine, NewLine, EmitState
  <2>2. EvtTypeOK'
    BY <1>3 DEF EvtTypeOK, BeginEmit, evtVars
  <2>3. HostTypeOK'
    BY <1>3 DEF HostTypeOK, BeginEmit, hostVars
  <2> QED BY <2>1, <2>2, <2>3
<1>4. ASSUME NEW t \in Tasks, EmitNested(t) PROVE TypeOK'
  <2>1. LogTypeOK'
    BY <1>4 DEF LogTypeOK, EmitNested, EmitLine, NewLine
  <2>2. EvtTypeOK'
    BY <1>4 DEF EvtTypeOK, EmitNested, evtVars
  <2>3. HostTypeOK'
    BY <1>4 DEF HostTypeOK, EmitNested, hostVars
  <2> QED BY <2>1, <2>2, <2>3
<1>5. ASSUME NEW t \in Tasks, FormatFails(t) PROVE TypeOK'
  <2>1. LogTypeOK'
    BY <1>5 DEF LogTypeOK, FormatFails, Quiet, EmitState
  <2>2. EvtTypeOK'
    BY <1>5 DEF EvtTypeOK, FormatFails, evtVars
  <2>3. HostTypeOK'
    BY <1>5 DEF HostTypeOK, FormatFails, hostVars
  <2> QED BY <2>1, <2>2, <2>3
<1>6. ASSUME NEW t \in Tasks, Filter(t) PROVE TypeOK'
  <2>1. LogTypeOK'
    BY <1>6 DEF LogTypeOK, Filter, Quiet, EmitState
  <2>2. EvtTypeOK'
    BY <1>6 DEF EvtTypeOK, Filter, evtVars
  <2>3. HostTypeOK'
    BY <1>6 DEF HostTypeOK, Filter, hostVars
  <2> QED BY <2>1, <2>2, <2>3
<1>7. ASSUME NEW t \in Tasks, TakeDropped(t) PROVE TypeOK'
  <2>1. LogTypeOK'
    BY <1>7 DEF LogTypeOK, TakeDropped, EmitState
  <2>2. EvtTypeOK'
    BY <1>7 DEF EvtTypeOK, TakeDropped, evtVars
  <2>3. HostTypeOK'
    BY <1>7 DEF HostTypeOK, TakeDropped, hostVars
  <2> QED BY <2>1, <2>2, <2>3
<1>8. ASSUME NEW t \in Tasks, Enqueue(t) PROVE TypeOK'
  <2>1. LogTypeOK'
    <3> DEFINE rec == [line |-> emit[t].line, dropped |-> emit[t].dropped]
    <3>1. emit[t] \in EmitState
      BY DEF LogTypeOK
    <3>2. rec \in Record
      BY <3>1 DEF EmitState, Record
    <3>3. emit' \in [Tasks -> EmitState]
      BY <1>8 DEF LogTypeOK, Enqueue, Quiet, EmitState
    <3>4. pending' \in SUBSET Line
      BY <1>8, <3>1 DEF LogTypeOK, Enqueue, EmitState
    <3>5. queue' \in Seq(Record) /\ Len(queue') <= LogDepth
      <4>1. CASE Len(queue) < LogDepth /\ queue' = Append(queue, rec)
        BY <4>1, <3>2, AppendType DEF LogTypeOK
      <4>2. CASE UNCHANGED queue
        BY <4>2 DEF LogTypeOK
      <4> QED BY <4>1, <4>2, <1>8 DEF Enqueue
    <3> QED BY <1>8, <3>3, <3>4, <3>5 DEF LogTypeOK, Enqueue
  <2>2. EvtTypeOK'
    BY <1>8 DEF EvtTypeOK, Enqueue, evtVars
  <2>3. HostTypeOK'
    BY <1>8 DEF HostTypeOK, Enqueue, hostVars
  <2> QED BY <2>1, <2>2, <2>3
<1>9. CASE PostEvent
  <2>1. LogTypeOK'
    BY <1>9 DEF LogTypeOK, PostEvent, logVars
  <2>2. EvtTypeOK'
    BY <1>9 DEF EvtTypeOK, PostEvent
  <2>3. HostTypeOK'
    BY <1>9 DEF HostTypeOK, PostEvent, hostVars
  <2> QED BY <2>1, <2>2, <2>3
<1>10. CASE SendEvent
  <2>1. LogTypeOK'
    BY <1>10 DEF LogTypeOK, SendEvent, logVars
  <2>2. EvtTypeOK'
    <3>1. post' \in [at : {"idle", "send", "evict", "again"}, event : Nat]
      BY <1>10 DEF EvtTypeOK, SendEvent, Post
    <3>2. evtq' \in Seq(Nat) /\ Len(evtq') <= EvtDepth
      <4>1. CASE Len(evtq) < EvtDepth /\ evtq' = Append(evtq, post.event)
        BY <4>1, AppendType DEF EvtTypeOK
      <4>2. CASE UNCHANGED evtq
        BY <4>2 DEF EvtTypeOK
      <4> QED BY <4>1, <4>2, <1>10 DEF SendEvent
    <3>3. evicted' \in SUBSET Nat
      BY <1>10 DEF EvtTypeOK, SendEvent
    <3> QED BY <1>10, <3>1, <3>2, <3>3 DEF EvtTypeOK, SendEvent
  <2>3. HostTypeOK'
    BY <1>10 DEF HostTypeOK, SendEvent, hostVars
  <2> QED BY <2>1, <2>2, <2>3
<1>11. CASE EvictOldest
  <2>1. LogTypeOK'
    BY <1>11 DEF LogTypeOK, EvictOldest, logVars
  <2>2. EvtTypeOK'
    <3>1. post' \in [at : {"idle", "send", "evict", "again"}, event : Nat]
      BY <1>11 DEF EvtTypeOK, EvictOldest, Post
    <3>2. evtq' \in Seq(Nat) /\ Len(evtq') <= EvtDepth
      <4>1. CASE evtq # <<>> /\ evtq' = Tail(evtq)
        BY <4>1, TailType DEF EvtTypeOK
      <4>2. CASE UNCHANGED evtq
        BY <4>2 DEF EvtTypeOK
      <4> QED BY <4>1, <4>2, <1>11 DEF EvictOldest
    <3>3. evicted' \in SUBSET Nat
      <4>1. evicted \in SUBSET Nat
        BY DEF EvtTypeOK
      <4>2. CASE evtq # <<>> /\ evicted' = evicted \cup {Head(evtq)}
        BY <4>1, <4>2, EvtTail
      <4>3. CASE UNCHANGED evicted
        BY <4>1, <4>3
      <4> QED BY <4>2, <4>3, <1>11 DEF EvictOldest
    <3> QED BY <1>11, <3>1, <3>2, <3>3 DEF EvtTypeOK, EvictOldest
  <2>3. HostTypeOK'
    BY <1>11 DEF HostTypeOK, EvictOldest, hostVars
  <2> QED BY <2>1, <2>2, <2>3
<1>12. CASE SendAgain
  <2>1. LogTypeOK'
    BY <1>12 DEF LogTypeOK, SendAgain, logVars
  <2>2. EvtTypeOK'
    <3>1. post' \in [at : {"idle", "send", "evict", "again"}, event : Nat]
      BY <1>12 DEF EvtTypeOK, SendAgain, Post
    <3>2. evtq' \in Seq(Nat) /\ Len(evtq') <= EvtDepth
      <4>1. CASE Len(evtq) < EvtDepth /\ evtq' = Append(evtq, post.event)
        BY <4>1, AppendType DEF EvtTypeOK
      <4>2. CASE UNCHANGED evtq
        BY <4>2 DEF EvtTypeOK
      <4> QED BY <4>1, <4>2, <1>12 DEF SendAgain
    <3>3. evicted' \in SUBSET Nat
      BY <1>12 DEF EvtTypeOK, SendAgain
    <3> QED BY <1>12, <3>1, <3>2, <3>3 DEF EvtTypeOK, SendAgain
  <2>3. HostTypeOK'
    BY <1>12 DEF HostTypeOK, SendAgain, hostVars
  <2> QED BY <2>1, <2>2, <2>3
<1>13. ASSUME NEW l \in Links, ConsumeEvent(l) PROVE TypeOK'
  <2>1. LogTypeOK'
    BY <1>13 DEF LogTypeOK, ConsumeEvent, logVars
  <2>2. EvtTypeOK'
    <3>1. evtq' \in Seq(Nat) /\ Len(evtq') <= EvtDepth
      <4>1. CASE evtq # <<>> /\ evtq' = Tail(evtq)
        BY <4>1, EvtTail
      <4>2. CASE UNCHANGED evtq
        BY <4>2 DEF EvtTypeOK
      <4> QED BY <4>1, <4>2, <1>13 DEF ConsumeEvent
    <3> QED BY <1>13, <3>1 DEF EvtTypeOK, ConsumeEvent
  <2>3. HostTypeOK'
    <3> DEFINE r == [at |-> "event", event |-> Head(evtq), line |-> 0,
                     dropped |-> {}]
    <3>0. \/ evtq # <<>> /\ resp' = [resp EXCEPT ![l] = r]
          \/ resp' = [resp EXCEPT ![l] = Poll]
      BY <1>13 DEF ConsumeEvent
    <3>1. (evtq # <<>> => r \in RespState) /\ Poll \in RespState
      BY EvtTail DEF RespState, Poll
    <3> HIDE DEF r
    <3>2. resp' \in [Links -> RespState]
      BY <3>0, <3>1 DEF HostTypeOK
    <3> QED BY <1>13, <3>2 DEF HostTypeOK, ConsumeEvent
  <2> QED BY <2>1, <2>2, <2>3
<1>14. ASSUME NEW l \in Links, ConsumeLog(l) PROVE TypeOK'
  <2>1. LogTypeOK'
    <3>1. queue' \in Seq(Record) /\ Len(queue') <= LogDepth
      <4>1. CASE queue # <<>> /\ queue' = Tail(queue)
        BY <4>1, QueueTail
      <4>2. CASE UNCHANGED queue
        BY <4>2 DEF LogTypeOK
      <4> QED BY <4>1, <4>2, <1>14 DEF ConsumeLog
    <3> QED BY <1>14, <3>1 DEF LogTypeOK, ConsumeLog
  <2>2. EvtTypeOK'
    BY <1>14 DEF EvtTypeOK, ConsumeLog, evtVars
  <2>3. HostTypeOK'
    <3> DEFINE r == [at |-> "record", event |-> 0, line |-> Head(queue).line,
                     dropped |-> Head(queue).dropped]
    <3>0. \/ queue # <<>> /\ resp' = [resp EXCEPT ![l] = r]
          \/ resp' = [resp EXCEPT ![l] = NoResp]
      BY <1>14 DEF ConsumeLog
    <3>1. (queue # <<>> => r \in RespState) /\ NoResp \in RespState
      BY QueueTail DEF RespState, NoResp, Record
    <3> HIDE DEF r
    <3>2. resp' \in [Links -> RespState]
      BY <3>0, <3>1 DEF HostTypeOK
    <3> QED BY <1>14, <3>2 DEF HostTypeOK, ConsumeLog
  <2> QED BY <2>1, <2>2, <2>3
<1>15. ASSUME NEW l \in Links, WriteResponse(l) PROVE TypeOK'
  <2>1. LogTypeOK'
    BY <1>15 DEF LogTypeOK, WriteResponse, logVars
  <2>2. EvtTypeOK'
    BY <1>15 DEF EvtTypeOK, WriteResponse, evtVars
  <2>3. HostTypeOK'
    <3>1. resp[l] \in RespState
      BY DEF HostTypeOK
    <3>2. resp' \in [Links -> RespState]
      BY <1>15 DEF HostTypeOK, WriteResponse, RespState, NoResp
    <3>3. seen' \in SUBSET Line /\ told' \in SUBSET Line /\ failed' \in SUBSET Line
      BY <1>15, <3>1 DEF HostTypeOK, WriteResponse, RespState
    <3>4. shown' \in [Links -> Seq(Nat)]
      <4>1. shown \in [Links -> Seq(Nat)] /\ resp[l].event \in Nat
        BY <3>1 DEF HostTypeOK, RespState
      <4>2. Append(shown[l], resp[l].event) \in Seq(Nat)
        BY <4>1, AppendType
      <4>3. \/ UNCHANGED shown
            \/ shown' = [shown EXCEPT ![l] = Append(@, resp[l].event)]
        BY <1>15 DEF WriteResponse
      <4> QED BY <4>1, <4>2, <4>3
    <3> QED BY <1>15, <3>2, <3>3, <3>4 DEF HostTypeOK, WriteResponse
  <2> QED BY <2>1, <2>2, <2>3
<1>16. ASSUME NEW l \in Links, WriteFails(l) PROVE TypeOK'
  <2>1. LogTypeOK'
    BY <1>16 DEF LogTypeOK, WriteFails, logVars
  <2>2. EvtTypeOK'
    BY <1>16 DEF EvtTypeOK, WriteFails, evtVars
  <2>3. HostTypeOK'
    <3>1. resp[l] \in RespState
      BY DEF HostTypeOK
    <3>2. resp' \in [Links -> RespState]
      BY <1>16 DEF HostTypeOK, WriteFails, RespState, NoResp
    <3>3. seen' \in SUBSET Line /\ told' \in SUBSET Line /\ failed' \in SUBSET Line
      BY <1>16, <3>1 DEF HostTypeOK, WriteFails, RespState
    <3> QED BY <1>16, <3>2, <3>3 DEF HostTypeOK, WriteFails
  <2> QED BY <2>1, <2>2, <2>3
<1>17. CASE BeginFlush
  <2>1. LogTypeOK'
    BY <1>17 DEF LogTypeOK, BeginFlush, logVars
  <2>2. EvtTypeOK'
    BY <1>17 DEF EvtTypeOK, BeginFlush, evtVars
  <2>3. HostTypeOK'
    <3>1. Queued \in SUBSET Line
      <4>1. queue \in Seq(Record)
        BY DEF LogTypeOK
      <4>2. \A i \in 1 .. Len(queue) : queue[i] \in Record
        BY <4>1
      <4> QED BY <4>2 DEF Queued, LinesOf, Record
    <3> QED BY <1>17, <3>1 DEF HostTypeOK, BeginFlush, hostVars
  <2> QED BY <2>1, <2>2, <2>3
<1>18. CASE EndFlush
  <2>1. LogTypeOK'
    BY <1>18 DEF LogTypeOK, EndFlush, logVars
  <2>2. EvtTypeOK'
    BY <1>18 DEF EvtTypeOK, EndFlush, evtVars
  <2>3. HostTypeOK'
    BY <1>18 DEF HostTypeOK, EndFlush, hostVars
  <2> QED BY <2>1, <2>2, <2>3
<1>19. CASE UNCHANGED vars
  <2>1. LogTypeOK'
    BY <1>19 DEF LogTypeOK, vars
  <2>2. EvtTypeOK'
    BY <1>19 DEF EvtTypeOK, vars
  <2>3. HostTypeOK'
    BY <1>19 DEF HostTypeOK, vars
  <2> QED BY <2>1, <2>2, <2>3
<1> QED
  BY <1>1, <1>2, <1>3, <1>4, <1>5, <1>6, <1>7, <1>8, <1>9, <1>10, <1>11,
     <1>12, <1>13, <1>14, <1>15, <1>16, <1>17, <1>18, <1>19
     DEF Next, Emit, Finish, Poster, Serve

(* Every variable keeps its type and neither queue outgrows its depth.      *)
THEOREM TypeCorrect == Spec => []TypeOK
<1>1. Init => TypeOK
  BY TypeInit
<1>2. TypeOK /\ [Next]_vars => TypeOK'
  BY TypeStep
<1> QED BY <1>1, <1>2, PTL DEF Spec

-----------------------------------------------------------------------------
(* NoSilentLoss.  It is inductive once it is known that a task has taken no *)
(* count before it reaches "send", and that a dispatcher carries log lines  *)
(* at "record" only: nothing is then overwritten that still counts.         *)
EmptyHands ==
    /\ \A t \in Tasks : emit[t].at # "send" => emit[t].dropped = {}
    /\ \A t \in Tasks : emit[t].at = "idle" => emit[t].line = 0
    /\ \A l \in Links : resp[l].at # "record" =>
          resp[l].line = 0 /\ resp[l].dropped = {}

LEMMA HandsInit == Init => EmptyHands
BY DEF Init, EmptyHands, Quiet, NoResp

LEMMA HandsStep == TypeOK /\ EmptyHands /\ [Next]_vars => EmptyHands'
<1> SUFFICES ASSUME TypeOK, EmptyHands, [Next]_vars PROVE EmptyHands'
  OBVIOUS
<1> USE DEF EmptyHands
<1>0. emit \in [Tasks -> EmitState] /\ resp \in [Links -> RespState]
  BY DEF TypeOK, LogTypeOK, HostTypeOK
<1>1. ASSUME NEW t \in Tasks, NEW e, e.at # "send" => e.dropped = {},
             e.at = "idle" => e.line = 0,
             emit' = [emit EXCEPT ![t] = e], UNCHANGED resp
      PROVE  EmptyHands'
  BY <1>0, <1>1
<1>2. ASSUME NEW l \in Links, NEW r,
             r.at # "record" => r.line = 0 /\ r.dropped = {},
             resp' = [resp EXCEPT ![l] = r], UNCHANGED emit
      PROVE  EmptyHands'
  BY <1>0, <1>2
<1>3. ASSUME UNCHANGED <<emit, resp>> PROVE EmptyHands'
  BY <1>3
<1>4. ASSUME NEW t \in Tasks, Emit(t) \/ Finish(t) PROVE EmptyHands'
  <2>1. CASE BeginEmit(t)
    <3> DEFINE e == [at |-> "format", line |-> NewLine, dropped |-> {}]
    <3>1. emit' = [emit EXCEPT ![t] = e] /\ UNCHANGED resp
      BY <2>1 DEF BeginEmit, hostVars
    <3>2. e.at = "format" /\ e.dropped = {}
      OBVIOUS
    <3> HIDE DEF e
    <3> QED BY <1>1, <3>1, <3>2
  <2>2. CASE EmitNested(t)
    BY <1>3, <2>2 DEF EmitNested, hostVars
  <2>3. CASE FormatFails(t) \/ Filter(t) \/ Enqueue(t)
    <3>1. emit' = [emit EXCEPT ![t] = Quiet] /\ UNCHANGED resp
      BY <2>3 DEF FormatFails, Filter, Enqueue, hostVars
    <3>2. Quiet.at = "idle" /\ Quiet.line = 0 /\ Quiet.dropped = {}
      BY DEF Quiet
    <3> QED BY <1>1, <3>1, <3>2
  <2>4. CASE TakeDropped(t)
    <3> DEFINE e == [at |-> "send", line |-> emit[t].line, dropped |-> pending]
    <3>1. emit' = [emit EXCEPT ![t] = e] /\ UNCHANGED resp
      BY <2>4 DEF TakeDropped, hostVars
    <3>2. e.at = "send"
      OBVIOUS
    <3> HIDE DEF e
    <3> QED BY <1>1, <3>1, <3>2
  <2> QED BY <1>4, <2>1, <2>2, <2>3, <2>4 DEF Emit, Finish
<1>5. ASSUME NEW l \in Links, Serve(l) \/ WriteFails(l) PROVE EmptyHands'
  <2>0. /\ Poll.line = 0 /\ Poll.dropped = {}
        /\ NoResp.line = 0 /\ NoResp.dropped = {}
    BY DEF Poll, NoResp
  <2>1. CASE ConsumeEvent(l)
    <3> DEFINE r == [at |-> "event", event |-> Head(evtq), line |-> 0,
                     dropped |-> {}]
    <3>1. /\ \/ resp' = [resp EXCEPT ![l] = r]
             \/ resp' = [resp EXCEPT ![l] = Poll]
          /\ UNCHANGED emit
      BY <2>1 DEF ConsumeEvent, logVars
    <3>2. r.line = 0 /\ r.dropped = {}
      OBVIOUS
    <3> HIDE DEF r
    <3> QED BY <1>2, <2>0, <3>1, <3>2
  <2>2. CASE ConsumeLog(l)
    <3> DEFINE r == [at |-> "record", event |-> 0, line |-> Head(queue).line,
                     dropped |-> Head(queue).dropped]
    <3>1. /\ \/ resp' = [resp EXCEPT ![l] = r]
             \/ resp' = [resp EXCEPT ![l] = NoResp]
          /\ UNCHANGED emit
      BY <2>2 DEF ConsumeLog
    <3>2. r.at = "record"
      OBVIOUS
    <3> HIDE DEF r
    <3> QED BY <1>2, <2>0, <3>1, <3>2
  <2>3. CASE WriteResponse(l) \/ WriteFails(l)
    <3>1. resp' = [resp EXCEPT ![l] = NoResp] /\ UNCHANGED emit
      BY <2>3 DEF WriteResponse, WriteFails, logVars
    <3> QED BY <1>2, <2>0, <3>1
  <2> QED BY <1>5, <2>1, <2>2, <2>3 DEF Serve
<1>6. CASE \/ Enable \/ EmitFromIsr \/ PostEvent \/ Poster
           \/ BeginFlush \/ EndFlush \/ UNCHANGED vars
  BY <1>3, <1>6 DEF Enable, EmitFromIsr, PostEvent, Poster, SendEvent,
     EvictOldest, SendAgain, BeginFlush, EndFlush, vars, logVars, hostVars
<1> QED BY <1>4, <1>5, <1>6 DEF Next

(* What an update of one task's place, or of one dispatcher's, takes away.  *)
LEMMA EmitUpdate ==
    ASSUME emit \in [Tasks -> EmitState], NEW t \in Tasks, NEW e,
           emit' = [emit EXCEPT ![t] = e]
    PROVE  /\ Emitting \subseteq Emitting' \cup {emit[t].line}
           /\ e.line \in Emitting'
           /\ Folded \subseteq Folded' \cup emit[t].dropped
           /\ e.dropped \subseteq Folded'
<1>1. emit'[t] = e /\ \A u \in Tasks : u # t => emit'[u] = emit[u]
  OBVIOUS
<1> QED BY <1>1 DEF Emitting, Folded

LEMMA RespUpdate ==
    ASSUME resp \in [Links -> RespState], NEW l \in Links, NEW r,
           resp' = [resp EXCEPT ![l] = r]
    PROVE  /\ Held \subseteq Held' \cup {resp[l].line} \cup resp[l].dropped
           /\ r.line \in Held'
           /\ r.dropped \subseteq Held'
<1>1. resp'[l] = r /\ \A k \in Links : k # l => resp'[k] = resp[k]
  OBVIOUS
<1> QED BY <1>1 DEF Held

LEMMA LossInit == Init => NoSilentLoss
BY DEF Init, NoSilentLoss

LEMMA LossStep ==
    TypeOK /\ EmptyHands /\ NoSilentLoss /\ [Next]_vars => NoSilentLoss'
<1> SUFFICES ASSUME TypeOK, EmptyHands, NoSilentLoss, [Next]_vars
             PROVE  NoSilentLoss'
  OBVIOUS
<1>0. /\ emit \in [Tasks -> EmitState] /\ resp \in [Links -> RespState]
      /\ queue \in Seq(Record)
      /\ lines \in Nat /\ 0 \notin 1 .. lines
  BY DEF TypeOK, LogTypeOK, HostTypeOK
<1> USE DEF NoSilentLoss, Accounted
<1>new. ASSUME EmitLine PROVE 1 .. lines' = (1 .. lines) \cup {NewLine}
  BY <1>0, <1>new DEF EmitLine, NewLine
<1>1. ASSUME NEW t \in Tasks, Emit(t) \/ Finish(t) PROVE NoSilentLoss'
  <2>0. ASSUME UNCHANGED hostVars
        PROVE  Held' = Held /\ UNCHANGED <<seen, told, failed>>
    BY <2>0 DEF hostVars, Held
  <2>1. CASE BeginEmit(t)
    <3> DEFINE e == [at |-> "format", line |-> NewLine, dropped |-> {}]
    <3>1. /\ EmitLine /\ emit[t].at = "idle"
          /\ emit' = [emit EXCEPT ![t] = e]
          /\ UNCHANGED <<pending, queue, filtered, hostVars>>
      BY <2>1 DEF BeginEmit
    <3>2. emit[t].line = 0 /\ emit[t].dropped = {}
      BY <3>1 DEF EmptyHands
    <3>3. e.line = NewLine
      OBVIOUS
    <3> HIDE DEF e
    <3>4. Queued' = Queued /\ Carried' = Carried
      BY <3>1 DEF Queued, Carried
    <3>5. /\ Emitting \subseteq Emitting' \cup {0}
          /\ NewLine \in Emitting'
          /\ Folded \subseteq Folded'
      BY <1>0, <3>1, <3>2, <3>3, EmitUpdate
    <3> QED BY <1>0, <1>new, <2>0, <3>1, <3>4, <3>5
  <2>2. CASE EmitNested(t)
    <3>1. /\ EmitLine /\ pending' = pending \cup {NewLine}
          /\ UNCHANGED <<emit, queue, filtered, hostVars>>
      BY <2>2 DEF EmitNested
    <3> QED BY <1>new, <2>0, <3>1 DEF Queued, Carried, Emitting, Folded
  <2>3. CASE FormatFails(t) \/ Filter(t)
    <3>1. /\ emit[t].at = "format" /\ emit' = [emit EXCEPT ![t] = Quiet]
          /\ emit[t].line \in pending' \cup filtered'
          /\ pending \subseteq pending' /\ filtered \subseteq filtered'
          /\ UNCHANGED <<lines, queue, hostVars>>
      BY <2>3 DEF FormatFails, Filter
    <3>2. emit[t].dropped = {}
      BY <3>1 DEF EmptyHands
    <3>3. Queued' = Queued /\ Carried' = Carried
      BY <3>1 DEF Queued, Carried
    <3>4. /\ Emitting \subseteq Emitting' \cup {emit[t].line}
          /\ Folded \subseteq Folded'
      BY <1>0, <3>1, <3>2, EmitUpdate
    <3> QED BY <2>0, <3>1, <3>3, <3>4
  <2>4. CASE TakeDropped(t)
    <3> DEFINE e == [at |-> "send", line |-> emit[t].line, dropped |-> pending]
    <3>1. /\ emit[t].at = "format" /\ emit' = [emit EXCEPT ![t] = e]
          /\ UNCHANGED <<lines, queue, filtered, hostVars>>
      BY <2>4 DEF TakeDropped
    <3>2. emit[t].dropped = {} /\ e.line = emit[t].line /\ e.dropped = pending
      BY <3>1 DEF EmptyHands
    <3> HIDE DEF e
    <3>3. Queued' = Queued /\ Carried' = Carried
      BY <3>1 DEF Queued, Carried
    <3>4. /\ Emitting \subseteq Emitting' /\ Folded \subseteq Folded'
          /\ pending \subseteq Folded'
      BY <1>0, <3>1, <3>2, EmitUpdate, ZenonT(30)
    <3> QED BY <2>0, <3>1, <3>3, <3>4
  <2>5. CASE Enqueue(t)
    <3> DEFINE rec == [line |-> emit[t].line, dropped |-> emit[t].dropped]
    <3>1. /\ \/ queue' = Append(queue, rec) /\ UNCHANGED pending
             \/ /\ pending' = pending \cup rec.dropped \cup {rec.line}
                /\ UNCHANGED queue
          /\ emit' = [emit EXCEPT ![t] = Quiet]
          /\ UNCHANGED <<lines, filtered, hostVars>>
      BY <2>5 DEF Enqueue
    <3>2. rec \in Record
      BY <1>0 DEF EmitState, Record
    <3>3. rec.line = emit[t].line /\ rec.dropped = emit[t].dropped
      OBVIOUS
    <3> HIDE DEF rec
    <3>4. /\ Emitting \subseteq Emitting' \cup {rec.line}
          /\ Folded \subseteq Folded' \cup rec.dropped
      BY <1>0, <3>1, <3>3, EmitUpdate
    <3>5. /\ Queued \subseteq Queued' /\ Carried \subseteq Carried'
          /\ pending \subseteq pending'
          /\ rec.line \in Queued' \cup pending'
          /\ rec.dropped \subseteq Carried' \cup pending'
      <4>1. CASE queue' = Append(queue, rec) /\ UNCHANGED pending
        BY <1>0, <3>2, <4>1, AppendRecord DEF Queued, Carried
      <4>2. CASE /\ pending' = pending \cup rec.dropped \cup {rec.line}
                 /\ UNCHANGED queue
        BY <4>2 DEF Queued, Carried
      <4> QED BY <3>1, <4>1, <4>2
    <3> QED BY <2>0, <3>1, <3>4, <3>5
  <2> QED BY <1>1, <2>1, <2>2, <2>3, <2>4, <2>5 DEF Emit, Finish
<1>2. ASSUME NEW l \in Links, Serve(l) \/ WriteFails(l) PROVE NoSilentLoss'
  <2>0. ASSUME UNCHANGED <<emit, pending, filtered, lines>>
        PROVE  /\ Emitting' = Emitting /\ Folded' = Folded
               /\ UNCHANGED <<pending, filtered, lines>>
    BY <2>0 DEF Emitting, Folded
  <2>1. CASE ConsumeEvent(l)
    <3>1. /\ resp[l].at = "idle" /\ \E r : resp' = [resp EXCEPT ![l] = r]
          /\ UNCHANGED <<logVars, seen, told, failed>>
      BY <2>1 DEF ConsumeEvent
    <3>2. resp[l].line = 0 /\ resp[l].dropped = {}
      BY <3>1 DEF EmptyHands
    <3>3. Held \subseteq Held' \cup {0}
      BY <1>0, <3>1, <3>2, RespUpdate
    <3>4. Queued' = Queued /\ Carried' = Carried
      BY <3>1 DEF Queued, Carried, logVars
    <3> QED BY <1>0, <2>0, <3>1, <3>3, <3>4 DEF logVars
  <2>2. CASE ConsumeLog(l)
    <3> DEFINE h == Head(queue)
               r == [at |-> "record", event |-> 0, line |-> h.line,
                     dropped |-> h.dropped]
    <3>1. /\ resp[l].at = "logs"
          /\ \/ /\ queue # <<>> /\ queue' = Tail(queue)
                /\ resp' = [resp EXCEPT ![l] = r]
             \/ UNCHANGED queue /\ resp' = [resp EXCEPT ![l] = NoResp]
          /\ UNCHANGED <<emit, pending, filtered, lines, seen, told, failed>>
      BY <2>2 DEF ConsumeLog
    <3>2. resp[l].line = 0 /\ resp[l].dropped = {}
      BY <3>1 DEF EmptyHands
    <3>3. r.line = h.line /\ r.dropped = h.dropped
      OBVIOUS
    <3> HIDE DEF r, h
    <3>4. /\ Held \subseteq Held' \cup {0}
          /\ Queued \subseteq Queued' \cup Held'
          /\ Carried \subseteq Carried' \cup Held'
      <4>1. CASE /\ queue # <<>> /\ queue' = Tail(queue)
                 /\ resp' = [resp EXCEPT ![l] = r]
        <5>1. /\ Held \subseteq Held' \cup {0}
              /\ h.line \in Held' /\ h.dropped \subseteq Held'
          BY <1>0, <3>2, <3>3, <4>1, RespUpdate
        <5>2. /\ Queued = Queued' \cup {h.line}
              /\ Carried = Carried' \cup h.dropped
          BY <1>0, <4>1, TakeRecord DEF Queued, Carried, h
        <5> QED BY <5>1, <5>2
      <4>2. CASE UNCHANGED queue /\ resp' = [resp EXCEPT ![l] = NoResp]
        BY <1>0, <3>2, <4>2, RespUpdate DEF Queued, Carried
      <4> QED BY <3>1, <4>1, <4>2
    <3> QED BY <1>0, <2>0, <3>1, <3>4
  <2>3. CASE WriteResponse(l) \/ WriteFails(l)
    <3>1. /\ resp[l].at \in {"event", "record"}
          /\ resp' = [resp EXCEPT ![l] = NoResp]
          /\ seen \subseteq seen' /\ told \subseteq told'
          /\ failed \subseteq failed'
          /\ resp[l].at = "record" =>
                /\ resp[l].line \in seen' \cup failed'
                /\ resp[l].dropped \subseteq told' \cup failed'
          /\ UNCHANGED logVars
      BY <2>3 DEF WriteResponse, WriteFails
    <3>2. resp[l].at # "record" => resp[l].line = 0 /\ resp[l].dropped = {}
      BY DEF EmptyHands
    <3>3. Held \subseteq Held' \cup {resp[l].line} \cup resp[l].dropped
      BY <1>0, <3>1, RespUpdate
    <3>4. Queued' = Queued /\ Carried' = Carried
      BY <3>1 DEF Queued, Carried, logVars
    <3> QED BY <1>0, <2>0, <3>1, <3>2, <3>3, <3>4 DEF logVars
  <2> QED BY <1>2, <2>1, <2>2, <2>3 DEF Serve
<1>3. CASE EmitFromIsr
  <2>1. /\ EmitLine /\ pending' = pending \cup {NewLine}
        /\ UNCHANGED <<emit, queue, filtered, resp, seen, told, failed>>
    BY <1>3 DEF EmitFromIsr, hostVars
  <2> QED BY <1>new, <2>1 DEF Queued, Carried, Emitting, Folded, Held
<1>4. CASE \/ Enable \/ PostEvent \/ Poster \/ BeginFlush \/ EndFlush
           \/ UNCHANGED vars
  <2>1. UNCHANGED <<lines, emit, pending, queue, filtered, resp, seen, told,
                    failed>>
    BY <1>4 DEF Enable, PostEvent, Poster, SendEvent, EvictOldest, SendAgain,
       BeginFlush, EndFlush, vars, logVars, hostVars
  <2> QED BY <2>1 DEF Queued, Carried, Emitting, Folded, Held
<1> QED BY <1>1, <1>2, <1>3, <1>4 DEF Next

(* Every log line emitted once the tunnel is up reaches the host, is        *)
(* reported to it as dropped, is on one of these two ways, was filtered or  *)
(* went with an unwritten response: whatever tasks, interrupts and links    *)
(* interleave and however deep the queue is.                                *)
THEOREM EveryLineAccounted == Spec => []NoSilentLoss
<1> DEFINE IInv == TypeOK /\ EmptyHands /\ NoSilentLoss
<1>1. Init => IInv
  BY TypeInit, HandsInit, LossInit
<1>2. IInv /\ [Next]_vars => IInv'
  BY TypeStep, HandsStep, LossStep
<1>3. IInv => NoSilentLoss
  OBVIOUS
<1> QED BY <1>1, <1>2, <1>3, PTL DEF Spec

-----------------------------------------------------------------------------
(* CountedOnce.  A count of lost lines is always in one hand: pending, that *)
(* of a task, a record in the queue, a response or the host's total.  And a *)
(* line that a task still has, alone, or that has been queued, is in none.  *)
Busy == {t \in Tasks : emit[t].at # "idle"}
BusyLines == {emit[t].line : t \in Busy}
Handed == {l \in Links : resp[l].at = "record"}
Sent == Queued \cup {resp[l].line : l \in Handed} \cup seen
Dropped == UNION {resp[l].dropped : l \in Links}
Lost == pending \cup Folded \cup Carried \cup Dropped \cup told

All(F, D) == UNION {F[i].dropped : i \in D}
Separate(F, D) == \A i, j \in D : i # j => F[i].dropped \cap F[j].dropped = {}

OneHand ==
    /\ Separate(queue, 1 .. Len(queue))
    /\ Separate(emit, Tasks)
    /\ Separate(resp, Links)
    /\ pending \cap (Folded \cup Carried \cup Dropped \cup told) = {}
    /\ Folded \cap (Carried \cup Dropped \cup told) = {}
    /\ Carried \cap (Dropped \cup told) = {}
    /\ Dropped \cap told = {}

OneLine ==
    /\ \A t, u \in Busy : t # u => emit[t].line # emit[u].line
    /\ BusyLines \cap (Sent \cup Lost) = {}
    /\ Sent \cap Lost = {}
    /\ BusyLines \cup Sent \cup Lost \subseteq 1 .. lines

OnceInv == EmptyHands /\ OneHand /\ OneLine

(* When one hand takes a count that no other has, each still has its own.   *)
Takes(F, G, D, d, e) ==
    /\ d \in D /\ G[d] = e
    /\ \A i \in D : i # d => G[i] = F[i] /\ F[i].dropped \cap e.dropped = {}

LEMMA OneChanges ==
    ASSUME NEW D, NEW F, NEW G, NEW d, NEW e, Separate(F, D), Takes(F, G, D, d, e)
    PROVE  /\ Separate(G, D)
           /\ \A x : x \in All(G, D) <=>
                 x \in e.dropped \/ (x \in All(F, D) /\ x \notin F[d].dropped)
<1>1. /\ d \in D /\ G[d] = e
      /\ \A i \in D : i # d => G[i] = F[i] /\ F[i].dropped \cap e.dropped = {}
  BY DEF Takes
<1>2. Separate(G, D)
  BY <1>1 DEF Separate
<1>3. ASSUME NEW x \in All(G, D)
      PROVE  x \in (All(F, D) \ F[d].dropped) \cup e.dropped
  <2> PICK i \in D : x \in G[i].dropped
    BY DEF All
  <2>1. CASE i = d
    BY <1>1, <2>1
  <2>2. CASE i # d
    <3>1. x \in F[i].dropped
      BY <1>1, <2>2
    <3>2. x \notin F[d].dropped
      BY <1>1, <2>2, <3>1 DEF Separate
    <3>3. x \in All(F, D)
      BY <3>1 DEF All
    <3> QED BY <3>2, <3>3
  <2> QED BY <2>1, <2>2
<1>4. ASSUME NEW x \in (All(F, D) \ F[d].dropped) \cup e.dropped
      PROVE  x \in All(G, D)
  <2>1. CASE x \in e.dropped
    BY <1>1, <2>1 DEF All
  <2>2. CASE x \notin e.dropped
    <3>1. x \in All(F, D) /\ x \notin F[d].dropped
      BY <2>2
    <3>2. PICK i \in D : x \in F[i].dropped
      BY <3>1 DEF All
    <3>3. i # d
      BY <3>1, <3>2
    <3> QED BY <1>1, <3>2, <3>3 DEF All
  <2> QED BY <2>1, <2>2
<1> QED BY <1>2, <1>3, <1>4

LEMMA EmitChanges ==
    ASSUME emit \in [Tasks -> EmitState], Separate(emit, Tasks), NEW t \in Tasks,
           NEW e, emit' = [emit EXCEPT ![t] = e],
           (Folded \ emit[t].dropped) \cap e.dropped = {}
    PROVE  /\ Separate(emit, Tasks)'
           /\ Folded' = (Folded \ emit[t].dropped) \cup e.dropped
<1>1. /\ DOMAIN emit = Tasks /\ DOMAIN emit' = Tasks /\ emit'[t] = e
      /\ \A i \in Tasks : i # t => emit'[i] = emit[i]
  OBVIOUS
<1>2. Takes(emit, emit', Tasks, t, e)
  BY <1>1 DEF Folded, Separate, Takes
<1>3. /\ Separate(emit', Tasks)
      /\ \A x : x \in All(emit', Tasks) <=>
            x \in e.dropped \/ (x \in All(emit, Tasks) /\ x \notin emit[t].dropped)
  BY <1>2, OneChanges
<1> QED BY <1>3 DEF Folded, All, Separate

LEMMA TaskLetsGo ==
    ASSUME emit \in [Tasks -> EmitState], Separate(emit, Tasks), NEW t \in Tasks,
           emit' = [emit EXCEPT ![t] = Quiet]
    PROVE  Separate(emit, Tasks)' /\ Folded' = Folded \ emit[t].dropped
<1> DEFINE e == Quiet
<1>1. e.dropped = {}
  BY DEF Quiet
<1>2. emit' = [emit EXCEPT ![t] = e]
  OBVIOUS
<1> HIDE DEF e
<1>3. Separate(emit, Tasks)' /\ Folded' = (Folded \ emit[t].dropped) \cup e.dropped
  BY <1>1, <1>2, EmitChanges
<1> QED BY <1>1, <1>3

LEMMA RespChanges ==
    ASSUME resp \in [Links -> RespState], Separate(resp, Links), NEW l \in Links,
           NEW r, resp' = [resp EXCEPT ![l] = r],
           (Dropped \ resp[l].dropped) \cap r.dropped = {}
    PROVE  /\ Separate(resp, Links)'
           /\ Dropped' = (Dropped \ resp[l].dropped) \cup r.dropped
           /\ {resp[k].line : k \in Handed}' \subseteq
                 {resp[k].line : k \in Handed} \cup {r.line}
           /\ r.at # "record" =>
                 {resp[k].line : k \in Handed}' \subseteq {resp[k].line : k \in Handed}
<1>1. DOMAIN resp = Links /\ DOMAIN resp' = Links /\ resp'[l] = r /\ \A k \in Links : k # l => resp'[k] = resp[k]
  OBVIOUS
<1>2. Takes(resp, resp', Links, l, r)
  BY <1>1 DEF Dropped, Separate, Takes
<1>3. /\ Separate(resp', Links)
      /\ \A x : x \in All(resp', Links) <=>
            x \in r.dropped \/ (x \in All(resp, Links) /\ x \notin resp[l].dropped)
  BY <1>2, OneChanges
<1>4. {resp[k].line : k \in Handed}' \subseteq
         {resp[k].line : k \in Handed} \cup (IF r.at = "record" THEN {r.line} ELSE {})
  BY <1>1 DEF Handed
<1> QED BY <1>3, <1>4 DEF Dropped, All, Separate

LEMMA LinkLetsGo ==
    ASSUME resp \in [Links -> RespState], Separate(resp, Links), NEW l \in Links,
           resp' = [resp EXCEPT ![l] = NoResp]
    PROVE  /\ Separate(resp, Links)' /\ Dropped' = Dropped \ resp[l].dropped
           /\ {resp[k].line : k \in Handed}' \subseteq {resp[k].line : k \in Handed}
<1> DEFINE r == NoResp
<1>1. r.dropped = {} /\ r.at # "record"
  BY DEF NoResp
<1>2. resp' = [resp EXCEPT ![l] = r]
  OBVIOUS
<1> HIDE DEF r
<1>3. /\ Separate(resp, Links)' /\ Dropped' = (Dropped \ resp[l].dropped) \cup r.dropped
      /\ {resp[k].line : k \in Handed}' \subseteq {resp[k].line : k \in Handed}
  BY <1>1, <1>2, RespChanges
<1> QED BY <1>1, <1>3

(* The queue: a record more, and one less.                                  *)
LEMMA QueueGrows ==
    ASSUME queue \in Seq(Record), Separate(queue, 1 .. Len(queue)),
           NEW r \in Record, queue' = Append(queue, r), Carried \cap r.dropped = {}
    PROVE  /\ Separate(queue, 1 .. Len(queue))'
           /\ Carried' = Carried \cup r.dropped
           /\ Queued' = Queued \cup {r.line}
<1>1. /\ Len(queue') = Len(queue) + 1 /\ Len(queue) \in Nat
      /\ queue'[Len(queue) + 1] = r
      /\ \A i \in 1 .. Len(queue) : queue'[i] = queue[i]
  OBVIOUS
<1>2. \A i \in 1 .. Len(queue) : queue[i].dropped \cap r.dropped = {}
  BY DEF Carried, DroppedOf
<1>3. 1 .. Len(queue') = 1 .. Len(queue) \cup {Len(queue) + 1}
  BY <1>1
<1>4. Separate(queue', 1 .. Len(queue'))
  <2> SUFFICES ASSUME NEW i \in 1 .. Len(queue'), NEW j \in 1 .. Len(queue'), i # j
               PROVE  queue'[i].dropped \cap queue'[j].dropped = {}
    BY DEF Separate
  <2>1. CASE i \in 1 .. Len(queue) /\ j \in 1 .. Len(queue)
    BY <1>1, <2>1 DEF Separate
  <2>2. CASE i \in 1 .. Len(queue) /\ j = Len(queue) + 1
    BY <1>1, <1>2, <2>2
  <2>3. CASE j \in 1 .. Len(queue) /\ i = Len(queue) + 1
    BY <1>1, <1>2, <2>3
  <2> QED BY <1>3, <2>1, <2>2, <2>3
<1> QED BY <1>4, AppendRecord DEF Carried, Queued, Separate

LEMMA QueueShrinks ==
    ASSUME queue \in Seq(Record), Separate(queue, 1 .. Len(queue)),
           queue # <<>>, queue' = Tail(queue)
    PROVE  /\ Separate(queue, 1 .. Len(queue))'
           /\ Carried' = Carried \ Head(queue).dropped
           /\ Head(queue).dropped \subseteq Carried
           /\ Queued = Queued' \cup {Head(queue).line}
<1>1. /\ Len(queue) \in Nat \ {0} /\ Len(queue') = Len(queue) - 1
      /\ Head(queue) = queue[1]
      /\ \A i \in 1 .. Len(queue') : queue'[i] = queue[i + 1]
  OBVIOUS
<1>2. \A i \in 1 .. Len(queue') : i + 1 \in 1 .. Len(queue) /\ i + 1 # 1
  BY <1>1
<1>3. Separate(queue', 1 .. Len(queue'))
  <2> SUFFICES ASSUME NEW i \in 1 .. Len(queue'), NEW j \in 1 .. Len(queue'), i # j
               PROVE  queue'[i].dropped \cap queue'[j].dropped = {}
    BY DEF Separate
  <2>1. i + 1 # j + 1 /\ i + 1 \in 1 .. Len(queue) /\ j + 1 \in 1 .. Len(queue)
    BY <1>1, <1>2
  <2> QED BY <1>1, <2>1 DEF Separate
<1>4. Carried' \cap Head(queue).dropped = {}
  <2> SUFFICES ASSUME NEW i \in 1 .. Len(queue')
               PROVE  queue'[i].dropped \cap Head(queue).dropped = {}
    BY DEF Carried, DroppedOf
  <2>1. 1 \in 1 .. Len(queue)
    BY <1>1
  <2> QED BY <1>1, <1>2, <2>1 DEF Separate
<1>5. Carried = Carried' \cup Head(queue).dropped /\ Queued = Queued' \cup {Head(queue).line}
  BY TakeRecord DEF Carried, Queued
<1> QED BY <1>3, <1>4, <1>5 DEF Separate

(* A task begins a line, goes on with it or is done with it.                *)
Alone == \A t, u \in Busy : t # u => emit[t].line # emit[u].line

LEMMA TaskBegins ==
    ASSUME emit \in [Tasks -> EmitState], Alone, NEW t \in Tasks, NEW e,
           emit' = [emit EXCEPT ![t] = e], e.at # "idle", e.line \notin BusyLines,
           emit[t].at = "idle"
    PROVE  Alone' /\ BusyLines' = BusyLines \cup {e.line}
<1>1. emit'[t] = e /\ \A u \in Tasks : u # t => emit'[u] = emit[u]
  OBVIOUS
<1>2. Busy' = Busy \cup {t} /\ t \notin Busy
  BY <1>1 DEF Busy
<1>3. \A u \in Busy : u # t /\ emit'[u] = emit[u] /\ emit[u].line # e.line
  BY <1>1, <1>2 DEF Busy, BusyLines
<1> QED BY <1>1, <1>2, <1>3 DEF Alone, BusyLines

LEMMA TaskGoesOn ==
    ASSUME emit \in [Tasks -> EmitState], Alone, NEW t \in Tasks, NEW e,
           emit' = [emit EXCEPT ![t] = e], e.at # "idle", emit[t].at # "idle",
           e.line = emit[t].line
    PROVE  Alone' /\ BusyLines' = BusyLines
<1>1. emit'[t] = e /\ \A u \in Tasks : u # t => emit'[u] = emit[u]
  OBVIOUS
<1>2. Busy' = Busy /\ \A u \in Busy : emit'[u].line = emit[u].line
  BY <1>1 DEF Busy
<1> QED BY <1>2 DEF Alone, BusyLines

LEMMA TaskEnds ==
    ASSUME emit \in [Tasks -> EmitState], Alone, NEW t \in Tasks,
           emit' = [emit EXCEPT ![t] = Quiet], emit[t].at # "idle"
    PROVE  Alone' /\ BusyLines' = BusyLines \ {emit[t].line}
<1>1. emit'[t] = Quiet /\ \A u \in Tasks : u # t => emit'[u] = emit[u]
  OBVIOUS
<1>2. Busy' = Busy \ {t} /\ t \in Busy
  BY <1>1 DEF Busy, Quiet
<1>3. \A u \in Busy' : u # t /\ emit'[u] = emit[u] /\ emit[u].line # emit[t].line
  BY <1>1, <1>2 DEF Busy, Alone
<1>4. Alone'
  BY <1>2, <1>3 DEF Alone
<1>5. ASSUME NEW x \in BusyLines' PROVE x \in BusyLines \ {emit[t].line}
  BY <1>2, <1>3 DEF BusyLines
<1>6. ASSUME NEW x \in BusyLines \ {emit[t].line} PROVE x \in BusyLines'
  <2> PICK u \in Busy : x = emit[u].line
    BY DEF BusyLines
  <2>1. u \in Busy'
    BY <1>2
  <2> QED BY <1>3, <2>1 DEF BusyLines
<1> QED BY <1>4, <1>5, <1>6

(* A new line is in nobody's hands.                                         *)
LEMMA LineIsNew ==
    ASSUME TypeOK, OneLine, EmitLine
    PROVE  /\ NewLine \notin BusyLines \cup Sent \cup Lost
           /\ 1 .. lines' = (1 .. lines) \cup {NewLine}
<1>1. lines \in Nat /\ lines' = lines + 1 /\ NewLine = lines + 1
  BY DEF TypeOK, LogTypeOK, EmitLine, NewLine
<1>2. NewLine \notin 1 .. lines /\ 1 .. lines' = (1 .. lines) \cup {NewLine}
  BY <1>1
<1> QED BY <1>2 DEF OneLine

LEMMA OnceStepEmit ==
    ASSUME TypeOK, OnceInv, NEW t \in Tasks, Emit(t) \/ Finish(t)
    PROVE  OneHand' /\ OneLine'
<1>0. /\ emit \in [Tasks -> EmitState] /\ queue \in Seq(Record) /\ Alone
      /\ OneHand /\ OneLine /\ EmptyHands
      /\ Separate(emit, Tasks) /\ Separate(queue, 1 .. Len(queue))
  BY DEF TypeOK, LogTypeOK, OnceInv, OneHand, OneLine, Alone
<1>host. ASSUME UNCHANGED hostVars
         PROVE  /\ Dropped' = Dropped /\ told' = told /\ seen' = seen
                /\ {resp[k].line : k \in Handed}' = {resp[k].line : k \in Handed}
                /\ Separate(resp, Links)'
  BY <1>0, <1>host DEF hostVars, Dropped, Handed, OneHand, Separate
<1>queue. ASSUME UNCHANGED queue
          PROVE  /\ Carried' = Carried /\ Queued' = Queued
                 /\ Separate(queue, 1 .. Len(queue))'
  BY <1>0, <1>queue DEF Carried, Queued, Separate
<1>fold. emit[t].dropped \subseteq Folded
  BY DEF Folded
<1>busy. ASSUME emit[t].at # "idle" PROVE emit[t].line \in BusyLines
  BY <1>busy DEF Busy, BusyLines
<1>1. CASE BeginEmit(t)
  <2> DEFINE e == [at |-> "format", line |-> NewLine, dropped |-> {}]
  <2>1. /\ EmitLine /\ emit[t].at = "idle" /\ emit' = [emit EXCEPT ![t] = e]
        /\ UNCHANGED <<pending, queue, hostVars>>
    BY <1>1 DEF BeginEmit
  <2>2. e.at = "format" /\ e.line = NewLine /\ e.dropped = {} /\ emit[t].dropped = {}
    BY <1>0, <2>1 DEF EmptyHands
  <2> HIDE DEF e
  <2>3. Separate(emit, Tasks)' /\ Folded' = Folded
    BY <1>0, <2>1, <2>2, EmitChanges
  <2>4. NewLine \notin BusyLines \cup Sent \cup Lost /\ 1 .. lines' = (1 .. lines) \cup {NewLine}
    BY <1>0, <2>1, LineIsNew
  <2>5. Alone' /\ BusyLines' = BusyLines \cup {NewLine}
    BY <1>0, <2>1, <2>2, <2>4, TaskBegins
  <2>6. Sent' = Sent /\ Lost' = Lost
    BY <1>host, <1>queue, <2>1, <2>3 DEF Sent, Lost
  <2>7. OneHand'
    BY <1>0, <1>host, <1>queue, <2>1, <2>3 DEF OneHand
  <2>8. OneLine'
    BY <1>0, <2>4, <2>5, <2>6 DEF OneLine, Alone
  <2> QED BY <2>7, <2>8
<1>2. CASE EmitNested(t)
  <2>1. EmitLine /\ pending' = pending \cup {NewLine} /\ UNCHANGED <<emit, queue, hostVars>>
    BY <1>2 DEF EmitNested
  <2>2. NewLine \notin BusyLines \cup Sent \cup Lost /\ 1 .. lines' = (1 .. lines) \cup {NewLine}
    BY <1>0, <2>1, LineIsNew
  <2>3. /\ Alone' /\ BusyLines' = BusyLines /\ Folded' = Folded /\ Separate(emit, Tasks)'
    BY <1>0, <2>1 DEF Alone, BusyLines, Busy, Folded, Separate
  <2>4. Sent' = Sent /\ Lost' = Lost \cup {NewLine}
    BY <1>host, <1>queue, <2>1, <2>3 DEF Sent, Lost
  <2>5. OneHand'
    BY <1>0, <1>host, <1>queue, <2>1, <2>2, <2>3 DEF OneHand, Lost
  <2>6. OneLine'
    BY <1>0, <2>2, <2>3, <2>4 DEF OneLine, Alone
  <2> QED BY <2>5, <2>6
<1>3. CASE FormatFails(t) \/ Filter(t)
  <2> DEFINE x == emit[t].line
  <2>1. /\ emit[t].at = "format" /\ emit' = [emit EXCEPT ![t] = Quiet]
        /\ pending' \in {pending, pending \cup {x}}
        /\ UNCHANGED <<lines, queue, hostVars>>
    BY <1>3 DEF FormatFails, Filter
  <2>2. emit[t].dropped = {} /\ Quiet.dropped = {}
    BY <1>0, <2>1 DEF EmptyHands, Quiet
  <2>3. Separate(emit, Tasks)' /\ Folded' = Folded
    BY <1>0, <2>1, <2>2, TaskLetsGo
  <2>4. Alone' /\ BusyLines' = BusyLines \ {x} /\ x \in BusyLines
    BY <1>0, <1>busy, <2>1, TaskEnds
  <2> HIDE DEF x
  <2>5. Sent' = Sent /\ Lost' \subseteq Lost \cup {x}
    BY <1>host, <1>queue, <2>1, <2>3 DEF Sent, Lost
  <2>6. x \notin Lost /\ x \notin Sent /\ x \in 1 .. lines
    BY <1>0, <2>4 DEF OneLine
  <2>7. OneHand'
    BY <1>0, <1>host, <1>queue, <2>1, <2>3, <2>6 DEF OneHand, Lost
  <2>8. OneLine'
    BY <1>0, <2>1, <2>4, <2>5, <2>6 DEF OneLine, Alone
  <2> QED BY <2>7, <2>8
<1>4. CASE TakeDropped(t)
  <2> DEFINE e == [at |-> "send", line |-> emit[t].line, dropped |-> pending]
  <2>1. /\ emit[t].at = "format" /\ emit' = [emit EXCEPT ![t] = e] /\ pending' = {}
        /\ UNCHANGED <<lines, queue, hostVars>>
    BY <1>4 DEF TakeDropped
  <2>2. /\ e.at = "send" /\ e.line = emit[t].line /\ e.dropped = pending
        /\ emit[t].dropped = {}
    BY <1>0, <2>1 DEF EmptyHands
  <2> HIDE DEF e
  <2>3. Folded \cap pending = {}
    BY <1>0 DEF OneHand
  <2>4. Separate(emit, Tasks)' /\ Folded' = Folded \cup pending
    BY <1>0, <2>1, <2>2, <2>3, EmitChanges, ZenonT(30)
  <2>5. Alone' /\ BusyLines' = BusyLines
    BY <1>0, <2>1, <2>2, TaskGoesOn
  <2>6. Sent' = Sent /\ Lost' = Lost
    BY <1>host, <1>queue, <2>1, <2>4 DEF Sent, Lost
  <2>7. OneHand'
    BY <1>0, <1>host, <1>queue, <2>1, <2>4 DEF OneHand
  <2>8. OneLine'
    BY <1>0, <2>1, <2>5, <2>6 DEF OneLine, Alone
  <2> QED BY <2>7, <2>8
<1>5. CASE Enqueue(t)
  <2> DEFINE rec == [line |-> emit[t].line, dropped |-> emit[t].dropped]
  <2>1. /\ \/ queue' = Append(queue, rec) /\ UNCHANGED pending
           \/ pending' = pending \cup rec.dropped \cup {rec.line} /\ UNCHANGED queue
        /\ emit[t].at = "send" /\ emit' = [emit EXCEPT ![t] = Quiet]
        /\ UNCHANGED <<lines, hostVars>>
    BY <1>5 DEF Enqueue
  <2>2. /\ rec \in Record /\ rec.line = emit[t].line /\ rec.dropped = emit[t].dropped
        /\ Quiet.dropped = {}
    BY <1>0 DEF EmitState, Record, Quiet
  <2> HIDE DEF rec
  <2>3. Separate(emit, Tasks)' /\ Folded' = Folded \ rec.dropped
    BY <1>0, <2>1, <2>2, TaskLetsGo
  <2>4. Alone' /\ BusyLines' = BusyLines \ {rec.line} /\ rec.line \in BusyLines
    BY <1>0, <1>busy, <2>1, <2>2, TaskEnds
  <2>5. /\ rec.line \notin Lost /\ rec.line \notin Sent /\ rec.line \in 1 .. lines
        /\ rec.dropped \subseteq Folded
    BY <1>0, <1>fold, <2>2, <2>4 DEF OneLine
  <2>6. CASE queue' = Append(queue, rec) /\ UNCHANGED pending
    <3>1. /\ Separate(queue, 1 .. Len(queue))' /\ Carried' = Carried \cup rec.dropped
          /\ Queued' = Queued \cup {rec.line}
      <4>1. Carried \cap rec.dropped = {}
        BY <1>0, <2>5 DEF OneHand
      <4> QED BY <1>0, <2>2, <2>6, <4>1, QueueGrows
    <3>2. Sent' = Sent \cup {rec.line} /\ Lost' = Lost
      BY <1>host, <2>1, <2>3, <2>5, <2>6, <3>1 DEF Sent, Lost
    <3>3. OneHand'
      BY <1>0, <1>host, <2>1, <2>3, <2>5, <2>6, <3>1 DEF OneHand
    <3>4. OneLine'
      BY <1>0, <2>1, <2>4, <2>5, <3>2 DEF OneLine, Alone
    <3> QED BY <3>3, <3>4
  <2>7. CASE pending' = pending \cup rec.dropped \cup {rec.line} /\ UNCHANGED queue
    <3>1. Sent' = Sent /\ Lost' = Lost \cup {rec.line}
      BY <1>host, <1>queue, <2>1, <2>3, <2>5, <2>7 DEF Sent, Lost
    <3>2. OneHand'
      BY <1>0, <1>host, <1>queue, <2>1, <2>3, <2>5, <2>7 DEF OneHand, Lost
    <3>3. OneLine'
      BY <1>0, <2>1, <2>4, <2>5, <3>1 DEF OneLine, Alone
    <3> QED BY <3>2, <3>3
  <2> QED BY <2>1, <2>6, <2>7
<1> QED BY <1>1, <1>2, <1>3, <1>4, <1>5 DEF Emit, Finish

LEMMA OnceStepServe ==
    ASSUME TypeOK, OnceInv, NEW l \in Links, Serve(l) \/ WriteFails(l)
    PROVE  OneHand' /\ OneLine'
<1>0. /\ resp \in [Links -> RespState] /\ queue \in Seq(Record)
      /\ OneHand /\ OneLine /\ EmptyHands
      /\ Separate(resp, Links) /\ Separate(queue, 1 .. Len(queue))
  BY DEF TypeOK, LogTypeOK, HostTypeOK, OnceInv, OneHand, OneLine
<1>emit. ASSUME UNCHANGED emit
         PROVE  /\ Folded' = Folded /\ BusyLines' = BusyLines
                /\ Separate(emit, Tasks)' /\ Alone'
  BY <1>0, <1>emit DEF Folded, BusyLines, Busy, Separate, Alone, OneHand, OneLine
<1>queue. ASSUME UNCHANGED queue
          PROVE  /\ Carried' = Carried /\ Queued' = Queued
                 /\ Separate(queue, 1 .. Len(queue))'
  BY <1>0, <1>queue DEF Carried, Queued, Separate
<1>hold. resp[l].dropped \subseteq Dropped
  BY DEF Dropped
<1> DEFINE Got == {resp[k].line : k \in Handed}
<1>1. CASE ConsumeEvent(l)
  <2>1. PICK r : resp' = [resp EXCEPT ![l] = r] /\ r.dropped = {} /\ r.at # "record"
    <3> DEFINE r == [at |-> "event", event |-> Head(evtq), line |-> 0, dropped |-> {}]
    <3>1. r.dropped = {} /\ r.at # "record" /\ Poll.dropped = {} /\ Poll.at # "record"
      BY DEF Poll
    <3>2. resp' = [resp EXCEPT ![l] = r] \/ resp' = [resp EXCEPT ![l] = Poll]
      BY <1>1 DEF ConsumeEvent
    <3> HIDE DEF r
    <3> QED BY <3>1, <3>2
  <2>2. /\ resp[l].dropped = {}
        /\ UNCHANGED <<lines, emit, pending, queue, told, seen>>
    BY <1>0, <1>1 DEF ConsumeEvent, EmptyHands, logVars
  <2>3. Separate(resp, Links)' /\ Dropped' = Dropped /\ Got' \subseteq Got
    <3>1. (Dropped \ resp[l].dropped) \cap r.dropped = {}
      BY <2>1
    <3>2. /\ Separate(resp, Links)' /\ Got' \subseteq Got
          /\ Dropped' = (Dropped \ resp[l].dropped) \cup r.dropped
      BY <1>0, <2>1, <3>1, RespChanges
    <3> QED BY <2>1, <2>2, <3>2
  <2> HIDE DEF Got
  <2>4. Sent' \subseteq Sent /\ Lost' = Lost
    BY <1>emit, <1>queue, <2>2, <2>3 DEF Sent, Lost, Got
  <2>5. OneHand'
    BY <1>0, <1>emit, <1>queue, <2>2, <2>3 DEF OneHand
  <2>6. OneLine'
    BY <1>0, <1>emit, <2>2, <2>4 DEF OneLine, Alone
  <2> QED BY <2>5, <2>6
<1>2. CASE ConsumeLog(l)
  <2> DEFINE h == Head(queue)
             r == [at |-> "record", event |-> 0, line |-> h.line, dropped |-> h.dropped]
  <2>1. /\ \/ /\ queue # <<>> /\ queue' = Tail(queue)
              /\ resp' = [resp EXCEPT ![l] = r]
           \/ UNCHANGED queue /\ resp' = [resp EXCEPT ![l] = NoResp]
        /\ resp[l].dropped = {}
        /\ UNCHANGED <<lines, emit, pending, told, seen>>
    BY <1>0, <1>2 DEF ConsumeLog, EmptyHands
  <2>2. r.line = h.line /\ r.dropped = h.dropped
    OBVIOUS
  <2> HIDE DEF r
  <2>3. CASE queue # <<>> /\ queue' = Tail(queue) /\ resp' = [resp EXCEPT ![l] = r]
    <3>1. /\ Separate(queue, 1 .. Len(queue))' /\ Carried' = Carried \ h.dropped
          /\ h.dropped \subseteq Carried /\ Queued = Queued' \cup {h.line}
      BY <1>0, <2>3, QueueShrinks
    <3> HIDE DEF h
    <3>2. (Dropped \ resp[l].dropped) \cap r.dropped = {}
      BY <1>0, <2>2, <3>1 DEF OneHand
    <3>3. /\ Separate(resp, Links)' /\ Dropped' = Dropped \cup h.dropped
          /\ Got' \subseteq Got \cup {h.line}
      BY <1>0, <2>1, <2>2, <2>3, <3>2, RespChanges
    <3> HIDE DEF Got
    <3>4. Sent' \subseteq Sent /\ Lost' = Lost
      BY <1>emit, <2>1, <3>1, <3>3 DEF Sent, Lost, Got
    <3>5. OneHand'
      BY <1>0, <1>emit, <2>1, <3>1, <3>3 DEF OneHand
    <3>6. OneLine'
      BY <1>0, <1>emit, <2>1, <3>4 DEF OneLine, Alone
    <3> QED BY <3>5, <3>6
  <2>4. CASE UNCHANGED queue /\ resp' = [resp EXCEPT ![l] = NoResp]
    <3>1. Separate(resp, Links)' /\ Dropped' = Dropped /\ Got' \subseteq Got
      BY <1>0, <2>1, <2>4, LinkLetsGo
    <3> HIDE DEF Got
    <3>2. Sent' \subseteq Sent /\ Lost' = Lost
      BY <1>emit, <1>queue, <2>1, <2>4, <3>1 DEF Sent, Lost, Got
    <3>3. OneHand'
      BY <1>0, <1>emit, <1>queue, <2>1, <2>4, <3>1 DEF OneHand
    <3>4. OneLine'
      BY <1>0, <1>emit, <2>1, <3>2 DEF OneLine, Alone
    <3> QED BY <3>3, <3>4
  <2> QED BY <2>1, <2>3, <2>4
<1>3. CASE WriteResponse(l) \/ WriteFails(l)
  <2> DEFINE d == resp[l].dropped
  <2>1. /\ resp' = [resp EXCEPT ![l] = NoResp]
        /\ told' \in {told, told \cup d}
        /\ \/ seen' = seen
           \/ resp[l].at = "record" /\ seen' = seen \cup {resp[l].line}
        /\ UNCHANGED <<lines, emit, pending, queue>>
    BY <1>3 DEF WriteResponse, WriteFails, logVars
  <2>2. Separate(resp, Links)' /\ Dropped' = Dropped \ d /\ Got' \subseteq Got
    BY <1>0, <2>1, LinkLetsGo
  <2>3. seen' \subseteq seen \cup Got
    BY <2>1 DEF Handed
  <2>4. d \subseteq Dropped
    BY <1>hold
  <2> HIDE DEF d, Got
  <2>5. Sent' \subseteq Sent /\ Lost' \subseteq Lost
    BY <1>emit, <1>queue, <2>1, <2>2, <2>3, <2>4 DEF Sent, Lost, Got
  <2>6. OneHand'
    BY <1>0, <1>emit, <1>queue, <2>1, <2>2, <2>4 DEF OneHand
  <2>7. OneLine'
    BY <1>0, <1>emit, <2>1, <2>5 DEF OneLine, Alone
  <2> QED BY <2>6, <2>7
<1> QED BY <1>1, <1>2, <1>3 DEF Serve

LEMMA OnceStep == TypeOK /\ OnceInv /\ [Next]_vars => OnceInv'
<1> SUFFICES ASSUME TypeOK, OnceInv, [Next]_vars PROVE OneHand' /\ OneLine'
  BY HandsStep DEF OnceInv
<1>0. OneHand /\ OneLine
  BY DEF OnceInv
<1>same. ASSUME UNCHANGED <<emit, queue, resp, told, seen>>
         PROVE  /\ Folded' = Folded /\ Carried' = Carried /\ Dropped' = Dropped
                /\ BusyLines' = BusyLines /\ Sent' = Sent
                /\ Separate(emit, Tasks)' /\ Separate(queue, 1 .. Len(queue))'
                /\ Separate(resp, Links)' /\ Alone'
  BY <1>0, <1>same DEF Folded, Carried, Dropped, BusyLines, Busy, Sent, Queued,
     Handed, Separate, Alone, OneHand, OneLine
<1>1. ASSUME NEW t \in Tasks, Emit(t) \/ Finish(t) PROVE OneHand' /\ OneLine'
  BY <1>1, OnceStepEmit
<1>2. ASSUME NEW l \in Links, Serve(l) \/ WriteFails(l) PROVE OneHand' /\ OneLine'
  BY <1>2, OnceStepServe
<1>3. CASE EmitFromIsr
  <2>1. /\ EmitLine /\ pending' = pending \cup {NewLine}
        /\ UNCHANGED <<emit, queue, resp, told, seen>>
    BY <1>3 DEF EmitFromIsr, hostVars
  <2>2. NewLine \notin BusyLines \cup Sent \cup Lost /\ 1 .. lines' = (1 .. lines) \cup {NewLine}
    BY <1>0, <2>1, LineIsNew
  <2>3. Lost' = Lost \cup {NewLine}
    BY <1>same, <2>1 DEF Lost
  <2>4. OneHand'
    BY <1>0, <1>same, <2>1, <2>2 DEF OneHand, Lost
  <2>5. OneLine'
    BY <1>0, <1>same, <2>1, <2>2, <2>3 DEF OneLine, Alone
  <2> QED BY <2>4, <2>5
<1>4. CASE \/ Enable \/ PostEvent \/ Poster \/ BeginFlush \/ EndFlush
           \/ UNCHANGED vars
  <2>1. UNCHANGED <<lines, emit, pending, queue, resp, seen, told>>
    BY <1>4 DEF Enable, PostEvent, Poster, SendEvent, EvictOldest, SendAgain,
       BeginFlush, EndFlush, vars, logVars, hostVars
  <2>2. Lost' = Lost
    BY <1>same, <2>1 DEF Lost
  <2>3. OneHand'
    BY <1>0, <1>same, <2>1 DEF OneHand
  <2>4. OneLine'
    BY <1>0, <1>same, <2>1, <2>2 DEF OneLine, Alone
  <2> QED BY <2>3, <2>4
<1> QED BY <1>1, <1>2, <1>3, <1>4 DEF Next

LEMMA OnceInit == Init => OnceInv
<1> SUFFICES ASSUME Init PROVE OneHand /\ OneLine
  BY HandsInit DEF OnceInv
<1>1. /\ Folded = {} /\ Carried = {} /\ Dropped = {} /\ Busy = {} /\ Handed = {}
      /\ Queued = {}
  BY DEF Init, Folded, Carried, DroppedOf, Dropped, Busy, Handed, Queued, LinesOf,
     Quiet, NoResp
<1>2. BusyLines = {} /\ Sent = {} /\ Lost = {}
  BY <1>1 DEF Init, BusyLines, Sent, Lost
<1>3. OneHand
  BY <1>1 DEF Init, OneHand, Separate, Quiet, NoResp
<1> QED BY <1>1, <1>2, <1>3 DEF OneLine

(* The counts the host adds up never count a line twice, nor one that it    *)
(* also receives, however the tasks' takings and givings back interleave.   *)
THEOREM NoLineCountedTwice == Spec => []CountedOnce
<1> DEFINE IInv == TypeOK /\ OnceInv
<1>1. Init => IInv
  BY TypeInit, OnceInit
<1>2. IInv /\ [Next]_vars => IInv'
  BY TypeStep, OnceStep
<1>3. ASSUME IInv PROVE CountedOnce
  <2>0. OneHand /\ OneLine /\ EmptyHands
    BY <1>3 DEF OnceInv
  <2>1. Emitting \subseteq BusyLines \cup {0}
    BY <2>0 DEF Emitting, BusyLines, Busy, EmptyHands
  <2>2. 0 \notin Lost
    <3>1. 0 \notin 1 .. lines
      BY <1>3 DEF TypeOK, LogTypeOK
    <3> QED BY <2>0, <3>1 DEF OneLine
  <2>3. (pending \cup Folded \cup Carried \cup told) \cap (Queued \cup Emitting \cup seen) = {}
    BY <2>0, <2>1, <2>2 DEF OneLine, Lost, Sent
  <2> DEFINE L == <<pending, Folded, Carried, Dropped, told>>
  <2>4. \A i, j \in 1 .. 5 : i # j => L[i] \cap L[j] = {}
    BY <2>0 DEF OneHand
  <2> QED BY <2>0, <2>3, <2>4 DEF CountedOnce, OneHand, Separate, Dropped
<1> QED BY <1>1, <1>2, <1>3, PTL DEF Spec

-----------------------------------------------------------------------------
(* NewestInOrder, of a UI whose posts are numbered.  An event is past when  *)
(* every event that is queued or on its way to the queue is newer.          *)
Posting == post.at # "idle"

Past(n) ==
    /\ n <= events
    /\ \A i \in 1 .. Len(evtq) : n < evtq[i]
    /\ Posting => n < post.event

Increasing(q) == \A i, j \in 1 .. Len(q) : i < j => q[i] < q[j]

(* There is room when the poster sends again: it is alone, and evicts.      *)
QueueInv ==
    /\ Increasing(evtq)
    /\ \A i \in 1 .. Len(evtq) : evtq[i] <= events /\ (Posting => evtq[i] < post.event)
    /\ post.event <= events
    /\ post.at = "again" => Len(evtq) < EvtDepth
    /\ \A e \in evicted : Past(e)

(* A link shows its events in order, the one it is about to write last.     *)
LinkInv ==
    \A l \in Links :
        /\ Increasing(shown[l])
        /\ \A i \in 1 .. Len(shown[l]) : Past(shown[l][i])
        /\ resp[l].at = "event" =>
              /\ Past(resp[l].event)
              /\ \A i \in 1 .. Len(shown[l]) : shown[l][i] < resp[l].event

OrderInv == QueueInv /\ LinkInv

LEMMA AppendPlaces ==
    ASSUME NEW q \in Seq(Nat), NEW n \in Nat
    PROVE  /\ Append(q, n) \in Seq(Nat) /\ Len(q) \in Nat
           /\ Len(Append(q, n)) = Len(q) + 1
           /\ \A i \in 1 .. Len(q) : Append(q, n)[i] = q[i]
           /\ Append(q, n)[Len(q) + 1] = n
           /\ \A i \in 1 .. Len(Append(q, n)) : i \in 1 .. Len(q) \/ i = Len(q) + 1
OBVIOUS

LEMMA TailPlaces ==
    ASSUME NEW q \in Seq(Nat), q # <<>>
    PROVE  /\ Tail(q) \in Seq(Nat) /\ Len(q) \in Nat \ {0} /\ Head(q) = q[1]
           /\ Len(Tail(q)) = Len(q) - 1
           /\ \A i \in 1 .. Len(Tail(q)) : i + 1 \in 2 .. Len(q) /\ Tail(q)[i] = q[i + 1]
OBVIOUS

LEMMA EventTypes ==
    ASSUME TypeOK
    PROVE  /\ events \in Nat /\ evtq \in Seq(Nat) /\ Len(evtq) <= EvtDepth
           /\ Len(evtq) \in Nat /\ post.event \in Nat /\ evicted \subseteq Nat
           /\ \A i \in 1 .. Len(evtq) : evtq[i] \in Nat
           /\ \A l \in Links : shown[l] \in Seq(Nat) /\ resp[l].event \in Nat
           /\ \A l \in Links : \A i \in 1 .. Len(shown[l]) : shown[l][i] \in Nat
<1>1. /\ events \in Nat /\ evtq \in Seq(Nat) /\ Len(evtq) <= EvtDepth
      /\ post.event \in Nat /\ evicted \subseteq Nat
  BY DEF TypeOK, EvtTypeOK
<1>2. \A l \in Links : shown[l] \in Seq(Nat) /\ resp[l].event \in Nat
  BY DEF TypeOK, HostTypeOK, RespState
<1>3. Len(evtq) \in Nat /\ \A i \in 1 .. Len(evtq) : evtq[i] \in Nat
  BY <1>1
<1>4. \A l \in Links : \A i \in 1 .. Len(shown[l]) : shown[l][i] \in Nat
  BY <1>2
<1> QED BY <1>1, <1>2, <1>3, <1>4

LEMMA IncreasingGrows ==
    ASSUME NEW q \in Seq(Nat), Increasing(q), NEW n \in Nat,
           \A i \in 1 .. Len(q) : q[i] < n
    PROVE  Increasing(Append(q, n))
<1> DEFINE a == Append(q, n)
<1>1. /\ Len(q) \in Nat /\ \A i \in 1 .. Len(q) : a[i] = q[i]
      /\ a[Len(q) + 1] = n
      /\ \A i \in 1 .. Len(a) : i \in 1 .. Len(q) \/ i = Len(q) + 1
  BY AppendPlaces
<1> HIDE DEF a
<1> SUFFICES ASSUME NEW i \in 1 .. Len(a), NEW j \in 1 .. Len(a), i < j
             PROVE  a[i] < a[j]
  BY DEF Increasing, a
<1>2. i \in 1 .. Len(q)
  BY <1>1
<1>3. CASE j \in 1 .. Len(q)
  BY <1>1, <1>2, <1>3 DEF Increasing
<1>4. CASE j = Len(q) + 1
  BY <1>1, <1>2, <1>4
<1> QED BY <1>1, <1>3, <1>4

(* A step posts an event, moves one into the queue or takes the oldest; and *)
(* what is past stays past.                                                 *)
LEMMA QueueStep ==
    ASSUME TypeOK, QueueInv, [Next]_vars, BusyUI = FALSE
    PROVE  /\ QueueInv'
           /\ \A n \in Nat : Past(n) => Past(n)'
           /\ evtq' = Tail(evtq) /\ evtq # <<>> =>
                 \A n \in Nat : n = Head(evtq) => Past(n)'
<1> DEFINE Taken == \A n \in Nat : n = Head(evtq) => Past(n)'
           Stays == \A n \in Nat : Past(n) => Past(n)'
           Goal == /\ QueueInv' /\ Stays
                   /\ evtq' = Tail(evtq) /\ evtq # <<>> => Taken
<1>0. /\ events \in Nat /\ evtq \in Seq(Nat) /\ Len(evtq) \in Nat
      /\ post.event \in Nat /\ evicted \subseteq Nat
      /\ \A i \in 1 .. Len(evtq) : evtq[i] \in Nat
  BY EventTypes
<1>posted. ASSUME NEW place, Post(place)
           PROVE  post'.at = place /\ post'.event = post.event
  BY <1>posted DEF Post
(* Nothing is taken from the queue that nothing is taken from.              *)
<1>whole. ASSUME evtq' = evtq \/ \E n \in Nat : evtq' = Append(evtq, n)
          PROVE  ~(evtq' = Tail(evtq) /\ evtq # <<>>)
  <2>1. \A n \in Nat : Len(Append(evtq, n)) = Len(evtq) + 1
    BY <1>0, AppendPlaces
  <2>2. evtq # <<>> => Len(Tail(evtq)) = Len(evtq) - 1
    BY <1>0, TailPlaces
  <2> QED BY <1>0, <1>whole, <2>1, <2>2
<1>tail. ASSUME evtq # <<>>, evtq' = Tail(evtq), events' = events,
                post'.event = post.event, Posting' = Posting
         PROVE  /\ Increasing(evtq)'
                /\ \A i \in 1 .. Len(evtq') :
                      evtq'[i] <= events /\ (Posting => evtq'[i] < post.event)
                /\ Len(evtq') < EvtDepth
                /\ Stays /\ Taken
  <2>1. /\ Len(evtq) \in Nat \ {0} /\ Head(evtq) = evtq[1]
        /\ Len(evtq') = Len(evtq) - 1
        /\ \A i \in 1 .. Len(evtq') : i + 1 \in 2 .. Len(evtq) /\ evtq'[i] = evtq[i + 1]
    BY <1>0, <1>tail, TailPlaces
  <2>2. 1 \in 1 .. Len(evtq) /\ \A i \in 1 .. Len(evtq') : i + 1 \in 1 .. Len(evtq)
    BY <2>1
  <2>3. Increasing(evtq)'
    BY <2>1, <2>2 DEF QueueInv, Increasing
  <2>4. \A i \in 1 .. Len(evtq') :
           evtq'[i] <= events /\ (Posting => evtq'[i] < post.event)
    BY <2>1, <2>2 DEF QueueInv
  <2>5. Len(evtq') < EvtDepth
    BY <1>0, <2>1, EventTypes
  <2>6. Stays
    BY <1>tail, <2>1, <2>2 DEF Past
  <2>7. \A i \in 1 .. Len(evtq') : evtq[1] < evtq'[i]
    BY <2>1, <2>2 DEF QueueInv, Increasing
  <2>8. evtq[1] <= events /\ (Posting => evtq[1] < post.event)
    BY <2>2 DEF QueueInv
  <2> QED BY <1>tail, <2>1, <2>3, <2>4, <2>5, <2>6, <2>7, <2>8 DEF Past
<1>append. ASSUME Posting, evtq' = Append(evtq, post.event), events' = events,
                  post'.event = post.event, ~Posting'
           PROVE  /\ Increasing(evtq)' /\ Stays
                  /\ \A i \in 1 .. Len(evtq') : evtq'[i] <= events
  <2>1. \A i \in 1 .. Len(evtq) : evtq[i] < post.event /\ evtq[i] <= events
    BY <1>append DEF QueueInv
  <2>2. Increasing(Append(evtq, post.event))
    BY <1>0, <2>1, IncreasingGrows DEF QueueInv
  <2>3. /\ \A i \in 1 .. Len(evtq) : evtq'[i] = evtq[i]
        /\ evtq'[Len(evtq) + 1] = post.event
        /\ \A i \in 1 .. Len(evtq') : i \in 1 .. Len(evtq) \/ i = Len(evtq) + 1
    BY <1>0, <1>append, AppendPlaces
  <2>4. \A i \in 1 .. Len(evtq') : evtq'[i] <= events
    BY <2>1, <2>3 DEF QueueInv
  <2>5. Stays
    BY <1>append, <2>3 DEF Past
  <2> QED BY <1>append, <2>2, <2>4, <2>5 DEF Increasing
<1>1. CASE PostEvent
  <2>1. /\ ~Posting /\ events' = events + 1 /\ post'.event = events + 1
        /\ post'.at = "send" /\ UNCHANGED <<evtq, evicted>>
    BY <1>1 DEF PostEvent, Posting
  <2>2. Stays
    BY <1>0, <2>1 DEF Past, Posting
  <2>3. QueueInv'
    BY <1>0, <2>1, <2>2 DEF QueueInv, Posting, Increasing
  <2> QED BY <1>whole, <2>1, <2>2, <2>3
<1>2. CASE SendEvent
  <2>1. CASE evtq' = Append(evtq, post.event) /\ Post("idle")
    <3>1. /\ Posting /\ ~Posting' /\ events' = events /\ post'.event = post.event
          /\ UNCHANGED evicted /\ post'.at = "idle"
      BY <1>2, <1>posted, <2>1 DEF SendEvent, Posting
    <3>2. QueueInv'
      BY <1>0, <1>append, <2>1, <3>1 DEF QueueInv
    <3> QED BY <1>0, <1>whole, <1>append, <2>1, <3>1, <3>2
  <2>2. CASE UNCHANGED evtq /\ Post("evict")
    <3>1. /\ Posting /\ Posting' /\ events' = events /\ post'.event = post.event
          /\ UNCHANGED evicted /\ post'.at = "evict"
      BY <1>2, <1>posted, <2>2 DEF SendEvent, Posting
    <3>2. Stays
      BY <2>2, <3>1 DEF Past
    <3>3. QueueInv'
      BY <1>0, <2>2, <3>1, <3>2 DEF QueueInv, Increasing
    <3> QED BY <1>whole, <2>2, <3>2, <3>3
  <2> QED BY <1>2, <2>1, <2>2 DEF SendEvent
<1>3. CASE EvictOldest
  <2>1. /\ Posting /\ Posting' /\ events' = events /\ post'.event = post.event
        /\ post'.at = "again"
    BY <1>3, <1>posted DEF EvictOldest, Posting
  <2>2. CASE evtq # <<>> /\ evtq' = Tail(evtq) /\ evicted' = evicted \cup {Head(evtq)}
    <3>0. Head(evtq) \in Nat /\ Stays /\ Taken
      BY <1>0, <1>tail, <2>1, <2>2
    <3>1. ASSUME NEW e \in evicted' PROVE Past(e)'
      BY <1>0, <2>2, <3>0 DEF QueueInv
    <3>2. QueueInv'
      BY <1>tail, <2>1, <2>2, <3>1 DEF QueueInv
    <3> QED BY <1>tail, <2>1, <2>2, <3>2
  <2>3. CASE evtq = <<>> /\ UNCHANGED <<evtq, evicted>>
    <3>1. Stays
      BY <2>1, <2>3 DEF Past
    <3>2. Len(evtq') = 0
      BY <2>3
    <3>3. QueueInv'
      BY <1>0, <2>1, <2>3, <3>1, <3>2 DEF QueueInv, Increasing
    <3> QED BY <2>3, <3>1, <3>3
  <2> QED BY <1>3, <2>2, <2>3 DEF EvictOldest
<1>4. CASE SendAgain
  <2>1. /\ Posting /\ ~Posting' /\ events' = events /\ post'.event = post.event
        /\ post'.at = "idle" /\ Len(evtq) < EvtDepth
    BY <1>4, <1>posted DEF SendAgain, Posting, QueueInv
  <2>2. evtq' = Append(evtq, post.event) /\ UNCHANGED evicted
    BY <1>0, <1>4, <2>1 DEF SendAgain
  <2>3. QueueInv'
    BY <1>0, <1>append, <2>1, <2>2 DEF QueueInv
  <2> QED BY <1>0, <1>whole, <1>append, <2>1, <2>2, <2>3
<1>5. ASSUME NEW l \in Links, ConsumeEvent(l) PROVE Goal
  <2>1. UNCHANGED <<events, post, evicted>> /\ Posting' = Posting
    BY <1>5 DEF ConsumeEvent, Posting
  <2>2. CASE evtq # <<>> /\ evtq' = Tail(evtq)
    <3>1. QueueInv'
      BY <1>0, <1>tail, <2>1, <2>2 DEF QueueInv
    <3> QED BY <1>tail, <2>1, <2>2, <3>1
  <2>3. CASE UNCHANGED evtq
    <3>1. Stays
      BY <2>1, <2>3 DEF Past
    <3>2. QueueInv'
      BY <1>0, <2>1, <2>3, <3>1 DEF QueueInv, Increasing
    <3> QED BY <1>whole, <2>3, <3>1, <3>2
  <2> QED BY <1>5, <2>2, <2>3 DEF ConsumeEvent
<1>6. CASE UNCHANGED evtVars
  <2>1. UNCHANGED <<events, post, evtq, evicted>> /\ Posting' = Posting
    BY <1>6 DEF evtVars, Posting
  <2>2. Stays
    BY <2>1 DEF Past
  <2>3. QueueInv'
    BY <1>0, <2>1, <2>2 DEF QueueInv, Increasing
  <2> QED BY <1>whole, <2>1, <2>2, <2>3
<1>7. \/ PostEvent \/ SendEvent \/ EvictOldest \/ SendAgain
      \/ \E l \in Links : ConsumeEvent(l)
      \/ UNCHANGED evtVars
  BY DEF Next, Emit, Finish, Poster, Serve, Enable, EmitFromIsr, BeginEmit, EmitNested,
     FormatFails, Filter, TakeDropped, Enqueue, ConsumeLog, WriteResponse, WriteFails,
     BeginFlush, EndFlush, vars, evtVars
<1> QED BY <1>1, <1>2, <1>3, <1>4, <1>5, <1>6, <1>7

(* A link takes the oldest event, newer than those it has shown, and shows  *)
(* or loses it before it takes another.                                     *)
LEMMA LinkStep ==
    ASSUME TypeOK, OrderInv, [Next]_vars, BusyUI = FALSE
    PROVE  LinkInv'
<1>0. /\ resp \in [Links -> RespState] /\ shown \in [Links -> Seq(Nat)]
      /\ evtq \in Seq(Nat)
      /\ \A l \in Links : shown[l] \in Seq(Nat) /\ resp[l].event \in Nat
      /\ \A l \in Links : \A i \in 1 .. Len(shown[l]) : shown[l][i] \in Nat
  BY EventTypes DEF TypeOK, HostTypeOK
<1>1. /\ \A n \in Nat : Past(n) => Past(n)'
      /\ evtq' = Tail(evtq) /\ evtq # <<>> =>
            \A n \in Nat : n = Head(evtq) => Past(n)'
  BY QueueStep DEF OrderInv
<1> DEFINE Fine(k) == /\ Increasing(shown'[k])
                      /\ \A i \in 1 .. Len(shown'[k]) : Past(shown[k][i])'
                      /\ resp'[k].at = "event" =>
                            /\ Past(resp[k].event)'
                            /\ \A i \in 1 .. Len(shown'[k]) :
                                  shown'[k][i] < resp'[k].event
<1> SUFFICES ASSUME NEW k \in Links PROVE Fine(k)
  BY DEF LinkInv, Increasing
<1>2. /\ Increasing(shown[k])
      /\ \A i \in 1 .. Len(shown[k]) : Past(shown[k][i])
      /\ resp[k].at = "event" =>
            /\ Past(resp[k].event)
            /\ \A i \in 1 .. Len(shown[k]) : shown[k][i] < resp[k].event
  BY DEF OrderInv, LinkInv
(* The shown ones are kept, and the response is the same or carries none.   *)
<1>3. ASSUME shown'[k] = shown[k], resp'[k] = resp[k] \/ resp'[k].at # "event"
      PROVE  Fine(k)
  BY <1>0, <1>1, <1>2, <1>3
<1>4. ASSUME NEW l \in Links, ConsumeEvent(l) PROVE Fine(k)
  <2> DEFINE r == [at |-> "event", event |-> Head(evtq), line |-> 0, dropped |-> {}]
  <2>1. /\ UNCHANGED shown
        /\ \/ evtq # <<>> /\ resp' = [resp EXCEPT ![l] = r] /\ evtq' = Tail(evtq)
           \/ resp' = [resp EXCEPT ![l] = Poll]
    BY <1>4 DEF ConsumeEvent
  <2>2. CASE k # l \/ resp' = [resp EXCEPT ![l] = Poll]
    <3>1. resp'[k] = resp[k] \/ resp'[k].at # "event"
      BY <1>0, <2>1, <2>2 DEF Poll
    <3> QED BY <1>3, <2>1, <3>1
  <2>3. CASE /\ k = l /\ evtq # <<>> /\ resp' = [resp EXCEPT ![l] = r]
             /\ evtq' = Tail(evtq)
    <3>1. resp'[k].event = Head(evtq) /\ Head(evtq) \in Nat
      BY <1>0, <2>3, TailPlaces
    <3>2. Past(resp[k].event)'
      BY <1>1, <2>3, <3>1
    <3>3. 1 \in 1 .. Len(evtq) /\ Head(evtq) = evtq[1]
      BY <1>0, <2>3, TailPlaces
    <3>4. \A i \in 1 .. Len(shown[k]) : shown[k][i] < evtq[1]
      BY <1>2, <3>3 DEF Past
    <3> QED BY <1>0, <1>1, <1>2, <2>1, <3>1, <3>2, <3>3, <3>4
  <2> QED BY <2>1, <2>2, <2>3
<1>5. ASSUME NEW l \in Links, WriteResponse(l) PROVE Fine(k)
  <2>0. resp' = [resp EXCEPT ![l] = NoResp] /\ UNCHANGED evtVars
    BY <1>5 DEF WriteResponse
  <2>1. CASE k # l \/ UNCHANGED shown
    <3>1. resp'[k] = resp[k] \/ resp'[k].at # "event"
      BY <1>0, <2>0 DEF NoResp
    <3>2. shown'[k] = shown[k]
      BY <1>0, <1>5, <2>1 DEF WriteResponse
    <3> QED BY <1>3, <3>1, <3>2
  <2>2. CASE k = l /\ ~UNCHANGED shown
    <3>1. /\ resp[k].at = "event"
          /\ shown' = [shown EXCEPT ![l] = Append(@, resp[l].event)]
      BY <1>5, <2>2 DEF WriteResponse
    <3> DEFINE n == resp[k].event
    <3>2. shown'[k] = Append(shown[k], n) /\ n \in Nat
      BY <1>0, <2>2, <3>1
    <3>3. Past(n) /\ \A i \in 1 .. Len(shown[k]) : shown[k][i] < n
      BY <1>2, <3>1
    <3>4. resp'[k].at # "event"
      BY <1>0, <2>0, <2>2 DEF NoResp
    <3>5. shown[k] \in Seq(Nat) /\ \A i \in 1 .. Len(shown[k]) : shown[k][i] \in Nat
      BY <1>0
    <3> HIDE DEF n
    <3>6. Increasing(shown'[k])
      BY <1>2, <3>2, <3>3, <3>5, IncreasingGrows
    <3>7. ASSUME NEW i \in 1 .. Len(shown'[k]) PROVE Past(shown[k][i])'
      <4>1. /\ \A j \in 1 .. Len(shown[k]) : shown'[k][j] = shown[k][j]
            /\ shown'[k][Len(shown[k]) + 1] = n
            /\ i \in 1 .. Len(shown[k]) \/ i = Len(shown[k]) + 1
        BY <3>2, <3>5, AppendPlaces
      <4>2. shown'[k][i] \in Nat /\ Past(shown'[k][i])
        BY <1>2, <3>2, <3>3, <3>5, <4>1
      <4> QED BY <1>1, <4>2
    <3> QED BY <3>4, <3>6, <3>7
  <2> QED BY <2>1, <2>2
<1>6. ASSUME NEW l \in Links, ConsumeLog(l) \/ WriteFails(l) PROVE Fine(k)
  <2>1. \/ resp' = [resp EXCEPT ![l] = NoResp]
        \/ \E x, y : resp' = [resp EXCEPT ![l] =
                                 [at |-> "record", event |-> 0, line |-> x, dropped |-> y]]
    BY <1>6 DEF ConsumeLog, WriteFails
  <2>2. resp'[k] = resp[k] \/ resp'[k].at # "event"
    BY <1>0, <2>1 DEF NoResp
  <2>3. shown' = shown
    BY <1>6 DEF ConsumeLog, WriteFails
  <2> QED BY <1>3, <2>2, <2>3
<1>7. CASE UNCHANGED <<shown, resp>>
  BY <1>3, <1>7
<1>8. \/ UNCHANGED <<shown, resp>>
      \/ \E l \in Links : Serve(l) \/ WriteFails(l)
  BY DEF Next, Emit, Finish, Poster, Enable, EmitFromIsr, BeginEmit, EmitNested,
     FormatFails, Filter, TakeDropped, Enqueue, PostEvent, SendEvent, EvictOldest,
     SendAgain, BeginFlush, EndFlush, vars, hostVars
<1> QED BY <1>4, <1>5, <1>6, <1>7, <1>8 DEF Serve

(* While posts are numbered - BusyUI abstracts the number of an endless UI  *)
(* away - the events of one link arrive in order, none twice, and those     *)
(* that were evicted are older than all that are queued: though send, evict *)
(* and send again are three steps, which other links' polls come between.   *)
THEOREM NewestDelivered ==
    ASSUME BusyUI = FALSE PROVE Spec => []NewestInOrder
<1> DEFINE IInv == TypeOK /\ OrderInv
<1>1. Init => IInv
  BY TypeInit DEF Init, OrderInv, QueueInv, LinkInv, Increasing, NoResp
<1>2. IInv /\ [Next]_vars => IInv'
  BY TypeStep, QueueStep, LinkStep DEF OrderInv
<1>3. ASSUME IInv PROVE NewestInOrder
  <2>1. OldestEvicted
    BY <1>3 DEF OrderInv, QueueInv, Past, OldestEvicted
  <2>2. EventsInOrder
    BY <1>3 DEF OrderInv, LinkInv, Increasing, EventsInOrder
  <2> QED BY <2>1, <2>2 DEF NewestInOrder
<1> QED BY <1>1, <1>2, <1>3, PTL DEF Spec
=============================================================================
