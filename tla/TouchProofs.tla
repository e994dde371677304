----------------------------- MODULE TouchProofs -----------------------------
(***************************************************************************)
(* What a touch sets off, for any values of the constants: the reports of  *)
(* HidOutput, then the wakes of Backlight.                                 *)
(***************************************************************************)
EXTENDS HidOutput, Backlight, TLAPS

(* What is pressed in s is released later in s or, if h, when a hold ends.  *)
Covered(s, h) ==
    \A i \in DOMAIN s : Presses(s[i]) =>
        \/ \E j \in DOMAIN s : j > i /\ Releases(s[j], s[i].to)
        \/ h /\ ReleasesIn(OnHoldRelease, s[i].to)

(* A release that is still to be sent.                                      *)
Coming(d) ==
    \/ \E t \in Tasks : ReleasesIn(hid[t].calls, d)
    \/ \E i \in DOMAIN queue : ReleasesIn(queue[i], d)
    \/ held /\ ReleasesIn(OnHoldRelease, d)

Down(d) == computer[d] # {} \/ (endpoint.to = d /\ endpoint.down # {})

(* The trackpad: a hold that is recognised has its finger down.             *)
TouchSense ==
    /\ fingers <= most
    /\ held => ~cancelled /\ fingers > 0

(* Where a task is in a call for the mouse, its buttons already taken.      *)
StageSense ==
    \A t \in Tasks : hid[t].calls # <<>> =>
        /\ hid[t].at = "buttons" => First(t).to = "mouse"
        /\ hid[t].at = "send" /\ First(t).to = "mouse" /\ First(t).does = "set"
              => hid[t].mask = First(t).down

ListSense ==
    /\ Covered(hid["macros"].calls, FALSE)
    /\ Covered(hid["lvgl"].calls, held)
    /\ \A i \in DOMAIN queue : Covered(queue[i], FALSE)

ButtonSense == buttons # {} => Coming("mouse")
DownSense == \A d \in Devices : Down(d) => Coming(d) \/ endpoint = [to |-> d, down |-> {}]

HidInv ==
    /\ TypeOK /\ TouchSense /\ StageSense /\ ListSense
    /\ ~mishap => ButtonSense /\ DownSense

-----------------------------------------------------------------------------
(* Calls and lists of calls.                                                *)
LEMMA CallFacts ==
    /\ \A c \in Call : /\ c.to \in Devices /\ c.down \in SUBSET Controls
                       /\ c.does \in {"set", "keep"}
                       /\ c.does = "keep" => c.to = "mouse"
    /\ Pointer \in Call
BY DEF Call, Pointer, Devices

LEMMA ListFacts ==
    ASSUME NEW s \in List, s # <<>>
    PROVE  /\ Head(s) \in Call /\ Tail(s) \in List
           /\ Len(Tail(s)) = Len(s) - 1 /\ Len(s) \in Nat \ {0}
           /\ Head(s) = s[1] /\ 1 \in DOMAIN s
           /\ \A i \in DOMAIN Tail(s) : i + 1 \in DOMAIN s /\ Tail(s)[i] = s[i + 1]
           /\ \A i \in DOMAIN s : i # 1 => i - 1 \in DOMAIN Tail(s)
BY DEF List

LEMMA ElementFacts ==
    ASSUME NEW s \in List
    PROVE  /\ \A i \in DOMAIN s : s[i] \in Call
           /\ DOMAIN s \subseteq Nat
BY DEF List

LEMMA EmptyList == <<>> \in List /\ \A h : Covered(<<>>, h)
BY DEF List, Covered

LEMMA BalancedIsCovered ==
    ASSUME NEW s, Balanced(s)
    PROVE  \A h : Covered(s, h)
BY DEF Balanced, Covered

(* A list loses its first call: the rest is covered as before, and loses no *)
(* release but the one that is sent.                                        *)
LEMMA CoveredTail ==
    ASSUME NEW s \in List, s # <<>>, NEW h \in BOOLEAN, Covered(s, h)
    PROVE  Covered(Tail(s), h)
<1> SUFFICES ASSUME NEW i \in DOMAIN Tail(s), Presses(Tail(s)[i]),
                    ~(h /\ ReleasesIn(OnHoldRelease, Tail(s)[i].to))
             PROVE  \E j \in DOMAIN Tail(s) : j > i /\ Releases(Tail(s)[j], Tail(s)[i].to)
  BY DEF Covered
<1>1. i \in Nat /\ i + 1 \in DOMAIN s /\ Tail(s)[i] = s[i + 1]
  BY ListFacts, ElementFacts
<1>2. PICK j \in DOMAIN s : j > i + 1 /\ Releases(s[j], s[i + 1].to)
  BY <1>1 DEF Covered
<1>3. j \in Nat /\ j - 1 \in DOMAIN Tail(s) /\ j - 1 > i
  BY <1>1, <1>2, ListFacts, ElementFacts
<1>4. Tail(s)[j - 1] = s[j]
  BY <1>3, ListFacts
<1> QED BY <1>1, <1>2, <1>3, <1>4

LEMMA ReleasesTail ==
    ASSUME NEW s \in List, s # <<>>, NEW d, ReleasesIn(s, d), ~Releases(Head(s), d)
    PROVE  ReleasesIn(Tail(s), d)
<1>1. PICK i \in DOMAIN s : Releases(s[i], d)
  BY DEF ReleasesIn
<1>2. i \in Nat /\ i # 1 /\ i - 1 \in DOMAIN Tail(s)
  BY <1>1, ListFacts, ElementFacts
<1>3. Tail(s)[i - 1] = s[i]
  BY <1>2, ListFacts
<1> QED BY <1>1, <1>2, <1>3 DEF ReleasesIn

LEMMA CoveredHead ==
    ASSUME NEW s \in List, s # <<>>, NEW h \in BOOLEAN, Covered(s, h), Presses(Head(s))
    PROVE  \/ ReleasesIn(Tail(s), Head(s).to)
           \/ h /\ ReleasesIn(OnHoldRelease, Head(s).to)
<1> SUFFICES ASSUME ~(h /\ ReleasesIn(OnHoldRelease, Head(s).to))
             PROVE  ReleasesIn(Tail(s), Head(s).to)
  OBVIOUS
<1>1. Head(s) = s[1] /\ 1 \in DOMAIN s
  BY ListFacts
<1>2. PICK j \in DOMAIN s : j > 1 /\ Releases(s[j], s[1].to)
  BY <1>1 DEF Covered
<1>3. j \in Nat /\ j - 1 \in DOMAIN Tail(s)
  BY <1>2, ListFacts, ElementFacts
<1>4. Tail(s)[j - 1] = s[j]
  BY <1>3, ListFacts
<1> QED BY <1>1, <1>2, <1>3, <1>4 DEF ReleasesIn

(* The calls of a hold follow those of a move.                              *)
LEMMA MoveThenHold ==
    ASSUME NEW mac \in List, Balanced(mac), HidAssumption
    PROVE  /\ mac \o OnHold \in List
           /\ Covered(mac \o OnHold, TRUE)
<1>1. /\ OnHold \in List
      /\ \A i \in DOMAIN OnHold : Presses(OnHold[i]) => ReleasesIn(OnHoldRelease, OnHold[i].to)
  BY DEF HidAssumption
<1>2. mac \o OnHold \in List
  BY <1>1 DEF List
<1>3. ASSUME NEW i \in DOMAIN (mac \o OnHold), Presses((mac \o OnHold)[i])
      PROVE  \/ \E j \in DOMAIN (mac \o OnHold) :
                   j > i /\ Releases((mac \o OnHold)[j], (mac \o OnHold)[i].to)
             \/ ReleasesIn(OnHoldRelease, (mac \o OnHold)[i].to)
  <2>1. CASE i \in DOMAIN mac
    <3>1. (mac \o OnHold)[i] = mac[i]
      BY <2>1, <1>1 DEF List
    <3>2. PICK j \in DOMAIN mac : j > i /\ Releases(mac[j], mac[i].to)
      BY <2>1, <3>1, <1>3 DEF Balanced
    <3>3. j \in DOMAIN (mac \o OnHold) /\ (mac \o OnHold)[j] = mac[j]
      BY <3>2, <1>1 DEF List
    <3> QED BY <3>1, <3>2, <3>3
  <2>2. CASE i \notin DOMAIN mac
    <3>1. i - Len(mac) \in DOMAIN OnHold /\ (mac \o OnHold)[i] = OnHold[i - Len(mac)]
      BY <2>2, <1>1 DEF List
    <3> QED BY <3>1, <1>1, <1>3
  <2> QED BY <2>1, <2>2
<1> QED BY <1>2, <1>3 DEF Covered

-----------------------------------------------------------------------------
(* The steps of a call.                                                     *)
HidTyped == hid \in [Tasks -> [calls : List, at : Stages, mask : SUBSET Controls]]

LEMMA SkipFacts ==
    ASSUME HidTyped, NEW t \in Tasks, NEW calls \in List, SkipTo(t, calls)
    PROVE  /\ HidTyped'
           /\ hid'[t].calls = calls /\ hid'[t].at = "wait"
           /\ \A u \in Tasks \ {t} : hid'[u] = hid[u]
<1>1. Calls(calls) \in [calls : List, at : Stages, mask : SUBSET Controls]
  BY DEF Calls, Stages
<1>2. hid' = [hid EXCEPT ![t] = Calls(calls)]
  BY DEF SkipTo
<1>3. hid'[t] = Calls(calls) /\ \A u \in Tasks \ {t} : hid'[u] = hid[u]
  BY <1>2 DEF HidTyped
<1>4. HidTyped'
  BY <1>1, <1>2 DEF HidTyped
<1> QED BY <1>3, <1>4 DEF Calls

LEMMA GoFacts ==
    ASSUME HidTyped, NEW t \in Tasks, NEW stage \in Stages,
           NEW mask \in SUBSET Controls, GoTo(t, stage, mask)
    PROVE  /\ HidTyped'
           /\ hid'[t].at = stage /\ hid'[t].mask = mask
           /\ \A u \in Tasks : hid'[u].calls = hid[u].calls
           /\ \A u \in Tasks \ {t} : hid'[u] = hid[u]
<1>1. hid' = [hid EXCEPT ![t] = [calls |-> hid[t].calls, at |-> stage, mask |-> mask]]
  BY DEF GoTo
<1>2. [calls |-> hid[t].calls, at |-> stage, mask |-> mask]
         \in [calls : List, at : Stages, mask : SUBSET Controls]
  BY DEF HidTyped
<1>3. HidTyped'
  BY <1>1, <1>2 DEF HidTyped
<1>4. /\ hid'[t] = [calls |-> hid[t].calls, at |-> stage, mask |-> mask]
      /\ \A u \in Tasks \ {t} : hid'[u] = hid[u]
  BY <1>1 DEF HidTyped
<1> QED BY <1>3, <1>4

LEMMA FirstFacts ==
    ASSUME HidTyped, NEW t \in Tasks, ~Free(t)
    PROVE  /\ hid[t].calls \in List /\ hid[t].calls # <<>>
           /\ Tail(hid[t].calls) \in List
           /\ First(t) \in Call
           /\ First(t).to \in Devices /\ First(t).down \in SUBSET Controls
           /\ First(t).does \in {"set", "keep"}
           /\ First(t).does = "keep" => First(t).to = "mouse"
<1>1. hid[t].calls \in List /\ hid[t].calls # <<>>
  BY DEF HidTyped, Free
<1> QED BY <1>1, ListFacts, CallFacts DEF First

(* A step that moves no call, no macro and no hold.                         *)
LEMMA NothingMoves ==
    ASSUME TouchSense, ListSense, UNCHANGED <<queue, touchVars>>,
           \A u \in Tasks : hid'[u].calls = hid[u].calls
    PROVE  /\ TouchSense' /\ ListSense'
           /\ \A d : Coming(d) <=> Coming(d)'
<1>1. TouchSense'
  BY DEF TouchSense, touchVars
<1>2. ListSense'
  BY DEF ListSense, touchVars, Tasks
<1>3. \A d : Coming(d) <=> Coming(d)'
  BY DEF Coming, touchVars
<1> QED BY <1>1, <1>2, <1>3

LEMMA WaitReadyKeeps ==
    ASSUME HidInv, NEW t \in Tasks, WaitReady(t)
    PROVE  HidInv'
<1> DEFINE stage == IF First(t).to = "mouse" THEN "buttons" ELSE "send"
<1>1. HidTyped /\ stage \in Stages /\ GoTo(t, stage, {})
  BY DEF HidInv, TypeOK, HidTyped, Stages, WaitReady
<1> HIDE DEF stage
<1>2. /\ HidTyped' /\ hid'[t].at = stage
      /\ \A u \in Tasks : hid'[u].calls = hid[u].calls
      /\ \A u \in Tasks \ {t} : hid'[u] = hid[u]
  BY <1>1, GoFacts
<1>3. UNCHANGED <<queue, buttons, endpoint, awake, computer, touchVars, mishap>>
  BY DEF WaitReady
<1>4. TypeOK'
  BY <1>2, <1>3 DEF HidInv, TypeOK, HidTyped, touchVars
<1>5. TouchSense' /\ ListSense' /\ \A d : Coming(d) <=> Coming(d)'
  BY <1>2, <1>3, NothingMoves DEF HidInv
<1>6. StageSense'
  BY <1>2 DEF HidInv, StageSense, First, stage
<1>7. ~mishap' => ButtonSense' /\ DownSense'
  BY <1>3, <1>5 DEF HidInv, ButtonSense, DownSense, Down
<1> QED BY <1>4, <1>5, <1>6, <1>7 DEF HidInv

LEMMA TakeButtonsKeeps ==
    ASSUME HidInv, NEW t \in Tasks, TakeButtons(t)
    PROVE  HidInv'
<1>1. /\ HidTyped /\ ~Free(t) /\ hid[t].at = "buttons"
      /\ buttons' = (IF First(t).does = "set" THEN First(t).down ELSE buttons)
      /\ GoTo(t, "send", buttons')
      /\ UNCHANGED <<queue, endpoint, awake, computer, touchVars, mishap>>
  BY DEF HidInv, TypeOK, HidTyped, TakeButtons
<1>2. /\ hid[t].calls \in List /\ hid[t].calls # <<>> /\ First(t) \in Call
      /\ First(t).down \in SUBSET Controls
  BY <1>1, FirstFacts
<1>3. buttons' \in SUBSET Controls
  BY <1>1, <1>2 DEF HidInv, TypeOK
<1>4. /\ HidTyped' /\ hid'[t].at = "send" /\ hid'[t].mask = buttons'
      /\ \A u \in Tasks : hid'[u].calls = hid[u].calls
      /\ \A u \in Tasks \ {t} : hid'[u] = hid[u]
  BY <1>1, <1>3, GoFacts DEF Stages
<1>5. TypeOK'
  BY <1>1, <1>3, <1>4 DEF HidInv, TypeOK, HidTyped, touchVars
<1>6. TouchSense' /\ ListSense' /\ \A d : Coming(d) <=> Coming(d)'
  BY <1>1, <1>4, NothingMoves DEF HidInv
<1>7. StageSense'
  BY <1>1, <1>4 DEF HidInv, StageSense, First
<1>8. ~mishap' => DownSense'
  BY <1>1, <1>6 DEF HidInv, DownSense, Down
<1>9. ASSUME ~mishap', buttons' # {} PROVE Coming("mouse")
  <2>1. CASE First(t).does = "set"
    <3>1. Presses(First(t)) /\ First(t).to = "mouse"
      BY <1>1, <1>2, <1>9, <2>1 DEF Presses, HidInv, StageSense
    <3>2. t = "macros" \/ t = "lvgl"
      BY DEF Tasks
    <3>3. held \in BOOLEAN
      BY DEF HidInv, TypeOK
    <3>4. Covered(hid[t].calls, FALSE) \/ Covered(hid[t].calls, held)
      BY <3>2 DEF HidInv, ListSense
    <3>5. \/ ReleasesIn(Tail(hid[t].calls), "mouse")
          \/ held /\ ReleasesIn(OnHoldRelease, "mouse")
      BY <1>2, <3>1, <3>3, <3>4, CoveredHead DEF First
    <3>6. ReleasesIn(Tail(hid[t].calls), "mouse") => ReleasesIn(hid[t].calls, "mouse")
      BY <1>2, ListFacts DEF ReleasesIn
    <3> QED BY <3>5, <3>6 DEF Coming
  <2>2. CASE First(t).does # "set"
    BY <1>1, <1>9, <2>2 DEF HidInv, ButtonSense
  <2> QED BY <2>1, <2>2
<1> QED BY <1>5, <1>6, <1>7, <1>8, <1>9 DEF HidInv, ButtonSense

(* A task drops its first call, or its first two.                           *)
LEMMA DropFirst ==
    ASSUME HidInv, NEW t \in Tasks, ~Free(t), SkipTo(t, Tail(hid[t].calls)),
           UNCHANGED <<queue, touchVars>>
    PROVE  /\ HidTyped' /\ TouchSense' /\ StageSense' /\ ListSense'
           /\ \A d : Coming(d) /\ ~Releases(First(t), d) => Coming(d)'
<1>1. HidTyped /\ held \in BOOLEAN
  BY DEF HidInv, TypeOK, HidTyped
<1>2. hid[t].calls \in List /\ hid[t].calls # <<>> /\ Tail(hid[t].calls) \in List
  BY <1>1, FirstFacts
<1>3. /\ HidTyped' /\ hid'[t].calls = Tail(hid[t].calls) /\ hid'[t].at = "wait"
      /\ \A u \in Tasks \ {t} : hid'[u] = hid[u]
  BY <1>1, <1>2, SkipFacts
<1>4. TouchSense'
  BY DEF HidInv, TouchSense, touchVars
<1>5. StageSense'
  BY <1>3 DEF HidInv, StageSense, First
<1>6. ListSense'
  <2>1. held' = held /\ queue' = queue
    BY DEF touchVars
  <2>2. CASE t = "macros"
    <3>1. Covered(hid'["macros"].calls, FALSE)
      BY <1>2, <1>3, <2>2, CoveredTail DEF HidInv, ListSense
    <3>2. hid'["lvgl"].calls = hid["lvgl"].calls
      BY <1>3, <2>2 DEF Tasks
    <3> QED BY <2>1, <3>1, <3>2 DEF HidInv, ListSense
  <2>3. CASE t = "lvgl"
    <3>1. Covered(hid'["lvgl"].calls, held)
      BY <1>1, <1>2, <1>3, <2>3, CoveredTail DEF HidInv, ListSense
    <3>2. hid'["macros"].calls = hid["macros"].calls
      BY <1>3, <2>3 DEF Tasks
    <3> QED BY <2>1, <3>1, <3>2 DEF HidInv, ListSense
  <2> QED BY <2>2, <2>3 DEF Tasks
<1>7. ASSUME NEW d, Coming(d), ~Releases(First(t), d) PROVE Coming(d)'
  <2>1. CASE \E u \in Tasks : ReleasesIn(hid[u].calls, d)
    <3>1. PICK u \in Tasks : ReleasesIn(hid[u].calls, d)
      BY <2>1
    <3>2. CASE u = t
      BY <1>2, <1>3, <1>7, <3>1, <3>2, ReleasesTail DEF First, Coming
    <3>3. CASE u # t
      BY <1>3, <3>1, <3>3 DEF Coming
    <3> QED BY <3>2, <3>3
  <2>2. CASE ~\E u \in Tasks : ReleasesIn(hid[u].calls, d)
    BY <1>7, <2>2 DEF Coming, touchVars
  <2> QED BY <2>1, <2>2
<1> QED BY <1>3, <1>4, <1>5, <1>6, <1>7

LEMMA TimeOutKeeps ==
    ASSUME HidInv, NEW t \in Tasks, TimeOut(t)
    PROVE  HidInv'
<1> DEFINE rest == Tail(hid[t].calls)
           skipped == IF First(t).to = "consumer" /\ Presses(First(t)) /\ rest # <<>>
                      THEN Tail(rest) ELSE rest
<1>1. /\ HidTyped /\ ~Free(t) /\ SkipTo(t, skipped) /\ mishap'
      /\ UNCHANGED <<queue, buttons, endpoint, awake, computer, touchVars>>
      /\ held \in BOOLEAN
  BY DEF HidInv, TypeOK, HidTyped, TimeOut, Mishap
<1>2. hid[t].calls \in List /\ hid[t].calls # <<>> /\ rest \in List
  BY <1>1, FirstFacts
<1>3. skipped \in List
  BY <1>2, ListFacts
<1>4. \A h \in BOOLEAN : Covered(hid[t].calls, h) => Covered(skipped, h)
  <2> TAKE h \in BOOLEAN
  <2> HAVE Covered(hid[t].calls, h)
  <2>1. Covered(rest, h)
    BY <1>2, CoveredTail
  <2>2. rest # <<>> => Covered(Tail(rest), h)
    BY <1>2, <2>1, CoveredTail
  <2> QED BY <2>1, <2>2
<1> HIDE DEF rest, skipped
<1>5. /\ HidTyped' /\ hid'[t].calls = skipped /\ hid'[t].at = "wait"
      /\ \A u \in Tasks \ {t} : hid'[u] = hid[u]
  BY <1>1, <1>3, SkipFacts
<1>6. TypeOK'
  BY <1>1, <1>5 DEF HidInv, TypeOK, HidTyped, touchVars
<1>7. TouchSense' /\ StageSense'
  BY <1>1, <1>5 DEF HidInv, TouchSense, StageSense, First, touchVars
<1>8. ListSense'
  <2>1. held' = held /\ queue' = queue
    BY <1>1 DEF touchVars
  <2>2. CASE t = "macros"
    <3>1. hid'["lvgl"].calls = hid["lvgl"].calls
      BY <1>5, <2>2 DEF Tasks
    <3> QED BY <1>4, <1>5, <2>1, <2>2, <3>1 DEF HidInv, ListSense
  <2>3. CASE t = "lvgl"
    <3>1. hid'["macros"].calls = hid["macros"].calls
      BY <1>5, <2>3 DEF Tasks
    <3> QED BY <1>1, <1>4, <1>5, <2>1, <2>3, <3>1 DEF HidInv, ListSense
  <2> QED BY <2>2, <2>3 DEF Tasks
<1> QED BY <1>1, <1>6, <1>7, <1>8 DEF HidInv

LEMMA SendKeeps ==
    ASSUME HidInv, NEW t \in Tasks, Send(t)
    PROVE  HidInv'
<1> DEFINE c == First(t)
           down == IF c.to = "mouse" THEN hid[t].mask ELSE c.down
<1>1. /\ HidTyped /\ ~Free(t) /\ hid[t].at = "send"
      /\ SkipTo(t, Tail(hid[t].calls))
      /\ UNCHANGED <<queue, buttons, awake, computer, touchVars>>
      /\ \/ endpoint = NoReport /\ endpoint' = [to |-> c.to, down |-> down]
            /\ mishap' = (mishap \/ (c.to = "mouse" /\ down # buttons))
         \/ endpoint' = endpoint /\ mishap'
  BY DEF HidInv, TypeOK, HidTyped, Send, Mishap
<1>2. /\ hid[t].calls \in List /\ hid[t].calls # <<>> /\ c \in Call
      /\ c.to \in Devices /\ c.down \in SUBSET Controls
      /\ c.does \in {"set", "keep"} /\ (c.does = "keep" => c.to = "mouse")
  BY <1>1, FirstFacts
<1>3. /\ HidTyped' /\ TouchSense' /\ StageSense' /\ ListSense'
      /\ \A d : Coming(d) /\ ~Releases(c, d) => Coming(d)'
  BY <1>1, DropFirst
<1>4. down \in SUBSET Controls
  BY <1>1, <1>2 DEF HidTyped
<1>5. c.does = "set" => down = c.down
  BY <1>1, <1>2 DEF HidInv, StageSense
<1>6. ASSUME Presses(c), NEW d, d = c.to PROVE Coming(d)'
  <2>1. held \in BOOLEAN /\ held' = held
    BY <1>1 DEF HidInv, TypeOK, touchVars
  <2>2. Covered(hid[t].calls, FALSE) \/ Covered(hid[t].calls, held)
    BY DEF HidInv, ListSense, Tasks
  <2>3. \/ ReleasesIn(Tail(hid[t].calls), d)
        \/ held /\ ReleasesIn(OnHoldRelease, d)
    BY <1>2, <1>6, <2>1, <2>2, CoveredHead DEF First
  <2>4. hid'[t].calls = Tail(hid[t].calls)
    BY <1>1, <1>2, FirstFacts, SkipFacts
  <2> QED BY <2>1, <2>3, <2>4 DEF Coming
<1> HIDE DEF c, down
<1>7. TypeOK'
  <2>1. endpoint' \in Report \cup {NoReport}
    BY <1>1, <1>2, <1>4 DEF HidInv, TypeOK, Report
  <2>2. mishap' \in BOOLEAN
    BY <1>1 DEF HidInv, TypeOK
  <2> QED BY <1>1, <1>3, <2>1, <2>2 DEF HidInv, TypeOK, HidTyped, touchVars
<1>8. ASSUME ~mishap' PROVE ButtonSense' /\ DownSense'
  <2>1. /\ ~mishap /\ endpoint = NoReport
        /\ endpoint' = [to |-> c.to, down |-> down]
        /\ (c.to = "mouse" => down = buttons)
        /\ buttons' = buttons /\ computer' = computer
    BY <1>1, <1>8 DEF HidInv, TypeOK
  <2>2. ButtonSense /\ DownSense
    BY <2>1 DEF HidInv
  <2>3. ButtonSense'
    <3> SUFFICES ASSUME buttons # {} PROVE Coming("mouse")'
      BY <2>1 DEF ButtonSense
    <3>1. Coming("mouse")
      BY <2>2 DEF ButtonSense
    <3>2. ~Releases(c, "mouse")
      BY <1>5, <2>1 DEF Releases
    <3> QED BY <1>3, <3>1, <3>2
  <2>4. ASSUME NEW d \in Devices, Down(d)'
        PROVE  Coming(d)' \/ endpoint' = [to |-> d, down |-> {}]
    <3>1. CASE d # c.to
      <4>1. Down(d) /\ endpoint # [to |-> d, down |-> {}]
        BY <2>1, <2>4, <3>1 DEF Down, NoReport, Devices
      <4>2. Coming(d) /\ ~Releases(c, d)
        BY <2>2, <3>1, <4>1 DEF DownSense, Releases
      <4> QED BY <1>3, <4>2
    <3>2. CASE d = c.to /\ down = {}
      BY <2>1, <3>2
    <3>3. CASE d = c.to /\ down # {} /\ c.does = "set"
      <4>1. Presses(c)
        BY <1>5, <3>3 DEF Presses
      <4> QED BY <1>6, <3>3, <4>1
    <3>4. CASE d = c.to /\ down # {} /\ c.does = "keep"
      <4>1. d = "mouse" /\ buttons # {} /\ ~Releases(c, d)
        BY <1>2, <2>1, <3>4 DEF Releases
      <4> QED BY <1>3, <2>2, <4>1 DEF ButtonSense
    <3> QED BY <1>2, <3>1, <3>2, <3>3, <3>4
  <2> QED BY <2>3, <2>4 DEF DownSense
<1> QED BY <1>3, <1>7, <1>8 DEF HidInv

LEMMA PollKeeps ==
    ASSUME HidInv, Poll
    PROVE  HidInv'
<1>1. /\ endpoint # NoReport
      /\ computer' = [computer EXCEPT ![endpoint.to] = endpoint.down]
      /\ endpoint' = NoReport
      /\ UNCHANGED <<queue, hid, buttons, awake, touchVars, mishap>>
  BY DEF Poll
<1>2. endpoint.to \in Devices /\ endpoint.down \in SUBSET Controls
  BY <1>1 DEF HidInv, TypeOK, Report
<1>3. computer' \in [Devices -> SUBSET Controls]
  BY <1>1, <1>2 DEF HidInv, TypeOK
<1>4. TypeOK'
  BY <1>1, <1>3 DEF HidInv, TypeOK, touchVars
<1>5. TouchSense' /\ ListSense' /\ \A d : Coming(d) <=> Coming(d)'
  BY <1>1, NothingMoves DEF HidInv
<1>6. StageSense' /\ (ButtonSense => ButtonSense')
  BY <1>1, <1>5 DEF HidInv, StageSense, First, ButtonSense
<1>7. ASSUME DownSense PROVE DownSense'
  <2> SUFFICES ASSUME NEW d \in Devices, Down(d)' PROVE Coming(d)
    BY <1>5 DEF DownSense
  <2>1. computer'[d] # {} /\ endpoint'.to # d
    BY <1>1 DEF Down, NoReport, Devices
  <2>2. Down(d) /\ endpoint # [to |-> d, down |-> {}]
    <3>1. CASE d = endpoint.to
      BY <1>1, <1>2, <2>1, <3>1 DEF Down, HidInv, TypeOK
    <3>2. CASE d # endpoint.to
      BY <1>1, <1>2, <2>1, <3>2 DEF Down, HidInv, TypeOK
    <3> QED BY <3>1, <3>2
  <2> QED BY <1>7, <2>2 DEF DownSense
<1> QED BY <1>1, <1>4, <1>5, <1>6, <1>7 DEF HidInv

LEMMA SleepKeeps ==
    ASSUME HidInv, Sleep
    PROVE  HidInv'
<1>1. /\ awake' \in BOOLEAN
      /\ UNCHANGED <<queue, hid, buttons, endpoint, computer, touchVars, mishap>>
  BY DEF HidInv, TypeOK, Sleep
<1>2. TypeOK'
  BY <1>1 DEF HidInv, TypeOK, touchVars
<1>3. TouchSense' /\ ListSense' /\ \A d : Coming(d) <=> Coming(d)'
  BY <1>1, NothingMoves DEF HidInv
<1>4. StageSense' /\ (ButtonSense => ButtonSense') /\ (DownSense => DownSense')
  BY <1>1, <1>3 DEF HidInv, StageSense, First, ButtonSense, DownSense, Down
<1> QED BY <1>1, <1>2, <1>3, <1>4 DEF HidInv

-----------------------------------------------------------------------------
(* The queue of macros.                                                     *)
InQueue(d) == \E i \in DOMAIN queue : ReleasesIn(queue[i], d)
QueueCovered == \A i \in DOMAIN queue : Covered(queue[i], FALSE)

LEMMA AppendFacts ==
    ASSUME NEW q \in Seq(List), NEW mac \in List
    PROVE  /\ Append(q, mac) \in Seq(List) /\ Len(Append(q, mac)) = Len(q) + 1
           /\ \A i \in DOMAIN Append(q, mac) :
                 (i \in DOMAIN q /\ Append(q, mac)[i] = q[i]) \/ Append(q, mac)[i] = mac
           /\ \A i \in DOMAIN q : i \in DOMAIN Append(q, mac) /\ Append(q, mac)[i] = q[i]
           /\ Len(q) + 1 \in DOMAIN Append(q, mac) /\ Append(q, mac)[Len(q) + 1] = mac
OBVIOUS

LEMMA EnqueueFacts ==
    ASSUME TypeOK, QueueCovered, NEW mac \in List, Covered(mac, FALSE), Enqueue(mac)
    PROVE  /\ queue' \in Seq(List) /\ Len(queue') <= QueueDepth /\ QueueCovered'
           /\ mishap' \in BOOLEAN /\ (mishap => mishap')
           /\ \A d : InQueue(d) => InQueue(d)'
           /\ ~mishap' => \A d : ReleasesIn(mac, d) => InQueue(d)'
<1>1. queue \in Seq(List) /\ Len(queue) <= QueueDepth /\ mishap \in BOOLEAN
  BY DEF TypeOK
<1>2. QueueDepth \in Nat
  BY HidAssumption DEF HidAssumption
<1>3. CASE mac # <<>> /\ Len(queue) < QueueDepth
  <2>1. queue' = Append(queue, mac) /\ mishap' = mishap
    BY <1>3 DEF Enqueue
  <2>2. queue' \in Seq(List) /\ Len(queue') <= QueueDepth
    BY <1>1, <1>2, <1>3, <2>1, AppendFacts
  <2>3. QueueCovered'
    <3> SUFFICES ASSUME NEW i \in DOMAIN queue' PROVE Covered(queue'[i], FALSE)
      BY DEF QueueCovered
    <3>1. (i \in DOMAIN queue /\ queue'[i] = queue[i]) \/ queue'[i] = mac
      BY <1>1, <2>1, AppendFacts
    <3>2. i \in DOMAIN queue => Covered(queue[i], FALSE)
      BY DEF QueueCovered
    <3> QED BY <3>1, <3>2
  <2>4. \A d : InQueue(d) => InQueue(d)'
    BY <1>1, <2>1, AppendFacts DEF InQueue
  <2>5. \A d : ReleasesIn(mac, d) => InQueue(d)'
    BY <1>1, <2>1, AppendFacts DEF InQueue
  <2> QED BY <1>1, <2>1, <2>2, <2>3, <2>4, <2>5
<1>4. CASE ~(mac # <<>> /\ Len(queue) < QueueDepth)
  <2>1. queue' = queue /\ mishap' = (mishap \/ mac # <<>>)
    BY <1>4 DEF Enqueue, Mishap
  <2>2. mac = <<>> => \A d : ~ReleasesIn(mac, d)
    BY DEF ReleasesIn
  <2> QED BY <1>1, <2>1, <2>2 DEF QueueCovered, InQueue
<1> QED BY <1>3, <1>4

(* A task without calls owes nothing.                                       *)
LEMMA NothingOwed ==
    ASSUME NEW t \in Tasks, Free(t)
    PROVE  /\ \A d : ~ReleasesIn(hid[t].calls, d)
           /\ \A h : Covered(hid[t].calls, h)
BY EmptyList DEF Free, ReleasesIn

(* What is down stays owed when what is coming still comes.                 *)
LEMMA StillOwed ==
    ASSUME UNCHANGED <<buttons, endpoint, computer>>,
           \A d : Coming(d) => Coming(d)'
    PROVE  ButtonSense /\ DownSense => ButtonSense' /\ DownSense'
BY DEF ButtonSense, DownSense, Down

LEMMA TakeKeeps ==
    ASSUME HidInv, Take
    PROVE  HidInv'
<1>1. /\ HidTyped /\ Free("macros") /\ queue \in Seq(List) /\ queue # <<>>
      /\ SkipTo("macros", Head(queue)) /\ queue' = Tail(queue)
      /\ UNCHANGED <<buttons, endpoint, awake, computer, touchVars, mishap>>
      /\ Len(queue) <= QueueDepth
  BY DEF HidInv, TypeOK, HidTyped, Take
<1>2. QueueDepth \in Nat
  BY HidAssumption DEF HidAssumption
<1>3. /\ Head(queue) \in List /\ Tail(queue) \in Seq(List)
      /\ Len(Tail(queue)) = Len(queue) - 1
      /\ Head(queue) = queue[1] /\ 1 \in DOMAIN queue
      /\ \A i \in DOMAIN Tail(queue) : i + 1 \in DOMAIN queue /\ Tail(queue)[i] = queue[i + 1]
      /\ \A i \in DOMAIN queue : i # 1 => /\ i - 1 \in DOMAIN Tail(queue)
                                         /\ Tail(queue)[i - 1] = queue[i]
  BY <1>1
<1>4. /\ HidTyped' /\ hid'["macros"].calls = Head(queue) /\ hid'["macros"].at = "wait"
      /\ hid'["lvgl"] = hid["lvgl"]
  BY <1>1, <1>3, SkipFacts DEF Tasks
<1>5. TypeOK'
  BY <1>1, <1>2, <1>3, <1>4 DEF HidInv, TypeOK, HidTyped, touchVars
<1>6. TouchSense' /\ StageSense'
  BY <1>1, <1>4 DEF HidInv, TouchSense, StageSense, Tasks, First, touchVars
<1>7. ListSense'
  BY <1>1, <1>3, <1>4 DEF HidInv, ListSense, touchVars
<1>8. ASSUME NEW d, Coming(d) PROVE Coming(d)'
  <2>1. held' = held
    BY <1>1 DEF touchVars
  <2>2. ~ReleasesIn(hid["macros"].calls, d)
    BY <1>1, NothingOwed DEF Tasks
  <2>3. CASE InQueue(d)
    <3>1. PICK i \in DOMAIN queue : ReleasesIn(queue[i], d)
      BY <2>3 DEF InQueue
    <3>2. CASE i = 1
      <4>1. ReleasesIn(hid'["macros"].calls, d)
        BY <1>3, <1>4, <3>1, <3>2
      <4> QED BY <4>1 DEF Coming, Tasks
    <3>3. CASE i # 1
      <4>1. InQueue(d)'
        BY <1>1, <1>3, <3>1, <3>3 DEF InQueue
      <4> QED BY <4>1 DEF Coming, InQueue
    <3> QED BY <3>2, <3>3
  <2>4. CASE ~InQueue(d)
    BY <1>4, <1>8, <2>1, <2>2, <2>4 DEF Coming, InQueue, Tasks
  <2> QED BY <2>3, <2>4
<1>9. ButtonSense /\ DownSense => ButtonSense' /\ DownSense'
  BY <1>1, <1>8, StillOwed
<1> QED BY <1>1, <1>5, <1>6, <1>7, <1>9 DEF HidInv

-----------------------------------------------------------------------------
(* Widgets and the trackpad: steps of a free LVGL task.                     *)
LEMMA LvglFree ==
    ASSUME Free("lvgl"), UNCHANGED hid
    PROVE  \A h : Covered(hid["lvgl"].calls, h) /\ Covered(hid'["lvgl"].calls, h)
BY NothingOwed DEF Tasks

(* A macro is queued; a hold may end.                                       *)
LEMMA QueueingKeeps ==
    ASSUME HidInv, NEW mac \in List, Balanced(mac), Free("lvgl"), Enqueue(mac),
           UNCHANGED <<hid, buttons, endpoint, awake, computer>>,
           fingers' \in 0 .. MaxFingers, most' \in 0 .. MaxFingers,
           held' \in BOOLEAN, cancelled' \in BOOLEAN, long' \in BOOLEAN,
           TouchSense',
           held' \/ ~held \/ mac = OnHoldRelease
    PROVE  HidInv'
<1>1. TypeOK /\ QueueCovered /\ Covered(mac, FALSE)
  BY BalancedIsCovered DEF HidInv, ListSense, QueueCovered
<1>2. /\ queue' \in Seq(List) /\ Len(queue') <= QueueDepth /\ QueueCovered'
      /\ mishap' \in BOOLEAN /\ (mishap => mishap')
      /\ \A d : InQueue(d) => InQueue(d)'
      /\ ~mishap' => \A d : ReleasesIn(mac, d) => InQueue(d)'
  BY <1>1, EnqueueFacts
<1>3. TypeOK'
  BY <1>1, <1>2 DEF TypeOK
<1>4. StageSense'
  BY DEF HidInv, StageSense, First
<1>5. ListSense'
  BY <1>2, LvglFree DEF HidInv, ListSense, QueueCovered
<1>6. ASSUME ~mishap', NEW d, Coming(d) PROVE Coming(d)'
  <2>1. CASE \E t \in Tasks : ReleasesIn(hid[t].calls, d)
    BY <2>1 DEF Coming
  <2>2. CASE InQueue(d)
    BY <1>2, <2>2 DEF Coming, InQueue
  <2>3. CASE held /\ ReleasesIn(OnHoldRelease, d)
    <3>1. CASE held'
      BY <2>3, <3>1 DEF Coming
    <3>2. CASE ~held'
      <4>1. InQueue(d)'
        BY <1>2, <1>6, <2>3, <3>2
      <4> QED BY <4>1 DEF Coming, InQueue
    <3> QED BY <3>1, <3>2
  <2> QED BY <1>6, <2>1, <2>2, <2>3 DEF Coming, InQueue
<1>7. ~mishap' => ButtonSense' /\ DownSense'
  BY <1>2, <1>6, StillOwed DEF HidInv
<1> QED BY <1>3, <1>4, <1>5, <1>7 DEF HidInv

LEMMA EmptyFacts == <<>> \in List /\ Balanced(<<>>)
BY DEF List, Balanced

LEMMA RunActionKeeps ==
    ASSUME HidInv, NEW mac \in Macros, RunAction(mac)
    PROVE  HidInv'
<1>1. mac \in List /\ Balanced(mac)
  BY HidAssumption DEF HidAssumption
<1>2. /\ Free("lvgl") /\ Enqueue(mac)
      /\ UNCHANGED <<hid, buttons, endpoint, awake, computer>>
      /\ UNCHANGED touchVars
  BY DEF RunAction
<1>3. TouchSense'
  BY <1>2 DEF HidInv, TouchSense, touchVars
<1>4. /\ fingers' \in 0 .. MaxFingers /\ most' \in 0 .. MaxFingers
      /\ held' \in BOOLEAN /\ cancelled' \in BOOLEAN /\ long' \in BOOLEAN
      /\ held' = held
  BY <1>2 DEF HidInv, TypeOK, touchVars
<1>5. held' \/ ~held
  BY <1>4
<1> QED BY <1>1, <1>2, <1>3, <1>4, <1>5, QueueingKeeps

LEMMA LiftKeeps ==
    ASSUME HidInv, NEW tap \in BOOLEAN, Lift(tap)
    PROVE  HidInv'
<1> DEFINE mac == IF held /\ ~cancelled THEN OnHoldRelease
                ELSE IF tap THEN OnTap[most] ELSE <<>>
<1>1. /\ Free("lvgl") /\ fingers > 0 /\ Enqueue(mac)
      /\ fingers' = 0 /\ most' = 0
      /\ held' = FALSE /\ cancelled' = FALSE /\ long' = FALSE
      /\ UNCHANGED <<hid, buttons, endpoint, awake, computer>>
  BY DEF Lift
<1>2. /\ MaxFingers \in Nat \ {0} /\ OnTap \in [1 .. MaxFingers -> List]
      /\ \A n \in 1 .. MaxFingers : Balanced(OnTap[n])
      /\ OnHoldRelease \in List /\ Balanced(OnHoldRelease)
  BY HidAssumption DEF HidAssumption
<1>3. most \in 1 .. MaxFingers
  BY <1>1, <1>2 DEF HidInv, TypeOK, TouchSense
<1>4. mac \in List /\ Balanced(mac)
  BY <1>2, <1>3, EmptyFacts
<1>5. ~held \/ mac = OnHoldRelease
  BY DEF HidInv, TouchSense
<1> HIDE DEF mac
<1>6. TouchSense' /\ fingers' \in 0 .. MaxFingers /\ most' \in 0 .. MaxFingers
  BY <1>1, <1>2 DEF TouchSense
<1> QED BY <1>1, <1>4, <1>5, <1>6, QueueingKeeps

(* The LVGL task starts calls of its own; a hold may begin.                 *)
LEMMA InlineKeeps ==
    ASSUME HidInv, NEW calls \in List, Free("lvgl"), Inline(calls),
           held' \in BOOLEAN, cancelled' \in BOOLEAN, long' \in BOOLEAN,
           held => held', Covered(calls, held'), TouchSense',
           UNCHANGED <<queue, buttons, endpoint, awake, computer, fingers, most, mishap>>
    PROVE  HidInv'
<1>1. HidTyped /\ SkipTo("lvgl", calls) /\ "lvgl" \in Tasks
  BY DEF HidInv, TypeOK, HidTyped, Inline, Tasks
<1>2. /\ HidTyped' /\ hid'["lvgl"].calls = calls /\ hid'["lvgl"].at = "wait"
      /\ hid'["macros"] = hid["macros"]
  BY <1>1, SkipFacts DEF Tasks
<1>3. TypeOK'
  BY <1>2 DEF HidInv, TypeOK, HidTyped
<1>4. StageSense'
  BY <1>2 DEF HidInv, StageSense, First, Tasks
<1>5. ListSense'
  BY <1>2 DEF HidInv, ListSense
<1>6. ASSUME NEW d, Coming(d) PROVE Coming(d)'
  <2>1. ~ReleasesIn(hid["lvgl"].calls, d)
    BY <1>1, NothingOwed
  <2>2. CASE \E t \in Tasks : ReleasesIn(hid[t].calls, d)
    <3>1. ReleasesIn(hid'["macros"].calls, d)
      BY <1>2, <2>1, <2>2 DEF Tasks
    <3> QED BY <3>1 DEF Coming, Tasks
  <2>3. CASE ~\E t \in Tasks : ReleasesIn(hid[t].calls, d)
    BY <1>6, <2>3 DEF Coming
  <2> QED BY <2>2, <2>3
<1>7. ~mishap' => ButtonSense' /\ DownSense'
  BY <1>6, StillOwed DEF HidInv
<1> QED BY <1>3, <1>4, <1>5, <1>7 DEF HidInv

LEMMA MoveKeeps ==
    ASSUME HidInv, NEW mac \in OnMove \cup {<<>>}, NEW leaves \in BOOLEAN,
           NEW recognised \in BOOLEAN, Move(mac, leaves, recognised)
    PROVE  HidInv'
<1> DEFINE calls == IF recognised THEN mac \o OnHold ELSE mac
<1>1. /\ Free("lvgl") /\ fingers = 1
      /\ (leaves \/ recognised => ~held /\ ~cancelled) /\ ~(leaves /\ recognised)
      /\ cancelled' = (cancelled \/ leaves) /\ held' = (held \/ recognised)
      /\ long' = (long \/ recognised)
      /\ Inline(calls)
      /\ UNCHANGED <<queue, buttons, endpoint, awake, computer, fingers, most, mishap>>
  BY DEF Move
<1>2. mac \in List /\ Balanced(mac)
  BY EmptyFacts, HidAssumption DEF HidAssumption
<1>3. held \in BOOLEAN /\ cancelled \in BOOLEAN /\ long \in BOOLEAN
  BY DEF HidInv, TypeOK
<1>4. held' \in BOOLEAN /\ cancelled' \in BOOLEAN /\ long' \in BOOLEAN /\ (held => held')
  BY <1>1, <1>3
<1>5. TouchSense'
  BY <1>1, <1>3 DEF HidInv, TouchSense
<1>6. calls \in List /\ Covered(calls, held')
  <2>1. CASE recognised
    <3>1. held' = TRUE
      BY <1>1, <1>3, <2>1
    <3> QED BY <1>2, <2>1, <3>1, MoveThenHold, HidAssumption
  <2>2. CASE ~recognised
    BY <1>2, <2>2, BalancedIsCovered
  <2> QED BY <2>1, <2>2
<1> HIDE DEF calls
<1> QED BY <1>1, <1>4, <1>5, <1>6, InlineKeeps

LEMMA MoveTwoKeeps ==
    ASSUME HidInv, NEW mac \in OnTwoFingers, MoveTwo(mac)
    PROVE  HidInv'
<1>1. mac \in List /\ Balanced(mac)
  BY HidAssumption DEF HidAssumption
<1>2. /\ Free("lvgl") /\ Inline(mac) /\ UNCHANGED touchVars
      /\ UNCHANGED <<queue, buttons, endpoint, awake, computer, fingers, most, mishap>>
  BY DEF MoveTwo, touchVars
<1>3. /\ held' \in BOOLEAN /\ cancelled' \in BOOLEAN /\ long' \in BOOLEAN
      /\ held' = held
  BY <1>2 DEF HidInv, TypeOK, touchVars
<1>4. TouchSense' /\ Covered(mac, held')
  BY <1>1, <1>2, BalancedIsCovered DEF HidInv, TouchSense, touchVars
<1> QED BY <1>1, <1>2, <1>3, <1>4, InlineKeeps

(* A touch that starts no call: a hold stays or is a mishap.                *)
LEMMA QuietTouchKeeps ==
    ASSUME HidInv, Free("lvgl"),
           UNCHANGED <<queue, hid, buttons, endpoint, awake, computer>>,
           fingers' \in 0 .. MaxFingers, most' \in 0 .. MaxFingers,
           held' \in BOOLEAN, cancelled' \in BOOLEAN, long' \in BOOLEAN,
           mishap' \in BOOLEAN, mishap => mishap', TouchSense',
           ~mishap' => (held => held')
    PROVE  HidInv'
<1>1. TypeOK'
  BY DEF HidInv, TypeOK
<1>2. StageSense'
  BY DEF HidInv, StageSense, First
<1>3. ListSense'
  BY LvglFree DEF HidInv, ListSense
<1>4. ~mishap' => \A d : Coming(d) => Coming(d)'
  BY DEF Coming
<1>5. ~mishap' => ButtonSense' /\ DownSense'
  BY <1>4, StillOwed DEF HidInv
<1> QED BY <1>1, <1>2, <1>3, <1>5 DEF HidInv

LEMMA LandKeeps ==
    ASSUME HidInv, NEW n \in 1 .. MaxFingers, Land(n)
    PROVE  HidInv'
<1> DEFINE second == n >= 2 /\ fingers < 2
<1>1. /\ Free("lvgl") /\ n > fingers /\ fingers' = n
      /\ most' = (IF n > most THEN n ELSE most)
      /\ cancelled' = (second \/ (fingers # 0 /\ cancelled))
      /\ held' = (~second /\ fingers # 0 /\ held)
      /\ long' = (fingers # 0 /\ long)
      /\ mishap' = (mishap \/ (second /\ held))
      /\ UNCHANGED <<queue, hid, buttons, endpoint, awake, computer>>
  BY DEF Land, Mishap
<1>2. /\ MaxFingers \in Nat /\ fingers \in 0 .. MaxFingers /\ most \in 0 .. MaxFingers
      /\ held \in BOOLEAN /\ cancelled \in BOOLEAN /\ long \in BOOLEAN
      /\ mishap \in BOOLEAN
  BY HidAssumption DEF HidAssumption, HidInv, TypeOK
<1>3. held => ~cancelled /\ fingers # 0
  BY <1>2 DEF HidInv, TouchSense
<1>4. fingers' \in 0 .. MaxFingers /\ most' \in 0 .. MaxFingers /\ fingers' <= most'
  BY <1>1, <1>2
<1>5. second \in BOOLEAN
  OBVIOUS
<1> HIDE DEF second
<1>6. /\ held' \in BOOLEAN /\ cancelled' \in BOOLEAN /\ long' \in BOOLEAN
      /\ mishap' \in BOOLEAN /\ (mishap => mishap')
      /\ (~mishap' => (held => held')) /\ (held' => ~cancelled')
  BY <1>1, <1>2, <1>3, <1>5
<1>7. fingers' > 0
  BY <1>1, <1>2
<1>8. TouchSense'
  BY <1>4, <1>6, <1>7 DEF TouchSense
<1> QED BY <1>1, <1>4, <1>6, <1>8, QuietTouchKeeps

LEMMA LiftSomeKeeps ==
    ASSUME HidInv, NEW n \in 1 .. MaxFingers, LiftSome(n)
    PROVE  HidInv'
<1>1. /\ Free("lvgl") /\ n < fingers /\ fingers' = n
      /\ UNCHANGED <<queue, hid, buttons, endpoint, awake, computer>>
      /\ UNCHANGED <<most, held, cancelled, long, mishap>>
  BY DEF LiftSome
<1>2. /\ MaxFingers \in Nat /\ fingers \in 0 .. MaxFingers /\ most \in 0 .. MaxFingers
      /\ held \in BOOLEAN /\ cancelled \in BOOLEAN /\ long \in BOOLEAN
      /\ mishap \in BOOLEAN
  BY HidAssumption DEF HidAssumption, HidInv, TypeOK
<1>3. fingers' \in 0 .. MaxFingers /\ TouchSense'
  BY <1>1, <1>2 DEF HidInv, TouchSense
<1> QED BY <1>1, <1>2, <1>3, QuietTouchKeeps

LEMMA RebuildKeeps ==
    ASSUME HidInv, Rebuild
    PROVE  HidInv'
<1>1. /\ Free("lvgl") /\ fingers' = 0 /\ most' = 0
      /\ held' = FALSE /\ cancelled' = FALSE /\ long' = FALSE
      /\ mishap' = (mishap \/ held)
      /\ UNCHANGED <<queue, hid, buttons, endpoint, awake, computer>>
  BY DEF Rebuild, Mishap
<1>2. MaxFingers \in Nat /\ held \in BOOLEAN /\ mishap \in BOOLEAN
  BY HidAssumption DEF HidAssumption, HidInv, TypeOK
<1>3. TouchSense' /\ fingers' \in 0 .. MaxFingers /\ most' \in 0 .. MaxFingers
  BY <1>1, <1>2 DEF TouchSense
<1> QED BY <1>1, <1>2, <1>3, QuietTouchKeeps

-----------------------------------------------------------------------------
LEMMA InvInit == Init => HidInv
<1> SUFFICES ASSUME Init PROVE HidInv
  OBVIOUS
<1>1. /\ QueueDepth \in Nat /\ MaxFingers \in Nat
  BY HidAssumption DEF HidAssumption
<1>2. Idle \in [calls : List, at : Stages, mask : SUBSET Controls]
  BY EmptyList DEF Idle, Stages
<1>3. TypeOK
  <2>1. queue \in Seq(List) /\ Len(queue) <= QueueDepth
    BY <1>1 DEF Init
  <2>2. computer \in [Devices -> SUBSET Controls]
    BY DEF Init
  <2>3. hid \in [Tasks -> [calls : List, at : Stages, mask : SUBSET Controls]]
    BY <1>2 DEF Init
  <2>4. fingers \in 0 .. MaxFingers /\ most \in 0 .. MaxFingers
    BY <1>1 DEF Init
  <2>5. /\ buttons \in SUBSET Controls /\ endpoint \in Report \cup {NoReport}
        /\ awake \in BOOLEAN /\ mishap \in BOOLEAN
        /\ held \in BOOLEAN /\ cancelled \in BOOLEAN /\ long \in BOOLEAN
    BY DEF Init
  <2> QED BY <2>1, <2>2, <2>3, <2>4, <2>5 DEF TypeOK
<1>4. TouchSense
  BY DEF Init, TouchSense
<1>5. \A t \in Tasks : hid[t].calls = <<>>
  BY DEF Init, Idle
<1>6. StageSense
  BY <1>5 DEF StageSense
<1>7. ListSense
  <2>1. hid["macros"].calls = <<>> /\ hid["lvgl"].calls = <<>>
    BY <1>5 DEF Tasks
  <2>2. DOMAIN queue = {}
    BY DEF Init
  <2> QED BY <2>1, <2>2, EmptyList DEF ListSense
<1>8. ButtonSense /\ DownSense
  BY DEF Init, ButtonSense, DownSense, Down, NoReport, Devices
<1> QED BY <1>3, <1>4, <1>6, <1>7, <1>8 DEF HidInv

LEMMA InvNext == HidInv /\ [Next]_vars => HidInv'
<1> SUFFICES ASSUME HidInv, [Next]_vars PROVE HidInv'
  OBVIOUS
<1>1. ASSUME NEW t \in Tasks, Run(t) PROVE HidInv'
  BY <1>1, WaitReadyKeeps, TimeOutKeeps, TakeButtonsKeeps, SendKeeps DEF Run
<1>2. CASE Take
  BY <1>2, TakeKeeps
<1>3. CASE Poll
  BY <1>3, PollKeeps
<1>4. CASE Sleep
  BY <1>4, SleepKeeps
<1>5. ASSUME NEW mac \in Macros, RunAction(mac) PROVE HidInv'
  BY <1>5, RunActionKeeps
<1>6. CASE Touch
  <2>1. ASSUME NEW n \in 1 .. MaxFingers, Land(n) PROVE HidInv'
    BY <2>1, LandKeeps
  <2>2. ASSUME NEW n \in 1 .. MaxFingers, LiftSome(n) PROVE HidInv'
    BY <2>2, LiftSomeKeeps
  <2>3. ASSUME NEW mac \in OnMove \cup {<<>>}, NEW leaves \in BOOLEAN,
               NEW recognised \in BOOLEAN, Move(mac, leaves, recognised)
        PROVE  HidInv'
    BY <2>3, MoveKeeps
  <2>4. ASSUME NEW mac \in OnTwoFingers, MoveTwo(mac) PROVE HidInv'
    BY <2>4, MoveTwoKeeps
  <2>5. ASSUME NEW tap \in BOOLEAN, Lift(tap) PROVE HidInv'
    BY <2>5, LiftKeeps
  <2>6. CASE Rebuild
    BY <2>6, RebuildKeeps
  <2> QED BY <1>6, <2>1, <2>2, <2>3, <2>4, <2>5, <2>6 DEF Touch
<1>7. CASE UNCHANGED vars
  <2>1. UNCHANGED <<queue, hid, buttons, endpoint, awake, computer, touchVars, mishap>>
    BY <1>7 DEF vars, touchVars
  <2>2. TypeOK'
    BY <2>1 DEF HidInv, TypeOK, touchVars
  <2>3. TouchSense' /\ ListSense' /\ \A d : Coming(d) <=> Coming(d)'
    BY <2>1, NothingMoves DEF HidInv
  <2>4. StageSense' /\ (ButtonSense => ButtonSense') /\ (DownSense => DownSense')
    BY <2>1, <2>3 DEF HidInv, StageSense, First, ButtonSense, DownSense, Down
  <2> QED BY <2>1, <2>2, <2>3, <2>4 DEF HidInv
<1> QED BY <1>1, <1>2, <1>3, <1>4, <1>5, <1>6, <1>7 DEF Next

LEMMA InvAlways == Spec => []HidInv
BY InvInit, InvNext, PTL DEF Spec

(* Every variable keeps its type: no queue of macros overflows, whatever    *)
(* the widgets, the trackpad and the host start (macros_run).               *)
THEOREM TypeCorrect == Spec => []TypeOK
<1>1. HidInv => TypeOK
  BY DEF HidInv
<1> QED BY <1>1, InvAlways, PTL

(* For every set of macros and every trackpad page whose lists release what *)
(* they press: until a report, a macro or the end of a hold is dropped, a   *)
(* key or a button that is down has its release on the way, however the     *)
(* macro runner and the LVGL task interleave in usb_hid_*.                  *)
THEOREM NothingStuck == Spec => []PressHasRelease
<1>1. HidInv => PressHasRelease
  BY DEF HidInv, DownSense, Down, Coming, PressHasRelease, Owed
<1> QED BY <1>1, InvAlways, PTL
-----------------------------------------------------------------------------
(***************************************************************************)
(* The backlight, for any tasks, levels and timeouts.                      *)
(***************************************************************************)

(* Levels never exceed 100, in the preferences and in the file either; a    *)
(* level nobody chose is the board's.                                       *)
LevelSense ==
    /\ m.level \in 0 .. 100
    /\ ~m.explicit => m.level = DefaultLevel
    /\ flash.level \in (0 .. 100) \cup {Unset}

(* What boot would read is what is in use.                                  *)
FileSense == Loaded(flash) = m /\ s_timeout_ms = m.timeout /\ s_level = m.level

(* Who sets a level or a timeout has one to set.                            *)
FieldSense ==
    \A t \in Callers :
        /\ task[t].at = "timeout" => task[t].timeout \in Nat
        /\ task[t].at \in {"awake", "show"} => task[t].level \in Nat

LightInv == LightTypeOK /\ LevelSense /\ FileSense /\ FieldSense

-----------------------------------------------------------------------------
(* The conversions between the preferences and their file.                  *)
LEMMA ByteOfLevel == \A n \in 0 .. 100 : Byte(n) = n
BY DEF Byte

LEMMA Limited == \A n \in Nat : MinOf(Byte(n), 100) \in 0 .. 100
BY DEF Byte, MinOf

LEMMA ReadsWhatItWrote ==
    ASSUME NEW p \in Prefs, p.level \in 0 .. 100,
           ~p.explicit => p.level = DefaultLevel
    PROVE  /\ Saved(p) \in File
           /\ Saved(p).level \in (0 .. 100) \cup {Unset}
           /\ Loaded(Saved(p)) = p
<1>1. /\ p.timeout \in Nat /\ p.level \in Nat /\ p.explicit \in BOOLEAN
      /\ p = [timeout |-> p.timeout, level |-> p.level, explicit |-> p.explicit]
  BY DEF Prefs
<1>2. p.timeout # Unset /\ p.level # Unset
  BY <1>1, BacklightAssumption DEF BacklightAssumption
<1>3. Saved(p) \in File /\ Saved(p).level \in (0 .. 100) \cup {Unset}
  BY <1>1 DEF Saved, File
<1>4. Loaded(Saved(p)).timeout = p.timeout
  BY <1>2 DEF Loaded, Saved
<1>5. Loaded(Saved(p)).level = p.level /\ Loaded(Saved(p)).explicit = p.explicit
  BY <1>1, <1>2, ByteOfLevel DEF Loaded, Saved
<1> QED BY <1>1, <1>3, <1>4, <1>5 DEF Loaded

LEMMA LoadedType ==
    ASSUME NEW f \in File, f.level \in (0 .. 100) \cup {Unset}
    PROVE  /\ Loaded(f) \in Prefs /\ Loaded(f).level \in 0 .. 100
           /\ ~Loaded(f).explicit => Loaded(f).level = DefaultLevel
<1>1. f.timeout = Unset \/ f.timeout \in Nat
  BY DEF File
<1>2. Loaded(f).timeout \in Nat
  BY <1>1 DEF Loaded, DefaultTimeout
<1>3. Loaded(f).explicit \in BOOLEAN /\ (~Loaded(f).explicit => f.level = Unset)
  BY DEF Loaded
<1>4. Loaded(f).level \in 0 .. 100
  <2>1. CASE f.level = Unset
    BY <2>1 DEF Loaded, DefaultLevel
  <2>2. CASE f.level # Unset
    BY <2>2, ByteOfLevel DEF Loaded
  <2> QED BY <2>1, <2>2
<1>5. f.level = Unset => Loaded(f).level = DefaultLevel
  BY DEF Loaded
<1>6. Loaded(f) = [timeout |-> Loaded(f).timeout, level |-> Loaded(f).level,
                   explicit |-> Loaded(f).explicit]
  BY DEF Loaded
<1>7. Loaded(f).level \in Nat
  BY <1>4
<1>8. Loaded(f) \in Prefs
  BY <1>2, <1>3, <1>6, <1>7 DEF Prefs
<1> QED BY <1>3, <1>4, <1>5, <1>8

-----------------------------------------------------------------------------
(* Where a task goes.                                                       *)
LEMMA GotoType ==
    ASSUME LightTypeOK, NEW t \in Callers, NEW place \in Places, Goto(t, place)
    PROVE  /\ task' \in [Callers -> TaskState]
           /\ task'[t].at = place
           /\ task'[t].timeout = task[t].timeout /\ task'[t].level = task[t].level
           /\ \A u \in Callers \ {t} : task'[u] = task[u]
<1>1. task[t] \in TaskState /\ task \in [Callers -> TaskState]
  BY DEF LightTypeOK
<1>2. task' = [task EXCEPT ![t].at = place]
  BY DEF Goto
<1>3. [task[t] EXCEPT !.at = place] \in TaskState
  BY <1>1 DEF TaskState
<1> QED BY <1>1, <1>2, <1>3 DEF TaskState

(* A step of a task that keeps the preferences and takes a place that needs *)
(* no field, or keeps the one it needs.                                     *)
LEMMA StepKeeps ==
    ASSUME LightInv, NEW t \in Callers, NEW place \in Places, Goto(t, place),
           place # "timeout",
           place \in {"awake", "show"} => task[t].level \in Nat,
           UNCHANGED <<s_level, s_timeout_ms, callback, m, flash>>,
           light' \in 0 .. 100, s_on' \in BOOLEAN, armed' \in BOOLEAN
    PROVE  LightInv'
<1>1. /\ task' \in [Callers -> TaskState]
      /\ task'[t].at = place
      /\ task'[t].timeout = task[t].timeout /\ task'[t].level = task[t].level
      /\ \A u \in Callers \ {t} : task'[u] = task[u]
  BY GotoType DEF LightInv
<1>2. LightTypeOK'
  BY <1>1 DEF LightInv, LightTypeOK
<1>3. LevelSense' /\ FileSense'
  BY DEF LightInv, LevelSense, FileSense
<1>4. FieldSense'
  BY <1>1 DEF LightInv, FieldSense
<1> QED BY <1>2, <1>3, <1>4 DEF LightInv

(* The same of a step that puts a task in a state of its own.               *)
LEMMA PlacedKeeps ==
    ASSUME LightInv, NEW t \in Callers, NEW me \in TaskState,
           task' = [task EXCEPT ![t] = me],
           me.at = "timeout" => me.timeout \in Nat,
           me.at \notin {"awake", "show"},
           UNCHANGED <<lightVars, m>>,
           flash' = flash \/ flash' = Saved(m)
    PROVE  LightInv'
<1>1. task' \in [Callers -> TaskState]
  BY DEF LightInv, LightTypeOK
<1>2. flash' \in File /\ flash'.level \in (0 .. 100) \cup {Unset} /\ Loaded(flash') = m
  BY ReadsWhatItWrote DEF LightInv, LightTypeOK, LevelSense, FileSense
<1>3. LightTypeOK'
  BY <1>1, <1>2 DEF LightInv, LightTypeOK, lightVars
<1>4. LevelSense' /\ FileSense'
  BY <1>2 DEF LightInv, LevelSense, FileSense, lightVars
<1>5. FieldSense'
  BY DEF LightInv, LightTypeOK, FieldSense
<1> QED BY <1>3, <1>4, <1>5 DEF LightInv

(* Timeout and level are set in the preferences, the file and in use.       *)
LEMMA SetKeeps ==
    ASSUME LightInv, NEW t \in Callers, NEW place \in Places, Goto(t, place),
           place # "timeout",
           place \in {"awake", "show"} => task[t].level \in Nat,
           NEW p \in Prefs, p.level \in 0 .. 100,
           ~p.explicit => p.level = DefaultLevel,
           m' = p, flash' = Saved(p), s_timeout_ms' = p.timeout,
           s_level' = p.level,
           UNCHANGED <<light, s_on, armed, callback>>
    PROVE  LightInv'
<1>1. /\ task' \in [Callers -> TaskState]
      /\ task'[t].at = place
      /\ task'[t].timeout = task[t].timeout /\ task'[t].level = task[t].level
      /\ \A u \in Callers \ {t} : task'[u] = task[u]
  BY GotoType DEF LightInv
<1>2. flash' \in File /\ flash'.level \in (0 .. 100) \cup {Unset} /\ Loaded(flash') = p
  BY ReadsWhatItWrote
<1>3. p.timeout \in Nat
  BY DEF Prefs
<1>4. LightTypeOK'
  BY <1>1, <1>2, <1>3 DEF LightInv, LightTypeOK
<1>5. LevelSense' /\ FileSense'
  BY <1>2 DEF LevelSense, FileSense
<1>6. FieldSense'
  BY <1>1 DEF LightInv, FieldSense
<1> QED BY <1>4, <1>5, <1>6 DEF LightInv

-----------------------------------------------------------------------------
(* The invariant.                                                           *)
LEMMA LightBegins == LightInit => LightInv
<1> SUFFICES ASSUME LightInit PROVE LightInv
  OBVIOUS
<1>1. flash \in File /\ flash.level \in (0 .. 100) \cup {Unset}
  BY DEF LightInit, File
<1>2. /\ m = Loaded(flash) /\ light = m.level /\ s_level = m.level
      /\ s_on = TRUE /\ s_timeout_ms = m.timeout /\ armed = (m.timeout > 0)
      /\ callback = "none" /\ task = [t \in Callers |-> Resting]
  BY DEF LightInit, Booted
<1>3. /\ m \in Prefs /\ m.level \in 0 .. 100
      /\ ~m.explicit => m.level = DefaultLevel
  BY <1>1, <1>2, LoadedType
<1>4. m.timeout \in Nat
  BY <1>3 DEF Prefs
<1>5. task \in [Callers -> TaskState] /\ \A t \in Callers : task[t].at = "idle"
  BY <1>2 DEF Resting, TaskState, Places
<1>6. LightTypeOK
  BY <1>1, <1>2, <1>3, <1>4, <1>5 DEF LightTypeOK
<1>7. LevelSense /\ FileSense /\ FieldSense
  BY <1>1, <1>2, <1>3, <1>5 DEF LevelSense, FileSense, FieldSense
<1> QED BY <1>6, <1>7 DEF LightInv

LEMMA LightStep == LightInv /\ [LightNext]_allVars => LightInv'
<1> SUFFICES ASSUME LightInv, [LightNext]_allVars PROVE LightInv'
  OBVIOUS
<1> USE DEF Places
<1>f. \A t \in Callers : task[t] \in TaskState
  BY DEF LightInv, LightTypeOK
<1>m. /\ m \in Prefs /\ m.level \in 0 .. 100 /\ m.timeout \in Nat
      /\ m.explicit \in BOOLEAN /\ (~m.explicit => m.level = DefaultLevel)
      /\ s_level = m.level /\ s_timeout_ms = m.timeout
      /\ light \in 0 .. 100 /\ s_on \in BOOLEAN /\ armed \in BOOLEAN
  BY DEF LightInv, LightTypeOK, LevelSense, FileSense, Prefs
<1>1. ASSUME NEW t \in Callers, BeginWake(t) PROVE LightInv'
  <2>1. [Resting EXCEPT !.at = "wake"] \in TaskState
    BY DEF Resting, TaskState
  <2>2. [Resting EXCEPT !.at = "wake"].at = "wake"
    BY DEF Resting
  <2> QED BY <1>1, <2>1, <2>2, PlacedKeeps DEF BeginWake
<1>2. ASSUME NEW t \in Callers, Wake(t) \/ Arm(t) PROVE LightInv'
  BY <1>2, <1>m, StepKeeps DEF Wake, Arm, AfterArm, lightVars
<1>3. ASSUME NEW t \in Callers, SwitchOn(t) \/ MarkOn(t) PROVE LightInv'
  BY <1>3, <1>m, StepKeeps DEF SwitchOn, MarkOn
<1>4. ASSUME NEW t \in Callers, StopTimer(t) \/ StartTimer(t) PROVE LightInv'
  BY <1>4, <1>m, StepKeeps DEF StopTimer, StartTimer, AfterArm
<1>5. ASSUME NEW h \in Callers, SetPreferences(h) PROVE LightInv'
  <2>1. PICK ms \in Timeouts \cup {Unset}, level \in Levels \cup {Unset} :
          task' = [task EXCEPT ![h] =
                     [at |-> IF ms = Unset THEN "level" ELSE "timeout",
                      timeout |-> ms, level |-> level]]
    BY <1>5 DEF SetPreferences
  <2>2. ms \in Nat \cup {Unset} /\ level \in Nat \cup {Unset}
    BY BacklightAssumption DEF BacklightAssumption
  <2>3. [at |-> IF ms = Unset THEN "level" ELSE "timeout",
         timeout |-> ms, level |-> level] \in TaskState
    BY <2>2 DEF TaskState
  <2> QED BY <1>5, <2>1, <2>2, <2>3, PlacedKeeps DEF SetPreferences
<1>6. ASSUME NEW h \in Callers, SetTimeout(h) PROVE LightInv'
  <2>1. task[h].timeout \in Nat
    BY <1>6 DEF LightInv, FieldSense, SetTimeout, At
  <2> DEFINE p == [timeout |-> task[h].timeout, level |-> m.level,
                   explicit |-> m.explicit]
  <2>2. /\ p \in Prefs /\ p.timeout = task[h].timeout
        /\ p.level \in 0 .. 100 /\ (~p.explicit => p.level = DefaultLevel)
    BY <1>m, <2>1 DEF Prefs
  <2>3. m' = p
    BY <1>6, <1>m DEF SetTimeout, Prefs
  <2>4. /\ flash' = Saved(p) /\ s_timeout_ms' = p.timeout /\ s_level' = p.level
        /\ Goto(h, "disarm") \/ Goto(h, "arm")
        /\ UNCHANGED <<light, s_on, armed, callback>>
    BY <1>6, <1>m, <2>3 DEF SetTimeout
  <2> HIDE DEF p
  <2>6. CASE Goto(h, "disarm")
    BY <2>2, <2>3, <2>4, <2>6, SetKeeps
  <2>7. CASE Goto(h, "arm")
    BY <2>2, <2>3, <2>4, <2>7, SetKeeps
  <2> QED BY <2>4, <2>6, <2>7
<1>7. ASSUME NEW h \in Callers, SetLevel(h) PROVE LightInv'
  <2>1. CASE task[h].level = Unset
    BY <1>7, <2>1, <1>m, StepKeeps DEF SetLevel
  <2>2. CASE task[h].level # Unset
    <3>1. task[h].level \in Nat
      BY <1>f, <2>2 DEF TaskState
    <3> DEFINE n == MinOf(Byte(task[h].level), 100)
               p == [timeout |-> m.timeout, level |-> n, explicit |-> TRUE]
    <3>2. n \in 0 .. 100
      BY <3>1, Limited
    <3>3. p \in Prefs /\ p.timeout = m.timeout /\ p.level = n /\ p.explicit
      BY <1>m, <3>2 DEF Prefs
    <3>5. m' = p
      BY <1>7, <1>m, <2>2 DEF SetLevel, Prefs
    <3>4. /\ m' = p /\ flash' = Saved(p) /\ s_timeout_ms' = p.timeout
          /\ s_level' = p.level /\ Goto(h, "awake")
          /\ UNCHANGED <<light, s_on, armed, callback>>
      BY <1>7, <1>m, <2>2, <3>3, <3>5 DEF SetLevel
    <3> HIDE DEF p, n
    <3> QED BY <3>1, <3>2, <3>3, <3>4, SetKeeps
  <2> QED BY <2>1, <2>2
<1>8. ASSUME NEW h \in Callers, Disarm(h) \/ EnsureOn(h) PROVE LightInv'
  BY <1>8, <1>m, StepKeeps DEF Disarm, EnsureOn, lightVars
<1>9. ASSUME NEW h \in Callers, IfAwake(h) PROVE LightInv'
  <2>1. task[h].level \in Nat
    BY <1>9 DEF IfAwake, At, LightInv, FieldSense
  <2> QED BY <1>9, <2>1, <1>m, StepKeeps DEF IfAwake, lightVars
<1>10. ASSUME NEW h \in Callers, ShowLevel(h) PROVE LightInv'
  <2>1. task[h].level \in Nat
    BY <1>10 DEF ShowLevel, At, LightInv, FieldSense
  <2>2. light' \in 0 .. 100
    BY <1>10, <2>1, Limited DEF ShowLevel
  <2> QED BY <1>10, <2>2, <1>m, StepKeeps DEF ShowLevel
<1>11. ASSUME NEW h \in Callers, Save(h) PROVE LightInv'
  <2>1. Resting \in TaskState /\ Resting.at = "idle"
    BY DEF Resting, TaskState
  <2> QED BY <1>11, <2>1, PlacedKeeps DEF Save
<1>12. CASE Expire \/ Callback
  <2>1. /\ UNCHANGED <<s_level, s_timeout_ms, task, m, flash>>
        /\ light' \in 0 .. 100 /\ s_on' \in BOOLEAN /\ armed' \in BOOLEAN
        /\ callback' \in {"none", "off", "record"}
    <3>1. CASE Expire
      BY <1>m, <3>1 DEF Expire
    <3>2. CASE SwitchOff
      BY <1>m, <3>2 DEF SwitchOff
    <3>3. CASE RecordOff
      BY <1>m, <3>3 DEF RecordOff
    <3> QED BY <1>12, <3>1, <3>2, <3>3 DEF Callback
  <2>2. LightTypeOK'
    BY <2>1 DEF LightInv, LightTypeOK
  <2>3. LevelSense' /\ FileSense' /\ FieldSense'
    BY <2>1 DEF LightInv, LevelSense, FileSense, FieldSense
  <2> QED BY <2>2, <2>3 DEF LightInv
<1>13. CASE PowerCycle
  <2>1. Loaded(flash) = m
    BY DEF LightInv, FileSense
  <2>2. /\ light' = m.level /\ s_level' = m.level /\ s_on' = TRUE
        /\ s_timeout_ms' = m.timeout /\ armed' = (m.timeout > 0)
        /\ callback' = "none" /\ task' = [t \in Callers |-> Resting]
        /\ m' = m /\ flash' = flash
    BY <1>13, <2>1 DEF PowerCycle
  <2>3. task' \in [Callers -> TaskState] /\ \A t \in Callers : task'[t].at = "idle"
    BY <2>2 DEF Resting, TaskState
  <2>4. LightTypeOK'
    BY <1>m, <2>2, <2>3 DEF LightInv, LightTypeOK
  <2>5. LevelSense' /\ FileSense' /\ FieldSense'
    BY <2>2, <2>3 DEF LightInv, LevelSense, FileSense, FieldSense
  <2> QED BY <2>4, <2>5 DEF LightInv
<1>14. CASE UNCHANGED allVars
  BY <1>14 DEF allVars, lightVars, LightInv, LightTypeOK, LevelSense, FileSense, FieldSense
<1>15. CASE LightNext
  BY <1>1, <1>2, <1>3, <1>4, <1>5, <1>6, <1>7, <1>8, <1>9, <1>10, <1>11, <1>12,
     <1>13, <1>15 DEF LightNext, WakeStep, HostStep, Callers
<1> QED BY <1>14, <1>15

(* The light, the level and the preferences never leave their ranges.       *)
THEOREM LightTypeCorrect == LightSpec => []LightTypeOK
<1>1. LightInv => LightTypeOK
  BY DEF LightInv
<1> QED BY <1>1, LightBegins, LightStep, PTL DEF LightSpec

(* What a power cycle would bring back is what is in use.                   *)
THEOREM SettingsSurvive == LightSpec => []SettingsAgree
<1>1. LightInv => SettingsAgree
  BY DEF LightInv, FileSense, SettingsAgree
<1> QED BY <1>1, LightBegins, LightStep, PTL DEF LightSpec

-----------------------------------------------------------------------------
(* With one host, nobody changes the timeout between its disarming and its  *)
(* end, when the timer is left stopped.                                     *)
OneHost == \A g, h \in Hosts : g = h

SleepSense ==
    \A t \in Callers :
        /\ task[t].timeout # Unset => t \in Hosts
        /\ task[t].at \in {"timeout", "disarm", "ensure"} => task[t].timeout # Unset
        /\ task[t].at = "wake" => task[t].timeout = Unset
        /\ task[t].at \in {"disarm", "ensure"} => s_timeout_ms = 0
        /\ task[t].at \in {"light", "mark"} /\ task[t].timeout = 0
              => s_timeout_ms = 0

SleepInv == SleepSense /\ SleepComes

(* A step of a task that keeps the timeout and the timer running.           *)
LEMMA SleepInvKeeps ==
    ASSUME LightInv, SleepInv, NEW t \in Callers, NEW place \in Places,
           Goto(t, place), UNCHANGED <<s_timeout_ms, callback>>,
           place \notin {"timeout", "wake"},
           place \in {"disarm", "ensure"} => task[t].timeout # Unset /\ s_timeout_ms = 0,
           place \in {"light", "mark"} /\ task[t].timeout = 0 => s_timeout_ms = 0,
           \/ s_timeout_ms = 0
           \/ place \in {"arm", "stop", "start"}
           \/ armed'
           \/ /\ task[t].at \notin {"arm", "stop", "start"}
              /\ s_on' = s_on /\ armed' = armed
    PROVE  SleepInv'
<1>1. /\ task'[t].at = place
      /\ task'[t].timeout = task[t].timeout
      /\ \A u \in Callers \ {t} : task'[u] = task[u]
  BY GotoType DEF LightInv
<1>2. SleepSense'
  BY <1>1 DEF SleepInv, SleepSense
<1>3. SleepComes'
  BY <1>1 DEF SleepInv, SleepComes
<1> QED BY <1>2, <1>3 DEF SleepInv

LEMMA SleepInit == LightInit => SleepInv
<1> SUFFICES ASSUME LightInit PROVE SleepInv
  OBVIOUS
<1>1. LightInv
  BY LightBegins
<1>2. s_timeout_ms \in Nat /\ armed = (s_timeout_ms > 0)
  BY <1>1 DEF LightInv, LightTypeOK, LightInit, Booted
<1>3. \A t \in Callers : task[t].at = "idle" /\ task[t].timeout = Unset
  BY DEF LightInit, Booted, Resting
<1>4. (s_timeout_ms > 0) \/ s_timeout_ms = 0
  BY <1>2
<1>5. SleepComes
  BY <1>2, <1>4, Zenon DEF SleepComes
<1>6. SleepSense
  BY <1>3 DEF SleepSense
<1> QED BY <1>5, <1>6 DEF SleepInv

LEMMA SleepStep ==
    ASSUME OneHost
    PROVE  LightInv /\ SleepInv /\ [LightNext]_allVars => SleepInv'
<1> SUFFICES ASSUME LightInv, SleepInv, [LightNext]_allVars PROVE SleepInv'
  OBVIOUS
<1> USE DEF Places
<1>f. \A t \in Callers : task[t] \in TaskState
  BY DEF LightInv, LightTypeOK
<1>u. Unset # 0 /\ Unset \notin Nat
  BY BacklightAssumption DEF BacklightAssumption
<1>n. s_timeout_ms \in Nat
  BY DEF LightInv, LightTypeOK
<1>1. ASSUME NEW t \in Callers, BeginWake(t) PROVE SleepInv'
  <2>1. /\ task'[t].at = "wake" /\ task'[t].timeout = Unset
        /\ \A u \in Callers \ {t} : task'[u] = task[u]
        /\ UNCHANGED lightVars /\ task[t].at = "idle"
    BY <1>1 DEF BeginWake, Resting, At, LightInv, LightTypeOK
  <2> QED BY <2>1, <1>u DEF SleepInv, SleepSense, SleepComes, lightVars
<1>2. ASSUME NEW t \in Callers, Wake(t) PROVE SleepInv'
  <2>1. task[t].timeout = Unset
    BY <1>2 DEF Wake, At, SleepInv, SleepSense
  <2> QED BY <1>2, <2>1, <1>u, SleepInvKeeps DEF Wake, At, lightVars
<1>3. ASSUME NEW t \in Callers, SwitchOn(t) PROVE SleepInv'
  <2>1. task[t].timeout = 0 => s_timeout_ms = 0
    BY <1>3 DEF SwitchOn, At, SleepInv, SleepSense
  <2> QED BY <1>3, <2>1, SleepInvKeeps DEF SwitchOn, At
<1>4. ASSUME NEW t \in Callers, MarkOn(t) PROVE SleepInv'
  <2>1. task[t].timeout = 0 => s_timeout_ms = 0
    BY <1>4 DEF MarkOn, At, SleepInv, SleepSense
  <2>2. CASE task[t].timeout = 0
    BY <1>4, <2>1, <2>2, SleepInvKeeps DEF MarkOn
  <2>3. CASE task[t].timeout # 0
    BY <1>4, <2>3, SleepInvKeeps DEF MarkOn
  <2> QED BY <2>2, <2>3
<1>5. ASSUME NEW t \in Callers, Arm(t) PROVE SleepInv'
  <2>1. CASE s_timeout_ms = 0
    BY <1>5, <2>1, SleepInvKeeps DEF Arm, AfterArm, lightVars
  <2>2. CASE s_timeout_ms # 0
    BY <1>5, <2>2, SleepInvKeeps DEF Arm, lightVars
  <2> QED BY <2>1, <2>2
<1>6. ASSUME NEW t \in Callers, StopTimer(t) \/ StartTimer(t) PROVE SleepInv'
  <2>1. CASE StopTimer(t)
    BY <2>1, SleepInvKeeps DEF StopTimer
  <2>2. CASE StartTimer(t)
    BY <2>2, SleepInvKeeps DEF StartTimer, AfterArm
  <2> QED BY <1>6, <2>1, <2>2
<1>7. ASSUME NEW h \in Hosts, SetPreferences(h) PROVE SleepInv'
  <2>1. h \in Callers
    BY DEF Callers
  <2>2. PICK ms \in Timeouts \cup {Unset}, level \in Levels \cup {Unset} :
          task' = [task EXCEPT ![h] =
                     [at |-> IF ms = Unset THEN "level" ELSE "timeout",
                      timeout |-> ms, level |-> level]]
    BY <1>7 DEF SetPreferences
  <2>3. /\ task'[h].at = IF ms = Unset THEN "level" ELSE "timeout"
        /\ task'[h].timeout = ms
        /\ \A u \in Callers \ {h} : task'[u] = task[u]
        /\ UNCHANGED lightVars /\ task[h].at = "idle"
    BY <1>7, <2>1, <2>2 DEF SetPreferences, At, LightInv, LightTypeOK
  <2> QED BY <2>3 DEF SleepInv, SleepSense, SleepComes, lightVars
<1>8. ASSUME NEW h \in Hosts, SetTimeout(h) PROVE SleepInv'
  <2>1. h \in Callers /\ \A g \in Hosts : g = h
    BY DEF Callers, OneHost
  <2>2. task[h].timeout \in Nat
    BY <1>8, <2>1 DEF SetTimeout, At, LightInv, FieldSense
  <2>3. PICK place \in {"disarm", "arm"} :
          /\ Goto(h, place)
          /\ place = IF task[h].timeout = 0 THEN "disarm" ELSE "arm"
    BY <1>8 DEF SetTimeout
  <2>4. /\ task'[h].at = place /\ task'[h].timeout = task[h].timeout
        /\ \A u \in Callers \ {h} : task'[u] = task[u]
    BY <2>1, <2>3, GotoType DEF LightInv
  <2>5. s_timeout_ms' = task[h].timeout
    BY <1>8 DEF SetTimeout
  <2>6. \A u \in Callers \ {h} : task[u].timeout = Unset
    BY <2>1 DEF SleepInv, SleepSense
  <2>7. SleepSense'
    BY <2>1, <2>2, <2>3, <2>4, <2>5, <2>6, <1>u DEF SleepInv, SleepSense
  <2>8. SleepComes'
    BY <2>1, <2>3, <2>4, <2>5 DEF SleepComes
  <2> QED BY <2>7, <2>8 DEF SleepInv
<1>9. ASSUME NEW h \in Callers, Disarm(h) \/ EnsureOn(h) PROVE SleepInv'
  <2>1. s_timeout_ms = 0 /\ task[h].timeout # Unset
    BY <1>9 DEF Disarm, EnsureOn, At, SleepInv, SleepSense
  <2> QED BY <1>9, <2>1, SleepInvKeeps DEF Disarm, EnsureOn, lightVars
<1>10. ASSUME NEW h \in Callers, SetLevel(h) PROVE SleepInv'
  BY <1>10, SleepInvKeeps DEF SetLevel, At
<1>11. ASSUME NEW h \in Callers, IfAwake(h) \/ ShowLevel(h) PROVE SleepInv'
  BY <1>11, SleepInvKeeps DEF IfAwake, ShowLevel, At, lightVars
<1>12. ASSUME NEW h \in Callers, Save(h) PROVE SleepInv'
  <2>1. /\ task'[h].at = "idle" /\ task'[h].timeout = Unset
        /\ \A u \in Callers \ {h} : task'[u] = task[u]
        /\ UNCHANGED lightVars /\ task[h].at = "save"
    BY <1>12 DEF Save, Resting, At, LightInv, LightTypeOK
  <2> QED BY <2>1, <1>u DEF SleepInv, SleepSense, SleepComes, lightVars
<1>13. CASE Expire \/ Callback
  <2>1. UNCHANGED <<s_timeout_ms, task>>
    BY <1>13 DEF Expire, Callback, SwitchOff, RecordOff
  <2>2. ~s_on' \/ callback' # "none"
    BY <1>13 DEF Expire, Callback, SwitchOff, RecordOff
  <2> QED BY <2>1, <2>2 DEF SleepInv, SleepSense, SleepComes
<1>14. CASE PowerCycle
  <2>1. /\ s_timeout_ms' \in Nat /\ armed' = (s_timeout_ms' > 0)
    BY <1>14, LightStep DEF PowerCycle, LightInv, LightTypeOK
  <2>2. \A t \in Callers : task'[t].at = "idle" /\ task'[t].timeout = Unset
    BY <1>14 DEF PowerCycle, Resting
  <2>3. (s_timeout_ms' > 0) \/ s_timeout_ms' = 0
    BY <2>1
  <2>4. SleepComes'
    BY <2>1, <2>3, Zenon DEF SleepComes
  <2>5. SleepSense'
    BY <2>2 DEF SleepSense
  <2> QED BY <2>4, <2>5 DEF SleepInv
<1>15. CASE UNCHANGED allVars
  BY <1>15 DEF allVars, lightVars, SleepInv, SleepSense, SleepComes
<1>16. CASE LightNext
  BY <1>1, <1>2, <1>3, <1>4, <1>5, <1>6, <1>7, <1>8, <1>9, <1>10, <1>11, <1>12,
     <1>13, <1>14, <1>16 DEF LightNext, WakeStep, HostStep, Callers
<1> QED BY <1>15, <1>16

(* With one host, a light that is recorded as on is always going to be      *)
(* switched off.                                                            *)
THEOREM LightSleeps ==
    ASSUME OneHost
    PROVE  LightSpec => []SleepComes
<1>1. LightInv /\ SleepInv /\ [LightNext]_allVars => SleepInv'
  BY SleepStep
<1>2. SleepInv => SleepComes
  BY DEF SleepInv
<1> QED BY <1>1, <1>2, LightBegins, LightStep, SleepInit, PTL DEF LightSpec
=============================================================================
