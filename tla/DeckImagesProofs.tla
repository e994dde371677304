--------------------------- MODULE DeckImagesProofs ---------------------------
(***************************************************************************)
(* What holds of DeckImages for every number of keys and pictures, every   *)
(* capacity of the cache and every bound.                                  *)
(***************************************************************************)
EXTENDS DeckImages, FiniteSetTheorems, SequenceTheorems, TLAPS

USE DeckImagesAssumption DEF DeckImagesAssumption

(* No picture is entered twice.                                             *)
Injective(q) == \A j, k \in DOMAIN q : q[j] = q[k] => j = k

(* A picture has been asked for since each one that stands before it was.   *)
Ordered(q) == \A j, k \in DOMAIN q : j < k => q[k] \in asked[q[j]]

(* Where the program is in set_cached_image when the picture is missing.    *)
Making == {"wipe", "evict", "upload"}

(* The cache, between the steps of set_cached_image: nothing is entered     *)
(* before the wipe, and the room for the picture that is asked for is made  *)
(* before it is uploaded.                                                   *)
CacheInv ==
    /\ Injective(entries)
    /\ Len(entries) <= Capacity
    /\ ~wiped => entries = <<>>
    /\ call.at = "wipe" => ~wiped
    /\ call.at = "evict" => wiped /\ Len(entries) >= Capacity
    /\ call.at = "upload" => wiped /\ Len(entries) < Capacity
    /\ call.at \in Making => Want \notin Resident

(* What the device has and what the index says of it.                       *)
DeviceInv == Resident \subseteq files /\ files \ leaked \subseteq Resident

(* The order of the index is the order in which pictures were asked for.    *)
RecencyInv ==
    /\ Ordered(entries)
    /\ call.at \in Making =>
          \A i \in Images \ {Want} : Want \in asked[i]
    /\ KeepsRecent

(* Between saving the page and showing it no slot is known.                 *)
SlotsInv ==
    /\ call.at = "show" => doubt = Slots
    /\ KnownIsShown

IInv == TypeOK /\ CacheInv /\ DeviceInv /\ RecencyInv /\ SlotsInv

-----------------------------------------------------------------------------
(* Queues of pictures: an element goes to the end, ...                      *)
LEMMA AppendFacts ==
    ASSUME NEW S, NEW q \in Seq(S), NEW e \in S
    PROVE  /\ Append(q, e) \in Seq(S)
           /\ Len(Append(q, e)) = Len(q) + 1
           /\ DOMAIN Append(q, e) = DOMAIN q \cup {Len(q) + 1}
           /\ \A n \in DOMAIN q : Append(q, e)[n] = q[n]
           /\ Append(q, e)[Len(q) + 1] = e
           /\ Range(Append(q, e)) = Range(q) \cup {e}
<1> DEFINE a == Append(q, e)
<1>1. /\ a \in Seq(S)
      /\ Len(q) \in Nat
      /\ DOMAIN q = 1 .. Len(q)
      /\ Len(a) = Len(q) + 1
      /\ DOMAIN a = 1 .. Len(q) + 1
      /\ \A n \in 1 .. Len(q) : a[n] = q[n]
      /\ a[Len(q) + 1] = e
  OBVIOUS
<1> HIDE DEF a
<1>2. DOMAIN a = DOMAIN q \cup {Len(q) + 1}
  BY <1>1
<1>3. Range(a) = Range(q) \cup {e}
  BY <1>1, <1>2 DEF Range
<1> QED BY <1>1, <1>2, <1>3 DEF a

(* ... the head goes, ...                                                   *)
LEMMA TailFacts ==
    ASSUME NEW S, NEW q \in Seq(S), q # <<>>
    PROVE  /\ Head(q) \in S /\ Tail(q) \in Seq(S)
           /\ Len(q) \in Nat \ {0} /\ Len(Tail(q)) = Len(q) - 1
           /\ DOMAIN q = 1 .. Len(q)
           /\ DOMAIN Tail(q) = 1 .. Len(q) - 1
           /\ \A n \in 1 .. Len(q) - 1 : Tail(q)[n] = q[n + 1]
           /\ Head(q) = q[1]
           /\ Range(q) = Range(Tail(q)) \cup {Head(q)}
<1> DEFINE t == Tail(q)
           h == Head(q)
<1>1. /\ h \in S /\ t \in Seq(S)
      /\ Len(q) \in Nat \ {0} /\ Len(t) = Len(q) - 1
      /\ DOMAIN q = 1 .. Len(q)
      /\ DOMAIN t = 1 .. Len(q) - 1
      /\ \A n \in 1 .. Len(q) - 1 : t[n] = q[n + 1]
      /\ h = q[1]
  OBVIOUS
<1> HIDE DEF t, h
<1>2. \A n \in 1 .. Len(q) : n = 1 \/ (n - 1 \in DOMAIN t /\ t[n - 1] = q[n])
  <2> TAKE n \in 1 .. Len(q)
  <2>1. CASE n = 1
    BY <2>1
  <2>2. CASE n # 1
    <3>1. n - 1 \in 1 .. Len(q) - 1 /\ (n - 1) + 1 = n
      BY <1>1, <2>2
    <3> QED BY <1>1, <3>1
  <2> QED BY <2>1, <2>2
<1>3. ASSUME NEW x \in Range(q) PROVE x \in Range(t) \cup {h}
  <2> PICK n \in 1 .. Len(q) : q[n] = x
    BY <1>1 DEF Range
  <2> QED BY <1>1, <1>2 DEF Range
<1>4. ASSUME NEW x \in Range(t) PROVE x \in Range(q)
  <2> PICK n \in 1 .. Len(q) - 1 : t[n] = x
    BY <1>1 DEF Range
  <2>1. n + 1 \in DOMAIN q /\ q[n + 1] = x
    BY <1>1
  <2> QED BY <2>1 DEF Range
<1>5. h \in Range(q)
  BY <1>1 DEF Range
<1> QED BY <1>1, <1>3, <1>4, <1>5 DEF t, h

(* ... and one that is used moves to the end.                               *)
LEMMA RemoveAtFacts ==
    ASSUME NEW S, NEW q \in Seq(S), NEW n \in DOMAIN q
    PROVE  /\ RemoveAt(q, n) \in Seq(S)
           /\ Len(RemoveAt(q, n)) = Len(q) - 1
           /\ \A j \in 1 .. Len(q) - 1 :
                 RemoveAt(q, n)[j] = IF j < n THEN q[j] ELSE q[j + 1]
<1>1. DOMAIN q = 1 .. Len(q) /\ Len(q) \in Nat /\ n \in 1 .. Len(q)
  OBVIOUS
<1> DEFINE a == SubSeq(q, 1, n - 1)
           b == SubSeq(q, n + 1, Len(q))
<1>2. a \in Seq(S) /\ Len(a) = n - 1 /\ \A j \in 1 .. n - 1 : a[j] = q[j]
  BY <1>1
<1>3. /\ b \in Seq(S) /\ Len(b) = Len(q) - n
      /\ \A j \in 1 .. Len(q) - n : b[j] = q[n + j]
  <2>1. b \in Seq(S) /\ Len(b) = Len(q) - n
    BY <1>1
  <2>2. \A j \in 1 .. Len(q) - n : b[j] = q[n + j]
    BY <1>1
  <2> QED BY <2>1, <2>2
<1> HIDE DEF a, b
<1>4. /\ a \o b \in Seq(S)
      /\ Len(a \o b) = Len(a) + Len(b)
      /\ \A j \in 1 .. Len(a) + Len(b) :
            (a \o b)[j] = IF j <= Len(a) THEN a[j] ELSE b[j - Len(a)]
  BY <1>2, <1>3, ConcatProperties
<1>5. RemoveAt(q, n) = a \o b
  BY DEF RemoveAt, a, b
<1>6. ASSUME NEW j \in 1 .. Len(q) - 1
      PROVE  (a \o b)[j] = IF j < n THEN q[j] ELSE q[j + 1]
  <2>1. CASE j < n
    <3>1. j \in 1 .. Len(a) + Len(b) /\ j \in 1 .. n - 1 /\ j <= Len(a)
      BY <1>1, <1>2, <1>3, <2>1
    <3>2. (a \o b)[j] = a[j]
      BY <1>4, <3>1
    <3>3. a[j] = q[j]
      BY <1>2, <3>1
    <3> QED BY <2>1, <3>2, <3>3
  <2>2. CASE ~(j < n)
    <3> DEFINE i == j - (n - 1)
    <3>1. i \in 1 .. Len(q) - n /\ n + i = j + 1 /\ ~(j <= n - 1)
      BY <1>1, <2>2
    <3>2. j \in 1 .. Len(a) + Len(b)
      BY <1>1, <1>2, <1>3
    <3>3. (a \o b)[j] = b[i]
      BY <1>2, <1>4, <3>1, <3>2
    <3>4. b[i] = q[j + 1]
      BY <1>3, <3>1
    <3> QED BY <2>2, <3>3, <3>4
  <2> QED BY <2>1, <2>2
<1>7. Len(a) + Len(b) = Len(q) - 1
  BY <1>1, <1>2, <1>3
<1> QED BY <1>4, <1>5, <1>6, <1>7

LEMMA TouchedFacts ==
    ASSUME NEW S, NEW q \in Seq(S), NEW e \in Range(q)
    PROVE  /\ Place(q, e) \in DOMAIN q /\ q[Place(q, e)] = e
           /\ Touched(q, e) \in Seq(S)
           /\ Len(Touched(q, e)) = Len(q)
           /\ DOMAIN Touched(q, e) = DOMAIN q
           /\ \A j \in DOMAIN q :
                 Touched(q, e)[j] = IF j < Place(q, e) THEN q[j]
                                    ELSE IF j < Len(q) THEN q[j + 1] ELSE e
<1>1. DOMAIN q = 1 .. Len(q) /\ Len(q) \in Nat
  OBVIOUS
<1>2. \E n \in DOMAIN q : q[n] = e
  BY DEF Range
<1>3. Place(q, e) \in DOMAIN q /\ q[Place(q, e)] = e
  BY <1>2 DEF Place
<1> DEFINE n == Place(q, e)
           r == RemoveAt(q, n)
           t == Append(r, e)
<1> HIDE DEF n
<1>4. /\ n \in 1 .. Len(q) /\ q[n] = e /\ e \in S
  BY <1>1, <1>3 DEF n
<1>5. /\ r \in Seq(S) /\ Len(r) = Len(q) - 1
      /\ \A j \in 1 .. Len(q) - 1 : r[j] = IF j < n THEN q[j] ELSE q[j + 1]
  <2>1. n \in DOMAIN q
    BY <1>1, <1>4
  <2> QED BY <2>1, RemoveAtFacts
<1> HIDE DEF r
<1>6. /\ t \in Seq(S) /\ Len(t) = Len(q)
      /\ \A j \in DOMAIN r : t[j] = r[j]
      /\ t[Len(q)] = e
  <2>1. /\ t \in Seq(S) /\ Len(t) = Len(r) + 1
        /\ \A j \in DOMAIN r : t[j] = r[j]
        /\ t[Len(r) + 1] = e
    BY <1>4, <1>5, AppendFacts
  <2>2. Len(r) + 1 = Len(q)
    BY <1>1, <1>5
  <2> QED BY <2>1, <2>2
<1>7. DOMAIN r = 1 .. Len(q) - 1 /\ DOMAIN t = 1 .. Len(q)
  BY <1>5, <1>6
<1>8. ASSUME NEW j \in DOMAIN q
      PROVE  t[j] = IF j < n THEN q[j] ELSE IF j < Len(q) THEN q[j + 1] ELSE e
  <2>1. CASE j = Len(q)
    BY <1>1, <1>4, <1>6, <2>1
  <2>2. CASE j # Len(q)
    <3>1. j \in 1 .. Len(q) - 1 /\ j < Len(q)
      BY <1>1, <2>2
    <3> QED BY <1>5, <1>6, <1>7, <3>1
  <2> QED BY <2>1, <2>2
<1>9. Touched(q, e) = t
  BY DEF Touched, t, r, n
<1> QED BY <1>1, <1>3, <1>6, <1>7, <1>8, <1>9 DEF n

(* The queue holds what it held, each once.                                 *)
LEMMA TouchedSame ==
    ASSUME NEW S, NEW q \in Seq(S), Injective(q), NEW e \in Range(q)
    PROVE  /\ Injective(Touched(q, e))
           /\ Range(Touched(q, e)) = Range(q)
<1> DEFINE n == Place(q, e)
           t == Touched(q, e)
<1>1. /\ DOMAIN q = 1 .. Len(q) /\ Len(q) \in Nat
      /\ n \in DOMAIN q /\ q[n] = e
      /\ t \in Seq(S) /\ DOMAIN t = DOMAIN q
      /\ \A j \in DOMAIN q :
            t[j] = IF j < n THEN q[j] ELSE IF j < Len(q) THEN q[j + 1] ELSE e
  BY TouchedFacts
<1> HIDE DEF n, t
(* from[j]: where the j-th of the new queue stood.                          *)
<1> DEFINE from == [j \in DOMAIN q |-> IF j < n THEN j ELSE IF j < Len(q) THEN j + 1 ELSE n]
<1>2. \A j \in DOMAIN q : from[j] \in DOMAIN q /\ t[j] = q[from[j]]
  BY <1>1
<1>3. \A j, k \in DOMAIN q : from[j] = from[k] => j = k
  BY <1>1
<1>4. \A k \in DOMAIN q : \E j \in DOMAIN q : from[j] = k
  <2> TAKE k \in DOMAIN q
  <2>1. CASE k < n
    BY <1>1, <2>1
  <2>2. CASE k = n
    <3>1. Len(q) \in DOMAIN q /\ from[Len(q)] = n
      BY <1>1
    <3> QED BY <2>2, <3>1
  <2>3. CASE k > n
    <3>1. k - 1 \in DOMAIN q /\ from[k - 1] = k
      BY <1>1, <2>3
    <3> QED BY <3>1
  <2> QED BY <1>1, <2>1, <2>2, <2>3
<1> HIDE DEF from
<1>5. Injective(t)
  BY <1>1, <1>2, <1>3 DEF Injective
<1>6. Range(t) \subseteq Range(q)
  BY <1>1, <1>2 DEF Range
<1>7. ASSUME NEW x \in Range(q) PROVE x \in Range(t)
  <2> PICK k \in DOMAIN q : q[k] = x
    BY DEF Range
  <2> PICK j \in DOMAIN q : from[j] = k
    BY <1>4
  <2>1. t[j] = x /\ j \in DOMAIN t
    BY <1>1, <1>2
  <2> QED BY <2>1 DEF Range
<1> QED BY <1>5, <1>6, <1>7 DEF t

(* A queue in which nothing stands twice has as many elements as places.    *)
LEMMA RangeSize ==
    ASSUME NEW S, NEW q \in Seq(S), Injective(q)
    PROVE  IsFiniteSet(Range(q)) /\ Cardinality(Range(q)) = Len(q)
<1>1. Len(q) \in Nat /\ DOMAIN q = 1 .. Len(q) /\ q = [j \in 1 .. Len(q) |-> q[j]]
  OBVIOUS
<1>2. q \in Bijection(1 .. Len(q), Range(q))
  BY <1>1 DEF Injective, Bijection, Injection, Surjection, Range, IsInjective
<1>3. ExistsBijection(1 .. Len(q), Range(q))
  BY <1>2 DEF ExistsBijection
<1> QED BY <1>1, <1>3, FS_CountingElements, FS_NatBijection

-----------------------------------------------------------------------------
LEMMA NoCallFacts ==
    /\ NoCall \in Calls
    /\ NoCall.at = "idle" /\ NoCall.key \in Keys
BY DEF NoCall, Calls

LEMMA CallFacts ==
    ASSUME TypeOK
    PROVE  /\ Want \in Images
           /\ call \in Calls
           /\ \A place \in {"lookup", "wipe", "evict", "upload", "page", "show", "choose"} :
                 [call EXCEPT !.at = place] \in Calls
           /\ Chosen \in Slots
<1>1. call \in Calls /\ call.key \in Keys
  BY DEF TypeOK, Calls
<1>2. (call.key \in pressed) \in BOOLEAN
  OBVIOUS
<1>3. Chosen \in Slots
  BY <1>1, <1>2 DEF Chosen, Slots
<1>4. Want \in Images
  BY DEF TypeOK, Calls, Want
<1>5. \A place \in {"lookup", "wipe", "evict", "upload", "page", "show", "choose"} :
         [call EXCEPT !.at = place] \in Calls
  BY <1>1 DEF Calls
<1> QED BY <1>1, <1>3, <1>4, <1>5

LEMMA CommandFacts ==
    ASSUME TypeOK, NEW outcome \in Outcomes, Command(outcome)
    PROVE  faults' \in 0 .. MaxFaults /\ sessions' \in 0 .. MaxSessions
BY DEF TypeOK, Command, Outcomes, Raises

LEMMA FreshFacts ==
    ASSUME TypeOK, Fresh
    PROVE  /\ faults' \in 0 .. MaxFaults /\ sessions' \in 0 .. MaxSessions
           /\ entries' \in Seq(Images) /\ wiped' \in BOOLEAN
           /\ blank' \in MaybeImage /\ pushed' \in BOOLEAN
           /\ pressed' \subseteq Keys /\ last' \in [Slots -> MaybeImage]
           /\ call' \in Calls
           /\ asked' \in [Images -> SUBSET Images]
<1>1. <<>> \in Seq(Images)
  OBVIOUS
<1>2. sessions' \in 0 .. MaxSessions
  BY DEF TypeOK, Fresh
<1>3. NoSlots \in [Slots -> MaybeImage]
  BY DEF NoSlots, MaybeImage
<1>4. call' \in Calls
  BY NoCallFacts DEF Fresh
<1> QED BY <1>1, <1>2, <1>3, <1>4 DEF TypeOK, Fresh, MaybeImage

(* A step of the program's calls, of the read thread, of the user.          *)
LEMMA TypeStep == TypeOK /\ CacheInv /\ [Next]_vars => TypeOK'
<1> SUFFICES ASSUME TypeOK, CacheInv, [Next]_vars PROVE TypeOK'
  OBVIOUS
<1> USE NoCallFacts, CallFacts, CommandFacts
<1>1. ASSUME NEW k \in Keys, NEW image \in Images, SetKeyImage(k, image)
      PROVE  TypeOK'
  BY <1>1 DEF TypeOK, SetKeyImage, Seed, Calls, device, cache, deck, bounds, history
<1>2. ASSUME Reset PROVE TypeOK'
  BY <1>2 DEF TypeOK, Reset, Seed, Calls, device, cache, deck, bounds, history
<1>3. ASSUME Hit PROVE TypeOK'
  <2>1. entries' \in Seq(Images)
    BY <1>3, TouchedFacts DEF TypeOK, Hit, Resident
  <2>2. call' \in Calls
    BY <1>3 DEF Hit, GoTo
  <2>3. asked' \in [Images -> SUBSET Images]
    BY <1>3 DEF TypeOK, Hit, Requested
  <2> QED BY <1>3, <2>1, <2>2, <2>3 DEF TypeOK, Hit, MaybeImage, device, bounds
<1>4. ASSUME Miss PROVE TypeOK'
  BY <1>4 DEF TypeOK, Miss, GoTo, Requested, device, cache, deck, bounds
<1>5. ASSUME Skip PROVE TypeOK'
  BY <1>5 DEF TypeOK, Skip, Leave, device, cache, deck, bounds, history
<1>6. ASSUME Choose PROVE TypeOK'
  <2>1. Chosen[2] \in BOOLEAN
    BY DEF Slots
  <2>2. call' \in Calls
    BY <1>6, <2>1, ZenonT(30) DEF Choose, Calls
  <2> QED BY <1>6, <2>2 DEF TypeOK, Choose, device, cache, deck, bounds, history
<1>7. ASSUME NEW outcome \in Outcomes, Wipe(outcome) PROVE TypeOK'
  BY <1>7 DEF TypeOK, Wipe, GoTo, deck
<1>8. ASSUME NEW outcome \in Outcomes, Evict(outcome) PROVE TypeOK'
  <2>1. entries # <<>>
    BY <1>8 DEF CacheInv, Evict
  <2>2. Head(entries) \in Images /\ Tail(entries) \in Seq(Images)
    BY <2>1, TailFacts DEF TypeOK
  <2> QED BY <1>8, <2>2 DEF TypeOK, Evict, GoTo, deck
<1>9. ASSUME NEW outcome \in Outcomes, Upload(outcome) PROVE TypeOK'
  <2>1. Append(entries, Want) \in Seq(Images)
    BY AppendFacts DEF TypeOK
  <2>2. entries' \in Seq(Images)
    BY <1>9, <2>1 DEF TypeOK, Upload
  <2>3. files' \subseteq Images /\ leaked' \subseteq Images
    BY <1>9 DEF TypeOK, Upload, Obtained
  <2>4. asked' \in [Images -> SUBSET Images] /\ blank' \in MaybeImage
    BY <1>9 DEF TypeOK, Upload, Obtained, MaybeImage, deck
  <2>5. call' \in Calls
    BY <1>9 DEF Upload, Obtained, Leave, GoTo
  <2>6. faults' \in 0 .. MaxFaults /\ sessions' \in 0 .. MaxSessions
    BY <1>9 DEF Upload
  <2> QED BY <1>9, <2>2, <2>3, <2>4, <2>5, <2>6 DEF TypeOK, Upload, Obtained, deck
<1>10. ASSUME NEW outcome \in Outcomes, SavePage(outcome) PROVE TypeOK'
  <2>1. Built(blank) \in [Slots -> MaybeImage]
    BY DEF TypeOK, Built, MaybeImage
  <2> QED BY <1>10, <2>1 DEF TypeOK, SavePage, GoTo, Leave, cache, deck
<1>11. ASSUME NEW outcome \in Outcomes, ShowPage(outcome) PROVE TypeOK'
  <2>1. Built(page) \in [Slots -> MaybeImage] /\ Forgotten \in [Slots -> MaybeImage]
    BY DEF TypeOK, Built, Forgotten, NoSlots, MaybeImage
  <2>2. /\ last' \in [Slots -> MaybeImage] /\ shown' \in [Slots -> MaybeImage]
        /\ pressed' \subseteq Keys /\ doubt' \subseteq Slots
        /\ pushed' \in BOOLEAN /\ front' \in BOOLEAN
    BY <1>11, <2>1 DEF TypeOK, ShowPage
  <2>3. call' \in Calls
    BY <1>11 DEF ShowPage, GoTo, Leave
  <2> QED BY <1>11, <2>2, <2>3 DEF TypeOK, ShowPage, cache
<1>12. ASSUME NEW outcome \in Outcomes, SetSlot(outcome) PROVE TypeOK'
  <2> DEFINE s == <<call.key, call.held>>
  <2>1. s \in Slots /\ call.image \in MaybeImage
    BY DEF Calls, Slots, MaybeImage
  <2> HIDE DEF s
  <2>2. /\ shown' = IF Happens(outcome) /\ front
                    THEN [shown EXCEPT ![s] = call.image] ELSE shown
        /\ last' = IF Raises(outcome) THEN last ELSE [last EXCEPT ![s] = call.image]
        /\ doubt' = IF Raises(outcome) \/ ~front THEN doubt \cup {s} ELSE doubt \ {s}
    BY <1>12 DEF SetSlot, s
  <2>3. /\ last' \in [Slots -> MaybeImage] /\ shown' \in [Slots -> MaybeImage]
        /\ doubt' \subseteq Slots
    BY <2>1, <2>2 DEF TypeOK
  <2> QED BY <1>12, <2>3 DEF TypeOK, SetSlot, Leave, cache
<1>13. ASSUME NEW k \in Keys, Edge(k) PROVE TypeOK'
  BY <1>13 DEF TypeOK, Edge, device, cache, bounds, history
<1>14. ASSUME TurnPage PROVE TypeOK'
  BY <1>14 DEF TypeOK, TurnPage, Built, NoSlots, MaybeImage, cache, deck, bounds
<1>15. ASSUME NewProgram PROVE TypeOK'
  BY <1>15, FreshFacts DEF TypeOK, NewProgram, device
<1>16. ASSUME PowerCycle PROVE TypeOK'
  BY <1>16, FreshFacts DEF TypeOK, PowerCycle, NoSlots, MaybeImage
<1>17. ASSUME UNCHANGED vars PROVE TypeOK'
  BY <1>17 DEF TypeOK, vars, device, cache, deck, bounds, history
<1> QED BY <1>1, <1>2, <1>3, <1>4, <1>5, <1>6, <1>7, <1>8, <1>9, <1>10, <1>11,
           <1>12, <1>13, <1>14, <1>15, <1>16, <1>17 DEF Next

-----------------------------------------------------------------------------
(* All but the steps of set_cached_image, and a new program, leave what is  *)
(* said of the cache as it is.                                              *)
Aside ==
    /\ UNCHANGED <<files, entries, wiped, asked, leaked>>
    /\ UNCHANGED call \/ call'.at \notin Making

LEMMA StepKinds ==
    ASSUME TypeOK, [Next]_vars
    PROVE  \/ Aside \/ Hit \/ Miss \/ NewProgram \/ PowerCycle
           \/ \E outcome \in Outcomes : Wipe(outcome) \/ Evict(outcome) \/ Upload(outcome)
<1> USE NoCallFacts DEF Aside, Making
<1>1. ASSUME NEW k \in Keys, NEW image \in Images, SetKeyImage(k, image)
      PROVE  Aside
  BY <1>1 DEF SetKeyImage, Seed, device, cache, history
<1>2. ASSUME Reset PROVE Aside
  BY <1>2 DEF Reset, Seed, device, cache, history
<1>3. ASSUME Skip \/ Choose PROVE Aside
  BY <1>3 DEF TypeOK, Calls, Skip, Choose, Leave, device, cache, history
<1>4. ASSUME NEW outcome \in Outcomes, SavePage(outcome) PROVE Aside
  BY <1>4 DEF TypeOK, Calls, SavePage, Leave, GoTo, cache
<1>5. ASSUME NEW outcome \in Outcomes, ShowPage(outcome) PROVE Aside
  BY <1>5 DEF TypeOK, Calls, ShowPage, Leave, GoTo, cache
<1>6. ASSUME NEW outcome \in Outcomes, SetSlot(outcome) PROVE Aside
  BY <1>6 DEF SetSlot, Leave, cache
<1>7. ASSUME NEW k \in Keys, Edge(k) PROVE Aside
  BY <1>7 DEF Edge, device, cache, history
<1>8. ASSUME TurnPage PROVE Aside
  BY <1>8 DEF TurnPage, cache
<1>9. ASSUME UNCHANGED vars PROVE Aside
  BY <1>9 DEF vars, device, cache, history
<1> HIDE DEF Aside
<1> QED BY <1>1, <1>2, <1>3, <1>4, <1>5, <1>6, <1>7, <1>8, <1>9 DEF Next

(* The picture asked for is the same until it is there.                     *)
LEMMA WantStays ==
    ASSUME TypeOK, NEW place, GoTo(place)
    PROVE  Want' = Want /\ call'.at = place
BY DEF TypeOK, Calls, GoTo, Want

LEMMA CacheStep == TypeOK /\ CacheInv /\ [Next]_vars => CacheInv'
<1> SUFFICES ASSUME TypeOK, CacheInv, [Next]_vars PROVE CacheInv'
  OBVIOUS
<1>0. entries \in Seq(Images) /\ Len(entries) \in Nat /\ Want \in Images
  BY CallFacts DEF TypeOK
<1>1. CASE Aside
  BY <1>1 DEF Aside, Making, CacheInv, Injective, Resident, Want
<1>2. CASE Hit
  <2>1. /\ Injective(entries') /\ Len(entries') = Len(entries)
        /\ wiped' /\ call'.at \notin Making
    BY <1>0, <1>2, TouchedFacts, TouchedSame, WantStays
       DEF CacheInv, Hit, Resident, Making
  <2> QED BY <2>1 DEF CacheInv, Making
<1>3. CASE Miss
  <2>1. UNCHANGED <<entries, wiped>> /\ Want' = Want /\ Want \notin Resident
    BY <1>3, WantStays DEF Miss, cache, CacheInv, Resident, Range
  <2>2. call'.at = IF ~wiped THEN "wipe" ELSE IF Full THEN "evict" ELSE "upload"
    BY <1>3, WantStays DEF Miss
  <2> QED BY <1>0, <2>1, <2>2 DEF CacheInv, Full, Injective, Resident, Making
<1>4. CASE \E outcome \in Outcomes : Wipe(outcome)
  <2>1. /\ call.at = "wipe" /\ wiped' /\ call'.at = "upload"
        /\ UNCHANGED entries /\ Want' = Want
    BY <1>4, WantStays DEF Wipe
  <2>2. entries = <<>> /\ Len(entries) = 0
    BY <2>1 DEF CacheInv, Making
  <2> QED BY <2>1, <2>2 DEF CacheInv, Injective, Resident, Making
<1>5. CASE \E outcome \in Outcomes : Evict(outcome)
  <2>1. /\ call.at = "evict" /\ call'.at = "upload" /\ Want' = Want
        /\ entries' = Tail(entries) /\ wiped' = wiped
    BY <1>5, WantStays DEF Evict
  <2>2. entries # <<>> /\ wiped /\ Want \notin Resident
    BY <2>1 DEF CacheInv, Making
  <2>3. /\ Len(entries') = Len(entries) - 1
        /\ DOMAIN entries' = 1 .. Len(entries) - 1 /\ DOMAIN entries = 1 .. Len(entries)
        /\ \A n \in DOMAIN entries' : entries'[n] = entries[n + 1]
        /\ Range(entries') \subseteq Range(entries)
    BY <1>0, <2>1, <2>2, TailFacts
  <2>4. Injective(entries')
    BY <1>0, <2>3 DEF CacheInv, Injective, Making
  <2> QED BY <1>0, <2>1, <2>2, <2>3, <2>4 DEF CacheInv, Resident, Making
<1>6. CASE \E outcome \in Outcomes : Upload(outcome)
  <2>1. /\ call.at = "upload" /\ wiped' = wiped
        /\ entries' \in {entries, Append(entries, Want)}
        /\ call'.at \notin Making
    BY <1>6, WantStays, NoCallFacts DEF Upload, Obtained, Leave, Making
  <2>2. wiped /\ Len(entries) < Capacity /\ Want \notin Resident
    BY <2>1 DEF CacheInv, Making
  <2>3. ASSUME entries' = Append(entries, Want)
        PROVE  Injective(entries') /\ Len(entries') <= Capacity
    <3>1. /\ Len(entries') = Len(entries) + 1
          /\ DOMAIN entries = 1 .. Len(entries)
          /\ DOMAIN entries' = DOMAIN entries \cup {Len(entries) + 1}
          /\ \A n \in DOMAIN entries : entries'[n] = entries[n]
          /\ entries'[Len(entries) + 1] = Want
      BY <1>0, <2>3, AppendFacts
    <3>2. \A n \in DOMAIN entries : entries[n] # Want
      BY <2>2 DEF Resident, Range
    <3>3. Injective(entries')
      BY <3>1, <3>2 DEF CacheInv, Injective, Making
    <3> QED BY <1>0, <2>2, <3>1, <3>3
  <2> QED BY <2>1, <2>2, <2>3 DEF CacheInv, Making, Injective
<1>7. CASE NewProgram \/ PowerCycle
  <2>1. entries' = <<>> /\ call'.at = "idle"
    BY <1>7, NoCallFacts DEF NewProgram, PowerCycle, Fresh
  <2> QED BY <2>1 DEF CacheInv, Injective, Making
<1> QED BY <1>1, <1>2, <1>3, <1>4, <1>5, <1>6, <1>7, StepKinds

(* A delete takes from the index what it takes from the device, or what it  *)
(* may have taken; a picture is entered when its upload has succeeded.      *)
LEMMA DeviceStep == TypeOK /\ CacheInv /\ DeviceInv /\ [Next]_vars => DeviceInv'
<1> SUFFICES ASSUME TypeOK, CacheInv, DeviceInv, [Next]_vars PROVE DeviceInv'
  OBVIOUS
<1>0. entries \in Seq(Images) /\ Want \in Images
  BY CallFacts DEF TypeOK
<1>1. CASE Aside
  BY <1>1 DEF Aside, DeviceInv, Resident
<1>2. CASE Hit
  BY <1>0, <1>2, TouchedSame DEF CacheInv, DeviceInv, Hit, Resident, device
<1>3. CASE Miss
  BY <1>3 DEF Miss, DeviceInv, Resident, device, cache
<1>4. ASSUME NEW outcome \in Outcomes, Wipe(outcome) PROVE DeviceInv'
  <2>1. Resident = {}
    BY <1>4 DEF CacheInv, Wipe, Resident, Range
  <2> QED BY <1>4, <2>1 DEF DeviceInv, Wipe, Happens, Raises, Outcomes, Resident
<1>5. ASSUME NEW outcome \in Outcomes, Evict(outcome) PROVE DeviceInv'
  <2> DEFINE h == Head(entries)
  <2>1. entries # <<>>
    BY <1>5 DEF CacheInv, Evict
  <2>2. /\ Resident = Resident' \cup {h} /\ h = entries[1]
        /\ DOMAIN entries = 1 .. Len(entries) /\ DOMAIN entries' = 1 .. Len(entries) - 1
        /\ \A n \in DOMAIN entries' : entries'[n] = entries[n + 1]
        /\ Len(entries) \in Nat \ {0}
    BY <1>0, <1>5, <2>1, TailFacts DEF Evict, Resident
  <2>3. h \notin Resident'
    BY <2>2 DEF CacheInv, Injective, Resident, Range
  <2> QED BY <1>5, <2>2, <2>3 DEF DeviceInv, Evict, Happens, Raises, Outcomes
<1>6. ASSUME NEW outcome \in Outcomes, Upload(outcome) PROVE DeviceInv'
  <2>1. CASE Raises(outcome)
    BY <1>6, <2>1 DEF DeviceInv, Upload, Entered, Resident
  <2>2. CASE ~Raises(outcome)
    <3>1. files' = files \cup {Want} /\ leaked' = leaked \ {Want}
      BY <1>6, <2>2 DEF Upload, Happens, Raises, Obtained
    <3>2. Resident' = Resident \cup {Want}
      BY <1>0, <1>6, <2>2, AppendFacts DEF Upload, Entered, Resident
    <3> QED BY <3>1, <3>2 DEF DeviceInv
  <2> QED BY <2>1, <2>2
<1>7. CASE NewProgram \/ PowerCycle
  <2>1. Resident' = {}
    BY <1>7 DEF NewProgram, PowerCycle, Fresh, Resident, Range
  <2>2. files' \ leaked' = {}
    BY <1>7 DEF NewProgram, PowerCycle, device
  <2> QED BY <2>1, <2>2 DEF DeviceInv
<1> QED BY <1>1, <1>2, <1>3, <1>4, <1>5, <1>6, <1>7, StepKinds

-----------------------------------------------------------------------------
(* A picture that leaves the index has seen all the others, and the one it  *)
(* makes room for, asked for since.                                         *)
LEMMA EvictedIsOld ==
    ASSUME TypeOK, CacheInv, RecencyInv, call.at = "evict"
    PROVE  ~(Cardinality(asked[Head(entries)]) < Capacity)
<1> DEFINE h == Head(entries)
<1>1. /\ entries \in Seq(Images) /\ entries # <<>> /\ Len(entries) >= Capacity
      /\ Want \in Images /\ Want \notin Resident
  BY CallFacts DEF TypeOK, CacheInv, Making
<1>2. /\ h \in Images /\ h \in Resident /\ h = entries[1]
      /\ Len(entries) \in Nat \ {0}
      /\ DOMAIN entries = 1 .. Len(entries)
  BY <1>1, TailFacts DEF Resident
<1>3. (Resident \ {h}) \cup {Want} \subseteq asked[h]
  <2>1. Want \in asked[h]
    BY <1>1, <1>2 DEF RecencyInv, Making
  <2>2. ASSUME NEW x \in Resident, x # h PROVE x \in asked[h]
    <3> PICK n \in DOMAIN entries : entries[n] = x
      BY DEF Resident, Range
    <3>1. 1 < n /\ 1 \in DOMAIN entries
      BY <1>2, <2>2
    <3> QED BY <1>2, <3>1 DEF RecencyInv, Ordered
  <2> QED BY <2>1, <2>2
<1>4. IsFiniteSet(Resident) /\ Cardinality(Resident) = Len(entries)
  BY <1>1, RangeSize DEF CacheInv, Resident
<1> DEFINE others == Resident \ {h}
<1>5. IsFiniteSet(others) /\ Cardinality(others) = Len(entries) - 1
  BY <1>2, <1>4, FS_RemoveElement
<1>6. IsFiniteSet(others \cup {Want}) /\ Cardinality(others \cup {Want}) = Len(entries)
  <2>1. Want \notin others
    BY <1>1
  <2> HIDE DEF others
  <2>2. Cardinality(others \cup {Want}) = Cardinality(others) + 1
    BY <1>5, <2>1, FS_AddElement
  <2> QED BY <1>2, <1>5, <2>2, FS_AddElement
<1>7. IsFiniteSet(asked[h])
  BY <1>2, FS_Subset DEF TypeOK
<1>8. Cardinality(others \cup {Want}) <= Cardinality(asked[h]) /\ Cardinality(asked[h]) \in Nat
  BY <1>3, <1>7, FS_Subset, FS_CardinalityType
<1> QED BY <1>1, <1>2, <1>6, <1>8

(* What has been asked for more is not asked for less.                      *)
LEMMA MoreAsked ==
    ASSUME NEW A \in SUBSET Images, NEW B \in SUBSET A, Cardinality(A) < Capacity
    PROVE  Cardinality(B) < Capacity
<1>1. IsFiniteSet(A)
  BY FS_Subset
<1>2. Cardinality(B) <= Cardinality(A)
  BY <1>1, FS_Subset
<1>3. Cardinality(A) \in Nat /\ Cardinality(B) \in Nat
  BY <1>1, FS_Subset, FS_CardinalityType
<1> QED BY <1>2, <1>3

LEMMA AllAsked == \A i \in Images : ~(Cardinality(Images) < Capacity)
<1>1. Cardinality(Images) \in Nat
  BY FS_CardinalityType
<1> QED BY <1>1

LEMMA RecencyStep == TypeOK /\ CacheInv /\ RecencyInv /\ [Next]_vars => RecencyInv'
<1> SUFFICES ASSUME TypeOK, CacheInv, RecencyInv, [Next]_vars PROVE RecencyInv'
  OBVIOUS
<1>0. /\ entries \in Seq(Images) /\ Want \in Images
      /\ DOMAIN entries = 1 .. Len(entries) /\ Len(entries) \in Nat
      /\ \A n \in DOMAIN entries : entries[n] \in Images
      /\ asked \in [Images -> SUBSET Images]
      /\ TypeOK'
  BY CallFacts, TypeStep DEF TypeOK
<1>1. CASE Aside
  BY <1>1 DEF Aside, Making, RecencyInv, Ordered, KeepsRecent, Resident, Want
<1>2. CASE Hit
  <2> DEFINE n == Place(entries, Want)
  <2>1. /\ entries' = Touched(entries, Want) /\ Want \in Resident
        /\ asked' = [Requested EXCEPT ![Want] = {}]
        /\ call'.at \notin Making
    BY <1>2, WantStays DEF Hit, Making
  <2>2. /\ n \in DOMAIN entries /\ entries[n] = Want
        /\ DOMAIN entries' = DOMAIN entries
        /\ \A j \in DOMAIN entries :
              entries'[j] = IF j < n THEN entries[j]
                            ELSE IF j < Len(entries) THEN entries[j + 1] ELSE Want
    BY <1>0, <2>1, TouchedFacts DEF Resident
  <2> HIDE DEF n
  <2>3. \A i \in Images : asked'[i] = IF i = Want THEN {} ELSE asked[i] \cup {Want}
    BY <1>0, <2>1 DEF Requested
  <2>4. ASSUME NEW j \in DOMAIN entries, NEW k \in DOMAIN entries, j < k
        PROVE  entries'[k] \in asked'[entries'[j]]
    <3>1. j < Len(entries)
      BY <1>0, <2>4
    <3>2. PICK b \in DOMAIN entries :
             /\ entries'[j] = entries[b] /\ b # n
             /\ b = IF j < n THEN j ELSE j + 1
      <4>1. CASE j < n
        BY <2>2, <4>1
      <4>2. CASE ~(j < n)
        <5>1. j + 1 \in DOMAIN entries /\ j + 1 # n
          BY <1>0, <2>2, <3>1, <4>2
        <5> QED BY <2>2, <3>1, <4>2, <5>1
      <4> QED BY <4>1, <4>2
    <3>3. entries[b] # Want
      BY <2>2, <3>2 DEF CacheInv, Injective
    <3>4. asked'[entries'[j]] = asked[entries[b]] \cup {Want}
      BY <1>0, <2>3, <3>2, <3>3
    <3>5. CASE k = Len(entries)
      <4>1. entries'[k] = Want
        BY <2>2, <3>5, <1>0
      <4> QED BY <3>4, <4>1
    <3>6. CASE k # Len(entries)
      <4>1. k < Len(entries)
        BY <1>0, <3>6
      <4>2. PICK c \in DOMAIN entries :
               /\ entries'[k] = entries[c]
               /\ c = IF k < n THEN k ELSE k + 1
        <5>1. k + 1 \in DOMAIN entries
          BY <1>0, <4>1
        <5> QED BY <2>2, <4>1, <5>1
      <4>3. b < c
        BY <1>0, <2>2, <2>4, <3>2, <4>2
      <4>4. entries[c] \in asked[entries[b]]
        BY <3>2, <4>2, <4>3 DEF RecencyInv, Ordered
      <4> QED BY <3>4, <4>2, <4>4
    <3> QED BY <3>5, <3>6
  <2>5. Resident' = Resident
    BY <1>0, <2>1, TouchedSame DEF CacheInv, Resident
  <2>6. ASSUME NEW i \in Images, Cardinality(asked'[i]) < Capacity
        PROVE  i \in Resident'
    <3>1. CASE i = Want
      BY <2>1, <2>5, <3>1
    <3>2. CASE i # Want
      <4>1. Cardinality(asked[i]) < Capacity
        BY <1>0, <2>3, <2>6, <3>2, MoreAsked
      <4> QED BY <2>5, <4>1 DEF RecencyInv, KeepsRecent
    <3> QED BY <3>1, <3>2
  <2> QED BY <2>1, <2>2, <2>4, <2>6 DEF RecencyInv, Ordered, KeepsRecent, Making
<1>3. CASE Miss
  <2>1. UNCHANGED entries /\ Want' = Want /\ asked' = Requested
    BY <1>3, WantStays DEF Miss, cache
  <2>2. \A i \in Images : asked'[i] = IF i = Want THEN asked[i] ELSE asked[i] \cup {Want}
    BY <1>0, <2>1 DEF Requested
  <2>3. ASSUME NEW i \in Images
        PROVE  asked[i] \subseteq asked'[i] /\ asked'[i] \in SUBSET Images
    <3>1. asked[i] \in SUBSET Images
      BY <1>0
    <3> QED BY <1>0, <2>2, <3>1
  <2>4. Ordered(entries)'
    BY <1>0, <2>1, <2>3 DEF RecencyInv, Ordered
  <2>5. KeepsRecent'
    BY <2>1, <2>3, MoreAsked DEF RecencyInv, KeepsRecent, Resident
  <2> QED BY <2>1, <2>2, <2>4, <2>5 DEF RecencyInv
<1>4. CASE \E outcome \in Outcomes : Wipe(outcome)
  <2>1. call.at = "wipe" /\ Want' = Want /\ UNCHANGED <<entries, asked>>
    BY <1>4, WantStays DEF Wipe
  <2> QED BY <2>1 DEF RecencyInv, Ordered, KeepsRecent, Resident, Making
<1>5. CASE \E outcome \in Outcomes : Evict(outcome)
  <2> DEFINE h == Head(entries)
  <2>1. /\ call.at = "evict" /\ call'.at = "upload" /\ Want' = Want
        /\ entries' = Tail(entries) /\ asked' = asked
    BY <1>5, WantStays DEF Evict
  <2>2. entries # <<>>
    BY <2>1 DEF CacheInv
  <2>3. /\ DOMAIN entries' = 1 .. Len(entries) - 1
        /\ \A n \in DOMAIN entries' : entries'[n] = entries[n + 1]
        /\ Resident = Resident' \cup {h}
    BY <1>0, <2>1, <2>2, TailFacts DEF Resident
  <2>4. Ordered(entries)'
    <3> SUFFICES ASSUME NEW j \in DOMAIN entries', NEW k \in DOMAIN entries', j < k
                 PROVE  entries'[k] \in asked'[entries'[j]]
      BY DEF Ordered
    <3>1. j + 1 \in DOMAIN entries /\ k + 1 \in DOMAIN entries /\ j + 1 < k + 1
      BY <1>0, <2>3
    <3> QED BY <2>1, <2>3, <3>1 DEF RecencyInv, Ordered
  <2>5. ~(Cardinality(asked[h]) < Capacity)
    BY <2>1, EvictedIsOld
  <2>6. KeepsRecent'
    BY <2>1, <2>3, <2>5 DEF RecencyInv, KeepsRecent
  <2> QED BY <1>0, <2>1, <2>4, <2>6 DEF RecencyInv, Making
<1>6. CASE \E outcome \in Outcomes : Upload(outcome)
  <2>1. PICK outcome \in Outcomes : Upload(outcome)
    BY <1>6
  <2>2. call.at = "upload" /\ call'.at \notin Making
    BY <2>1, WantStays, NoCallFacts DEF Upload, Obtained, Leave, Making
  <2>3. CASE Raises(outcome)
    BY <2>1, <2>2, <2>3 DEF Upload, Entered, RecencyInv, Ordered, KeepsRecent, Resident, Making
  <2>4. CASE ~Raises(outcome)
    <3>1. entries' = Append(entries, Want) /\ asked' = [asked EXCEPT ![Want] = {}]
      BY <2>1, <2>4 DEF Upload, Entered, Obtained
    <3>2. /\ DOMAIN entries' = DOMAIN entries \cup {Len(entries) + 1}
          /\ \A n \in DOMAIN entries : entries'[n] = entries[n]
          /\ entries'[Len(entries) + 1] = Want
          /\ Resident' = Resident \cup {Want}
      BY <1>0, <3>1, AppendFacts DEF Resident
    <3>3. \A n \in DOMAIN entries : entries[n] # Want
      BY <2>2 DEF CacheInv, Resident, Range, Making
    <3>4. ASSUME NEW j \in DOMAIN entries', NEW k \in DOMAIN entries', j < k
          PROVE  entries'[k] \in asked'[entries'[j]]
      <4>1. j \in DOMAIN entries
        BY <1>0, <3>2, <3>4
      <4>2. entries'[j] = entries[j] /\ asked'[entries[j]] = asked[entries[j]]
        BY <1>0, <3>1, <3>2, <3>3, <4>1
      <4>3. CASE k \in DOMAIN entries
        BY <3>2, <3>4, <4>1, <4>2, <4>3 DEF RecencyInv, Ordered
      <4>4. CASE k = Len(entries) + 1
        <5>1. Want \in asked[entries[j]]
          BY <1>0, <2>2, <3>3, <4>1 DEF RecencyInv, Making
        <5> QED BY <3>2, <4>2, <4>4, <5>1
      <4> QED BY <3>2, <4>3, <4>4
    <3>5. KeepsRecent'
      BY <1>0, <3>1, <3>2 DEF RecencyInv, KeepsRecent
    <3> QED BY <2>2, <3>4, <3>5 DEF RecencyInv, Ordered, Making
  <2> QED BY <2>3, <2>4
<1>7. CASE NewProgram \/ PowerCycle
  <2>1. /\ entries' = <<>> /\ call'.at \notin Making
        /\ asked' = [i \in Images |-> Images]
    BY <1>7, NoCallFacts DEF NewProgram, PowerCycle, Fresh, Making
  <2> QED BY <2>1, AllAsked DEF RecencyInv, Ordered, KeepsRecent, Making
<1> QED BY <1>1, <1>2, <1>3, <1>4, <1>5, <1>6, <1>7, StepKinds

-----------------------------------------------------------------------------
(* What the deck takes a slot to show: each step that may change the slot   *)
(* behind its back puts the slot in doubt, or forgets it.                   *)
LEMMA SlotsStep == TypeOK /\ SlotsInv /\ [Next]_vars => SlotsInv'
<1> SUFFICES ASSUME TypeOK, SlotsInv, [Next]_vars PROVE SlotsInv'
  OBVIOUS
<1> USE DEF SlotsInv, KnownIsShown
<1>1. ASSUME UNCHANGED <<shown, last, doubt>>, UNCHANGED call \/ call'.at # "show"
      PROVE  SlotsInv'
  BY <1>1
<1>2. ASSUME NEW k \in Keys, NEW image \in Images, SetKeyImage(k, image)
      PROVE  SlotsInv'
  BY <1>1, <1>2 DEF SetKeyImage, Seed, device, deck, history
<1>3. ASSUME Reset PROVE SlotsInv'
  BY <1>1, <1>3 DEF Reset, Seed, device, deck, history
<1>4. ASSUME Hit PROVE SlotsInv'
  BY <1>1, <1>4, WantStays DEF Hit, device
<1>5. ASSUME Miss PROVE SlotsInv'
  BY <1>1, <1>5, WantStays DEF Miss, device, deck
<1>6. ASSUME NEW outcome \in Outcomes, Wipe(outcome) \/ Evict(outcome)
      PROVE  SlotsInv'
  BY <1>1, <1>6, WantStays DEF Wipe, Evict, deck
<1>7. ASSUME NEW outcome \in Outcomes, Upload(outcome) PROVE SlotsInv'
  BY <1>1, <1>7, WantStays, NoCallFacts DEF Upload, Obtained, Leave, deck
<1>8. ASSUME Skip \/ Choose PROVE SlotsInv'
  BY <1>1, <1>8, NoCallFacts DEF Skip, Choose, Leave, TypeOK, Calls, device, deck, history
<1>9. ASSUME NEW outcome \in Outcomes, SavePage(outcome) PROVE SlotsInv'
  BY <1>9 DEF SavePage
<1>10. ASSUME NEW outcome \in Outcomes, ShowPage(outcome) PROVE SlotsInv'
  <2>1. doubt = Slots
    BY <1>10 DEF ShowPage
  <2>2. CASE doubt' = Slots
    BY <2>2
  <2>3. CASE doubt' # Slots
    <3>1. last' = NoSlots /\ call' = NoCall
      BY <1>10, <2>1, <2>3 DEF ShowPage, Forgotten, Leave
    <3> QED BY <3>1, NoCallFacts DEF NoSlots
  <2> QED BY <2>2, <2>3
<1>11. ASSUME NEW outcome \in Outcomes, SetSlot(outcome) PROVE SlotsInv'
  <2> DEFINE s == <<call.key, call.held>>
  <2>1. s \in Slots /\ call'.at # "show"
    BY <1>11, NoCallFacts DEF SetSlot, Leave, TypeOK, Calls, Slots
  <2> HIDE DEF s
  <2>2. /\ shown' = IF Happens(outcome) /\ front
                    THEN [shown EXCEPT ![s] = call.image] ELSE shown
        /\ last' = IF Raises(outcome) THEN last ELSE [last EXCEPT ![s] = call.image]
        /\ doubt' = IF Raises(outcome) \/ ~front THEN doubt \cup {s} ELSE doubt \ {s}
    BY <1>11 DEF SetSlot, s
  <2>3. ASSUME NEW t \in Slots \ doubt', last'[t] # None
        PROVE  shown'[t] = last'[t]
    <3>1. CASE t = s
      BY <2>1, <2>2, <2>3, <3>1 DEF TypeOK, Happens, Raises, Outcomes
    <3>2. CASE t # s
      BY <2>2, <2>3, <3>2 DEF TypeOK
    <3> QED BY <3>1, <3>2
  <2> QED BY <2>1, <2>3
<1>12. ASSUME NEW k \in Keys, Edge(k) PROVE SlotsInv'
  BY <1>1, <1>12 DEF Edge, device, history
<1>13. ASSUME TurnPage PROVE SlotsInv'
  BY <1>13 DEF TurnPage
<1>14. ASSUME NewProgram \/ PowerCycle PROVE SlotsInv'
  <2>1. last' = NoSlots /\ call' = NoCall
    BY <1>14 DEF NewProgram, PowerCycle, Fresh
  <2> QED BY <2>1, NoCallFacts DEF NoSlots
<1>15. ASSUME UNCHANGED vars PROVE SlotsInv'
  BY <1>1, <1>15 DEF vars, device, deck, history
<1> QED BY <1>2, <1>3, <1>4, <1>5, <1>6, <1>7, <1>8, <1>9, <1>10, <1>11, <1>12,
           <1>13, <1>14, <1>15 DEF Next

-----------------------------------------------------------------------------
LEMMA Initially == Init => IInv
<1> SUFFICES ASSUME Init PROVE IInv
  OBVIOUS
<1>1. TypeOK
  <2>1. <<>> \in Seq(Images) /\ NoSlots \in [Slots -> MaybeImage]
    BY DEF NoSlots, MaybeImage
  <2>2. faults \in 0 .. MaxFaults /\ sessions \in 0 .. MaxSessions
    BY DEF Init
  <2>3. asked \in [Images -> SUBSET Images]
    BY DEF Init
  <2> QED BY <2>1, <2>2, <2>3, NoCallFacts DEF Init, TypeOK, MaybeImage
<1>2. call.at = "idle"
  BY NoCallFacts DEF Init
<1>3. CacheInv /\ DeviceInv
  BY <1>2 DEF Init, CacheInv, DeviceInv, Injective, Resident, Range
<1>4. RecencyInv
  BY <1>2, AllAsked DEF Init, RecencyInv, Ordered, KeepsRecent, Making
<1>5. SlotsInv
  BY <1>2 DEF Init, SlotsInv, KnownIsShown, NoSlots
<1> QED BY <1>1, <1>3, <1>4, <1>5 DEF IInv

LEMMA Inductive == Spec => []IInv
<1>1. IInv /\ [Next]_vars => IInv'
  BY TypeStep, CacheStep, DeviceStep, RecencyStep, SlotsStep DEF IInv
<1> QED BY <1>1, Initially, PTL DEF Spec

(* The state of the cache, of the deck and of the device has its types.     *)
THEOREM TypeCorrect == Spec => []TypeOK
<1>1. IInv => TypeOK
  BY DEF IInv
<1> QED BY <1>1, Inductive, PTL

(* The device has no more pictures than the cache may hold, but for those   *)
(* whose fate a raise hid; and a picture that leaves is one since which as  *)
(* many others have been asked for as the cache holds.                      *)
THEOREM EvictsRight == Spec => []EvictsTheOldest
<1>1. ASSUME IInv PROVE EvictsTheOldest
  <2>1. entries \in Seq(Images) /\ Len(entries) \in Nat
    BY <1>1 DEF IInv, TypeOK
  <2>2. IsFiniteSet(Resident) /\ Cardinality(Resident) <= Capacity
    BY <1>1, <2>1, RangeSize DEF IInv, CacheInv, Resident
  <2>3. files \ leaked \subseteq Resident
    BY <1>1 DEF IInv, DeviceInv
  <2>4. IsFiniteSet(files \ leaked) /\ Cardinality(files \ leaked) <= Cardinality(Resident)
    BY <2>2, <2>3, FS_Subset
  <2>5. Cardinality(files \ leaked) \in Nat /\ Cardinality(Resident) \in Nat
    BY <2>2, <2>4, FS_CardinalityType
  <2> QED BY <1>1, <2>2, <2>4, <2>5 DEF IInv, EvictsTheOldest, WithinCapacity, RecencyInv
<1> QED BY <1>1, Inductive, PTL

(* A picture the cache answers for is on the device, and what the deck      *)
(* knows of a slot is what it shows, whichever commands have raised.        *)
THEOREM RecordsRight == Spec => []RecordsAreTrue
<1>1. IInv => RecordsAreTrue
  BY DEF IInv, DeviceInv, SlotsInv, RecordsAreTrue, ResidentIsOnDevice
<1> QED BY <1>1, Inductive, PTL
=============================================================================
