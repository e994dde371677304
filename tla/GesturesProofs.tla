---------------------------- MODULE GesturesProofs ----------------------------
(***************************************************************************)
(* What holds of Gestures for every pad and trackpad, any number of        *)
(* fingers and any time between two frames.                                *)
(***************************************************************************)
EXTENDS Gestures, FiniteSetTheorems, WellFoundedInduction, TLAPS

-----------------------------------------------------------------------------
(* Sums over the fingers of a frame.  They are folds over the set of the    *)
(* fingers, in an order that CHOOSE chooses: the fold is a function on the  *)
(* subsets, and that there is one, with numbers as values, takes an         *)
(* induction over their sizes.                                              *)

Pick(s) == CHOOSE i \in s : TRUE
AddUp(it, pts, k, s) == IF s = {} THEN 0 ELSE pts[Pick(s)][k] + it[s \ {Pick(s)}]
Folds(it, pts, k) == it = [s \in SUBSET DOMAIN pts |-> AddUp(it, pts, k, s)]
Fold(pts, k) == (CHOOSE it : Folds(it, pts, k))[DOMAIN pts]

LEMMA SumIs == ASSUME NEW pts PROVE SumOf(pts) = <<Fold(pts, 1), Fold(pts, 2)>>
BY DEF SumOf, Fold, Folds, AddUp, Pick, FoldFunction, FoldFunctionOnSet, MapThenFoldSet

(* Every nonempty set of natural numbers has a least one.                   *)
LEMMA LeastOf ==
    ASSUME NEW T \in SUBSET Nat, T # {}
    PROVE  \E m \in T : \A n \in T : m <= n
<1>1. PICK m \in T : \A n \in T : ~ (<<n, m>> \in OpToRel(<, Nat))
  BY WFMin, NatLessThanWellFounded
<1>2. ASSUME NEW n \in T PROVE m <= n
  <2>1. <<n, m>> \in OpToRel(<, Nat) <=> n < m
    BY DEF OpToRel
  <2>2. ~ (<<n, m>> \in OpToRel(<, Nat))
    BY <1>1
  <2>3. ~ (n < m)
    BY <2>1, <2>2, Zenon
  <2> QED BY <2>3
<1> QED BY <1>2

LEMMA PickIs == ASSUME NEW s, s # {} PROVE Pick(s) \in s
BY DEF Pick

LEMMA FoldExists ==
    ASSUME NEW pts, NEW k, IsFiniteSet(DOMAIN pts),
           \A i \in DOMAIN pts : pts[i][k] \in Nat
    PROVE  \E it : Folds(it, pts, k)
<1> DEFINE D == DOMAIN pts
           Upto(n) == {s \in SUBSET D : Cardinality(s) <= n}
           Partial(f, n) == /\ f \in [Upto(n) -> Nat]
                            /\ \A s \in Upto(n) : f[s] = AddUp(f, pts, k, s)
           Bad == {n \in Nat : ~ \E f : Partial(f, n)}
<1>1. \A s \in SUBSET D : IsFiniteSet(s) /\ Cardinality(s) \in Nat
  BY FS_Subset, FS_CardinalityType
<1>2. 0 \notin Bad
  <2> DEFINE f == [s \in Upto(0) |-> 0]
  <2>1. \A s \in Upto(0) : s = {}
    BY <1>1, FS_EmptySet
  <2>2. Partial(f, 0)
    BY <2>1 DEF AddUp
  <2> QED BY <2>2
<1>3. ASSUME NEW n \in Nat, n \notin Bad PROVE n + 1 \notin Bad
  <2>1. PICK f : Partial(f, n)
    BY <1>3
  <2> DEFINE g == [s \in Upto(n + 1) |-> IF s \in Upto(n) THEN f[s] ELSE AddUp(f, pts, k, s)]
  <2>2. \A s \in Upto(n) : s \in Upto(n + 1)
    BY <1>1
  <2>3. ASSUME NEW s \in Upto(n + 1), s # {} PROVE Pick(s) \in D /\ s \ {Pick(s)} \in Upto(n)
    <3>1. Pick(s) \in s /\ s \subseteq D
      BY <2>3, PickIs
    <3>2. Cardinality(s \ {Pick(s)}) = Cardinality(s) - 1
      BY <3>1, <1>1, FS_RemoveElement
    <3> QED BY <1>1, <3>1, <3>2
  <2>4. ASSUME NEW s \in Upto(n + 1)
        PROVE  g[s] \in Nat /\ g[s] = AddUp(f, pts, k, s)
    <3>1. CASE s \in Upto(n)
      BY <2>1, <2>4, <3>1
    <3>2. CASE s \notin Upto(n)
      <4>1. CASE s = {}
        BY <2>4, <3>2, <4>1 DEF AddUp
      <4>2. CASE s # {}
        <5>1. pts[Pick(s)][k] \in Nat /\ f[s \ {Pick(s)}] \in Nat
          BY <2>1, <2>3, <2>4, <4>2
        <5> QED BY <2>4, <3>2, <4>2, <5>1 DEF AddUp
      <4> QED BY <4>1, <4>2
    <3> QED BY <3>1, <3>2
  <2>5. ASSUME NEW s \in Upto(n + 1) PROVE AddUp(g, pts, k, s) = AddUp(f, pts, k, s)
    <3>1. CASE s = {}
      BY <3>1 DEF AddUp
    <3>2. CASE s # {}
      <4>1. s \ {Pick(s)} \in Upto(n)
        BY <2>3, <2>5, <3>2
      <4>2. g[s \ {Pick(s)}] = f[s \ {Pick(s)}]
        BY <2>2, <4>1
      <4> QED BY <4>2 DEF AddUp
    <3> QED BY <3>1, <3>2
  <2>6. Partial(g, n + 1)
    <3> HIDE DEF g
    <3>1. DOMAIN g = Upto(n + 1) /\ g = [s \in Upto(n + 1) |-> g[s]]
      BY DEF g
    <3> QED BY <3>1, <2>4, <2>5
  <2> QED BY <2>6
<1>4. Bad = {}
  <2> SUFFICES ASSUME Bad # {} PROVE FALSE
    OBVIOUS
  <2>1. PICK m \in Bad : \A n \in Bad : m <= n
    BY LeastOf
  <2>2. m \in Nat /\ m # 0
    BY <1>2
  <2> HIDE DEF Bad
  <2>3. m - 1 \in Nat /\ m - 1 \notin Bad
    BY <2>1, <2>2
  <2>4. (m - 1) + 1 \notin Bad
    BY <1>3, <2>3
  <2> QED BY <2>2, <2>4
<1>5. PICK f : Partial(f, Cardinality(D))
  BY <1>1, <1>4
<1>6. Upto(Cardinality(D)) = SUBSET D
  BY FS_Subset
<1>7. f = [s \in SUBSET D |-> AddUp(f, pts, k, s)]
  <2>1. f = [s \in SUBSET D |-> f[s]]
    BY <1>5, <1>6
  <2> QED BY <1>5, <1>6, <2>1
<1> QED BY <1>7 DEF Folds

LEMMA FoldType ==
    ASSUME NEW pts, NEW k, IsFiniteSet(DOMAIN pts),
           \A i \in DOMAIN pts : pts[i][k] \in Nat
    PROVE  Fold(pts, k) \in Nat
<1> DEFINE D == DOMAIN pts
           it == CHOOSE f : Folds(f, pts, k)
           Bad == {n \in Nat : \E s \in SUBSET D : Cardinality(s) = n /\ it[s] \notin Nat}
<1>1. Folds(it, pts, k)
  BY FoldExists
<1> HIDE DEF it
<1>2. \A s \in SUBSET D : it[s] = AddUp(it, pts, k, s)
  BY <1>1 DEF Folds
<1>3. \A s \in SUBSET D : IsFiniteSet(s) /\ Cardinality(s) \in Nat
  BY FS_Subset, FS_CardinalityType
<1>4. Bad = {}
  <2> SUFFICES ASSUME Bad # {} PROVE FALSE
    OBVIOUS
  <2>1. PICK m \in Bad : \A n \in Bad : m <= n
    BY LeastOf
  <2>2. PICK s \in SUBSET D : Cardinality(s) = m /\ it[s] \notin Nat
    OBVIOUS
  <2>3. s # {}
    <3>1. it[s] = AddUp(it, pts, k, s)
      BY <1>2, <2>2
    <3>2. s = {} => AddUp(it, pts, k, s) = 0
      BY DEF AddUp
    <3> QED BY <2>2, <3>1, <3>2
  <2>4. Pick(s) \in s
    BY <2>3, PickIs
  <2> DEFINE r == s \ {Pick(s)}
  <2>5. r \in SUBSET D /\ Cardinality(r) = m - 1 /\ Cardinality(r) \in Nat
    BY <1>3, <2>2, <2>4, FS_RemoveElement
  <2>6. it[r] \in Nat
    <3>1. m - 1 \notin Bad
      BY <2>1, <2>5
    <3> QED BY <2>5, <3>1
  <2>7. it[s] = pts[Pick(s)][k] + it[r]
    BY <1>2, <2>2, <2>3 DEF AddUp
  <2> QED BY <2>2, <2>4, <2>6, <2>7
<1>5. it[D] \in Nat
  <2>1. Cardinality(D) \notin Bad
    BY <1>4
  <2> QED BY <1>3, <2>1
<1> QED BY <1>5 DEF Fold, it

LEMMA FoldOne ==
    ASSUME NEW pts, NEW k, DOMAIN pts = {1}, pts[1][k] \in Nat
    PROVE  Fold(pts, k) = pts[1][k]
<1> DEFINE it == CHOOSE f : Folds(f, pts, k)
<1>1. IsFiniteSet(DOMAIN pts)
  BY FS_Singleton
<1>2. Folds(it, pts, k)
  BY <1>1, FoldExists
<1> HIDE DEF it
<1>3. it[{}] = 0
  BY <1>2 DEF Folds, AddUp
<1>4. Pick({1}) = 1
  BY PickIs
<1>5. it[{1}] = pts[1][k] + it[{1} \ {1}]
  BY <1>2, <1>4 DEF Folds, AddUp
<1>6. {1} \ {1} = {}
  OBVIOUS
<1>7. it[DOMAIN pts] = pts[1][k]
  BY <1>3, <1>5, <1>6
<1> QED BY <1>7 DEF Fold, it

LEMMA FoldTwo ==
    ASSUME NEW pts, NEW k, DOMAIN pts = {1, 2}, pts[1][k] \in Nat, pts[2][k] \in Nat
    PROVE  Fold(pts, k) = pts[1][k] + pts[2][k]
<1> DEFINE it == CHOOSE f : Folds(f, pts, k)
<1>1. IsFiniteSet(DOMAIN pts)
  <2>1. IsFiniteSet({1} \cup {2})
    BY FS_Singleton, FS_AddElement
  <2>2. {1} \cup {2} = {1, 2}
    OBVIOUS
  <2> QED BY <2>1, <2>2
<1>2. Folds(it, pts, k)
  BY <1>1, FoldExists
<1> HIDE DEF it
<1>3. \A s \in SUBSET {1, 2} : it[s] = AddUp(it, pts, k, s)
  BY <1>2 DEF Folds
<1>4. Pick({1}) = 1 /\ Pick({2}) = 2 /\ Pick({1, 2}) \in {1, 2}
  BY PickIs
<1>5. {1} \ {1} = {} /\ {2} \ {2} = {} /\ {1, 2} \ {1} = {2} /\ {1, 2} \ {2} = {1}
  OBVIOUS
<1>6. it[{}] = 0
  BY <1>3 DEF AddUp
<1>7. it[{1}] = pts[1][k] /\ it[{2}] = pts[2][k]
  <2>1. it[{1}] = pts[Pick({1})][k] + it[{1} \ {Pick({1})}]
    BY <1>3 DEF AddUp
  <2>2. it[{2}] = pts[Pick({2})][k] + it[{2} \ {Pick({2})}]
    BY <1>3 DEF AddUp
  <2>3. it[{1}] = pts[1][k] + 0 /\ it[{2}] = pts[2][k] + 0
    BY <1>4, <1>5, <1>6, <2>1, <2>2
  <2> QED BY <2>3
<1>8. it[{1, 2}] = pts[Pick({1, 2})][k] + it[{1, 2} \ {Pick({1, 2})}]
  BY <1>3 DEF AddUp
<1>9. CASE Pick({1, 2}) = 1
  <2>1. it[{1, 2}] = pts[1][k] + pts[2][k]
    BY <1>5, <1>7, <1>8, <1>9
  <2> QED BY <2>1 DEF Fold, it
<1>10. CASE Pick({1, 2}) = 2
  <2>1. it[{1, 2}] = pts[2][k] + pts[1][k]
    BY <1>5, <1>7, <1>8, <1>10
  <2>2. it[{1, 2}] = pts[1][k] + pts[2][k]
    BY <2>1
  <2> QED BY <2>2 DEF Fold, it
<1> QED BY <1>4, <1>9, <1>10

-----------------------------------------------------------------------------
(* Frames, trackpads and ages.                                              *)

LEMMA FrameFacts ==
    ASSUME NEW pts \in Touches
    PROVE  /\ pts \in Seq(Pad) /\ Len(pts) \in 1 .. MaxFingers
           /\ DOMAIN pts = 1 .. Len(pts)
           /\ \A i \in 1 .. Len(pts) : pts[i] \in Pad
           /\ \A i, j \in 1 .. Len(pts) : pts[i] = pts[j] => i = j
           /\ pts[1] \in Pad
<1>1. PICK n \in 1 .. MaxFingers : pts \in Injection(1 .. n, Pad)
  BY DEF Touches
<1>2. /\ n \in Nat /\ pts \in [1 .. n -> Pad]
      /\ \A i, j \in 1 .. n : pts[i] = pts[j] => i = j
  <2>1. n \in Nat
    OBVIOUS
  <2>2. pts \in [1 .. n -> Pad] /\ IsInjective(pts)
    BY <1>1 DEF Injection
  <2>3. \A i, j \in 1 .. n : pts[i] = pts[j] => i = j
    BY <2>2 DEF IsInjective
  <2> QED BY <2>1, <2>2, <2>3
<1>3. pts \in Seq(Pad) /\ Len(pts) = n
  BY <1>2
<1> QED BY <1>2, <1>3

LEMMA RangeFacts ==
    ASSUME NEW pts \in Touches
    PROVE  IsFiniteSet(Range(pts)) /\ Cardinality(Range(pts)) = Len(pts)
<1>1. DOMAIN pts = 1 .. Len(pts) /\ Len(pts) \in Nat
  BY FrameFacts
<1>2. pts \in Bijection(1 .. Len(pts), Range(pts))
  BY <1>1, FrameFacts DEF Bijection, Injection, Surjection, IsInjective, Range
<1>3. IsFiniteSet(1 .. Len(pts)) /\ Cardinality(1 .. Len(pts)) = Len(pts)
  <2>1. \A n \in Int : /\ IsFiniteSet(1 .. n)
                        /\ Cardinality(1 .. n) = IF 1 > n THEN 0 ELSE n - 1 + 1
    BY FS_Interval
  <2> QED BY <1>1, <2>1
<1> QED BY <1>2, <1>3, FS_Bijection DEF ExistsBijection

LEMMA SumType == ASSUME NEW pts \in Touches PROVE SumOf(pts) \in Nat \X Nat
<1>1. IsFiniteSet(DOMAIN pts)
  BY FrameFacts, FS_Interval
<1>2. \A i \in DOMAIN pts : pts[i][1] \in Nat /\ pts[i][2] \in Nat
  BY FrameFacts, GesturesAssumption DEF GesturesAssumption
<1>3. Fold(pts, 1) \in Nat /\ Fold(pts, 2) \in Nat
  BY <1>1, <1>2, FoldType
<1> QED BY <1>3, SumIs

Sense(e) ==
    /\ e.need \in Nat \cup {Unset} /\ e.need # 0
    /\ e.more \in Nat \cup {Unset} /\ e.time \in Nat /\ e.moreTime \in Nat

LEMMA TrackpadFacts ==
    ASSUME NEW t \in Trackpads
    PROVE  /\ t.tapTime \in Nat /\ t.tapDistance \in Nat
           /\ t.hold \in Nat \cup {Unset} /\ t.tan \in Nat
           /\ t.tapTime < MaxAge /\ t.tapTime + t.hold <= MaxAge
           /\ Sense(t.swipe) /\ Sense(t.zoom) /\ Sense(t.twist)
<1>1. t \in Trackpad
  BY GesturesAssumption DEF GesturesAssumption
<1>2. t.swipe \in Engine /\ t.zoom \in Engine /\ t.twist \in Engine
  BY <1>1 DEF Trackpad
<1>3. t.swipe.need # 0 /\ t.zoom.need # 0 /\ t.twist.need # 0
  BY GesturesAssumption DEF GesturesAssumption
<1>4. Sense(t.swipe) /\ Sense(t.zoom) /\ Sense(t.twist)
  BY <1>2, <1>3 DEF Engine, Field, Sense
<1> QED BY <1>1, <1>4, GesturesAssumption DEF Trackpad, Field, GesturesAssumption

LEMMA OlderFacts ==
    ASSUME NEW a \in Ages, NEW dt \in Delays
    PROVE  /\ Older(a, dt) \in Ages /\ a <= Older(a, dt)
           /\ \A b \in Ages : a <= b => Older(a, dt) <= Older(b, dt)
BY GesturesAssumption DEF GesturesAssumption, Older, Ages

LEMMA AgesFacts == 0 \in Ages /\ Ages \subseteq Nat
BY GesturesAssumption DEF GesturesAssumption, Ages

-----------------------------------------------------------------------------
(* The engines: what can become of each in a frame.                         *)

SwipeStates == EngineState(Pad \cup {Nowhere}, Ways)
HoldStates == [anchor : Pad \cup {Nowhere}, age : Ages, cancelled : BOOLEAN,
               recognised : BOOLEAN]
Locks == {-1, 0, 1}
Finished(e) == [e EXCEPT !.done = TRUE]
Locked(e, w) == [e EXCEPT !.locked = w]

LEMMA NothingIs == \A e : Nothing(e).then = e /\ Nothing(e).says = {}
BY DEF Nothing

LEMMA FiresIs == \A e, w : Fires(e, w).then = e /\ Fires(e, w).says = {w}
BY DEF Fires

LEMMA AnchoredType ==
    ASSUME NEW A, NEW L, NEW e \in EngineState(A, L), NEW p \in A
    PROVE  /\ Anchored(e, p) \in EngineState(A, L)
           /\ Anchored(e, p).done = e.done /\ Anchored(e, p).locked = e.locked
           /\ Anchored(e, p).anchor = p
BY AgesFacts DEF Anchored, EngineState

LEMMA FinishedType ==
    ASSUME NEW A, NEW L, NEW e \in EngineState(A, L)
    PROVE  /\ Finished(e) \in EngineState(A, L) /\ Finished(e).done = TRUE
           /\ Finished(e).locked = e.locked /\ Finished(e).anchor = e.anchor
BY DEF Finished, EngineState

LEMMA LockedType ==
    ASSUME NEW A, NEW L, NEW e \in EngineState(A, L), NEW w \in L
    PROVE  /\ Locked(e, w) \in EngineState(A, L) /\ Locked(e, w).done = e.done
           /\ Locked(e, w).locked = w /\ Locked(e, w).anchor = e.anchor
BY DEF Locked, EngineState

LEMMA RestType ==
    ASSUME NEW A, NEW L, NEW p \in A, NEW free \in L
    PROVE  /\ Rest(p, free) \in EngineState(A, L)
           /\ Rest(p, free).anchor = p /\ Rest(p, free).locked = free
           /\ Rest(p, free).done = FALSE
BY AgesFacts DEF Rest, EngineState

LEMMA OlderState ==
    ASSUME NEW A, NEW L, NEW e \in EngineState(A, L), NEW dt \in Delays
    PROVE  LET f == [e EXCEPT !.age = Older(@, dt)]
           IN  /\ f \in EngineState(A, L)
               /\ f.anchor = e.anchor /\ f.done = e.done /\ f.locked = e.locked
BY OlderFacts DEF EngineState

LEMMA WayType == \A d : Way(d) \in Ways
BY DEF Way, Ways

(* A swipe: nothing, a new anchor, the first one and those that follow.     *)
LEMMA SwipedKinds ==
    ASSUME NEW e, NEW p
    PROVE  LET r == Swiped(e, p)
           IN  \/ r = Nothing(e)
               \/ ~e.done /\ r = Nothing(Anchored(e, p))
               \/ /\ ~e.done /\ e.locked = "none" /\ trackpad.swipe.more = Unset
                  /\ \E w \in Ways \ {"none"} : r = Fires(Finished(e), w)
               \/ /\ ~e.done /\ e.locked = "none" /\ trackpad.swipe.more # Unset
                  /\ \E w \in Ways \ {"none"} :
                        r = Fires(Locked(Anchored(e, p), w), w)
               \/ ~e.done /\ e.locked # "none" /\ r = Fires(Anchored(e, p), e.locked)
<1> DEFINE d == Minus(p, e.anchor)
           r == Swiped(e, p)
<1>1. CASE e.done
  BY <1>1 DEF Swiped
<1>2. CASE ~e.done /\ e.locked = "none"
  <2>1. \/ r = Nothing(e) \/ r = Nothing(Anchored(e, p))
        \/ /\ Way(d) # "none" /\ trackpad.swipe.more = Unset
           /\ r = Fires(Finished(e), Way(d))
        \/ /\ Way(d) # "none" /\ trackpad.swipe.more # Unset
           /\ r = Fires(Locked(Anchored(e, p), Way(d)), Way(d))
    BY <1>2, Zenon DEF Swiped, Finished, Locked
  <2>2. Way(d) \in Ways
    BY WayType
  <2> QED BY <1>2, <2>1, <2>2
<1>3. CASE ~e.done /\ e.locked # "none"
  BY <1>3, Zenon DEF Swiped, Finished, Locked
<1> QED BY <1>1, <1>2, <1>3

(* A zoom or a twist, likewise.                                             *)
LEMMA PinchedKinds ==
    ASSUME NEW e, NEW t, NEW m, NEW d, NEW name
    PROVE  LET r == Pinched(e, t, m, d, name)
           IN  \/ r = Nothing(e)
               \/ ~e.done /\ r = Nothing(Anchored(e, m))
               \/ /\ ~e.done /\ e.locked = 0 /\ t.more = Unset
                  /\ r = Fires(Finished(e), name[Sign(d)])
               \/ /\ ~e.done /\ e.locked = 0 /\ t.more # Unset
                  /\ r = Fires(Locked(Anchored(e, m), Sign(d)), name[Sign(d)])
               \/ /\ ~e.done /\ e.locked # 0
                  /\ r = Fires(Locked(Anchored(e, m), -e.locked), name[Sign(d)])
               \/ /\ ~e.done /\ e.locked # 0
                  /\ r = Fires(Anchored(e, m), name[Sign(d)])
<1>1. CASE e.done
  BY <1>1 DEF Pinched
<1>2. CASE ~e.done /\ e.locked = 0
  BY <1>2, Zenon DEF Pinched, Finished, Locked
<1>3. CASE ~e.done /\ e.locked # 0
  BY <1>3, Zenon DEF Pinched, Finished, Locked
<1> QED BY <1>1, <1>2, <1>3

(* A hold: nothing, a finger that leaves, and the hold itself.              *)
LEMMA HeldKinds ==
    ASSUME NEW e, NEW p
    PROVE  LET r == Held(e, p)
           IN  \/ r = Nothing(e)
               \/ ~e.cancelled /\ ~e.recognised /\ r = Nothing([e EXCEPT !.cancelled = TRUE])
               \/ /\ ~e.cancelled /\ ~e.recognised
                  /\ e.age >= trackpad.tapTime + trackpad.hold
                  /\ r = Fires([e EXCEPT !.recognised = TRUE], "hold")
BY Zenon DEF Held

LEMMA SwipedType ==
    ASSUME NEW e \in SwipeStates, NEW p \in Pad
    PROVE  /\ Swiped(e, p).then \in SwipeStates
           /\ \/ Swiped(e, p).says = {}
              \/ \E w \in Ways \ {"none"} : Swiped(e, p).says = {w}
<1>1. Anchored(e, p) \in SwipeStates
  BY AnchoredType DEF SwipeStates
<1>2. Finished(e) \in SwipeStates
  BY FinishedType DEF SwipeStates
<1>3. \A w \in Ways : Locked(Anchored(e, p), w) \in SwipeStates
  BY <1>1, LockedType DEF SwipeStates
<1>4. e.locked \in Ways
  BY DEF SwipeStates, EngineState
<1> DEFINE r == Swiped(e, p)
<1>5. \/ r = Nothing(e) \/ r = Nothing(Anchored(e, p))
      \/ \E w \in Ways \ {"none"} :
            \/ r = Fires(Finished(e), w)
            \/ r = Fires(Locked(Anchored(e, p), w), w)
            \/ r = Fires(Anchored(e, p), w)
  BY <1>4, SwipedKinds
<1> HIDE DEF r
<1>6. r.then \in SwipeStates
  BY <1>1, <1>2, <1>3, <1>5, NothingIs, FiresIs
<1>7. r.says = {} \/ \E w \in Ways \ {"none"} : r.says = {w}
  BY <1>5, NothingIs, FiresIs
<1> QED BY <1>6, <1>7 DEF r

LEMMA SignType == \A d : Sign(d) \in {-1, 1}
BY DEF Sign

LEMMA PinchedType ==
    ASSUME NEW A, NEW e \in EngineState(A, Locks), NEW t, NEW m \in A, NEW d, NEW name
    PROVE  /\ Pinched(e, t, m, d, name).then \in EngineState(A, Locks)
           /\ Pinched(e, t, m, d, name).says \subseteq {name[-1], name[1]}
<1>1. Anchored(e, m) \in EngineState(A, Locks)
  BY AnchoredType
<1>2. Finished(e) \in EngineState(A, Locks)
  BY FinishedType
<1>3. \A w \in Locks : Locked(Anchored(e, m), w) \in EngineState(A, Locks)
  BY <1>1, LockedType
<1>4. -e.locked \in Locks /\ Sign(d) \in Locks
  BY SignType DEF EngineState, Locks
<1>5. {name[Sign(d)]} \subseteq {name[-1], name[1]}
  BY SignType
<1> DEFINE r == Pinched(e, t, m, d, name)
<1>6. \/ r = Nothing(e) \/ r = Nothing(Anchored(e, m))
      \/ r = Fires(Finished(e), name[Sign(d)])
      \/ \E w \in Locks : r = Fires(Locked(Anchored(e, m), w), name[Sign(d)])
      \/ r = Fires(Anchored(e, m), name[Sign(d)])
  BY <1>4, PinchedKinds
<1> HIDE DEF r
<1>7. r.then \in EngineState(A, Locks)
  BY <1>1, <1>2, <1>3, <1>6, NothingIs, FiresIs
<1>8. r.says \subseteq {name[-1], name[1]}
  <2>1. r.says = {} \/ r.says = {name[Sign(d)]}
    BY <1>6, NothingIs, FiresIs
  <2> QED BY <1>5, <2>1
<1> QED BY <1>7, <1>8 DEF r

LEMMA HeldType ==
    ASSUME NEW e \in HoldStates, NEW p
    PROVE  Held(e, p).then \in HoldStates /\ Held(e, p).says \subseteq {"hold"}
<1>1. /\ [e EXCEPT !.cancelled = TRUE] \in HoldStates
      /\ [e EXCEPT !.recognised = TRUE] \in HoldStates
  BY DEF HoldStates
<1> DEFINE r == Held(e, p)
<1>2. \/ r = Nothing(e) \/ r = Nothing([e EXCEPT !.cancelled = TRUE])
      \/ r = Fires([e EXCEPT !.recognised = TRUE], "hold")
  BY HeldKinds
<1> HIDE DEF r
<1>3. r.then \in HoldStates /\ r.says \subseteq {"hold"}
  BY <1>1, <1>2, NothingIs, FiresIs
<1> QED BY <1>3 DEF r

-----------------------------------------------------------------------------
(* The type invariant, with the centroid's.                                 *)

TypeInv ==
    /\ TypeOK
    /\ centroid \in [from : Nat \X Nat, to : Nat \X Nat, n : Nat]

LEMMA PairAtRest ==
    Rest(0, 0) \in EngineState(Nat, Locks) /\ Rest(0, 0) \in EngineState(0 .. 179, Locks)
<1>1. 0 \in Nat /\ 0 \in 0 .. 179 /\ 0 \in Locks
  BY DEF Locks
<1> QED BY <1>1, RestType

LEMMA RestTypes ==
    AtRest => /\ fingers' = 0 /\ most' = 0
              /\ age' \in [Slots -> Ages] /\ last' \in Pad \cup {Nowhere}
              /\ dragging' \in BOOLEAN /\ scrolling' \in BOOLEAN
              /\ centroid' \in [from : Nat \X Nat, to : Nat \X Nat, n : Nat]
              /\ centroid'.n = 0
              /\ swipe' \in SwipeStates /\ zoom' \in EngineState(Nat, Locks)
              /\ twist' \in EngineState(0 .. 179, Locks) /\ hold' \in HoldStates
<1> SUFFICES ASSUME AtRest PROVE
              /\ fingers' = 0 /\ most' = 0
              /\ age' \in [Slots -> Ages] /\ last' \in Pad \cup {Nowhere}
              /\ dragging' \in BOOLEAN /\ scrolling' \in BOOLEAN
              /\ centroid' \in [from : Nat \X Nat, to : Nat \X Nat, n : Nat]
              /\ centroid'.n = 0
              /\ swipe' \in SwipeStates /\ zoom' \in EngineState(Nat, Locks)
              /\ twist' \in EngineState(0 .. 179, Locks) /\ hold' \in HoldStates
  OBVIOUS
<1>1. /\ fingers' = 0 /\ most' = 0 /\ age' \in [Slots -> Ages]
      /\ last' \in Pad \cup {Nowhere}
      /\ dragging' \in BOOLEAN /\ scrolling' \in BOOLEAN
  BY AgesFacts DEF AtRest
<1>2. centroid' \in [from : Nat \X Nat, to : Nat \X Nat, n : Nat] /\ centroid'.n = 0
  BY DEF AtRest, NoCentroid, Nowhere
<1>3. swipe' \in SwipeStates
  BY RestType DEF AtRest, SwipeStates, Ways
<1>4. zoom' \in EngineState(Nat, Locks) /\ twist' \in EngineState(0 .. 179, Locks)
  BY PairAtRest DEF AtRest
<1>5. hold' \in HoldStates
  BY AgesFacts DEF AtRest, NoHold, HoldStates
<1> QED BY <1>1, <1>2, <1>3, <1>4, <1>5

LEMMA TypeInit == Init => TypeInv
<1> SUFFICES ASSUME Init PROVE TypeInv
  OBVIOUS
<1>1. swipe \in SwipeStates
  BY RestType DEF Init, SwipeStates, Ways
<1>2. zoom \in EngineState(Nat, Locks) /\ twist \in EngineState(0 .. 179, Locks)
  BY PairAtRest DEF Init
<1>3. hold \in HoldStates
  BY AgesFacts DEF Init, NoHold, HoldStates
<1>4. centroid \in [from : Nat \X Nat, to : Nat \X Nat, n : Nat] /\ centroid.n = 0
  BY DEF Init, NoCentroid, Nowhere
<1>5. age \in [Slots -> Ages]
  BY AgesFacts DEF Init
<1>6. /\ trackpad \in Trackpads /\ fingers \in 0 .. MaxFingers
      /\ most \in fingers .. MaxFingers /\ (fingers = 0 => most = 0)
      /\ centroid.n \in 0 .. most
  BY <1>4, GesturesAssumption DEF Init, GesturesAssumption
<1>7. /\ last \in Pad \cup {Nowhere} /\ dragging \in BOOLEAN /\ scrolling \in BOOLEAN
      /\ abandoned \in BOOLEAN
  BY DEF Init
<1> QED BY <1>1, <1>2, <1>3, <1>4, <1>5, <1>6, <1>7
        DEF TypeInv, TypeOK, SwipeStates, HoldStates, Locks

(* What the type invariant says, for those who need a part of it.           *)
LEMMA Parts ==
    ASSUME TypeInv
    PROVE  /\ trackpad \in Trackpads
           /\ fingers \in Nat /\ most \in Nat /\ fingers <= most /\ most <= MaxFingers
           /\ MaxFingers \in Nat \ {0}
           /\ fingers = 0 => most = 0
           /\ age \in [Slots -> Ages]
           /\ swipe \in SwipeStates /\ zoom \in EngineState(Nat, Locks)
           /\ twist \in EngineState(0 .. 179, Locks) /\ hold \in HoldStates
           /\ centroid \in [from : Nat \X Nat, to : Nat \X Nat, n : Nat]
           /\ dragging \in BOOLEAN /\ scrolling \in BOOLEAN /\ abandoned \in BOOLEAN
BY GesturesAssumption
   DEF TypeInv, TypeOK, SwipeStates, HoldStates, Locks, GesturesAssumption

LEMMA PeakFacts ==
    ASSUME TypeInv, NEW pts \in Touches
    PROVE  /\ Peak(pts) \in Nat /\ Len(pts) <= Peak(pts) /\ most <= Peak(pts)
           /\ Peak(pts) <= MaxFingers
           /\ Len(pts) <= most => Peak(pts) = most
           /\ Len(pts) > most => Peak(pts) = Len(pts)
           /\ Len(pts) \in Nat /\ Len(pts) >= 1
BY Parts, FrameFacts DEF Peak

LEMMA CentredFacts ==
    ASSUME TypeInv, NEW pts \in Touches
    PROVE  /\ Centred(pts) \in [from : Nat \X Nat, to : Nat \X Nat, n : Nat]
           /\ centroid.n <= most => Centred(pts).n <= Peak(pts)
<1> DEFINE sum == SumOf(pts)
<1>1. sum \in Nat \X Nat
  BY SumType
<1> HIDE DEF sum
<1>2. \/ Peak(pts) > most /\ Centred(pts) = [from |-> sum, to |-> sum, n |-> Len(pts)]
      \/ Centred(pts) = [centroid EXCEPT !.to = sum]
      \/ Centred(pts) = centroid
  BY DEF Centred, sum
<1>3. CASE Peak(pts) > most /\ Centred(pts) = [from |-> sum, to |-> sum, n |-> Len(pts)]
  BY <1>1, <1>3, PeakFacts, Parts
<1>4. CASE Centred(pts) = [centroid EXCEPT !.to = sum]
  BY <1>1, <1>4, PeakFacts, Parts
<1>5. CASE Centred(pts) = centroid
  BY <1>5, PeakFacts, Parts
<1> QED BY <1>2, <1>3, <1>4, <1>5

LEMMA StartedType ==
    ASSUME TypeInv, NEW dt \in Delays, NEW pts \in Touches
    PROVE  Started(dt, pts) \in [Slots -> Ages]
BY Parts, OlderFacts, AgesFacts DEF Started

LEMMA SwipeFrameType ==
    ASSUME TypeInv, NEW dt \in Delays, NEW pts \in Touches
    PROVE  /\ SwipeFrame(dt, pts).then \in SwipeStates
           /\ SwipeFrame(dt, pts).says \subseteq Ways \ {"none"}
           /\ \/ SwipeFrame(dt, pts).says = {}
              \/ \E w \in Ways \ {"none"} : SwipeFrame(dt, pts).says = {w}
           /\ SwipeFrame(dt, pts).says # {} => One(pts)
<1> DEFINE e == IF fingers = 0 THEN Rest(pts[1], "none")
                ELSE [swipe EXCEPT !.age = Older(@, dt)]
<1>1. e \in SwipeStates
  <2>1. Rest(pts[1], "none") \in SwipeStates
    BY FrameFacts, RestType DEF SwipeStates, Ways
  <2>2. [swipe EXCEPT !.age = Older(@, dt)] \in SwipeStates
    BY Parts, OlderState DEF SwipeStates
  <2> QED BY <2>1, <2>2
<1>2. Rest(Nowhere, "none") \in SwipeStates
  BY RestType DEF SwipeStates, Ways
<1>3. pts[1] \in Pad
  BY FrameFacts
<1> HIDE DEF e
<1>4. \/ One(pts) /\ SwipeFrame(dt, pts) = Swiped(e, pts[1])
      \/ SwipeFrame(dt, pts) = Nothing(Rest(Nowhere, "none"))
  BY DEF SwipeFrame, e
<1>5. CASE One(pts) /\ SwipeFrame(dt, pts) = Swiped(e, pts[1])
  BY <1>1, <1>3, <1>5, SwipedType
<1>6. CASE SwipeFrame(dt, pts) = Nothing(Rest(Nowhere, "none"))
  BY <1>2, <1>6 DEF Nothing
<1> QED BY <1>4, <1>5, <1>6

LEMMA PairFrameType ==
    ASSUME TypeInv, NEW A, NEW e \in EngineState(A, Locks), NEW t, NEW dt \in Delays,
           NEW pts \in Touches, NEW m \in A, 0 \in A, NEW d, NEW name
    PROVE  /\ PairFrame(e, t, dt, pts, m, d, name).then \in EngineState(A, Locks)
           /\ PairFrame(e, t, dt, pts, m, d, name).says \subseteq {name[-1], name[1]}
           /\ PairFrame(e, t, dt, pts, m, d, name).says # {} => Two(pts)
<1> DEFINE now == IF fingers # 2 THEN Rest(m, 0) ELSE [e EXCEPT !.age = Older(@, dt)]
           by == IF fingers # 2 THEN 0 ELSE d
           r == PairFrame(e, t, dt, pts, m, d, name)
<1>1. now \in EngineState(A, Locks)
  <2>1. Rest(m, 0) \in EngineState(A, Locks)
    BY RestType DEF Locks
  <2>2. [e EXCEPT !.age = Older(@, dt)] \in EngineState(A, Locks)
    BY OlderState
  <2> QED BY <2>1, <2>2
<1>2. Rest(0, 0) \in EngineState(A, Locks)
  BY RestType DEF Locks
<1>3. \/ Two(pts) /\ r = Pinched(now, t, m, by, name)
      \/ r = Nothing(Rest(0, 0))
  BY Zenon DEF PairFrame
<1> HIDE DEF now, by, r
<1>4. CASE Two(pts) /\ r = Pinched(now, t, m, by, name)
  <2>1. r.then \in EngineState(A, Locks) /\ r.says \subseteq {name[-1], name[1]}
    BY <1>1, <1>4, PinchedType
  <2> QED BY <1>4, <2>1 DEF r
<1>5. CASE r = Nothing(Rest(0, 0))
  <2>1. r.then \in EngineState(A, Locks) /\ r.says = {}
    BY <1>2, <1>5 DEF Nothing
  <2> QED BY <2>1 DEF r
<1> QED BY <1>3, <1>4, <1>5

(* Two points that a frame has, and what lies between them.                 *)
LEMMA SpanType ==
    ASSUME NEW pts \in Touches
    PROVE  /\ (IF Len(pts) = 2 THEN Span[<<pts[1], pts[2]>>] ELSE 0) \in Nat
           /\ (IF Len(pts) = 2 THEN Angle[<<pts[1], pts[2]>>] ELSE 0) \in 0 .. 179
<1>1. CASE Len(pts) = 2
  <2>1. pts[1] \in Pad /\ pts[2] \in Pad
    BY <1>1, FrameFacts
  <2> QED BY <1>1, <2>1, GesturesAssumption DEF GesturesAssumption
<1> QED BY <1>1

LEMMA ZoomFrameType ==
    ASSUME TypeInv, NEW dt \in Delays, NEW pts \in Touches
    PROVE  /\ ZoomFrame(dt, pts).then \in EngineState(Nat, Locks)
           /\ ZoomFrame(dt, pts).says \subseteq {"in", "out"}
           /\ ZoomFrame(dt, pts).says # {} => Two(pts)
<1> DEFINE m == IF Len(pts) = 2 THEN Span[<<pts[1], pts[2]>>] ELSE 0
           d == m - zoom.anchor
<1>1. m \in Nat
  BY SpanType
<1>2. ZoomFrame(dt, pts) = PairFrame(zoom, trackpad.zoom, dt, pts, m, d, ZoomName)
  BY DEF ZoomFrame
<1>3. ZoomName[-1] = "out" /\ ZoomName[1] = "in"
  BY DEF ZoomName
<1> HIDE DEF m, d
<1>4. zoom \in EngineState(Nat, Locks) /\ 0 \in Nat
  BY Parts
<1> DEFINE r == PairFrame(zoom, trackpad.zoom, dt, pts, m, d, ZoomName)
<1>5. /\ r.then \in EngineState(Nat, Locks)
      /\ r.says \subseteq {ZoomName[-1], ZoomName[1]} /\ (r.says # {} => Two(pts))
  BY <1>1, <1>4, PairFrameType
<1> HIDE DEF r
<1>6. r.says \subseteq {"in", "out"}
  BY <1>3, <1>5
<1> QED BY <1>2, <1>5, <1>6 DEF r

LEMMA TwistFrameType ==
    ASSUME TypeInv, NEW dt \in Delays, NEW pts \in Touches
    PROVE  /\ TwistFrame(dt, pts).then \in EngineState(0 .. 179, Locks)
           /\ TwistFrame(dt, pts).says \subseteq {"cw", "ccw"}
           /\ TwistFrame(dt, pts).says # {} => Two(pts)
<1> DEFINE m == IF Len(pts) = 2 THEN Angle[<<pts[1], pts[2]>>] ELSE 0
           d == Wrap(m - twist.anchor)
<1>1. m \in 0 .. 179
  BY SpanType
<1>2. TwistFrame(dt, pts) = PairFrame(twist, trackpad.twist, dt, pts, m, d, TwistName)
  BY DEF TwistFrame
<1>3. TwistName[-1] = "ccw" /\ TwistName[1] = "cw"
  BY DEF TwistName
<1>4. 0 \in 0 .. 179
  OBVIOUS
<1> HIDE DEF m, d
<1>5. twist \in EngineState(0 .. 179, Locks)
  BY Parts
<1> DEFINE r == PairFrame(twist, trackpad.twist, dt, pts, m, d, TwistName)
<1>6. /\ r.then \in EngineState(0 .. 179, Locks)
      /\ r.says \subseteq {TwistName[-1], TwistName[1]} /\ (r.says # {} => Two(pts))
  <2> DEFINE A == 0 .. 179
  <2>1. m \in A /\ 0 \in A /\ twist \in EngineState(A, Locks)
    BY <1>1, <1>4, <1>5
  <2> HIDE DEF A
  <2>2. /\ r.then \in EngineState(A, Locks)
        /\ r.says \subseteq {TwistName[-1], TwistName[1]} /\ (r.says # {} => Two(pts))
    BY <2>1, PairFrameType
  <2> QED BY <2>2 DEF A
<1> HIDE DEF r
<1>7. r.says \subseteq {"cw", "ccw"}
  BY <1>3, <1>6
<1> QED BY <1>2, <1>6, <1>7 DEF r

(* What a frame makes of a hold.                                            *)
Aged(dt, pts) == IF fingers = 0 THEN [NoHold EXCEPT !.anchor = pts[1]]
                 ELSE [hold EXCEPT !.age = Older(@, dt)]
Abandoned(e) == [Spent(e) EXCEPT !.cancelled = TRUE, !.recognised = FALSE]

LEMMA AgedFacts ==
    ASSUME TypeInv, NEW dt \in Delays, NEW pts \in Touches
    PROVE  /\ Aged(dt, pts) \in HoldStates
           /\ fingers # 0 => /\ Aged(dt, pts).cancelled = hold.cancelled
                            /\ Aged(dt, pts).recognised = hold.recognised
                            /\ Aged(dt, pts).age = Older(hold.age, dt)
           /\ fingers = 0 => /\ Aged(dt, pts).cancelled = FALSE
                            /\ Aged(dt, pts).recognised = FALSE
                            /\ Aged(dt, pts).age = 0 /\ Aged(dt, pts).anchor = pts[1]
<1>1. pts[1] \in Pad /\ hold \in HoldStates
  BY FrameFacts, Parts
<1>2. CASE fingers = 0
  BY <1>1, <1>2, AgesFacts DEF Aged, HoldStates, NoHold
<1>3. CASE fingers # 0
  BY <1>1, <1>3, OlderFacts DEF Aged, HoldStates
<1> QED BY <1>2, <1>3

LEMMA SpentFacts ==
    ASSUME NEW e \in HoldStates
    PROVE  /\ Spent(e) \in HoldStates /\ Abandoned(e) \in HoldStates
           /\ Spent(e).cancelled = e.cancelled /\ Spent(e).recognised = e.recognised
           /\ Abandoned(e).cancelled = TRUE /\ Abandoned(e).recognised = FALSE
<1>1. NoHold \in HoldStates
  BY AgesFacts DEF NoHold, HoldStates
<1> HIDE DEF NoHold
<1>2. /\ Spent(e) \in HoldStates
      /\ Spent(e).cancelled = e.cancelled /\ Spent(e).recognised = e.recognised
  BY <1>1 DEF Spent, HoldStates
<1> HIDE DEF Spent
<1>3. /\ Abandoned(e) \in HoldStates
      /\ Abandoned(e).cancelled = TRUE /\ Abandoned(e).recognised = FALSE
  BY <1>2 DEF Abandoned, HoldStates
<1> QED BY <1>2, <1>3

LEMMA HoldFrameKinds ==
    ASSUME NEW dt, NEW pts
    PROVE  LET r == HoldFrame(dt, pts)
               e == Aged(dt, pts)
           IN  /\ trackpad.hold = Unset => r = Nothing(hold)
               /\ trackpad.hold # Unset /\ Len(pts) >= 2 /\ fingers < 2 =>
                     r = Nothing(Abandoned(e))
               /\ trackpad.hold # Unset /\ ~(Len(pts) >= 2 /\ fingers < 2) =>
                     r = IF One(pts) THEN Held(e, pts[1]) ELSE Nothing(Spent(e))
BY Zenon DEF HoldFrame, Aged, Abandoned

LEMMA HoldFrameType ==
    ASSUME TypeInv, NEW dt \in Delays, NEW pts \in Touches
    PROVE  /\ HoldFrame(dt, pts).then \in HoldStates
           /\ HoldFrame(dt, pts).says \subseteq {"hold"}
           /\ HoldFrame(dt, pts).says # {} => One(pts) /\ trackpad.hold # Unset
<1> DEFINE e == Aged(dt, pts)
           r == HoldFrame(dt, pts)
<1>1. e \in HoldStates /\ hold \in HoldStates
  BY AgedFacts, Parts
<1>2. \/ r = Nothing(hold) \/ r = Nothing(Abandoned(e))
      \/ One(pts) /\ trackpad.hold # Unset /\ r = Held(e, pts[1])
      \/ r = Nothing(Spent(e))
  BY HoldFrameKinds
<1> HIDE DEF e
<1>3. Spent(e) \in HoldStates /\ Abandoned(e) \in HoldStates
  BY <1>1, SpentFacts
<1>4. Held(e, pts[1]).then \in HoldStates /\ Held(e, pts[1]).says \subseteq {"hold"}
  BY <1>1, HeldType
<1> HIDE DEF r
<1>5. /\ r.then \in HoldStates /\ r.says \subseteq {"hold"}
      /\ r.says # {} => One(pts) /\ trackpad.hold # Unset
  BY <1>1, <1>2, <1>3, <1>4, NothingIs
<1> QED BY <1>5 DEF r

LEMMA TypeFrame ==
    ASSUME TypeInv, NEW dt \in Delays, NEW pts \in Touches, Frame(dt, pts)
    PROVE  TypeInv'
<1>1. /\ trackpad' = trackpad /\ fingers' = Len(pts) /\ most' = Peak(pts)
      /\ age' = Started(dt, pts) /\ centroid' = Centred(pts)
      /\ dragging' = (dragging \/ ((One(pts) \/ Two(pts)) /\ Strays(centroid')))
      /\ scrolling' = (scrolling \/ (Two(pts) /\ Strays(centroid')))
      /\ last' = IF One(pts) THEN pts[1] ELSE Nowhere
      /\ swipe' = SwipeFrame(dt, pts).then /\ zoom' = ZoomFrame(dt, pts).then
      /\ twist' = TwistFrame(dt, pts).then /\ hold' = HoldFrame(dt, pts).then
      /\ abandoned' = (abandoned \/ (hold.recognised /\ ~HoldFrame(dt, pts).then.recognised))
  BY DEF Frame
<1>2. /\ trackpad' \in Trackpads
      /\ fingers' \in 0 .. MaxFingers /\ most' \in fingers' .. MaxFingers
      /\ fingers' = 0 => most' = 0
  BY <1>1, Parts, PeakFacts
<1>3. age' \in [Slots -> Ages]
  BY <1>1, StartedType
<1>4. last' \in Pad \cup {Nowhere}
  BY <1>1, FrameFacts
<1>5. dragging' \in BOOLEAN /\ scrolling' \in BOOLEAN /\ abandoned' \in BOOLEAN
  BY <1>1, Parts
<1>6. centroid' \in [from : Nat \X Nat, to : Nat \X Nat, n : Nat] /\ centroid'.n \in 0 .. most'
  <2>1. centroid.n <= most
    BY Parts DEF TypeInv, TypeOK
  <2> QED BY <1>1, <2>1, CentredFacts, PeakFacts
<1>7. swipe' \in SwipeStates /\ zoom' \in EngineState(Nat, Locks)
  BY <1>1, SwipeFrameType, ZoomFrameType
<1>8. twist' \in EngineState(0 .. 179, Locks) /\ hold' \in HoldStates
  BY <1>1, TwistFrameType, HoldFrameType
<1>9. EngineState(Nat, Locks)' = EngineState(Nat, Locks)
  OBVIOUS
<1> QED BY <1>2, <1>3, <1>4, <1>5, <1>6, <1>7, <1>8
        DEF TypeInv, TypeOK, SwipeStates, HoldStates, Locks

LEMMA TypeStep == TypeInv /\ [Next]_vars => TypeInv'
<1> SUFFICES ASSUME TypeInv, [Next]_vars PROVE TypeInv'
  OBVIOUS
<1>1. ASSUME NEW dt \in Delays, NEW pts \in Touches, Frame(dt, pts) PROVE TypeInv'
  BY <1>1, TypeFrame
<1>2. ASSUME AtRest, trackpad' \in Trackpads, abandoned' \in BOOLEAN PROVE TypeInv'
  BY <1>2, RestTypes, Parts DEF TypeInv, TypeOK, SwipeStates, HoldStates, Locks
<1>3. ASSUME NEW dt \in Delays, Lift(dt) PROVE TypeInv'
  BY <1>2, <1>3, Parts DEF Lift
<1>4. CASE Rebuild
  BY <1>2, <1>4, Parts DEF Rebuild
<1>5. CASE UNCHANGED vars
  BY <1>5 DEF vars, engines, TypeInv, TypeOK
<1> QED BY <1>1, <1>3, <1>4, <1>5 DEF Next

(* The type invariant: fingers, engines and ages are what the code can      *)
(* hold, and no session has more fingers than the pad.                      *)
THEOREM TypeCorrect == Spec => []TypeOK
<1>1. TypeInv => TypeOK
  BY DEF TypeInv
<1> QED BY <1>1, TypeInit, TypeStep, PTL DEF Spec

-----------------------------------------------------------------------------
(* A session has one outcome.                                               *)

(* A hold that is asked for takes longer than a tap.                        *)
HoldLasts == \A t \in Trackpads : t.hold # 0

Down == fingers # 0

(* Once a hold was recognised it goes on or is cancelled, and the first     *)
(* finger has been down for longer than a tap.                              *)
HoldSense ==
    /\ ~Down => hold = NoHold
    /\ ~(hold.recognised /\ hold.cancelled)
    /\ hold.recognised => past.held
    /\ Down /\ trackpad.hold = Unset => hold = NoHold /\ ~past.held
    /\ Down /\ trackpad.hold # Unset /\ most = 1 => hold.age = age[1]
    /\ Down /\ past.held =>
          /\ hold.recognised \/ hold.cancelled
          /\ age[1] >= trackpad.tapTime + trackpad.hold

(* The engine remembers that there was a swipe, and which.                  *)
SwipeKnows(e, swiped) ==
    /\ swiped \in Ways
    /\ trackpad.swipe.need = Unset => swiped = "none"
    /\ trackpad.swipe.need # Unset =>
          /\ e.done <=> trackpad.swipe.more = Unset /\ swiped # "none"
          /\ e.locked = IF trackpad.swipe.more = Unset THEN "none" ELSE swiped
SwipeSense == Down /\ most = 1 => SwipeKnows(swipe, past.swiped)

(* So does that of a pair that has zoomed, or turned.                       *)
PairKnows(e, t, fired) ==
    /\ fired => t.need # Unset
    /\ t.more = Unset => e.locked = 0 /\ (fired => e.done)
Zoomed == past.turned \cap {"in", "out"} # {}
Turned == past.turned \cap {"cw", "ccw"} # {}
PairSense ==
    /\ Zoomed \/ Turned => fingers = 2 /\ most = 2
    /\ fingers = 2 /\ most = 2 =>
          PairKnows(zoom, trackpad.zoom, Zoomed) /\ PairKnows(twist, trackpad.twist, Turned)

(* What is remembered of a session.                                         *)
Pasts == [still : {"landing", "lifting", "moved"}, down : SUBSET Pad, took : Ages,
          quiet : BOOLEAN, held : BOOLEAN, swiped : Ways,
          turned : SUBSET {"in", "out", "cw", "ccw"}]

OutcomeInv == past \in Pasts /\ HoldSense /\ SwipeSense /\ PairSense

(* The session that a frame belongs to, as it was before.                   *)
Before == IF fingers = 0 THEN NoPast ELSE past

LEMMA FrameIs ==
    ASSUME NEW dt, NEW pts, Frame(dt, pts)
    PROVE  /\ trackpad' = trackpad /\ fingers' = Len(pts) /\ most' = Peak(pts)
           /\ age' = Started(dt, pts) /\ centroid' = Centred(pts)
           /\ dragging' = (dragging \/ ((One(pts) \/ Two(pts)) /\ Strays(centroid')))
           /\ scrolling' = (scrolling \/ (Two(pts) /\ Strays(centroid')))
           /\ swipe' = SwipeFrame(dt, pts).then /\ zoom' = ZoomFrame(dt, pts).then
           /\ twist' = TwistFrame(dt, pts).then /\ hold' = HoldFrame(dt, pts).then
           /\ abandoned' =
                 (abandoned \/ (hold.recognised /\ ~HoldFrame(dt, pts).then.recognised))
           /\ past'.held = (Before.held \/ HoldFrame(dt, pts).says # {})
           /\ past'.swiped = IF SwipeFrame(dt, pts).says = {} THEN Before.swiped
                             ELSE CHOOSE w \in SwipeFrame(dt, pts).says : TRUE
           /\ past'.turned = IF Len(pts) # 2 THEN {}
                             ELSE Before.turned \cup ZoomFrame(dt, pts).says
                                                \cup TwistFrame(dt, pts).says
           /\ out' \subseteq {"move", "scroll"} \cup SwipeFrame(dt, pts).says
                             \cup ZoomFrame(dt, pts).says
                             \cup TwistFrame(dt, pts).says \cup HoldFrame(dt, pts).says
           /\ SwipeFrame(dt, pts).says \subseteq out'
BY DEF Frame, Before

LEMMA FirstAge ==
    ASSUME TypeInv, NEW dt \in Delays, NEW pts \in Touches
    PROVE  /\ fingers = 0 => Started(dt, pts)[1] = 0
           /\ fingers # 0 => Started(dt, pts)[1] = Older(age[1], dt)
           /\ age[1] \in Ages
<1>1. 1 \in Slots /\ 1 <= Peak(pts) /\ age \in [Slots -> Ages]
  BY Parts, PeakFacts DEF Slots
<1>2. age[1] \in Ages
  BY <1>1
<1>3. fingers = 0 => Started(dt, pts)[1] = 0
  BY <1>1, Parts, PeakFacts DEF Started, Slots
<1>4. fingers # 0 => Started(dt, pts)[1] = Older(age[1], dt)
  BY <1>1, Parts, PeakFacts DEF Started, Slots
<1> QED BY <1>2, <1>3, <1>4

(* One finger, and never another, or the first to land.                     *)
LEMMA OneFacts ==
    ASSUME TypeInv, NEW pts \in Touches
    PROVE  /\ Len(pts) \in Nat /\ Len(pts) >= 1
           /\ One(pts) => Len(pts) = 1 /\ ~(Len(pts) >= 2) /\ Peak(pts) = 1
           /\ One(pts) /\ fingers # 0 => most = 1 /\ fingers = 1
           /\ fingers = 0 /\ ~(Len(pts) >= 2) => One(pts)
           /\ Len(pts) = 1 /\ most = 1 => One(pts)
           /\ Two(pts) => Len(pts) = 2 /\ Peak(pts) = 2
           /\ fingers = 2 /\ Two(pts) => most = 2
           /\ Peak(pts) = 1 => One(pts)
           /\ Len(pts) = 2 /\ Peak(pts) = 2 => Two(pts)
<1> DEFINE n == Len(pts)
           k == Peak(pts)
<1>1. /\ n \in Nat /\ n >= 1 /\ n <= k /\ k \in Nat /\ most <= k
      /\ n > most => k = n
      /\ n <= most => k = most
  BY PeakFacts
<1>2. fingers \in Nat /\ most \in Nat /\ fingers <= most /\ (fingers = 0 => most = 0)
  BY Parts
<1>3. (One(pts) <=> n = 1 /\ k = 1) /\ (Two(pts) <=> n = 2 /\ k = 2)
  BY DEF One, Two
<1> HIDE DEF n, k
<1>4. /\ One(pts) => n = 1 /\ ~(n >= 2) /\ k = 1
      /\ One(pts) /\ fingers # 0 => most = 1 /\ fingers = 1
      /\ fingers = 0 /\ ~(n >= 2) => One(pts)
      /\ n = 1 /\ most = 1 => One(pts)
  BY <1>1, <1>2, <1>3
<1>5. /\ Two(pts) => n = 2 /\ k = 2
      /\ fingers = 2 /\ Two(pts) => most = 2
      /\ k = 1 => One(pts)
      /\ n = 2 /\ k = 2 => Two(pts)
  BY <1>1, <1>2, <1>3
<1> QED BY <1>1, <1>4, <1>5 DEF n, k

LEMMA PairOf ==
    ASSUME TypeInv, NEW pts \in Touches
    PROVE  /\ Len(pts) = 2 /\ most = 2 => Two(pts)
           /\ Len(pts) = 2 /\ Peak(pts) = 2 <=> Two(pts)
           /\ Len(pts) # 2 => ~Two(pts)
<1>1. Len(pts) = 2 /\ most = 2 => Peak(pts) = 2
  BY PeakFacts
<1> QED BY <1>1 DEF Two

(* The three cases of the recogniser's step.                                *)
LEMMA HeldFacts ==
    ASSUME NEW e \in HoldStates, NEW p
    PROVE  LET r == Held(e, p)
           IN  /\ r.then.age = e.age /\ r.then.anchor = e.anchor
               /\ r.says = {} => r.then.recognised = e.recognised
               /\ e.cancelled => r.then.cancelled
               /\ r.says # {} => /\ ~e.cancelled /\ ~e.recognised
                                 /\ r.then.recognised /\ ~r.then.cancelled
                                 /\ e.age >= trackpad.tapTime + trackpad.hold
               /\ r.then.cancelled /\ ~e.cancelled => ~e.recognised /\ r.says = {}
<1> DEFINE r == Held(e, p)
           left == [e EXCEPT !.cancelled = TRUE]
           known == [e EXCEPT !.recognised = TRUE]
<1>1. \/ r = Nothing(e)
      \/ ~e.cancelled /\ ~e.recognised /\ r = Nothing(left)
      \/ /\ ~e.cancelled /\ ~e.recognised
         /\ e.age >= trackpad.tapTime + trackpad.hold
         /\ r = Fires(known, "hold")
  BY HeldKinds
<1>2. /\ left.age = e.age /\ left.anchor = e.anchor /\ left.recognised = e.recognised
      /\ left.cancelled = TRUE
  BY DEF HoldStates
<1>3. /\ known.age = e.age /\ known.anchor = e.anchor /\ known.recognised = TRUE
      /\ known.cancelled = e.cancelled
  BY DEF HoldStates
<1> HIDE DEF r, left, known
<1>4. CASE r = Nothing(e)
  BY <1>4, NothingIs DEF r
<1>5. CASE ~e.cancelled /\ ~e.recognised /\ r = Nothing(left)
  BY <1>2, <1>5, NothingIs DEF r
<1>6. CASE /\ ~e.cancelled /\ ~e.recognised
           /\ e.age >= trackpad.tapTime + trackpad.hold
           /\ r = Fires(known, "hold")
  <2>1. r.then = known /\ r.says = {"hold"}
    BY <1>6, FiresIs
  <2>2. ~known.cancelled /\ known.recognised
    BY <1>3, <1>6
  <2> QED BY <1>3, <1>6, <2>1, <2>2 DEF r
<1> QED BY <1>1, <1>4, <1>5, <1>6

LEMMA SquareFacts ==
    /\ \A p \in Nat \X Nat : Square(Minus(p, p)) = 0 /\ Manhattan(Minus(p, p)) = 0
    /\ \A n \in Nat : n * n >= 0 /\ n * n \in Nat
<1>1. ASSUME NEW p \in Nat \X Nat
      PROVE  Square(Minus(p, p)) = 0 /\ Manhattan(Minus(p, p)) = 0
  <2>1. Minus(p, p) = <<0, 0>>
    BY DEF Minus
  <2>2. Square(<<0, 0>>) = 0 /\ Manhattan(<<0, 0>>) = 0
    BY DEF Square, Manhattan, Abs
  <2> QED BY <2>1, <2>2
<1>2. ASSUME NEW n \in Nat PROVE n * n >= 0 /\ n * n \in Nat
  OBVIOUS
<1> QED BY <1>1, <1>2

(* A finger that stays where it has landed.                                 *)
LEMMA HeldStill ==
    ASSUME TypeInv, NEW e \in HoldStates, e.anchor \in Pad, ~e.cancelled
    PROVE  ~Held(e, e.anchor).then.cancelled
<1> DEFINE p == e.anchor
           known == [e EXCEPT !.recognised = TRUE]
           r == Held(e, p)
<1>1. Square(Minus(p, p)) = 0
  BY SquareFacts, GesturesAssumption DEF GesturesAssumption
<1>2. trackpad.tapDistance * trackpad.tapDistance >= 0
  BY Parts, TrackpadFacts, SquareFacts
<1>3. ~(Square(Minus(p, p)) > trackpad.tapDistance * trackpad.tapDistance)
  <2>1. trackpad.tapDistance * trackpad.tapDistance \in Nat
    BY Parts, TrackpadFacts, SquareFacts
  <2> QED BY <1>1, <1>2, <2>1
<1>4. r = Nothing(e) \/ r = Fires(known, "hold")
  BY <1>3, Zenon DEF Held
<1>5. known.cancelled = e.cancelled
  BY DEF HoldStates
<1> HIDE DEF r, known
<1>6. r.then = e \/ r.then = known
  BY <1>4, NothingIs, FiresIs
<1> QED BY <1>5, <1>6 DEF r

(* A frame with more fingers, or with another finger than the first.        *)
LEMMA HoldFrameFacts ==
    ASSUME HoldLasts, TypeInv, HoldSense, NEW dt \in Delays, NEW pts \in Touches
    PROVE  LET r == HoldFrame(dt, pts)
               second == Len(pts) >= 2 /\ fingers < 2
           IN  /\ trackpad.hold = Unset => r.then = hold /\ r.says = {}
               /\ trackpad.hold # Unset /\ second =>
                     r.then.cancelled /\ ~r.then.recognised /\ r.says = {}
               /\ trackpad.hold # Unset /\ fingers = 0 /\ ~second =>
                     /\ One(pts) /\ r.says = {} /\ r.then.age = 0
                     /\ ~r.then.recognised /\ ~r.then.cancelled
               /\ trackpad.hold # Unset /\ fingers # 0 /\ ~second /\ ~One(pts) =>
                     /\ r.says = {} /\ r.then.cancelled = hold.cancelled
                     /\ r.then.recognised = hold.recognised
               /\ trackpad.hold # Unset /\ fingers # 0 /\ One(pts) =>
                     /\ most = 1 /\ r.then.age = Older(hold.age, dt)
                     /\ r.says = {} => r.then.recognised = hold.recognised
                     /\ hold.cancelled => r.then.cancelled
                     /\ r.says # {} =>
                           /\ ~hold.cancelled /\ ~hold.recognised
                           /\ r.then.recognised /\ ~r.then.cancelled
                           /\ Older(hold.age, dt) >= trackpad.tapTime + trackpad.hold
                     /\ r.then.cancelled /\ ~hold.cancelled =>
                           ~hold.recognised /\ r.says = {}
<1> DEFINE r == HoldFrame(dt, pts)
           second == Len(pts) >= 2 /\ fingers < 2
           e == Aged(dt, pts)
<1>1. /\ trackpad.hold = Unset => r = Nothing(hold)
      /\ trackpad.hold # Unset /\ second => r = Nothing(Abandoned(e))
      /\ trackpad.hold # Unset /\ ~second =>
            r = IF One(pts) THEN Held(e, pts[1]) ELSE Nothing(Spent(e))
  BY HoldFrameKinds
<1>2. /\ e \in HoldStates
      /\ fingers # 0 => /\ e.cancelled = hold.cancelled /\ e.recognised = hold.recognised
                       /\ e.age = Older(hold.age, dt)
      /\ fingers = 0 => e.cancelled = FALSE /\ e.recognised = FALSE /\ e.age = 0
  BY AgedFacts
<1>3. /\ trackpad.hold \in Nat \cup {Unset} /\ trackpad.hold # 0 /\ trackpad.tapTime \in Nat
  BY Parts, TrackpadFacts DEF HoldLasts
<1>4. /\ Len(pts) \in Nat /\ Len(pts) >= 1
      /\ One(pts) => ~second /\ (fingers # 0 => most = 1)
      /\ fingers = 0 /\ ~second => One(pts)
  <2>1. /\ Len(pts) \in Nat /\ Len(pts) >= 1
        /\ One(pts) => ~(Len(pts) >= 2) /\ (fingers # 0 => most = 1)
        /\ fingers = 0 /\ ~(Len(pts) >= 2) => One(pts)
    BY OneFacts
  <2>2. One(pts) => ~second
    BY <2>1
  <2>3. ASSUME fingers = 0, ~second PROVE One(pts)
    <3>1. ~(Len(pts) >= 2)
      BY <2>3
    <3> QED BY <2>1, <2>3, <3>1
  <2> QED BY <2>1, <2>2, <2>3
<1> HIDE DEF second, e, r
<1>5. CASE trackpad.hold = Unset
  <2>1. r.then = hold /\ r.says = {}
    BY <1>1, <1>5, NothingIs
  <2> QED BY <1>5, <2>1 DEF r
<1>6. CASE trackpad.hold # Unset /\ second
  <2>1. r.then = Abandoned(e) /\ r.says = {}
    BY <1>1, <1>6, NothingIs
  <2>2. Abandoned(e).cancelled = TRUE /\ Abandoned(e).recognised = FALSE
    BY <1>2, SpentFacts
  <2>3. r.then.cancelled /\ ~r.then.recognised /\ r.says = {}
    BY <2>1, <2>2
  <2> QED BY <1>4, <1>6, <2>3 DEF r, second
<1>7. CASE trackpad.hold # Unset /\ ~second /\ ~One(pts)
  <2>1. fingers # 0 /\ r.then = Spent(e) /\ r.says = {}
    BY <1>1, <1>4, <1>7, NothingIs
  <2>2. Spent(e).cancelled = e.cancelled /\ Spent(e).recognised = e.recognised
    BY <1>2, SpentFacts
  <2>3. r.then.cancelled = hold.cancelled /\ r.then.recognised = hold.recognised
    BY <1>2, <2>1, <2>2
  <2> QED BY <1>7, <2>1, <2>3 DEF r, second
<1>8. CASE trackpad.hold # Unset /\ One(pts)
  <2>1. r = Held(e, pts[1]) /\ ~second
    BY <1>1, <1>4, <1>8
  <2>2. /\ r.then.age = e.age
        /\ r.says = {} => r.then.recognised = e.recognised
        /\ e.cancelled => r.then.cancelled
        /\ r.says # {} => /\ ~e.cancelled /\ ~e.recognised
                          /\ r.then.recognised /\ ~r.then.cancelled
                          /\ e.age >= trackpad.tapTime + trackpad.hold
        /\ r.then.cancelled /\ ~e.cancelled => ~e.recognised /\ r.says = {}
    BY <1>2, <2>1, HeldFacts
  <2>3. CASE fingers = 0
    <3>1. ~(e.age >= trackpad.tapTime + trackpad.hold)
      BY <1>2, <1>3, <1>8, <2>3 DEF Unset
    <3>2. r.says = {} /\ ~r.then.recognised /\ r.then.age = 0
      BY <1>2, <2>2, <2>3, <3>1
    <3>3. e.anchor = pts[1] /\ e.anchor \in Pad
      <4>1. pts[1] \in Pad
        BY FrameFacts
      <4>2. Aged(dt, pts).anchor = pts[1]
        BY <2>3, AgedFacts
      <4> QED BY <4>1, <4>2 DEF e
    <3>4. ~r.then.cancelled
      BY <1>2, <2>1, <2>3, <3>3, HeldStill
    <3> QED BY <1>8, <2>1, <2>3, <3>2, <3>4 DEF r, second
  <2>4. CASE fingers # 0
    <3>1. most = 1
      BY <1>4, <1>8, <2>4
    <3>2. /\ r.then.age = Older(hold.age, dt)
          /\ r.says = {} => r.then.recognised = hold.recognised
          /\ hold.cancelled => r.then.cancelled
          /\ r.says # {} => /\ ~hold.cancelled /\ ~hold.recognised
                            /\ r.then.recognised /\ ~r.then.cancelled
                            /\ Older(hold.age, dt) >= trackpad.tapTime + trackpad.hold
          /\ r.then.cancelled /\ ~hold.cancelled => ~hold.recognised /\ r.says = {}
      BY <1>2, <2>2, <2>4
    <3> QED BY <1>8, <2>1, <2>4, <3>1, <3>2 DEF r, second
  <2> QED BY <2>3, <2>4
<1> QED BY <1>5, <1>6, <1>7, <1>8


LEMMA BeforeFacts ==
    /\ fingers = 0 => ~Before.held /\ Before.swiped = "none" /\ Before.turned = {}
    /\ fingers # 0 => Before = past
BY DEF Before, NoPast

LEMMA HoldKeeps ==
    ASSUME HoldLasts, TypeInv, HoldSense, NEW dt \in Delays, NEW pts \in Touches,
           Frame(dt, pts)
    PROVE  HoldSense'
<1> DEFINE r == HoldFrame(dt, pts)
           second == Len(pts) >= 2 /\ fingers < 2
           long == trackpad.tapTime + trackpad.hold
           a == Started(dt, pts)[1]
<1>1. /\ trackpad' = trackpad /\ fingers' = Len(pts) /\ most' = Peak(pts)
      /\ age'[1] = a /\ hold' = r.then
      /\ past'.held = (Before.held \/ r.says # {})
  BY FrameIs
<1>2. /\ fingers' # 0 /\ (Peak(pts) = 1 => One(pts)) /\ (One(pts) => ~second)
  BY <1>1, OneFacts
<1>3. /\ fingers = 0 => ~Before.held /\ a = 0 /\ hold = NoHold
      /\ fingers # 0 => (Before.held <=> past.held) /\ a = Older(age[1], dt)
  BY BeforeFacts, FirstAge DEF HoldSense, Down
<1>4. /\ age[1] \in Ages /\ a \in Ages /\ (fingers # 0 => age[1] <= a)
  BY <1>3, FirstAge, OlderFacts, AgesFacts
<1>5. fingers # 0 /\ past.held => a >= long
  <2>1. trackpad.tapTime \in Int /\ trackpad.hold \in Int
    BY Parts, TrackpadFacts DEF Unset
  <2>2. fingers # 0 /\ past.held => age[1] >= long
    BY DEF HoldSense, Down
  <2>3. long \in Int
    BY <2>1
  <2> HIDE DEF a, long
  <2>4. age[1] \in Int /\ a \in Int
    BY <1>4 DEF Ages
  <2> QED BY <1>4, <2>2, <2>3, <2>4
<1>6. /\ trackpad.hold = Unset => r.then = hold /\ r.says = {}
      /\ trackpad.hold # Unset /\ second =>
            r.then.cancelled /\ ~r.then.recognised /\ r.says = {}
      /\ trackpad.hold # Unset /\ fingers = 0 /\ ~second =>
            /\ One(pts) /\ r.says = {} /\ r.then.age = 0
            /\ ~r.then.recognised /\ ~r.then.cancelled
      /\ trackpad.hold # Unset /\ fingers # 0 /\ ~second /\ ~One(pts) =>
            /\ r.says = {} /\ r.then.cancelled = hold.cancelled
            /\ r.then.recognised = hold.recognised
      /\ trackpad.hold # Unset /\ fingers # 0 /\ One(pts) =>
            /\ most = 1 /\ r.then.age = Older(hold.age, dt)
            /\ r.says = {} => r.then.recognised = hold.recognised
            /\ hold.cancelled => r.then.cancelled
            /\ r.says # {} =>
                  /\ ~hold.cancelled /\ ~hold.recognised
                  /\ r.then.recognised /\ ~r.then.cancelled
                  /\ Older(hold.age, dt) >= long
            /\ r.then.cancelled /\ ~hold.cancelled => ~hold.recognised /\ r.says = {}
  BY HoldFrameFacts
<1>7. /\ ~(hold.recognised /\ hold.cancelled) /\ (hold.recognised => past.held)
      /\ fingers # 0 /\ trackpad.hold = Unset => hold = NoHold /\ ~past.held
      /\ fingers # 0 /\ trackpad.hold # Unset /\ most = 1 => hold.age = age[1]
      /\ fingers # 0 /\ past.held => hold.recognised \/ hold.cancelled
  BY DEF HoldSense, Down
<1> HIDE DEF r, second, long, a
<1> DEFINE held == Before.held \/ r.says # {}
<1>8. CASE trackpad.hold = Unset
  <2>1. r.then = NoHold /\ ~held
    BY <1>3, <1>6, <1>7, <1>8
  <2>2. ~NoHold.recognised /\ ~NoHold.cancelled
    BY DEF NoHold
  <2> HIDE DEF held, NoHold
  <2>3. hold' = NoHold /\ ~past'.held
    BY <1>1, <2>1 DEF held
  <2> QED BY <1>1, <1>2, <1>8, <2>2, <2>3 DEF HoldSense, Down
<1>9. CASE trackpad.hold # Unset
  <2>1. /\ ~(r.then.recognised /\ r.then.cancelled)
        /\ r.then.recognised => held
    BY <1>3, <1>6, <1>7, <1>9
  <2>2. held => r.then.recognised \/ r.then.cancelled
    BY <1>3, <1>6, <1>7, <1>9
  <2>3. held => a >= long
    <3>1. CASE r.says = {}
      BY <1>3, <1>5, <3>1
    <3>2. CASE r.says # {}
      BY <1>3, <1>6, <1>7, <1>9, <3>2
    <3> QED BY <3>1, <3>2
  <2>4. Peak(pts) = 1 => r.then.age = a
    BY <1>2, <1>3, <1>6, <1>7, <1>9
  <2> HIDE DEF held
  <2>5. held <=> past'.held
    BY <1>1 DEF held
  <2> QED BY <1>1, <1>2, <1>9, <2>1, <2>2, <2>3, <2>4, <2>5 DEF HoldSense, Down, long
<1> QED BY <1>8, <1>9

LEMMA SwipedKnows ==
    ASSUME NEW e \in SwipeStates, NEW p \in Pad, NEW s, SwipeKnows(e, s),
           trackpad.swipe.need # Unset
    PROVE  LET r == Swiped(e, p)
           IN  /\ r.says = {} => SwipeKnows(r.then, s)
               /\ \A w : r.says = {w} => SwipeKnows(r.then, w)
               /\ r.says # {} /\ s # "none" => trackpad.swipe.more # Unset /\ r.says = {s}
<1> DEFINE r == Swiped(e, p)
           more == trackpad.swipe.more
           f == Anchored(e, p)
<1>1. /\ s \in Ways /\ (e.done <=> more = Unset /\ s # "none")
      /\ e.locked = IF more = Unset THEN "none" ELSE s
      /\ e.done \in BOOLEAN
  BY DEF SwipeKnows, SwipeStates, EngineState
<1>2. \/ r = Nothing(e)
      \/ ~e.done /\ r = Nothing(f)
      \/ /\ ~e.done /\ e.locked = "none" /\ more = Unset
         /\ \E w \in Ways \ {"none"} : r = Fires(Finished(e), w)
      \/ /\ ~e.done /\ e.locked = "none" /\ more # Unset
         /\ \E w \in Ways \ {"none"} : r = Fires(Locked(f, w), w)
      \/ ~e.done /\ e.locked # "none" /\ r = Fires(f, e.locked)
  BY SwipedKinds
<1>3. f \in SwipeStates /\ f.done = e.done /\ f.locked = e.locked
  BY AnchoredType DEF SwipeStates
<1>4. Finished(e).done = TRUE /\ Finished(e).locked = e.locked
  BY FinishedType DEF SwipeStates
<1>5. \A w \in Ways : Locked(f, w).done = f.done /\ Locked(f, w).locked = w
  BY <1>3, LockedType DEF SwipeStates
<1> HIDE DEF r, f
<1>6. CASE r = Nothing(e)
  <2>1. r.then = e /\ r.says = {}
    BY <1>6, NothingIs
  <2> QED BY <2>1 DEF r
<1>7. CASE ~e.done /\ r = Nothing(f)
  <2>1. r.then = f /\ r.says = {}
    BY <1>7, NothingIs
  <2>2. SwipeKnows(f, s)
    BY <1>1, <1>3 DEF SwipeKnows
  <2> QED BY <2>1, <2>2 DEF r
<1>8. CASE /\ ~e.done /\ e.locked = "none" /\ more = Unset
           /\ \E w \in Ways \ {"none"} : r = Fires(Finished(e), w)
  <2>1. PICK w \in Ways \ {"none"} : r = Fires(Finished(e), w)
    BY <1>8
  <2>2. r.then = Finished(e) /\ r.says = {w}
    BY <2>1, FiresIs
  <2>3. SwipeKnows(Finished(e), w)
    BY <1>4, <1>8 DEF SwipeKnows
  <2>4. s = "none"
    BY <1>1, <1>8
  <2> QED BY <2>2, <2>3, <2>4 DEF r
<1>9. CASE /\ ~e.done /\ e.locked = "none" /\ more # Unset
           /\ \E w \in Ways \ {"none"} : r = Fires(Locked(f, w), w)
  <2>1. PICK w \in Ways \ {"none"} : r = Fires(Locked(f, w), w)
    BY <1>9
  <2>2. r.then = Locked(f, w) /\ r.says = {w}
    BY <2>1, FiresIs
  <2>3. ~Locked(f, w).done /\ Locked(f, w).locked = w
    BY <1>3, <1>5, <1>9
  <2>4. SwipeKnows(Locked(f, w), w)
    BY <1>9, <2>3 DEF SwipeKnows
  <2>5. s = "none"
    BY <1>1, <1>9
  <2> QED BY <2>2, <2>4, <2>5 DEF r
<1>10. CASE ~e.done /\ e.locked # "none" /\ r = Fires(f, e.locked)
  <2>1. more # Unset /\ e.locked = s
    BY <1>1, <1>10
  <2>2. r.then = f /\ r.says = {s}
    BY <1>10, <2>1, FiresIs
  <2>3. SwipeKnows(f, s)
    BY <1>1, <1>3 DEF SwipeKnows
  <2> QED BY <2>1, <2>2, <2>3 DEF r
<1> QED BY <1>2, <1>6, <1>7, <1>8, <1>9, <1>10

(* A frame with one finger.                                                 *)
LEMMA SwipeFrameKnows ==
    ASSUME TypeInv, SwipeSense, NEW dt \in Delays, NEW pts \in Touches, One(pts)
    PROVE  LET r == SwipeFrame(dt, pts)
           IN  /\ r.says = {} => SwipeKnows(r.then, Before.swiped)
               /\ \A w : r.says = {w} => SwipeKnows(r.then, w)
               /\ r.says # {} /\ Before.swiped # "none" =>
                     trackpad.swipe.more # Unset /\ r.says = {Before.swiped}
<1> DEFINE e == IF fingers = 0 THEN Rest(pts[1], "none")
                ELSE [swipe EXCEPT !.age = Older(@, dt)]
           r == SwipeFrame(dt, pts)
           s == Before.swiped
<1>1. r = IF trackpad.swipe.need # Unset THEN Swiped(e, pts[1])
          ELSE Nothing(Rest(Nowhere, "none"))
  BY Zenon DEF SwipeFrame
<1>2. e \in SwipeStates /\ SwipeKnows(e, s)
  <2>1. CASE fingers = 0
    <3>1. /\ Rest(pts[1], "none") \in SwipeStates
          /\ Rest(pts[1], "none").done = FALSE /\ Rest(pts[1], "none").locked = "none"
      <4>1. Rest(pts[1], "none") \in SwipeStates
        BY FrameFacts, RestType DEF SwipeStates, Ways
      <4>2. Rest(pts[1], "none").done = FALSE /\ Rest(pts[1], "none").locked = "none"
        BY DEF Rest
      <4> QED BY <4>1, <4>2
    <3>2. s = "none"
      BY <2>1, BeforeFacts
    <3> QED BY <2>1, <3>1, <3>2 DEF SwipeKnows, Ways
  <2>2. CASE fingers # 0
    <3> DEFINE f == [swipe EXCEPT !.age = Older(@, dt)]
    <3>1. f \in SwipeStates /\ f.done = swipe.done /\ f.locked = swipe.locked
      BY Parts, OlderState DEF SwipeStates
    <3>2. s = past.swiped /\ most = 1
      BY <2>2, BeforeFacts, OneFacts
    <3>3. SwipeKnows(swipe, past.swiped)
      BY <2>2, <3>2 DEF SwipeSense, Down
    <3> HIDE DEF f, s
    <3>4. SwipeKnows(f, s)
      BY <3>1, <3>2, <3>3 DEF SwipeKnows
    <3> QED BY <2>2, <3>1, <3>4 DEF f
  <2> QED BY <2>1, <2>2
<1>3. pts[1] \in Pad
  BY FrameFacts
<1> HIDE DEF e, r, s
<1>4. CASE trackpad.swipe.need # Unset
  <2>1. r = Swiped(e, pts[1])
    BY <1>1, <1>4
  <2>2. /\ r.says = {} => SwipeKnows(r.then, s)
        /\ \A w : r.says = {w} => SwipeKnows(r.then, w)
        /\ r.says # {} /\ s # "none" => trackpad.swipe.more # Unset /\ r.says = {s}
    BY <1>2, <1>3, <1>4, <2>1, SwipedKnows
  <2> QED BY <2>2 DEF r, s
<1>5. CASE trackpad.swipe.need = Unset
  <2>1. r.says = {}
    BY <1>1, <1>5, NothingIs
  <2>2. SwipeKnows(r.then, s)
    BY <1>2, <1>5 DEF SwipeKnows
  <2> QED BY <2>1, <2>2 DEF r, s
<1> QED BY <1>4, <1>5

LEMMA SwipeKeeps ==
    ASSUME TypeInv, SwipeSense, NEW dt \in Delays, NEW pts \in Touches, Frame(dt, pts)
    PROVE  SwipeSense'
<1> SUFFICES ASSUME most' = 1 PROVE SwipeKnows(swipe, past.swiped)'
  BY DEF SwipeSense
<1> DEFINE r == SwipeFrame(dt, pts)
<1>1. /\ trackpad' = trackpad /\ most' = Peak(pts) /\ swipe' = r.then
      /\ past'.swiped = IF r.says = {} THEN Before.swiped ELSE CHOOSE w \in r.says : TRUE
  BY FrameIs
<1>2. One(pts)
  BY <1>1, OneFacts
<1>3. /\ r.says = {} => SwipeKnows(r.then, Before.swiped)
      /\ \A w : r.says = {w} => SwipeKnows(r.then, w)
  BY <1>2, SwipeFrameKnows
<1>4. r.says = {} \/ \E w : r.says = {w}
  BY SwipeFrameType
<1> HIDE DEF r
<1>5. SwipeKnows(r.then, past'.swiped)
  BY <1>1, <1>3, <1>4
<1> QED BY <1>1, <1>5 DEF SwipeKnows

LEMMA PairFrameKnows ==
    ASSUME TypeInv, NEW A, NEW e \in EngineState(A, Locks), NEW t, NEW dt \in Delays,
           NEW pts \in Touches, NEW m \in A, 0 \in A, NEW d, NEW name, NEW fired \in BOOLEAN,
           fired => fingers = 2, fingers = 2 /\ Two(pts) => PairKnows(e, t, fired)
    PROVE  LET r == PairFrame(e, t, dt, pts, m, d, name)
           IN  Two(pts) => /\ PairKnows(r.then, t, fired \/ r.says # {})
                           /\ fired /\ r.says # {} => t.more # Unset
<1> DEFINE now == IF fingers # 2 THEN Rest(m, 0) ELSE [e EXCEPT !.age = Older(@, dt)]
           by == IF fingers # 2 THEN 0 ELSE d
           r == PairFrame(e, t, dt, pts, m, d, name)
           says == name[Sign(by)]
<1> SUFFICES ASSUME Two(pts)
             PROVE  /\ PairKnows(r.then, t, fired \/ r.says # {})
                    /\ fired /\ r.says # {} => t.more # Unset
  OBVIOUS
<1>1. now \in EngineState(A, Locks) /\ PairKnows(now, t, fired)
  <2>1. CASE fingers # 2
    <3>1. Rest(m, 0) \in EngineState(A, Locks) /\ Rest(m, 0).locked = 0
      <4>1. Rest(m, 0) \in EngineState(A, Locks)
        BY RestType DEF Locks
      <4> QED BY <4>1 DEF Rest
    <3> QED BY <2>1, <3>1 DEF PairKnows
  <2>2. CASE fingers = 2
    <3> DEFINE f == [e EXCEPT !.age = Older(@, dt)]
    <3>1. f \in EngineState(A, Locks) /\ f.done = e.done /\ f.locked = e.locked
      BY OlderState
    <3>2. PairKnows(e, t, fired)
      BY <2>2
    <3> HIDE DEF f
    <3>3. PairKnows(f, t, fired)
      BY <3>1, <3>2 DEF PairKnows
    <3> QED BY <2>2, <3>1, <3>3 DEF f
  <2> QED BY <2>1, <2>2
<1>2. Rest(0, 0).locked = 0
  BY DEF Rest
<1>3. r = IF t.need # Unset THEN Pinched(now, t, m, by, name) ELSE Nothing(Rest(0, 0))
  BY Zenon DEF PairFrame
<1> DEFINE f == Anchored(now, m)
<1> HIDE DEF now, by, r
<1> DEFINE P == Pinched(now, t, m, by, name)
<1>31. \/ P = Nothing(now)
       \/ ~now.done /\ P = Nothing(f)
       \/ ~now.done /\ now.locked = 0 /\ t.more = Unset /\ P = Fires(Finished(now), says)
       \/ ~now.done /\ now.locked = 0 /\ t.more # Unset /\ P = Fires(Locked(f, Sign(by)), says)
       \/ ~now.done /\ now.locked # 0 /\ P = Fires(Locked(f, -now.locked), says)
       \/ ~now.done /\ now.locked # 0 /\ P = Fires(f, says)
  BY PinchedKinds
<1> HIDE DEF P, f, says
<1>4. t.need # Unset =>
      \/ r = Nothing(now)
      \/ ~now.done /\ r = Nothing(f)
      \/ ~now.done /\ now.locked = 0 /\ t.more = Unset /\ r = Fires(Finished(now), says)
      \/ ~now.done /\ now.locked = 0 /\ t.more # Unset /\ r = Fires(Locked(f, Sign(by)), says)
      \/ ~now.done /\ now.locked # 0 /\ r = Fires(Locked(f, -now.locked), says)
      \/ ~now.done /\ now.locked # 0 /\ r = Fires(f, says)
  BY <1>3, <1>31 DEF P
<1> USE DEF f
<1>5. f \in EngineState(A, Locks) /\ f.done = now.done /\ f.locked = now.locked
  BY <1>1, AnchoredType
<1>6. Finished(now).done = TRUE /\ Finished(now).locked = now.locked
  BY <1>1, FinishedType
<1> HIDE DEF f
<1>7. CASE t.need = Unset
  <2>1. r.then = Rest(0, 0) /\ r.says = {}
    BY <1>3, <1>7, NothingIs
  <2> QED BY <1>1, <1>2, <1>7, <2>1 DEF PairKnows, r
<1>8. CASE t.need # Unset /\ (r = Nothing(now) \/ (~now.done /\ r = Nothing(f)))
  <2>1. (r.then = now \/ r.then = f) /\ r.says = {}
    BY <1>8, NothingIs
  <2>2. PairKnows(f, t, fired)
    BY <1>1, <1>5 DEF PairKnows
  <2> QED BY <1>1, <2>1, <2>2 DEF r
<1>9. CASE /\ t.need # Unset
           /\ ~now.done /\ now.locked = 0 /\ t.more = Unset /\ r = Fires(Finished(now), says)
  <2>1. r.then = Finished(now) /\ r.says = {says}
    BY <1>9, FiresIs
  <2>2. PairKnows(Finished(now), t, TRUE)
    BY <1>6, <1>9 DEF PairKnows
  <2>3. ~fired
    BY <1>1, <1>9 DEF PairKnows
  <2>4. fired \/ r.says # {} <=> TRUE
    BY <2>1
  <2> QED BY <2>1, <2>2, <2>3, <2>4 DEF r, PairKnows
<1>10. CASE t.need # Unset /\ t.more # Unset
  BY <1>10 DEF PairKnows, r
<1>11. CASE t.need # Unset /\ t.more = Unset /\ now.locked # 0
  BY <1>1, <1>11 DEF PairKnows
<1>12. CASE t.need # Unset /\ t.more = Unset /\ now.locked = 0
  <2>1. \/ r = Nothing(now)
        \/ ~now.done /\ r = Nothing(f)
        \/ ~now.done /\ r = Fires(Finished(now), says)
    BY <1>4, <1>12
  <2> QED BY <1>8, <1>9, <1>12, <2>1
<1> QED BY <1>7, <1>10, <1>11, <1>12

(* A frame with two fingers, for the zoom and for the twist.                *)
LEMMA PairFramesKnow ==
    ASSUME TypeInv, PairSense, NEW dt \in Delays, NEW pts \in Touches, Two(pts)
    PROVE  LET zm == ZoomFrame(dt, pts)
               tw == TwistFrame(dt, pts)
               zoomed == fingers = 2 /\ Zoomed
               turned == fingers = 2 /\ Turned
           IN  /\ PairKnows(zm.then, trackpad.zoom, zoomed \/ zm.says # {})
               /\ PairKnows(tw.then, trackpad.twist, turned \/ tw.says # {})
               /\ zoomed /\ zm.says # {} => trackpad.zoom.more # Unset
               /\ turned /\ tw.says # {} => trackpad.twist.more # Unset
<1> DEFINE zoomed == fingers = 2 /\ Zoomed
           turned == fingers = 2 /\ Turned
<1>1. fingers = 2 => PairKnows(zoom, trackpad.zoom, zoomed)
                     /\ PairKnows(twist, trackpad.twist, turned)
  BY OneFacts DEF PairSense, PairKnows
<1>2. zoomed \in BOOLEAN /\ turned \in BOOLEAN /\ (zoomed \/ turned => fingers = 2)
  OBVIOUS
<1>3. zoom \in EngineState(Nat, Locks) /\ 0 \in Nat /\ twist \in EngineState(0 .. 179, Locks)
  BY Parts
<1> HIDE DEF zoomed, turned
<1>4. LET r == ZoomFrame(dt, pts)
      IN  /\ PairKnows(r.then, trackpad.zoom, zoomed \/ r.says # {})
          /\ zoomed /\ r.says # {} => trackpad.zoom.more # Unset
  <2> DEFINE m == IF Len(pts) = 2 THEN Span[<<pts[1], pts[2]>>] ELSE 0
             d == m - zoom.anchor
  <2>1. m \in Nat
    BY SpanType
  <2>2. ZoomFrame(dt, pts) = PairFrame(zoom, trackpad.zoom, dt, pts, m, d, ZoomName)
    BY DEF ZoomFrame
  <2> HIDE DEF m, d
  <2> DEFINE r == PairFrame(zoom, trackpad.zoom, dt, pts, m, d, ZoomName)
  <2>3. /\ PairKnows(r.then, trackpad.zoom, zoomed \/ r.says # {})
        /\ zoomed /\ r.says # {} => trackpad.zoom.more # Unset
    BY <1>1, <1>2, <1>3, <2>1, PairFrameKnows
  <2> HIDE DEF r
  <2> QED BY <2>2, <2>3 DEF r
<1>5. LET r == TwistFrame(dt, pts)
      IN  /\ PairKnows(r.then, trackpad.twist, turned \/ r.says # {})
          /\ turned /\ r.says # {} => trackpad.twist.more # Unset
  <2> DEFINE m == IF Len(pts) = 2 THEN Angle[<<pts[1], pts[2]>>] ELSE 0
             d == Wrap(m - twist.anchor)
             A == 0 .. 179
  <2>1. m \in A /\ 0 \in A /\ twist \in EngineState(A, Locks)
    BY <1>3, SpanType
  <2>2. TwistFrame(dt, pts) = PairFrame(twist, trackpad.twist, dt, pts, m, d, TwistName)
    BY DEF TwistFrame
  <2> HIDE DEF m, d, A
  <2> DEFINE r == PairFrame(twist, trackpad.twist, dt, pts, m, d, TwistName)
  <2>3. /\ PairKnows(r.then, trackpad.twist, turned \/ r.says # {})
        /\ turned /\ r.says # {} => trackpad.twist.more # Unset
    BY <1>1, <1>2, <2>1, PairFrameKnows
  <2> HIDE DEF r
  <2> QED BY <2>2, <2>3 DEF r
<1> QED BY <1>4, <1>5 DEF zoomed, turned

LEMMA PairKeeps ==
    ASSUME TypeInv, PairSense, NEW dt \in Delays, NEW pts \in Touches, Frame(dt, pts)
    PROVE  PairSense'
<1> DEFINE zm == ZoomFrame(dt, pts)
           tw == TwistFrame(dt, pts)
           zoomed == fingers = 2 /\ Zoomed
           turned == fingers = 2 /\ Turned
<1>1. /\ trackpad' = trackpad /\ fingers' = Len(pts) /\ most' = Peak(pts)
      /\ zoom' = zm.then /\ twist' = tw.then
      /\ past'.turned = IF Len(pts) # 2 THEN {}
                        ELSE Before.turned \cup zm.says \cup tw.says
  BY FrameIs
<1>2. /\ zm.says \subseteq {"in", "out"} /\ tw.says \subseteq {"cw", "ccw"}
      /\ (zm.says # {} => Two(pts)) /\ (tw.says # {} => Two(pts))
  BY ZoomFrameType, TwistFrameType
<1>3. Two(pts) => /\ PairKnows(zm.then, trackpad.zoom, zoomed \/ zm.says # {})
                  /\ PairKnows(tw.then, trackpad.twist, turned \/ tw.says # {})
  BY PairFramesKnow
<1> HIDE DEF zm, tw
<1>4. /\ Before.turned \cap {"in", "out"} # {} => zoomed /\ most = 2
      /\ Before.turned \cap {"cw", "ccw"} # {} => turned /\ most = 2
      /\ zoomed => Before.turned \cap {"in", "out"} # {}
      /\ turned => Before.turned \cap {"cw", "ccw"} # {}
  BY BeforeFacts DEF PairSense, Zoomed, Turned
<1>5. /\ Len(pts) = 2 /\ most = 2 => Two(pts)
      /\ Len(pts) = 2 /\ Peak(pts) = 2 <=> Two(pts)
  BY PairOf
<1> HIDE DEF zoomed, turned
<1>6. Two(pts) => /\ Zoomed' <=> zoomed \/ zm.says # {}
                  /\ Turned' <=> turned \/ tw.says # {}
  BY <1>1, <1>2, <1>4, <1>5 DEF Zoomed, Turned
<1>7. ~Two(pts) => ~Zoomed' /\ ~Turned'
  <2> SUFFICES ASSUME ~Two(pts) PROVE ~Zoomed' /\ ~Turned'
    OBVIOUS
  <2>1. zm.says = {} /\ tw.says = {}
    BY <1>2
  <2>2. past'.turned = {} \/ (Len(pts) = 2 /\ past'.turned = Before.turned)
    BY <1>1, <2>1
  <2>3. Len(pts) = 2 => most # 2
    BY <1>5
  <2> QED BY <1>4, <2>2, <2>3 DEF Zoomed, Turned
<1>8. CASE Two(pts)
  <2>1. PairKnows(zoom', trackpad.zoom, Zoomed') /\ PairKnows(twist', trackpad.twist, Turned')
    BY <1>1, <1>3, <1>6, <1>8 DEF PairKnows
  <2>2. fingers' = 2 /\ most' = 2
    BY <1>1, <1>5, <1>8
  <2> QED BY <1>1, <2>1, <2>2 DEF PairSense, PairKnows
<1>9. CASE ~Two(pts)
  BY <1>1, <1>5, <1>7, <1>9 DEF PairSense
<1> QED BY <1>8, <1>9

LEMMA PastFrame ==
    ASSUME TypeInv, past \in Pasts, NEW dt \in Delays, NEW pts \in Touches, Frame(dt, pts)
    PROVE  past' \in Pasts
<1> DEFINE begun == IF fingers = 0 THEN NoPast ELSE past
           still == IF fingers = 0 THEN "landing" ELSE StillAfter(Range(pts))
           down == IF still = "moved" THEN {} ELSE Range(pts)
           took == IF fingers = 0 \/ still = "moved" THEN 0 ELSE Older(past.took, dt)
           quiet == still = "moved" \/ (begun.quiet /\ out' \ {"hold"} = {})
           held == begun.held \/ HoldFrame(dt, pts).says # {}
           swiped == IF SwipeFrame(dt, pts).says = {} THEN begun.swiped
                     ELSE CHOOSE w \in SwipeFrame(dt, pts).says : TRUE
           turned == IF Len(pts) # 2 THEN {}
                     ELSE begun.turned \cup ZoomFrame(dt, pts).says
                                       \cup TwistFrame(dt, pts).says
<1>1. past' = [still |-> still, down |-> down, took |-> took, quiet |-> quiet,
               held |-> held, swiped |-> swiped, turned |-> turned]
  BY DEF Frame
<1>2. begun \in Pasts
  BY AgesFacts DEF NoPast, Pasts, Ways
<1> HIDE DEF begun
<1>3. still \in {"landing", "lifting", "moved"}
  BY DEF StillAfter
<1> HIDE DEF still
<1>4. down \in SUBSET Pad
  BY FrameFacts DEF Range
<1>5. took \in Ages
  BY OlderFacts, AgesFacts DEF Pasts
<1>6. quiet \in BOOLEAN /\ held \in BOOLEAN
  OBVIOUS
<1>7. swiped \in Ways
  BY <1>2, SwipeFrameType DEF Pasts
<1>8. turned \in SUBSET {"in", "out", "cw", "ccw"}
  BY <1>2, ZoomFrameType, TwistFrameType DEF Pasts
<1> HIDE DEF down, took, quiet, held, swiped, turned
<1> QED BY <1>1, <1>3, <1>4, <1>5, <1>6, <1>7, <1>8 DEF Pasts

(* The end of a session.                                                    *)
LEMMA RestKeeps ==
    ASSUME AtRest, past' \in Pasts, past'.turned = {} PROVE OutcomeInv'
<1>1. fingers' = 0 /\ hold' = NoHold
  BY DEF AtRest
<1>2. ~NoHold.recognised /\ ~NoHold.cancelled
  BY DEF NoHold
<1> HIDE DEF NoHold
<1>3. HoldSense'
  BY <1>1, <1>2 DEF HoldSense, Down
<1>4. SwipeSense'
  BY <1>1 DEF SwipeSense, Down
<1>5. PairSense'
  BY <1>1 DEF PairSense, Zoomed, Turned
<1> QED BY <1>3, <1>4, <1>5 DEF OutcomeInv

LEMMA NoPastType == NoPast \in Pasts /\ NoPast.turned = {}
BY AgesFacts DEF NoPast, Pasts, Ways

LEMMA OutcomeInit == Init => OutcomeInv
<1> SUFFICES ASSUME Init PROVE OutcomeInv
  OBVIOUS
<1>1. fingers = 0 /\ hold = NoHold /\ past = NoPast
  BY DEF Init
<1>2. ~NoHold.recognised /\ ~NoHold.cancelled
  BY DEF NoHold
<1> HIDE DEF NoHold, NoPast
<1>3. HoldSense
  BY <1>1, <1>2 DEF HoldSense, Down
<1>4. SwipeSense
  BY <1>1 DEF SwipeSense, Down
<1>5. PairSense
  BY <1>1, NoPastType DEF PairSense, Zoomed, Turned
<1> QED BY <1>1, <1>3, <1>4, <1>5, NoPastType DEF OutcomeInv

LEMMA LiftPast ==
    ASSUME TypeInv, past \in Pasts, NEW dt \in Delays, Lift(dt)
    PROVE  /\ past' \in Pasts /\ past'.turned = {} /\ past'.held = past.held
           /\ past'.still = StillAfter({}) /\ past'.quiet = past.quiet
           /\ past'.took = Older(past.took, dt)
<1> DEFINE still == StillAfter({})
           took == Older(past.took, dt)
<1>1. past' = [past EXCEPT !.still = still, !.down = {}, !.took = took, !.turned = {}]
  BY DEF Lift
<1>2. still \in {"landing", "lifting", "moved"}
  BY DEF StillAfter
<1>3. took \in Ages
  BY OlderFacts DEF Pasts
<1> HIDE DEF still, took
<1>4. past' \in Pasts
  BY <1>1, <1>2, <1>3 DEF Pasts
<1>5. /\ past'.turned = {} /\ past'.held = past.held /\ past'.still = still
      /\ past'.quiet = past.quiet /\ past'.took = took
  BY <1>1 DEF Pasts
<1> QED BY <1>4, <1>5 DEF still, took

LEMMA OutcomeStep == HoldLasts /\ TypeInv /\ OutcomeInv /\ [Next]_vars => OutcomeInv'
<1> SUFFICES ASSUME HoldLasts, TypeInv, OutcomeInv, [Next]_vars PROVE OutcomeInv'
  OBVIOUS
<1> USE DEF OutcomeInv
<1>1. ASSUME NEW dt \in Delays, NEW pts \in Touches, Frame(dt, pts) PROVE OutcomeInv'
  BY <1>1, PastFrame, HoldKeeps, SwipeKeeps, PairKeeps
<1>2. ASSUME NEW dt \in Delays, Lift(dt) PROVE OutcomeInv'
  <2>1. AtRest
    BY <1>2 DEF Lift
  <2> QED BY <1>2, <2>1, LiftPast, RestKeeps
<1>3. CASE Rebuild
  <2>1. AtRest /\ past' = NoPast
    BY <1>3 DEF Rebuild
  <2> QED BY <2>1, NoPastType, RestKeeps
<1>4. CASE UNCHANGED vars
  BY <1>4 DEF vars, engines, HoldSense, SwipeSense, PairSense, Down, SwipeKnows, PairKnows,
              Zoomed, Turned
<1> QED BY <1>1, <1>2, <1>3, <1>4 DEF Next

Clicked == {"left_click", "right_click", "middle_click"}

LEMMA ClicksIn == Clicks \subseteq out' \cap Clicked
BY DEF Clicks, Click, Clicked

(* The words that a frame can say.                                          *)
LEMMA FrameSays ==
    ASSUME TypeInv, NEW dt \in Delays, NEW pts \in Touches, Frame(dt, pts)
    PROVE  /\ Clicks = {} /\ "release" \notin out'
           /\ "hold" \in out' => HoldFrame(dt, pts).says # {}
           /\ out' \cap Ways # {} => SwipeFrame(dt, pts).says # {}
           /\ out' \cap {"in", "out"} # {} => ZoomFrame(dt, pts).says # {}
           /\ out' \cap {"cw", "ccw"} # {} => TwistFrame(dt, pts).says # {}
<1> DEFINE sw == SwipeFrame(dt, pts).says
           zm == ZoomFrame(dt, pts).says
           tw == TwistFrame(dt, pts).says
           hd == HoldFrame(dt, pts).says
<1>1. out' \subseteq {"move", "scroll"} \cup sw \cup zm \cup tw \cup hd
  BY FrameIs
<1>2. /\ sw \subseteq Ways \ {"none"} /\ zm \subseteq {"in", "out"}
      /\ tw \subseteq {"cw", "ccw"} /\ hd \subseteq {"hold"}
  BY SwipeFrameType, ZoomFrameType, TwistFrameType, HoldFrameType
<1> HIDE DEF sw, zm, tw, hd
<1>3. Clicks = {}
  BY <1>1, <1>2, ClicksIn DEF Clicked, Ways
<1>4. "release" \notin out' /\ ("hold" \in out' => hd # {})
  BY <1>1, <1>2 DEF Ways
<1>5. out' \cap Ways # {} => sw # {}
  BY <1>1, <1>2 DEF Ways
<1>6. /\ out' \cap {"in", "out"} # {} => zm # {}
      /\ out' \cap {"cw", "ccw"} # {} => tw # {}
  BY <1>1, <1>2 DEF Ways
<1> QED BY <1>3, <1>4, <1>5, <1>6 DEF sw, zm, tw, hd

LEMMA FrameOutcome ==
    ASSUME HoldLasts, TypeInv, OutcomeInv, NEW dt \in Delays, NEW pts \in Touches,
           Frame(dt, pts), fingers # 0
    PROVE  Outcome
<1> DEFINE sw == SwipeFrame(dt, pts)
           zm == ZoomFrame(dt, pts)
           tw == TwistFrame(dt, pts)
           hd == HoldFrame(dt, pts)
<1>1. /\ Clicks = {} /\ "release" \notin out'
      /\ "hold" \in out' => hd.says # {}
      /\ out' \cap Ways # {} => sw.says # {}
      /\ out' \cap {"in", "out"} # {} => zm.says # {}
      /\ out' \cap {"cw", "ccw"} # {} => tw.says # {}
  BY FrameSays
<1>2. Before = past
  BY BeforeFacts
<1>3. past.held => "hold" \notin out'
  <2>1. HoldSense
    BY DEF OutcomeInv
  <2>2. hd.says # {} => One(pts) /\ trackpad.hold # Unset
    BY HoldFrameType
  <2>3. hd.says # {} => ~hold.cancelled /\ ~hold.recognised
    BY <2>1, <2>2, HoldFrameFacts
  <2> HIDE DEF hd
  <2> QED BY <1>1, <2>1, <2>3 DEF HoldSense, Down
<1>4. past.swiped # "none" /\ out' \cap Ways # {} =>
          trackpad.swipe.more # Unset /\ past.swiped \in out'
  <2> SUFFICES ASSUME past.swiped # "none", sw.says # {}
               PROVE  trackpad.swipe.more # Unset /\ past.swiped \in out'
    BY <1>1
  <2>1. One(pts) /\ SwipeSense
    BY SwipeFrameType DEF OutcomeInv
  <2>2. trackpad.swipe.more # Unset /\ sw.says = {past.swiped}
    BY <1>2, <2>1, SwipeFrameKnows
  <2>3. sw.says \subseteq out'
    BY FrameIs
  <2> QED BY <2>2, <2>3
<1>5. /\ Zoomed /\ zm.says # {} => trackpad.zoom.more # Unset
      /\ Turned /\ tw.says # {} => trackpad.twist.more # Unset
  <2>1. PairSense /\ (zm.says # {} => Two(pts)) /\ (tw.says # {} => Two(pts))
    BY ZoomFrameType, TwistFrameType DEF OutcomeInv
  <2>2. Zoomed \/ Turned => fingers = 2
    BY <2>1 DEF PairSense
  <2>3. Two(pts) =>
          /\ (fingers = 2 /\ Zoomed) /\ zm.says # {} => trackpad.zoom.more # Unset
          /\ (fingers = 2 /\ Turned) /\ tw.says # {} => trackpad.twist.more # Unset
    BY <2>1, PairFramesKnow
  <2> HIDE DEF zm, tw
  <2> QED BY <2>1, <2>2, <2>3
<1> HIDE DEF sw, zm, tw, hd
<1> QED BY <1>1, <1>3, <1>4, <1>5 DEF Outcome, Zoomed, Turned

LEMMA LiftIsNoTap ==
    ASSUME HoldLasts, TypeInv, HoldSense, NEW dt \in Delays, fingers # 0, past.held
    PROVE  ~IsTap(dt)
<1>1. trackpad.hold # Unset /\ age[1] >= trackpad.tapTime + trackpad.hold
  BY DEF HoldSense, Down
<1>2. trackpad.tapTime \in Nat /\ trackpad.hold \in Nat \ {0}
  BY <1>1, Parts, TrackpadFacts DEF HoldLasts
<1> DEFINE a == age[1]
           b == Older(a, dt)
<1>3. a \in Ages /\ b \in Ages /\ a <= b
  <2>1. a \in Ages
    BY Parts DEF Slots
  <2> QED BY <2>1, OlderFacts
<1>4. 1 \in 1 .. most
  BY Parts
<1> HIDE DEF a, b
<1>5. a >= trackpad.tapTime + trackpad.hold
  BY <1>1 DEF a
<1>6. ~(b <= trackpad.tapTime)
  BY <1>2, <1>3, <1>5 DEF Ages
<1> QED BY <1>4, <1>6 DEF IsTap, a, b

LEMMA LiftSays ==
    ASSUME HoldLasts, TypeInv, OutcomeInv, NEW dt \in Delays, Lift(dt)
    PROVE  /\ out' \subseteq {"release"} \cup (IF IsTap(dt) THEN Clicked ELSE {})
           /\ "release" \in out' => hold.recognised /\ past.held
           /\ past.held => ~IsTap(dt)
           /\ fingers # 0
<1>1. fingers # 0
  BY Parts DEF Lift
<1>2. past.held => ~IsTap(dt)
  BY <1>1, LiftIsNoTap DEF OutcomeInv
<1>3. out' = (IF hold.recognised /\ ~hold.cancelled THEN {"release"} ELSE {})
             \cup (IF IsTap(dt) THEN {Click(most)} ELSE {})
  BY DEF Lift
<1>4. Click(most) \in Clicked /\ Click(most) # "release"
  BY DEF Click, Clicked
<1>5. hold.recognised => past.held
  BY DEF OutcomeInv, HoldSense
<1> QED BY <1>1, <1>2, <1>3, <1>4, <1>5

LEMMA OutcomeHolds == HoldLasts /\ TypeInv /\ OutcomeInv /\ [Next]_vars => [Outcome]_vars
<1> SUFFICES ASSUME HoldLasts, TypeInv, OutcomeInv, Next, fingers # 0 PROVE Outcome
  BY DEF Outcome
<1>1. ASSUME NEW dt \in Delays, NEW pts \in Touches, Frame(dt, pts) PROVE Outcome
  BY <1>1, FrameOutcome
<1>2. ASSUME NEW dt \in Delays, Lift(dt) PROVE Outcome
  <2>1. /\ out' \subseteq {"release"} \cup (IF IsTap(dt) THEN Clicked ELSE {})
        /\ "release" \in out' => past.held
        /\ past.held => ~IsTap(dt)
    BY <1>2, LiftSays
  <2>2. past.held => Clicks = {} /\ "hold" \notin out'
    BY <2>1, ClicksIn DEF Clicked
  <2>3. /\ out' \cap Ways = {}
        /\ out' \cap {"in", "out"} = {} /\ out' \cap {"cw", "ccw"} = {}
    BY <2>1 DEF Clicked, Ways
  <2> QED BY <2>1, <2>2, <2>3 DEF Outcome
<1>3. CASE Rebuild
  BY <1>3 DEF Rebuild, Outcome, Clicks
<1> QED BY <1>1, <1>2, <1>3 DEF Next

(* A session has one outcome (_clickButton, _hold_process, _swipe_process,  *)
(* _zoom_process, _twist_process), where a hold lasts longer than a tap.    *)
THEOREM EachHasOneOutcome == ASSUME HoldLasts PROVE Spec => OneOutcome
<1>1. Init => TypeInv /\ OutcomeInv
  BY TypeInit, OutcomeInit
<1>2. TypeInv /\ OutcomeInv /\ [Next]_vars => (TypeInv /\ OutcomeInv)' /\ [Outcome]_vars
  BY TypeStep, OutcomeStep, OutcomeHolds
<1> QED BY <1>1, <1>2, PTL DEF Spec, OneOutcome

-----------------------------------------------------------------------------
(* Frames are the touches that HidOutput takes.                             *)

Cancelled == IF trackpad.hold = Unset THEN most >= 2 ELSE hold.cancelled
Long == fingers # 0 /\ past.held

LEMMA TouchStutter ==
    ASSUME UNCHANGED <<fingers, most, hold.recognised, Cancelled, Long, abandoned>>
    PROVE  UNCHANGED Touch!vars
BY DEF Touch!vars, Cancelled, Long

LEMMA TouchLand ==
    ASSUME NEW n \in 1 .. MaxFingers, n > fingers, fingers' = n,
           NEW second \in BOOLEAN, second <=> n >= 2 /\ fingers < 2,
           most' = IF n > most THEN n ELSE most,
           Cancelled' = (second \/ (fingers # 0 /\ Cancelled)),
           hold'.recognised = (~second /\ fingers # 0 /\ hold.recognised),
           Long' = (fingers # 0 /\ Long),
           abandoned' = (abandoned \/ (second /\ hold.recognised))
    PROVE  Touch!Next
<1>1. Touch!Land(n)
  BY DEF Touch!Land, Touch!Free, Touch!Mishap, Cancelled, Long
<1> QED BY <1>1 DEF Touch!Next, Touch!Touch

LEMMA TouchMove ==
    ASSUME fingers = 1, most = 1, UNCHANGED <<fingers, most, abandoned>>,
           NEW leaves \in BOOLEAN, NEW recognised \in BOOLEAN,
           leaves \/ recognised => ~hold.recognised /\ ~Cancelled,
           ~(leaves /\ recognised),
           Cancelled' = (Cancelled \/ leaves),
           hold'.recognised = (hold.recognised \/ recognised),
           Long' = (Long \/ recognised)
    PROVE  Touch!Next
<1>1. Touch!Inline(IF recognised THEN <<>> \o <<>> ELSE <<>>)
  <2>1. (IF recognised THEN <<>> \o <<>> ELSE <<>>) = <<>>
    OBVIOUS
  <2>2. Touch!Inline(<<>>)
    BY DEF Touch!Inline, Touch!SkipTo, Touch!Calls
  <2> QED BY <2>1, <2>2
<1>2. Touch!Move(<<>>, leaves, recognised)
  BY <1>1 DEF Touch!Move, Touch!Free, Cancelled, Long
<1> QED BY <1>2 DEF Touch!Next, Touch!Touch

LEMMA TouchLiftSome ==
    ASSUME NEW n \in 1 .. MaxFingers, n < fingers, fingers' = n,
           UNCHANGED <<most, hold.recognised, Cancelled, Long, abandoned>>
    PROVE  Touch!Next
<1>1. Touch!LiftSome(n)
  BY DEF Touch!LiftSome, Touch!Free, Cancelled, Long
<1> QED BY <1>1 DEF Touch!Next, Touch!Touch

LEMMA TouchLift ==
    ASSUME fingers > 0, fingers' = 0, most' = 0, most \in Slots,
           hold'.recognised = FALSE, Cancelled' = FALSE, Long' = FALSE,
           abandoned' = abandoned, abandoned \in BOOLEAN
    PROVE  Touch!Next
<1>1. Touch!Enqueue(<<>>)
  BY DEF Touch!Enqueue, Touch!Mishap
<1>2. Touch!Lift(FALSE)
  BY <1>1 DEF Touch!Lift, Touch!Free, Cancelled, Long
<1> QED BY <1>2 DEF Touch!Next, Touch!Touch

LEMMA TouchRebuild ==
    ASSUME fingers > 0, fingers' = 0, most' = 0,
           hold'.recognised = FALSE, Cancelled' = FALSE, Long' = FALSE,
           abandoned' = (abandoned \/ hold.recognised)
    PROVE  Touch!Next
<1>1. Touch!Rebuild
  BY DEF Touch!Rebuild, Touch!Free, Touch!Mishap, Cancelled, Long
<1> QED BY <1>1 DEF Touch!Next, Touch!Touch

(* What HidOutput sees of a frame.                                          *)
LEMMA FrameTouches ==
    ASSUME HoldLasts, TypeInv, OutcomeInv, NEW dt \in Delays, NEW pts \in Touches,
           Frame(dt, pts)
    PROVE  Touch!Next \/ UNCHANGED Touch!vars
<1> DEFINE r == HoldFrame(dt, pts)
           n == Len(pts)
           second == n >= 2 /\ fingers < 2
<1>1. /\ trackpad' = trackpad /\ fingers' = n /\ most' = Peak(pts) /\ hold' = r.then
      /\ abandoned' = (abandoned \/ (hold.recognised /\ ~r.then.recognised))
      /\ past'.held = (Before.held \/ r.says # {})
  BY FrameIs
<1>2. /\ trackpad.hold = Unset => r.then = hold /\ r.says = {}
      /\ trackpad.hold # Unset /\ second =>
            r.then.cancelled /\ ~r.then.recognised /\ r.says = {}
      /\ trackpad.hold # Unset /\ fingers = 0 /\ ~second =>
            /\ One(pts) /\ r.says = {} /\ r.then.age = 0
            /\ ~r.then.recognised /\ ~r.then.cancelled
      /\ trackpad.hold # Unset /\ fingers # 0 /\ ~second /\ ~One(pts) =>
            /\ r.says = {} /\ r.then.cancelled = hold.cancelled
            /\ r.then.recognised = hold.recognised
      /\ trackpad.hold # Unset /\ fingers # 0 /\ One(pts) =>
            /\ most = 1 /\ r.then.age = Older(hold.age, dt)
            /\ r.says = {} => r.then.recognised = hold.recognised
            /\ hold.cancelled => r.then.cancelled
            /\ r.says # {} =>
                  /\ ~hold.cancelled /\ ~hold.recognised
                  /\ r.then.recognised /\ ~r.then.cancelled
                  /\ Older(hold.age, dt) >= trackpad.tapTime + trackpad.hold
            /\ r.then.cancelled /\ ~hold.cancelled => ~hold.recognised /\ r.says = {}
  BY HoldFrameFacts DEF OutcomeInv
<1>3. /\ n \in Nat /\ n >= 1 /\ n <= MaxFingers /\ n <= Peak(pts) /\ most <= Peak(pts)
      /\ n <= most => Peak(pts) = most
      /\ n > most => Peak(pts) = n
      /\ Peak(pts) \in Nat /\ fingers \in Nat /\ most \in Nat /\ fingers <= most
      /\ fingers = 0 => most = 0
  BY FrameFacts, PeakFacts, Parts
<1>4. One(pts) <=> n = 1 /\ Peak(pts) = 1
  BY DEF One
<1>5. /\ fingers = 0 => ~Before.held /\ hold = NoHold
      /\ fingers # 0 => (Before.held <=> past.held)
      /\ fingers # 0 /\ trackpad.hold = Unset => hold = NoHold
      /\ ~NoHold.recognised /\ ~NoHold.cancelled
  BY BeforeFacts DEF OutcomeInv, HoldSense, Down, NoHold
<1>6. /\ hold.recognised \in BOOLEAN /\ hold.cancelled \in BOOLEAN /\ abandoned \in BOOLEAN
      /\ r.then.recognised \in BOOLEAN /\ r.then.cancelled \in BOOLEAN /\ past.held \in BOOLEAN
  BY Parts, HoldFrameType DEF HoldStates, OutcomeInv, Pasts
<1>7. /\ Cancelled' = IF trackpad.hold = Unset THEN Peak(pts) >= 2 ELSE r.then.cancelled
      /\ Long' = (Before.held \/ r.says # {}) /\ hold'.recognised = r.then.recognised
  <2>1. Cancelled' = IF trackpad.hold = Unset THEN Peak(pts) >= 2 ELSE r.then.cancelled
    BY <1>1 DEF Cancelled
  <2>2. Long' = (Before.held \/ r.says # {})
    <3>1. fingers' # 0
      <4> HIDE DEF n
      <4> QED BY <1>1, <1>3
    <3>2. past'.held = (Before.held \/ r.says # {})
      BY <1>1
    <3> HIDE DEF r
    <3> QED BY <3>1, <3>2 DEF Long
  <2>3. hold'.recognised = r.then.recognised
    BY <1>1
  <2> QED BY <2>1, <2>2, <2>3
<1>8. fingers # 0 => Long = past.held
  BY <1>6 DEF Long
<1> HIDE DEF r, n, second
<1>9. CASE n > fingers
  <2>1. /\ n >= 2 \/ fingers = 0
        /\ n >= 2 => ~One(pts) /\ Peak(pts) >= 2
        /\ fingers # 0 /\ ~second => most >= 2
        /\ fingers = 0 /\ ~second => ~(Peak(pts) >= 2)
        /\ Peak(pts) = IF n > most THEN n ELSE most
        /\ second => n >= 2 /\ fingers < 2
        /\ n >= 2 /\ fingers < 2 => second
    BY <1>3, <1>4, <1>9 DEF second
  <2>2. r.says = {}
    BY <1>2, <2>1
  <2>3. Cancelled' = (second \/ (fingers # 0 /\ Cancelled))
    <3>1. CASE trackpad.hold = Unset
      <4>1. Cancelled' = (Peak(pts) >= 2) /\ Cancelled = (most >= 2)
        BY <1>7, <3>1 DEF Cancelled
      <4>2. (Peak(pts) >= 2) = (second \/ (fingers # 0 /\ most >= 2))
        BY <1>3, <2>1
      <4> QED BY <4>1, <4>2
    <3>2. CASE trackpad.hold # Unset
      <4>1. Cancelled' = r.then.cancelled /\ Cancelled = hold.cancelled
        BY <1>7, <3>2 DEF Cancelled
      <4> QED BY <1>2, <1>6, <2>1, <3>2, <4>1
    <3> QED BY <3>1, <3>2
  <2>4. r.then.recognised = (~second /\ fingers # 0 /\ hold.recognised)
    BY <1>2, <1>5, <1>6, <2>1
  <2>5. Long' = (fingers # 0 /\ Long)
    BY <1>5, <1>7, <1>8, <2>2
  <2>6. abandoned' = (abandoned \/ (second /\ hold.recognised))
    BY <1>1, <1>5, <1>6, <2>4
  <2>7. n \in 1 .. MaxFingers /\ second \in BOOLEAN
    BY <1>3, Parts DEF second
  <2> QED BY <1>1, <1>7, <1>9, <2>1, <2>3, <2>4, <2>5, <2>6, <2>7, TouchLand
<1>10. CASE n < fingers
  <2>1. fingers # 0 /\ ~second /\ ~One(pts) /\ Peak(pts) = most /\ n \in 1 .. MaxFingers
    BY <1>3, <1>4, <1>10, Parts DEF second
  <2>2. r.says = {} /\ r.then.cancelled = hold.cancelled /\ r.then.recognised = hold.recognised
    BY <1>2, <2>1
  <2>3. UNCHANGED <<most, hold.recognised, Cancelled, Long, abandoned>>
    BY <1>1, <1>5, <1>6, <1>7, <1>8, <2>1, <2>2 DEF Cancelled
  <2> QED BY <1>1, <1>10, <2>1, <2>3, TouchLiftSome
<1>11. CASE n = fingers /\ (trackpad.hold = Unset \/ most # 1)
  <2>1. fingers # 0 /\ ~second /\ Peak(pts) = most /\ (most # 1 => ~One(pts))
    BY <1>3, <1>4, <1>11 DEF second
  <2>2. r.says = {} /\ r.then.cancelled = hold.cancelled /\ r.then.recognised = hold.recognised
    BY <1>2, <1>11, <2>1
  <2>3. UNCHANGED <<fingers, most, hold.recognised, Cancelled, Long, abandoned>>
    BY <1>1, <1>5, <1>6, <1>7, <1>8, <1>11, <2>1, <2>2 DEF Cancelled
  <2> QED BY <2>3, TouchStutter
<1>12. CASE n = fingers /\ trackpad.hold # Unset /\ most = 1
  <2> DEFINE leaves == r.then.cancelled /\ ~hold.cancelled
             recognised == r.says # {}
  <2>1. fingers = 1 /\ Peak(pts) = 1 /\ One(pts)
    BY <1>3, <1>4, <1>12
  <2>2. /\ r.says = {} => r.then.recognised = hold.recognised
        /\ hold.cancelled => r.then.cancelled
        /\ r.says # {} => /\ ~hold.cancelled /\ ~hold.recognised
                          /\ r.then.recognised /\ ~r.then.cancelled
        /\ r.then.cancelled /\ ~hold.cancelled => ~hold.recognised /\ r.says = {}
    BY <1>2, <1>12, <2>1
  <2>3. Cancelled = hold.cancelled /\ Cancelled' = r.then.cancelled
    BY <1>7, <1>12 DEF Cancelled
  <2>4. Cancelled' = (Cancelled \/ leaves) /\ ~(leaves /\ recognised)
    BY <1>6, <2>2, <2>3
  <2>5. leaves \/ recognised => ~hold.recognised /\ ~Cancelled
    BY <2>2, <2>3
  <2>6. r.then.recognised = (hold.recognised \/ recognised)
    BY <1>6, <2>2
  <2>7. Long' = (Long \/ recognised)
    BY <1>5, <1>7, <1>8, <2>1
  <2>8. abandoned' = abandoned
    BY <1>1, <1>6, <2>6
  <2>9. fingers' = fingers /\ most' = most
    BY <1>1, <1>12, <2>1
  <2>10. leaves \in BOOLEAN /\ recognised \in BOOLEAN
    OBVIOUS
  <2> HIDE DEF leaves, recognised
  <2> QED BY <1>7, <1>12, <2>1, <2>4, <2>5, <2>6, <2>7, <2>8, <2>9, <2>10, TouchMove
<1> QED BY <1>3, <1>9, <1>10, <1>11, <1>12

LEMMA TouchStep ==
    HoldLasts /\ TypeInv /\ OutcomeInv /\ [Next]_vars => [Touch!Next]_(Touch!vars)
<1> SUFFICES ASSUME HoldLasts, TypeInv, OutcomeInv, [Next]_vars
             PROVE  Touch!Next \/ UNCHANGED Touch!vars
  OBVIOUS
<1>1. ASSUME NEW dt \in Delays, NEW pts \in Touches, Frame(dt, pts)
      PROVE  Touch!Next \/ UNCHANGED Touch!vars
  BY <1>1, FrameTouches
<1>2. ASSUME AtRest
      PROVE  /\ fingers' = 0 /\ most' = 0 /\ hold'.recognised = FALSE
             /\ Cancelled' = FALSE /\ Long' = FALSE
  <2>1. fingers' = 0 /\ most' = 0 /\ hold' = NoHold
    BY <1>2 DEF AtRest
  <2>2. NoHold.recognised = FALSE /\ NoHold.cancelled = FALSE
    BY DEF NoHold
  <2> HIDE DEF NoHold
  <2> QED BY <2>1, <2>2 DEF Cancelled, Long
<1>3. /\ fingers \in Nat /\ most \in Nat /\ abandoned \in BOOLEAN /\ fingers <= most
      /\ most <= MaxFingers /\ hold.recognised \in BOOLEAN
  BY Parts DEF HoldStates
<1>4. ASSUME NEW dt \in Delays, Lift(dt) PROVE Touch!Next
  <2>1. AtRest /\ fingers > 0 /\ abandoned' = abandoned
    BY <1>4 DEF Lift
  <2>2. most \in Slots
    BY <1>3, <2>1, Parts DEF Slots
  <2> QED BY <1>2, <1>3, <2>1, <2>2, TouchLift
<1>5. ASSUME Rebuild PROVE Touch!Next \/ UNCHANGED Touch!vars
  <2>1. AtRest /\ abandoned' = (abandoned \/ hold.recognised)
    BY <1>5 DEF Rebuild
  <2>2. CASE fingers > 0
    BY <1>2, <2>1, <2>2, TouchRebuild
  <2>3. CASE fingers = 0
    <3>1. hold = NoHold /\ most = 0
      BY <2>3, Parts DEF OutcomeInv, HoldSense, Down
    <3>2. NoHold.recognised = FALSE /\ NoHold.cancelled = FALSE
      BY DEF NoHold
    <3> HIDE DEF NoHold
    <3>3. Cancelled = FALSE /\ Long = FALSE /\ hold.recognised = FALSE
      BY <2>3, <3>1, <3>2 DEF Cancelled, Long
    <3>4. UNCHANGED <<fingers, most, hold.recognised, Cancelled, Long, abandoned>>
      BY <1>2, <1>3, <2>1, <2>3, <3>1, <3>3
    <3> QED BY <3>4, TouchStutter
  <2> QED BY <1>3, <2>2, <2>3
<1>6. CASE UNCHANGED vars
  BY <1>6, TouchStutter DEF vars, engines, Cancelled, Long
<1> QED BY <1>1, <1>4, <1>5, <1>6 DEF Next

LEMMA TouchInit == Init => Touch!Init
<1> SUFFICES ASSUME Init PROVE Touch!Init
  OBVIOUS
<1>1. /\ fingers = 0 /\ most = 0 /\ hold = NoHold /\ abandoned = FALSE
  BY DEF Init
<1>2. NoHold.recognised = FALSE /\ NoHold.cancelled = FALSE
  BY DEF NoHold
<1> HIDE DEF NoHold
<1> QED BY <1>1, <1>2 DEF Touch!Init, Touch!Tasks, Touch!Idle, Touch!NoReport, Touch!Devices

(* Whatever distances, angles and times make of fingers, frames are touches *)
(* as HidOutput knows them: how many there are, and whether a hold goes on. *)
THEOREM FramesAreTouches == ASSUME HoldLasts PROVE Spec => ImplementsTouches
<1>1. Init => TypeInv /\ OutcomeInv /\ Touch!Init
  BY TypeInit, OutcomeInit, TouchInit
<1>2. TypeInv /\ OutcomeInv /\ [Next]_vars =>
        (TypeInv /\ OutcomeInv)' /\ [Touch!Next]_(Touch!vars)
  BY TypeStep, OutcomeStep, TouchStep
<1> QED BY <1>1, <1>2, PTL DEF Spec, ImplementsTouches, Touch!Spec

-----------------------------------------------------------------------------
(* Fingers that land and lift and never move.                               *)

Plus(p, q) == <<p[1] + q[1], p[2] + q[2]>>

LEMMA SumOne ==
    ASSUME NEW pts \in Touches, Len(pts) = 1
    PROVE  SumOf(pts) = pts[1] /\ Range(pts) = {pts[1]}
<1>1. DOMAIN pts = {1} /\ pts[1] \in Nat \X Nat
  BY FrameFacts, GesturesAssumption DEF GesturesAssumption
<1>2. pts[1][1] \in Nat /\ pts[1][2] \in Nat /\ pts[1] = <<pts[1][1], pts[1][2]>>
  BY <1>1
<1>3. Fold(pts, 1) = pts[1][1] /\ Fold(pts, 2) = pts[1][2]
  BY <1>1, <1>2, FoldOne
<1>4. Range(pts) = {pts[1]}
  BY <1>1 DEF Range
<1> QED BY <1>2, <1>3, <1>4, SumIs

LEMMA SumTwo ==
    ASSUME NEW pts \in Touches, Len(pts) = 2
    PROVE  /\ SumOf(pts) = Plus(pts[1], pts[2]) /\ Range(pts) = {pts[1], pts[2]}
           /\ pts[1] # pts[2] /\ pts[1] \in Pad /\ pts[2] \in Pad
<1>1. /\ DOMAIN pts = {1, 2} /\ pts[1] \in Pad /\ pts[2] \in Pad /\ pts[1] # pts[2]
  <2>1. 1 \in 1 .. Len(pts) /\ 2 \in 1 .. Len(pts) /\ 1 .. Len(pts) = {1, 2}
    OBVIOUS
  <2> QED BY <2>1, FrameFacts
<1>2. /\ pts[1][1] \in Nat /\ pts[1][2] \in Nat
      /\ pts[2][1] \in Nat /\ pts[2][2] \in Nat
  BY <1>1, GesturesAssumption DEF GesturesAssumption
<1>3. Fold(pts, 1) = pts[1][1] + pts[2][1] /\ Fold(pts, 2) = pts[1][2] + pts[2][2]
  BY <1>1, <1>2, FoldTwo
<1>4. Range(pts) = {pts[1], pts[2]}
  BY <1>1 DEF Range
<1> QED BY <1>1, <1>3, <1>4, SumIs DEF Plus

LEMMA PadIs == \A p \in Pad : /\ p \in Nat \X Nat /\ p[1] \in Int /\ p[2] \in Int
                              /\ Square(Minus(p, p)) = 0
BY SquareFacts, GesturesAssumption DEF GesturesAssumption

LEMMA ProductFacts ==
    /\ \A m, n \in Nat : m * n >= 0
    /\ \A n \in Nat : n # 0 => n * n > 0
<1>1. ASSUME NEW m \in Nat, NEW n \in Nat PROVE m * n >= 0
  OBVIOUS
<1>2. ASSUME NEW n \in Nat, n # 0 PROVE n * n > 0
  <2>1. n >= 1
    BY <1>2
  <2> QED BY <2>1, SMT
<1> QED BY <1>1, <1>2

LEMMA NoStray ==
    ASSUME TypeInv, NEW c \in [from : Nat \X Nat, to : Nat \X Nat, n : Nat],
           c.to = c.from
    PROVE  ~Strays(c)
<1>1. Manhattan(Minus(c.to, c.from)) = 0
  BY SquareFacts
<1>2. trackpad.tapDistance * c.n >= 0 /\ trackpad.tapDistance * c.n \in Int
  BY Parts, TrackpadFacts, ProductFacts
<1> QED BY <1>1, <1>2 DEF Strays

LEMMA SwipeStill ==
    ASSUME TypeInv, NEW e \in SwipeStates, e.anchor \in Pad, ~e.done, e.locked = "none",
           trackpad.swipe.need # Unset
    PROVE  Swiped(e, e.anchor) = Nothing(e)
<1> DEFINE d == Minus(e.anchor, e.anchor)
           need == trackpad.swipe.need
<1>1. Square(d) = 0
  BY PadIs
<1>2. need * need > 0 /\ need * need \in Int
  BY Parts, TrackpadFacts, ProductFacts DEF Sense
<1>3. Square(d) < need * need
  <2> HIDE DEF need
  <2> QED BY <1>1, <1>2
<1> QED BY <1>3, Zenon DEF Swiped

LEMMA PinchStill ==
    ASSUME NEW e, NEW t, Sense(t), t.need # Unset, NEW m, NEW name,
           ~e.done, e.locked = 0
    PROVE  Pinched(e, t, m, 0, name) = Nothing(e)
<1>1. Abs(0) < t.need
  BY DEF Abs, Sense
<1> QED BY <1>1, Zenon DEF Pinched

(* An engine that has seen nothing happen.                                  *)
SwipeAt(e, p) ==
    trackpad.swipe.need # Unset => e.anchor = p /\ ~e.done /\ e.locked = "none"
PairAt(e, t, m) == t.need # Unset => e.anchor = m /\ ~e.done /\ e.locked = 0

LEMMA SwipeFrameStill ==
    ASSUME TypeInv, NEW dt \in Delays, NEW pts \in Touches,
           fingers # 0 /\ One(pts) => SwipeAt(swipe, pts[1])
    PROVE  LET r == SwipeFrame(dt, pts)
           IN  r.says = {} /\ (One(pts) => SwipeAt(r.then, pts[1]))
<1> DEFINE e == IF fingers = 0 THEN Rest(pts[1], "none")
                ELSE [swipe EXCEPT !.age = Older(@, dt)]
           r == SwipeFrame(dt, pts)
<1>1. r = IF trackpad.swipe.need # Unset /\ One(pts) THEN Swiped(e, pts[1])
          ELSE Nothing(Rest(Nowhere, "none"))
  BY Zenon DEF SwipeFrame
<1>2. pts[1] \in Pad
  BY FrameFacts
<1>3. e \in SwipeStates /\ (One(pts) => SwipeAt(e, pts[1]))
  <2>1. CASE fingers = 0
    <3>1. Rest(pts[1], "none") \in SwipeStates
      BY FrameFacts, RestType DEF SwipeStates, Ways
    <3>2. SwipeAt(Rest(pts[1], "none"), pts[1])
      BY DEF Rest, SwipeAt
    <3> QED BY <2>1, <3>1, <3>2
  <2>2. CASE fingers # 0
    <3> DEFINE f == [swipe EXCEPT !.age = Older(@, dt)]
    <3>1. /\ f \in SwipeStates /\ f.done = swipe.done /\ f.locked = swipe.locked
          /\ f.anchor = swipe.anchor
      BY Parts, OlderState DEF SwipeStates
    <3> HIDE DEF f
    <3>2. SwipeAt(swipe, pts[1]) => SwipeAt(f, pts[1])
      BY <3>1 DEF SwipeAt
    <3> QED BY <2>2, <3>1, <3>2 DEF f
  <2> QED BY <2>1, <2>2
<1> HIDE DEF e, r
<1>4. CASE trackpad.swipe.need # Unset /\ One(pts)
  <2>1. e.anchor = pts[1] /\ ~e.done /\ e.locked = "none"
    BY <1>3, <1>4 DEF SwipeAt
  <2>2. Swiped(e, e.anchor) = Nothing(e)
    BY <1>2, <1>3, <1>4, <2>1, SwipeStill
  <2>3. r.then = e /\ r.says = {}
    BY <1>1, <1>4, <2>1, <2>2, NothingIs
  <2> QED BY <1>3, <1>4, <2>3 DEF r
<1>5. CASE ~(trackpad.swipe.need # Unset /\ One(pts))
  <2>1. r.says = {}
    BY <1>1, <1>5, NothingIs
  <2>2. One(pts) => SwipeAt(r.then, pts[1])
    BY <1>5 DEF SwipeAt
  <2> QED BY <2>1, <2>2 DEF r
<1> QED BY <1>4, <1>5

LEMMA PairFrameStill ==
    ASSUME TypeInv, NEW A, NEW e \in EngineState(A, Locks), NEW t, Sense(t),
           NEW dt \in Delays, NEW pts \in Touches, NEW m \in A, NEW d, NEW name,
           fingers = 2 /\ Two(pts) => d = 0 /\ PairAt(e, t, m)
    PROVE  LET r == PairFrame(e, t, dt, pts, m, d, name)
           IN  r.says = {} /\ (Two(pts) => PairAt(r.then, t, m))
<1> DEFINE now == IF fingers # 2 THEN Rest(m, 0) ELSE [e EXCEPT !.age = Older(@, dt)]
           by == IF fingers # 2 THEN 0 ELSE d
           r == PairFrame(e, t, dt, pts, m, d, name)
<1>1. r = IF t.need # Unset /\ Two(pts) THEN Pinched(now, t, m, by, name)
          ELSE Nothing(Rest(0, 0))
  BY Zenon DEF PairFrame
<1>2. Two(pts) => PairAt(now, t, m) /\ by = 0
  <2>1. CASE fingers # 2
    <3>1. PairAt(Rest(m, 0), t, m)
      BY DEF Rest, PairAt
    <3> QED BY <2>1, <3>1
  <2>2. CASE fingers = 2
    <3> DEFINE f == [e EXCEPT !.age = Older(@, dt)]
    <3>1. f.done = e.done /\ f.locked = e.locked /\ f.anchor = e.anchor
      BY OlderState
    <3> HIDE DEF f
    <3>2. PairAt(e, t, m) => PairAt(f, t, m)
      BY <3>1 DEF PairAt
    <3> QED BY <2>2, <3>2 DEF f
  <2> QED BY <2>1, <2>2
<1> HIDE DEF now, by, r
<1>3. CASE t.need # Unset /\ Two(pts)
  <2>1. now.anchor = m /\ ~now.done /\ now.locked = 0 /\ by = 0
    BY <1>2, <1>3 DEF PairAt
  <2>2. Pinched(now, t, m, 0, name) = Nothing(now)
    BY <1>3, <2>1, PinchStill
  <2>3. r.then = now /\ r.says = {}
    BY <1>1, <1>3, <2>1, <2>2, NothingIs
  <2> QED BY <1>2, <1>3, <2>3 DEF r
<1>4. CASE ~(t.need # Unset /\ Two(pts))
  <2>1. r.says = {}
    BY <1>1, <1>4, NothingIs
  <2>2. Two(pts) => PairAt(r.then, t, m)
    BY <1>4 DEF PairAt
  <2> QED BY <2>1, <2>2 DEF r
<1> QED BY <1>3, <1>4

(* Two fingers where they were, in any order.                               *)
LEMMA ZoomFrameStill ==
    ASSUME TypeInv, NEW dt \in Delays, NEW pts \in Touches,
           fingers = 2 /\ Two(pts) =>
               PairAt(zoom, trackpad.zoom, Span[<<pts[1], pts[2]>>])
    PROVE  LET r == ZoomFrame(dt, pts)
           IN  /\ r.says = {}
               /\ Two(pts) => PairAt(r.then, trackpad.zoom, Span[<<pts[1], pts[2]>>])
<1> DEFINE m == IF Len(pts) = 2 THEN Span[<<pts[1], pts[2]>>] ELSE 0
           d == m - zoom.anchor
           t == trackpad.zoom
           r == PairFrame(zoom, t, dt, pts, m, d, ZoomName)
           none == t.need = Unset
<1>1. m \in Nat /\ zoom \in EngineState(Nat, Locks) /\ Sense(t)
  BY SpanType, Parts, TrackpadFacts
<1>2. ZoomFrame(dt, pts) = r
  BY DEF ZoomFrame
<1>3. Two(pts) => m = Span[<<pts[1], pts[2]>>]
  BY DEF Two
<1> HIDE DEF m
<1>4. CASE none
  <2>1. r = Nothing(Rest(0, 0))
    BY <1>4, Zenon DEF PairFrame
  <2>2. r.says = {}
    BY <2>1, NothingIs
  <2> HIDE DEF r
  <2> QED BY <1>2, <1>4, <2>2 DEF PairAt
<1>5. CASE ~none
  <2>1. fingers = 2 /\ Two(pts) => d = 0 /\ PairAt(zoom, t, m)
    BY <1>1, <1>3, <1>5 DEF PairAt
  <2> HIDE DEF d, t
  <2>2. r.says = {} /\ (Two(pts) => PairAt(r.then, t, m))
    BY <1>1, <2>1, PairFrameStill
  <2> HIDE DEF r
  <2> QED BY <1>2, <1>3, <2>2 DEF t
<1> QED BY <1>4, <1>5

LEMMA TwistFrameStill ==
    ASSUME TypeInv, NEW dt \in Delays, NEW pts \in Touches,
           fingers = 2 /\ Two(pts) =>
               PairAt(twist, trackpad.twist, Angle[<<pts[1], pts[2]>>])
    PROVE  LET r == TwistFrame(dt, pts)
           IN  /\ r.says = {}
               /\ Two(pts) => PairAt(r.then, trackpad.twist, Angle[<<pts[1], pts[2]>>])
<1> DEFINE m == IF Len(pts) = 2 THEN Angle[<<pts[1], pts[2]>>] ELSE 0
           d == Wrap(m - twist.anchor)
           t == trackpad.twist
           A == 0 .. 179
           r == PairFrame(twist, t, dt, pts, m, d, TwistName)
           none == t.need = Unset
<1>1. m \in A /\ twist \in EngineState(A, Locks) /\ Sense(t)
  BY SpanType, Parts, TrackpadFacts
<1>2. TwistFrame(dt, pts) = r
  BY DEF TwistFrame
<1>3. Two(pts) => m = Angle[<<pts[1], pts[2]>>]
  BY DEF Two
<1> HIDE DEF m
<1>4. CASE none
  <2>1. r = Nothing(Rest(0, 0))
    BY <1>4, Zenon DEF PairFrame
  <2>2. r.says = {}
    BY <2>1, NothingIs
  <2> HIDE DEF r
  <2> QED BY <1>2, <1>4, <2>2 DEF PairAt
<1>5. CASE ~none
  <2>1. fingers = 2 /\ Two(pts) => d = 0 /\ PairAt(twist, t, m)
    BY <1>1, <1>3, <1>5 DEF PairAt, Wrap
  <2> HIDE DEF d, t, A
  <2>2. r.says = {} /\ (Two(pts) => PairAt(r.then, t, m))
    BY <1>1, <2>1, PairFrameStill
  <2> HIDE DEF r
  <2> QED BY <1>2, <1>3, <2>2 DEF t
<1> QED BY <1>4, <1>5

(* Fingers that have not moved: all that have landed are down, or some of   *)
(* them have lifted; where one is or two are, the engines know.             *)
Still == past.still # "moved"
Begun == past.still = "landing" /\ fingers = most
Ended == past.still = "lifting" /\ fingers < most
OneAt == \E p \in Pad :
    past.down = {p} /\ centroid.from = p /\ SwipeAt(swipe, p)
TwoAt == \E p, q \in Pad :
    /\ past.down = {p, q} /\ centroid.from = Plus(p, q)
    /\ PairAt(zoom, trackpad.zoom, Span[<<p, q>>])
    /\ PairAt(twist, trackpad.twist, Angle[<<p, q>>])
Quiet == past.quiet /\ ~dragging /\ ~scrolling /\ centroid.to = centroid.from
Counted == IsFiniteSet(past.down) /\ Cardinality(past.down) = fingers
Timed == \A i \in 1 .. most : age[i] <= past.took

StillSense ==
    /\ ~Down => ~dragging /\ ~scrolling
    /\ Down /\ Still => Quiet /\ Counted /\ Timed /\ (Begun \/ Ended)
    /\ Down /\ Begun /\ most = 1 => OneAt
    /\ Down /\ Begun /\ most = 2 => TwoAt

LEMMA FrameRemembers ==
    ASSUME NEW dt, NEW pts, Frame(dt, pts)
    PROVE  /\ fingers = 0 => past'.still = "landing"
           /\ fingers # 0 => past'.still = StillAfter(Range(pts))
           /\ past'.still # "moved" => past'.down = Range(pts)
           /\ past'.still # "moved" =>
                 past'.took = IF fingers = 0 THEN 0 ELSE Older(past.took, dt)
           /\ past'.quiet = (past'.still = "moved" \/ (Before.quiet /\ out' \ {"hold"} = {}))
           /\ out' \subseteq (IF dragging' THEN {"move"} ELSE {})
                 \cup (IF scrolling' THEN {"scroll"} ELSE {})
                 \cup SwipeFrame(dt, pts).says \cup ZoomFrame(dt, pts).says
                 \cup TwistFrame(dt, pts).says \cup HoldFrame(dt, pts).says
BY DEF Frame, Before

(* A frame of a session in which nothing has moved: with more fingers, with *)
(* the same, or with some less.                                             *)
Grows(pts) == past'.still = "landing" /\ Len(pts) > most
Stays(pts) == /\ past'.still = "landing" /\ fingers # 0 /\ Begun
              /\ Len(pts) = most /\ Range(pts) = past.down
Shrinks(pts) == past'.still = "lifting" /\ fingers # 0 /\ Len(pts) < most

LEMMA StillKinds ==
    ASSUME TypeInv, StillSense, NEW dt \in Delays, NEW pts \in Touches, Frame(dt, pts),
           past'.still # "moved"
    PROVE  /\ Grows(pts) \/ Stays(pts) \/ Shrinks(pts)
           /\ fingers # 0 => Still
<1> DEFINE R == Range(pts)
           n == Len(pts)
<1>1. IsFiniteSet(R) /\ Cardinality(R) = n /\ n \in Nat /\ n >= 1
  BY RangeFacts, OneFacts
<1>2. fingers \in Nat /\ most \in Nat /\ fingers <= most /\ (fingers = 0 => most = 0)
  BY Parts
<1>3. CASE fingers = 0
  <2>1. past'.still = "landing"
    BY <1>3, FrameRemembers
  <2> HIDE DEF n
  <2>2. n > most
    BY <1>1, <1>2, <1>3
  <2> QED BY <1>3, <2>1, <2>2 DEF Grows, n
<1>4. CASE fingers # 0
  <2>1. past'.still = StillAfter(R)
    BY <1>4, FrameRemembers
  <2>2. \/ past'.still = "landing" /\ past.still = "landing" /\ past.down \subseteq R
        \/ /\ past'.still = "lifting" /\ R \subseteq past.down
           /\ ~(past.still = "landing" /\ past.down \subseteq R)
    BY <2>1 DEF StillAfter
  <2>3. Still
    <3> HIDE DEF R
    <3> QED BY <2>1 DEF StillAfter, Still
  <2>4. /\ IsFiniteSet(past.down) /\ Cardinality(past.down) = fingers
        /\ Begun \/ Ended
    BY <1>4, <2>3 DEF StillSense, Down, Counted
  <2> HIDE DEF R, n
  <2>5. CASE past'.still = "landing" /\ past.still = "landing" /\ past.down \subseteq R
    <3>1. Begun /\ fingers = most
      BY <2>4, <2>5 DEF Begun, Ended
    <3>2. fingers <= n /\ (n = fingers => past.down = R)
      BY <1>1, <2>4, <2>5, FS_Subset
    <3>3. CASE n = fingers
      BY <1>4, <2>3, <2>5, <3>1, <3>2, <3>3 DEF Stays, R, n
    <3>4. CASE n # fingers
      <4>1. n > most
        BY <1>1, <1>2, <3>1, <3>2, <3>4
      <4> QED BY <2>3, <2>5, <4>1 DEF Grows, n
    <3> QED BY <3>3, <3>4
  <2>6. CASE /\ past'.still = "lifting" /\ R \subseteq past.down
             /\ ~(past.still = "landing" /\ past.down \subseteq R)
    <3>1. n <= fingers /\ (n = fingers => past.down = R)
      BY <1>1, <2>4, <2>6, FS_Subset
    <3>2. n < most
      <4>1. CASE Begun
        <5>1. past.down # R
          BY <2>6, <4>1 DEF Begun
        <5> QED BY <1>1, <1>2, <3>1, <4>1, <5>1 DEF Begun
      <4>2. CASE Ended
        BY <1>1, <1>2, <3>1, <4>2 DEF Ended
      <4> QED BY <2>4, <4>1, <4>2
    <3> QED BY <1>4, <2>3, <2>6, <3>2 DEF Shrinks, n
  <2> QED BY <2>2, <2>5, <2>6
<1> QED BY <1>3, <1>4

(* What such a frame leaves to be seen.                                     *)
Silent(dt, pts) ==
    /\ Centred(pts).to = Centred(pts).from
    /\ SwipeFrame(dt, pts).says = {} /\ ZoomFrame(dt, pts).says = {}
    /\ TwistFrame(dt, pts).says = {}

LEMMA OneNext ==
    ASSUME NEW dt, NEW pts \in Touches, Frame(dt, pts), past'.down = Range(pts), Len(pts) = 1,
           Centred(pts).from = pts[1], SwipeAt(SwipeFrame(dt, pts).then, pts[1])
    PROVE  OneAt'
<1>1. /\ past'.down = {pts[1]} /\ centroid'.from = pts[1] /\ trackpad' = trackpad
      /\ swipe' = SwipeFrame(dt, pts).then
  <2>1. past'.down = {pts[1]}
    BY SumOne
  <2>2. /\ trackpad' = trackpad /\ centroid' = Centred(pts)
        /\ swipe' = SwipeFrame(dt, pts).then
    BY FrameIs
  <2> QED BY <2>1, <2>2
<1>2. pts[1] \in Pad
  BY FrameFacts
<1>3. SwipeAt(swipe, pts[1])'
  BY <1>1 DEF SwipeAt
<1> QED BY <1>1, <1>2, <1>3 DEF OneAt

LEMMA TwoNext ==
    ASSUME NEW dt, NEW pts \in Touches, Frame(dt, pts), past'.down = Range(pts), Len(pts) = 2,
           Centred(pts).from = Plus(pts[1], pts[2]),
           PairAt(ZoomFrame(dt, pts).then, trackpad.zoom, Span[<<pts[1], pts[2]>>]),
           PairAt(TwistFrame(dt, pts).then, trackpad.twist, Angle[<<pts[1], pts[2]>>])
    PROVE  TwoAt'
<1> DEFINE p == pts[1]
           q == pts[2]
<1>1. /\ past'.down = {p, q} /\ centroid'.from = Plus(p, q) /\ trackpad' = trackpad
      /\ zoom' = ZoomFrame(dt, pts).then /\ twist' = TwistFrame(dt, pts).then
  BY FrameIs, SumTwo
<1>2. p \in Pad /\ q \in Pad
  BY SumTwo
<1>3. /\ PairAt(zoom', trackpad'.zoom, Span[<<p, q>>])
      /\ PairAt(twist', trackpad'.twist, Angle[<<p, q>>])
  BY <1>1
<1> HIDE DEF p, q
<1> QED BY <1>1, <1>2, <1>3 DEF TwoAt

LEMMA GrowsSilent ==
    ASSUME TypeInv, NEW dt \in Delays, NEW pts \in Touches, Frame(dt, pts), Grows(pts)
    PROVE  Silent(dt, pts) /\ (Peak(pts) = 1 => OneAt') /\ (Peak(pts) = 2 => TwoAt')
<1>1. /\ Len(pts) > most /\ Peak(pts) = Len(pts) /\ Peak(pts) > most
      /\ past'.down = Range(pts)
  BY PeakFacts, FrameRemembers DEF Grows
<1>2. (One(pts) => fingers = 0) /\ (Two(pts) => fingers # 2)
  <2>1. fingers \in Nat /\ most \in Nat /\ fingers <= most
    BY Parts
  <2>2. Len(pts) = 1 => fingers = 0
    BY <1>1, <2>1
  <2>3. Len(pts) = 2 => fingers # 2
    BY <1>1, <2>1
  <2> QED BY <2>2, <2>3 DEF One, Two
<1>3. Centred(pts) = [from |-> SumOf(pts), to |-> SumOf(pts), n |-> Len(pts)]
  BY <1>1 DEF Centred
<1>4. SwipeFrame(dt, pts).says = {} /\ (One(pts) => SwipeAt(SwipeFrame(dt, pts).then, pts[1]))
  BY <1>2, SwipeFrameStill
<1>5. /\ ZoomFrame(dt, pts).says = {}
      /\ Two(pts) => PairAt(ZoomFrame(dt, pts).then, trackpad.zoom, Span[<<pts[1], pts[2]>>])
  BY <1>2, ZoomFrameStill
<1>6. /\ TwistFrame(dt, pts).says = {}
      /\ Two(pts) => PairAt(TwistFrame(dt, pts).then, trackpad.twist, Angle[<<pts[1], pts[2]>>])
  BY <1>2, TwistFrameStill
<1>7. Centred(pts).from = SumOf(pts) /\ Centred(pts).to = SumOf(pts)
  BY <1>3
<1>8. Silent(dt, pts)
  BY <1>4, <1>5, <1>6, <1>7 DEF Silent
<1>9. ASSUME Peak(pts) = 1 PROVE OneAt'
  BY <1>1, <1>4, <1>7, <1>9, SumOne, OneNext DEF One
<1>10. ASSUME Peak(pts) = 2 PROVE TwoAt'
  BY <1>1, <1>5, <1>6, <1>7, <1>10, SumTwo, TwoNext DEF Two
<1> QED BY <1>8, <1>9, <1>10

LEMMA StaysSilent ==
    ASSUME TypeInv, StillSense, NEW dt \in Delays, NEW pts \in Touches, Frame(dt, pts),
           Stays(pts), Still
    PROVE  Silent(dt, pts) /\ (Peak(pts) = 1 => OneAt') /\ (Peak(pts) = 2 => TwoAt')
<1>1. /\ Len(pts) = most /\ Peak(pts) = most /\ fingers = most /\ fingers # 0
      /\ past'.down = Range(pts) /\ past.down = Range(pts) /\ Begun
      /\ One(pts) <=> most = 1
      /\ Two(pts) <=> most = 2
  <2>1. Len(pts) = most /\ fingers = most /\ Begun /\ past.down = Range(pts) /\ fingers # 0
    BY DEF Stays, Begun
  <2>2. Peak(pts) = most
    BY <2>1 DEF Peak
  <2>3. past'.down = Range(pts)
    BY FrameRemembers DEF Stays
  <2> QED BY <2>1, <2>2, <2>3 DEF One, Two
<1>2. Centred(pts) = IF One(pts) \/ Two(pts) THEN [centroid EXCEPT !.to = SumOf(pts)]
                     ELSE centroid
  <2>1. ~(Peak(pts) > most)
    BY <1>1, Parts
  <2> QED BY <2>1 DEF Centred
<1>3. /\ centroid \in [from : Nat \X Nat, to : Nat \X Nat, n : Nat]
      /\ centroid.to = centroid.from
  BY <1>1, Parts DEF StillSense, Down, Quiet
<1>4. Centred(pts).from = centroid.from
  BY <1>2, <1>3
<1>5. ASSUME most = 1
      PROVE  centroid.from = pts[1] /\ SwipeAt(swipe, pts[1])
  <2>1. PICK p \in Pad : past.down = {p} /\ centroid.from = p /\ SwipeAt(swipe, p)
    BY <1>1, <1>5 DEF StillSense, Down, OneAt
  <2>2. Range(pts) = {pts[1]}
    BY <1>1, <1>5, SumOne
  <2>3. p = pts[1]
    BY <1>1, <2>1, <2>2
  <2> QED BY <2>1, <2>3
<1>6. ASSUME most = 2
      PROVE  /\ centroid.from = Plus(pts[1], pts[2])
             /\ PairAt(zoom, trackpad.zoom, Span[<<pts[1], pts[2]>>])
             /\ PairAt(twist, trackpad.twist, Angle[<<pts[1], pts[2]>>])
  <2>1. PICK p \in Pad, q \in Pad :
            /\ past.down = {p, q} /\ centroid.from = Plus(p, q)
            /\ PairAt(zoom, trackpad.zoom, Span[<<p, q>>])
            /\ PairAt(twist, trackpad.twist, Angle[<<p, q>>])
    BY <1>1, <1>6 DEF StillSense, Down, TwoAt
  <2>2. Range(pts) = {pts[1], pts[2]} /\ pts[1] # pts[2]
    BY <1>1, <1>6, SumTwo
  <2>3. (pts[1] = p /\ pts[2] = q) \/ (pts[1] = q /\ pts[2] = p)
    BY <1>1, <2>1, <2>2
  <2>4. /\ Span[<<p, q>>] = Span[<<q, p>>] /\ Angle[<<p, q>>] = Angle[<<q, p>>]
        /\ Plus(p, q) = Plus(q, p)
    BY PadIs, GesturesAssumption DEF GesturesAssumption, Plus
  <2>5. CASE pts[1] = p /\ pts[2] = q
    BY <2>1, <2>5
  <2>6. CASE pts[1] = q /\ pts[2] = p
    BY <2>1, <2>4, <2>6
  <2> QED BY <2>3, <2>5, <2>6
<1>7. Centred(pts).to = Centred(pts).from
  <2>1. most = 1 => SumOf(pts) = centroid.from
    BY <1>1, <1>5, SumOne
  <2>2. most = 2 => SumOf(pts) = centroid.from
    BY <1>1, <1>6, SumTwo
  <2>3. CASE One(pts) \/ Two(pts)
    <3> DEFINE s == SumOf(pts)
    <3>1. s = centroid.from
      BY <1>1, <2>1, <2>2, <2>3
    <3> HIDE DEF s
    <3>2. [centroid EXCEPT !.to = s].to = s
      BY <1>3
    <3> QED BY <1>2, <1>4, <2>3, <3>1, <3>2 DEF s
  <2>4. CASE ~(One(pts) \/ Two(pts))
    BY <1>2, <1>3, <2>4
  <2> QED BY <2>3, <2>4
<1>8. SwipeFrame(dt, pts).says = {} /\ (One(pts) => SwipeAt(SwipeFrame(dt, pts).then, pts[1]))
  BY <1>1, <1>5, SwipeFrameStill
<1>9. /\ ZoomFrame(dt, pts).says = {}
      /\ Two(pts) => PairAt(ZoomFrame(dt, pts).then, trackpad.zoom, Span[<<pts[1], pts[2]>>])
  BY <1>1, <1>6, ZoomFrameStill
<1>10. /\ TwistFrame(dt, pts).says = {}
       /\ Two(pts) => PairAt(TwistFrame(dt, pts).then, trackpad.twist, Angle[<<pts[1], pts[2]>>])
  BY <1>1, <1>6, TwistFrameStill
<1>11. Silent(dt, pts)
  BY <1>7, <1>8, <1>9, <1>10 DEF Silent
<1>12. ASSUME Peak(pts) = 1 PROVE OneAt'
  BY <1>1, <1>4, <1>5, <1>8, <1>12, OneNext
<1>13. ASSUME Peak(pts) = 2 PROVE TwoAt'
  BY <1>1, <1>4, <1>6, <1>9, <1>10, <1>13, TwoNext
<1> QED BY <1>11, <1>12, <1>13

LEMMA ShrinksSilent ==
    ASSUME TypeInv, StillSense, NEW dt \in Delays, NEW pts \in Touches, Frame(dt, pts),
           Shrinks(pts), Still
    PROVE  Silent(dt, pts)
<1>1. Peak(pts) = most /\ Len(pts) # Peak(pts) /\ ~(Peak(pts) > most)
  BY Parts, PeakFacts DEF Shrinks
<1>2. ~One(pts) /\ ~Two(pts)
  BY <1>1 DEF One, Two
<1>3. Centred(pts) = centroid
  BY <1>1, <1>2 DEF Centred
<1>4. centroid.to = centroid.from
  BY DEF StillSense, Shrinks, Down, Quiet
<1>5. /\ SwipeFrame(dt, pts).says = {} /\ ZoomFrame(dt, pts).says = {}
      /\ TwistFrame(dt, pts).says = {}
  BY <1>2, SwipeFrameStill, ZoomFrameStill, TwistFrameStill
<1> QED BY <1>3, <1>4, <1>5 DEF Silent

LEMMA SilentQuiet ==
    ASSUME TypeInv, StillSense, NEW dt \in Delays, NEW pts \in Touches, Frame(dt, pts),
           Silent(dt, pts), past'.still # "moved", fingers # 0 => Still
    PROVE  Quiet'
<1>1. ~dragging /\ ~scrolling /\ Before.quiet
  <2>1. CASE fingers = 0
    <3>1. NoPast.quiet
      BY DEF NoPast
    <3> QED BY <2>1, <3>1 DEF StillSense, Down, Before
  <2>2. CASE fingers # 0
    BY <2>2 DEF StillSense, Down, Before, Quiet
  <2> QED BY <2>1, <2>2
<1>2. /\ centroid' = Centred(pts) /\ Centred(pts).to = Centred(pts).from
      /\ centroid' \in [from : Nat \X Nat, to : Nat \X Nat, n : Nat]
  BY FrameIs, CentredFacts DEF Silent
<1>3. ~Strays(Centred(pts))
  BY <1>2, NoStray
<1>4. ~Strays(centroid')
  BY <1>2, <1>3
<1>5. dragging' = FALSE /\ scrolling' = FALSE
  BY <1>1, <1>4, FrameIs, Parts
<1>6. HoldFrame(dt, pts).says \subseteq {"hold"}
  BY HoldFrameType
<1>7. out' \subseteq {"hold"}
  BY <1>5, <1>6, FrameRemembers DEF Silent
<1>8. past'.quiet = (past'.still = "moved" \/ (Before.quiet /\ out' \ {"hold"} = {}))
  BY FrameRemembers
<1>9. past'.quiet
  BY <1>1, <1>7, <1>8
<1> QED BY <1>2, <1>5, <1>9 DEF Quiet

LEMMA StillTimed ==
    ASSUME TypeInv, past \in Pasts, NEW dt \in Delays, NEW pts \in Touches, Frame(dt, pts),
           past'.still # "moved", fingers # 0 => Timed
    PROVE  Timed'
<1>1. most' = Peak(pts) /\ age' = Started(dt, pts)
  BY FrameIs
<1>2. past'.took = IF fingers = 0 THEN 0 ELSE Older(past.took, dt)
  BY FrameRemembers
<1>3. /\ Peak(pts) \in Nat /\ Peak(pts) <= MaxFingers /\ Len(pts) <= Peak(pts)
      /\ Len(pts) <= most => Peak(pts) = most
      /\ Len(pts) > most => Peak(pts) = Len(pts)
      /\ fingers \in Nat /\ most \in Nat /\ (fingers = 0 => most = 0) /\ MaxFingers \in Nat
  BY PeakFacts, Parts
<1>4. past.took \in Ages /\ Older(past.took, dt) \in Ages /\ 0 \in Ages
  BY OlderFacts, AgesFacts DEF Pasts
<1> SUFFICES ASSUME NEW i \in 1 .. Peak(pts) PROVE Started(dt, pts)[i] <= past'.took
  BY <1>1 DEF Timed
<1>5. i \in Slots /\ i \in Nat
  BY <1>3 DEF Slots
<1>6. Started(dt, pts)[i] = IF i > fingers /\ i <= Len(pts) THEN 0
                           ELSE IF i <= most THEN Older(age[i], dt) ELSE 0
  BY <1>5 DEF Started
<1>7. CASE fingers = 0
  <2>1. ~(i <= most)
    BY <1>3, <1>5, <1>7
  <2> QED BY <1>2, <1>6, <1>7, <2>1
<1>8. CASE fingers # 0 /\ i <= most
  <2>1. age[i] \in Ages
    BY <1>5, Parts
  <2>2. age[i] <= past.took
    BY <1>3, <1>5, <1>8 DEF Timed
  <2>3. Older(age[i], dt) <= Older(past.took, dt)
    BY <1>4, <2>1, <2>2, OlderFacts
  <2>4. 0 <= Older(past.took, dt)
    BY <1>4 DEF Ages
  <2> QED BY <1>2, <1>6, <1>8, <2>3, <2>4
<1>9. CASE fingers # 0 /\ ~(i <= most)
  <2>1. 0 <= Older(past.took, dt)
    BY <1>4 DEF Ages
  <2> QED BY <1>2, <1>6, <1>9, <2>1
<1> QED BY <1>7, <1>8, <1>9

LEMMA StillFrame ==
    ASSUME TypeInv, past \in Pasts, StillSense, NEW dt \in Delays, NEW pts \in Touches,
           Frame(dt, pts)
    PROVE  StillSense'
<1>1. fingers' = Len(pts) /\ most' = Peak(pts) /\ fingers' # 0
  <2>1. Len(pts) \in Nat /\ Len(pts) >= 1
    BY OneFacts
  <2>2. Len(pts) # 0
    BY <2>1
  <2> QED BY <2>2, FrameIs
<1>2. CASE past'.still = "moved"
  BY <1>1, <1>2 DEF StillSense, Down, Still, Begun
<1>3. CASE past'.still # "moved"
  <2>1. /\ Grows(pts) \/ Stays(pts) \/ Shrinks(pts)
        /\ fingers # 0 => Still
    BY <1>3, StillKinds
  <2>2. /\ Silent(dt, pts)
        /\ Grows(pts) \/ Stays(pts) => (Peak(pts) = 1 => OneAt') /\ (Peak(pts) = 2 => TwoAt')
    <3>1. CASE Grows(pts)
      BY <3>1, GrowsSilent DEF Grows, Stays, Shrinks
    <3>2. CASE Stays(pts)
      <4>1. Still
        BY <2>1, <3>2 DEF Stays
      <4> QED BY <3>2, <4>1, StaysSilent
    <3>3. CASE Shrinks(pts)
      <4>1. Still
        BY <2>1, <3>3 DEF Shrinks
      <4>2. ~Grows(pts) /\ ~Stays(pts)
        BY <3>3 DEF Grows, Stays, Shrinks
      <4> QED BY <3>3, <4>1, <4>2, ShrinksSilent
    <3> QED BY <2>1, <3>1, <3>2, <3>3
  <2>3. Quiet'
    BY <1>3, <2>1, <2>2, SilentQuiet
  <2>4. Counted'
    BY <1>1, <1>3, FrameRemembers, RangeFacts DEF Counted
  <2>5. fingers # 0 => Timed
    BY <2>1 DEF StillSense, Down
  <2>6. Timed'
    BY <1>3, <2>5, StillTimed
  <2>7. /\ Grows(pts) \/ Stays(pts) => Begun'
        /\ Shrinks(pts) => Ended'
    <3>1. /\ Len(pts) > most => Peak(pts) = Len(pts)
          /\ Len(pts) = most => Peak(pts) = most
          /\ Len(pts) < most => Peak(pts) = most
      BY PeakFacts, Parts
    <3> QED BY <1>1, <3>1 DEF Grows, Stays, Shrinks, Begun, Ended
  <2>8. Begun' => ~Shrinks(pts)
    BY DEF Begun, Shrinks
  <2> QED BY <1>1, <2>1, <2>2, <2>3, <2>4, <2>6, <2>7, <2>8 DEF StillSense, Down
<1> QED BY <1>2, <1>3

LEMMA StillStep == TypeInv /\ past \in Pasts /\ StillSense /\ [Next]_vars => StillSense'
<1> SUFFICES ASSUME TypeInv, past \in Pasts, StillSense, [Next]_vars PROVE StillSense'
  OBVIOUS
<1>1. ASSUME NEW dt \in Delays, NEW pts \in Touches, Frame(dt, pts) PROVE StillSense'
  BY <1>1, StillFrame
<1>2. ASSUME AtRest PROVE StillSense'
  BY <1>2 DEF AtRest, StillSense, Down
<1>3. ASSUME NEW dt \in Delays, Lift(dt) PROVE StillSense'
  BY <1>2, <1>3 DEF Lift
<1>4. CASE Rebuild
  BY <1>2, <1>4 DEF Rebuild
<1>5. CASE UNCHANGED vars
  BY <1>5 DEF vars, engines, StillSense, Down, Still, Begun, Ended, OneAt, TwoAt, SwipeAt,
              PairAt, Quiet, Counted, Timed
<1> QED BY <1>1, <1>3, <1>4, <1>5 DEF Next

LEMMA StillLift ==
    ASSUME HoldLasts, TypeInv, OutcomeInv, StillSense, NEW dt \in Delays, Lift(dt)
    PROVE  StillClick
<1>1. fingers > 0 /\ fingers # 0 /\ trackpad' = trackpad
  BY Parts DEF Lift
<1> SUFFICES ASSUME past'.still = "lifting"
             PROVE  past.quiet /\ (past'.took <= trackpad.tapTime => out' = {Click(most)})
  BY DEF StillClick
<1>2. /\ past'.still = StillAfter({}) /\ past'.took = Older(past.took, dt)
  BY LiftPast DEF OutcomeInv
<1>3. Still
  BY <1>2 DEF StillAfter, Still
<1>4. Quiet /\ Timed
  BY <1>1, <1>3 DEF StillSense, Down
<1>5. ~Strays(centroid)
  BY <1>4, Parts, NoStray DEF Quiet
<1>6. ASSUME past'.took <= trackpad.tapTime PROVE IsTap(dt)
  <2> SUFFICES ASSUME NEW i \in 1 .. most PROVE Older(age[i], dt) <= trackpad.tapTime
    BY <1>5 DEF IsTap
  <2>1. age[i] \in Ages /\ past.took \in Ages
    BY Parts DEF Slots, OutcomeInv, Pasts
  <2>2. age[i] <= past.took
    BY <1>4 DEF Timed
  <2>3. /\ Older(age[i], dt) <= Older(past.took, dt)
        /\ Older(age[i], dt) \in Ages /\ Older(past.took, dt) \in Ages
    BY <2>1, <2>2, OlderFacts
  <2>4. trackpad.tapTime \in Nat
    BY Parts, TrackpadFacts
  <2>5. Older(past.took, dt) <= trackpad.tapTime
    BY <1>2, <1>6
  <2> DEFINE a == Older(age[i], dt)
             b == Older(past.took, dt)
  <2>6. a \in Int /\ b \in Int
    BY <2>3 DEF Ages
  <2> HIDE DEF a, b
  <2>7. a <= b /\ b <= trackpad.tapTime
    BY <2>3, <2>5 DEF a, b
  <2>8. a <= trackpad.tapTime
    BY <2>4, <2>6, <2>7
  <2> QED BY <2>8 DEF a
<1>7. IsTap(dt) => ~hold.recognised
  BY LiftSays DEF OutcomeInv, HoldSense
<1>8. IsTap(dt) => out' = {Click(most)}
  BY <1>7 DEF Lift
<1> QED BY <1>4, <1>6, <1>8 DEF Quiet

LEMMA StillHolds ==
    HoldLasts /\ TypeInv /\ OutcomeInv /\ StillSense /\ [Next]_vars => [StillClick]_vars
<1> SUFFICES ASSUME HoldLasts, TypeInv, OutcomeInv, StillSense, Next PROVE StillClick
  OBVIOUS
<1>1. ASSUME NEW dt \in Delays, NEW pts \in Touches, Frame(dt, pts) PROVE StillClick
  <2>1. Len(pts) \in Nat /\ Len(pts) >= 1 /\ fingers' = Len(pts)
    BY <1>1, OneFacts, FrameIs
  <2>2. fingers' # 0
    BY <2>1
  <2> QED BY <2>2 DEF StillClick, Lifted
<1>2. ASSUME NEW dt \in Delays, Lift(dt) PROVE StillClick
  BY <1>2, StillLift
<1>3. CASE Rebuild
  BY <1>3 DEF Rebuild, NoPast, StillClick
<1> QED BY <1>1, <1>2, <1>3 DEF Next

(* Fingers that land and lift and never move are a click of as many, in     *)
(* whatever order they come and are reported (_process, _centroid, _isTap,  *)
(* and the engines): nothing else was seen of them.                         *)
THEOREM StillFingersAreAClick == ASSUME HoldLasts PROVE Spec => StillFingersClick
<1>1. Init => TypeInv /\ OutcomeInv /\ StillSense
  BY TypeInit, OutcomeInit DEF Init, StillSense, Down
<1>2. TypeInv /\ OutcomeInv /\ StillSense /\ [Next]_vars =>
        (TypeInv /\ OutcomeInv /\ StillSense)' /\ [StillClick]_vars
  BY TypeStep, OutcomeStep, StillStep, StillHolds DEF OutcomeInv
<1> QED BY <1>1, <1>2, PTL DEF Spec, StillFingersClick
=============================================================================
