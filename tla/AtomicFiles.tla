----------------------------- MODULE AtomicFiles -----------------------------
(***************************************************************************)
(* What file_save promises its caller: an upload is one atomic operation.  *)
(* A host file changes only when the whole of an upload to that path       *)
(* appears in it, at most once per upload, when its deletion was asked     *)
(* for, or when it is a new screen that the firmware does not know how to  *)
(* read; a RAM file is emptied by an upload that finds no memory; the      *)
(* preferences file only moves to newer preferences; a power cycle takes   *)
(* the RAM files and nothing else.  Every change that is reported leaves   *)
(* the path in stale until the screens are told of it.                     *)
(***************************************************************************)
EXTENDS Naturals, Sequences

CONSTANTS Paths, RamPaths, PrefsPath, HostPaths, ScreenPaths, Absent, Emptied,
          NChunks

VARIABLES
    file,       \* what a reader of each path gets
    target,     \* target[s] is the path of upload s
    deletes,    \* the paths whose deletion was asked for
    committed,  \* the uploads that have taken place
    prefs,      \* the version of the preferences in use
    stale       \* the paths changed since the screens were last told

vars == <<file, target, deletes, committed, prefs, stale>>

Whole(s) == [i \in 1 .. NChunks |-> [save |-> s, ix |-> i]]
PrefsImage(v) == <<[save |-> 0, ix |-> v]>>

Init ==
    /\ file = [p \in Paths |-> Absent]
    /\ target = <<>> /\ deletes = <<>>
    /\ committed = {} /\ stale = {}
    /\ prefs = 0

BeginUpload(p) ==
    /\ target' = Append(target, p)
    /\ UNCHANGED <<file, deletes, committed, prefs, stale>>

Upload(s) ==
    /\ s \notin committed
    /\ committed' = committed \cup {s}
    /\ file' = [file EXCEPT ![target[s]] = Whole(s)]
    /\ stale' = stale \cup {target[s]}
    /\ UNCHANGED <<target, deletes, prefs>>

LoseUpload(s) ==
    /\ s \notin committed /\ target[s] \in RamPaths
    /\ file' = [file EXCEPT ![target[s]] = Emptied]
    /\ UNCHANGED <<target, deletes, committed, prefs, stale>>

BeginDelete(p) ==
    /\ deletes' = Append(deletes, p)
    /\ UNCHANGED <<file, target, committed, prefs, stale>>

Delete(p) ==
    /\ \E n \in 1 .. Len(deletes) : deletes[n] = p
    /\ file' \in {file, [file EXCEPT ![p] = Absent]}
    /\ stale' = stale \cup {p}
    /\ UNCHANGED <<target, deletes, committed, prefs>>

RejectScreen(p) ==
    /\ p \in stale \cap ScreenPaths
    /\ file' = [file EXCEPT ![p] = Absent]
    /\ UNCHANGED <<target, deletes, committed, prefs, stale>>

TellScreens(p) ==
    /\ stale' = stale \ {p}
    /\ UNCHANGED <<file, target, deletes, committed, prefs>>

ChangePrefs ==
    /\ prefs' = prefs + 1
    /\ UNCHANGED <<file, target, deletes, committed, stale>>

StorePrefs(v) ==
    /\ \A w \in v .. prefs : file[PrefsPath] # PrefsImage(w)
    /\ file' = [file EXCEPT ![PrefsPath] = PrefsImage(v)]
    /\ UNCHANGED <<target, deletes, committed, prefs, stale>>

PowerCycle ==
    /\ file' = [p \in Paths |-> IF p \in RamPaths THEN Absent ELSE file[p]]
    /\ stale' = {}
    /\ UNCHANGED <<target, deletes, committed, prefs>>

Next ==
    \/ \E p \in HostPaths :
          \/ BeginUpload(p) \/ BeginDelete(p) \/ Delete(p)
          \/ RejectScreen(p) \/ TellScreens(p)
    \/ \E s \in 1 .. Len(target) : Upload(s) \/ LoseUpload(s)
    \/ ChangePrefs
    \/ \E v \in 1 .. prefs : StorePrefs(v)
    \/ PowerCycle

Spec == Init /\ [][Next]_vars
=============================================================================
