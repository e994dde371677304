------------------------------ MODULE FileStore ------------------------------
(***************************************************************************)
(* The two filesystems of the firmware, FlashFs ("F") and RamFs ("R"), as  *)
(* the write transactions see them.  Each keeps ONE transaction g_txn and  *)
(* its own handle counter; neither takes a lock, and they are called from  *)
(* every link dispatcher task and, for the preferences file, from any task *)
(* that saves a preference.                                                *)
(*                                                                         *)
(* A file's bytes are the sequence of the chunks written into it; a chunk  *)
(* names the upload it belongs to and its place there, so a mixture of two *)
(* uploads or a truncated one is told apart from a whole one.              *)
(*                                                                         *)
(* The actions here are pieces: FileTxn puts them in the order the calls   *)
(* come in and says what the callers keep.                                 *)
(***************************************************************************)
EXTENDS Naturals, Sequences

CONSTANTS
    Paths,        \* the file paths in use
    RamPaths,     \* those under "R:"; the others are under "F:"
    NoPath,       \* no path: an empty string
    Absent,       \* no such file
    Emptied,      \* a directory entry whose bytes were freed (null data, length 0)
    HandleSpace,  \* the number of values of a handle: 2^32 in the firmware
    FlashFaults,  \* may a flash write, fopen or rename fail?
    RamOom        \* may the allocation of a RAM file fail?

ASSUME StoreAssumption ==
    /\ RamPaths \subseteq Paths
    /\ NoPath \notin Paths
    /\ HandleSpace \in Nat \ {0, 1}
    /\ FlashFaults \in BOOLEAN
    /\ RamOom \in BOOLEAN

VARIABLES
    file,     \* what a reader of each path gets
    tmp,      \* littlefs files named <path>.tmp.<handle>
    txn,      \* g_txn of each filesystem
    next,     \* g_next_handle of each filesystem
    mounted   \* has FlashFs::begin run since the boot?

storeVars == <<file, tmp, txn, next, mounted>>

Drives == {"F", "R"}
Handles == 0 .. HandleSpace - 1
DriveOf(p) == IF p \in RamPaths THEN "R" ELSE "F"

Chunk == [save : Nat, ix : Nat]
Data == Seq(Chunk)

ASSUME ContentAssumption == Absent \notin Data /\ Emptied \notin Data

\* fp: is the stream of FlashFs open? (RamFs has none)
NoTxn == [h |-> 0, path |-> NoPath, data |-> <<>>, fp |-> FALSE]
NewTxn(p, h) == [h |-> h, path |-> p, data |-> <<>>, fp |-> TRUE]
Txn == [h : Handles, path : Paths \cup {NoPath}, data : Data, fp : BOOLEAN]

StoreTypeOK ==
    /\ file \in [Paths -> Data \cup {Absent, Emptied}]
    /\ tmp \subseteq Paths \X Handles
    /\ txn \in [Drives -> Txn]
    /\ next \in [Drives -> Handles]
    /\ mounted \in BOOLEAN

StoreInit ==
    /\ file = [p \in Paths |-> Absent]
    /\ tmp = {}
    /\ txn = [d \in Drives |-> NoTxn]
    /\ next = [d \in Drives |-> 0]
    /\ mounted = FALSE

-----------------------------------------------------------------------------
(* openWrite, up to the allocation of the handle.  Before littlefs is       *)
(* mounted ensure_parents fails.                                            *)
CanOpen(p) ==
    /\ txn[DriveOf(p)].h = 0
    /\ DriveOf(p) = "F" => mounted

(* Mutant: the counter is wider than the handle.                             *)
NextHandleNeverWraps(d) == next[d] + 1

NextHandle(d) == IF (next[d] + 1) % HandleSpace = 0 THEN 1 ELSE next[d] + 1

AllocHandle(p) ==
    /\ next' = [next EXCEPT ![DriveOf(p)] = NextHandle(DriveOf(p))]
    /\ UNCHANGED <<file, tmp, txn, mounted>>

(* Mutant: fopen opens the destination, and empties it, for writing.         *)
InstallInPlace(p, h) ==
    /\ txn' = [txn EXCEPT ![DriveOf(p)] = NewTxn(p, h)]
    /\ file' = IF DriveOf(p) = "F" THEN [file EXCEPT ![p] = <<>>] ELSE file
    /\ UNCHANGED <<tmp, next, mounted>>

(* openWrite, from fopen to the assignment of g_txn.  The test of g_txn in  *)
(* CanOpen is not repeated: whatever another task put there is overwritten. *)
Install(p, h) ==
    /\ txn' = [txn EXCEPT ![DriveOf(p)] = NewTxn(p, h)]
    /\ tmp' = IF DriveOf(p) = "F" THEN tmp \cup {<<p, h>>} ELSE tmp
    /\ UNCHANGED <<file, next, mounted>>

Owns(d, h) == h # 0 /\ txn[d].h = h

(* fwrite to a null stream panics.                                          *)
Panics(d, h) == Owns(d, h) /\ ~txn[d].fp

AppendWrite(d, h, chunk) ==
    /\ Owns(d, h) /\ txn[d].fp
    /\ txn' = [txn EXCEPT ![d].data = Append(@, chunk)]
    /\ UNCHANGED <<file, tmp, next, mounted>>

-----------------------------------------------------------------------------
(* closeWrite of a handle that owns the transaction; ok is its result.      *)
EndTxn(d) ==
    /\ txn' = [txn EXCEPT ![d] = NoTxn]
    /\ UNCHANGED <<file, tmp, next, mounted>>

(* Mutant: the destination is removed before the rename that fails.          *)
LoseCommitAndFile(d) ==
    /\ d = "F" /\ FlashFaults
    /\ file' = [file EXCEPT ![txn[d].path] = Absent]

(* A failed commit: littlefs keeps the destination when the rename fails,   *)
(* RamFs has freed the old bytes before it asks for room for the new ones.  *)
LoseCommit(d) ==
    \/ d = "F" /\ FlashFaults /\ UNCHANGED file
    \/ /\ d = "R" /\ RamOom
       /\ file' = [file EXCEPT ![txn[d].path] =
                                  IF @ = Absent THEN Absent ELSE Emptied]

(* RamFs blocks nowhere.                                                    *)
CloseRam(commit, ok) ==
    /\ txn' = [txn EXCEPT !["R"] = NoTxn]
    /\ \/ ~commit /\ ok = TRUE /\ UNCHANGED file
       \/ /\ commit /\ ok = TRUE
          /\ file' = [file EXCEPT ![txn["R"].path] = txn["R"].data]
       \/ commit /\ ok = FALSE /\ LoseCommit("R")
    /\ UNCHANGED <<tmp, next, mounted>>

(* FlashFs blocks in fclose and in rename or unlink.  After fclose it reads *)
(* the paths again from g_txn: by now those of another transaction, perhaps *)
(* (one to NoPath, if it has ended), of whose bytes only those that have    *)
(* left the buffer of its stream are in the file.  Whatever g_txn holds     *)
(* after that, EndTxn("F") clears it.                                       *)
TmpOf(t) == <<t.path, t.h>>
Flushed(t, own) == {SubSeq(t.data, 1, n) : n \in IF own THEN {Len(t.data)}
                                                 ELSE 0 .. Len(t.data)}

MoveTmp(h, commit, ok) ==
    LET t == txn["F"]
    IN  /\ txn' = [txn EXCEPT !["F"].fp = FALSE]
        /\ tmp' = tmp \ {TmpOf(t)}
        /\ \/ /\ commit /\ ok = TRUE /\ TmpOf(t) \in tmp
              /\ \E data \in Flushed(t, Owns("F", h)) :
                    file' = [file EXCEPT ![t.path] = data]
           \/ commit /\ ok = FALSE /\ LoseCommit("F")
           \/ commit /\ ok = FALSE /\ TmpOf(t) \notin tmp /\ UNCHANGED file
           \/ ~commit /\ (ok \/ FlashFaults) /\ UNCHANGED file
        /\ UNCHANGED <<next, mounted>>

(* removeTree of one file; ok is its result.  Nothing is registered under   *)
(* /littlefs before the mount: opendir says ENOENT, which counts as done.   *)
RemoveTree(p, ok) ==
    /\ \/ ok = TRUE
       \/ ok = FALSE /\ DriveOf(p) = "F" /\ FlashFaults
    /\ file' = IF ok /\ (DriveOf(p) = "F" => mounted)
                 THEN [file EXCEPT ![p] = Absent] ELSE file
    /\ UNCHANGED <<tmp, txn, next, mounted>>

-----------------------------------------------------------------------------
(* A power cycle keeps what littlefs holds, temporary files included.       *)
StoreReboot ==
    /\ file' = [p \in Paths |-> IF p \in RamPaths THEN Absent ELSE file[p]]
    /\ txn' = [d \in Drives |-> NoTxn]
    /\ next' = [d \in Drives |-> 0]
    /\ mounted' = FALSE
    /\ UNCHANGED tmp

(* FlashFs::begin: mount and sweep_tmp.  No flash transaction can be open,  *)
(* since none opens before the mount.                                       *)
Mount ==
    /\ ~mounted
    /\ mounted' = TRUE
    /\ tmp' = {}
    /\ UNCHANGED <<file, txn, next>>
=============================================================================
