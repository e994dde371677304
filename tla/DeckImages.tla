----------------------------- MODULE DeckImages -----------------------------
(***************************************************************************)
(* The pictures of a StreamDeck-like grid of keys: TouchyDeck on its       *)
(* ImageCache, and the device they command.                                *)
(*                                                                         *)
(*   program --set_key_image, reset--> ImageCache --delete, save--> T:     *)
(*                     |                                                   *)
(*                     +-------------save, show, set slot-----> the page   *)
(*   read thread ----pressed or released-----> _pressed_keys               *)
(*                                                                         *)
(* What a command changes is known to the program by its answer alone: a   *)
(* command may raise before it has had its effect or after.  A picture     *)
(* stands for its bytes, for their hash and for the path made of it.       *)
(***************************************************************************)
EXTENDS Naturals, Sequences, FiniteSets, SequencesExt

CONSTANTS
    Keys,
    Images,      \* pictures the program paints, and BLANK_BIN
    Blank,       \* BLANK_BIN
    None,        \* no picture
    Capacity,    \* MAX_CACHED_IMAGES
    MaxFaults,   \* bound: commands that raise, in all sessions
    MaxSessions, \* bound: programs killed and devices restarted
    OnePage      \* the grid is the only page: the user cannot leave it

ASSUME DeckImagesAssumption ==
    /\ Blank \in Images /\ None \notin Images
    /\ Keys # {} /\ IsFiniteSet(Images)
    /\ Capacity \in Nat \ {0} /\ Cardinality(Images) > Capacity
    /\ {MaxFaults, MaxSessions} \subseteq Nat
    /\ OnePage \in BOOLEAN

VARIABLES
    files,    \* device: the pictures in T:host/icache/
    page,     \* device: the blank path in the file of the grid's page
    front,    \* device: is the grid the page that shows?
    shown,    \* device: the picture of each slot of the grid, when it shows
    entries,  \* _entries, the least recently used first
    wiped,    \* _initialized
    blank,    \* _blank_path
    pushed,   \* _page_pushed
    pressed,  \* _pressed_keys
    last,     \* _last_slot_path
    call,     \* the call the program is in
    faults, sessions,
    asked,    \* history: the pictures asked for since each was last obtained
    leaked,   \* history: pictures whose fate on the device is not known
    doubt     \* history: slots the device may have changed unnoticed

device == <<files, page, front, shown>>
cache == <<entries, wiped>>
deck == <<blank, pushed, pressed, last>>
history == <<asked, leaked, doubt>>
bounds == <<faults, sessions>>
vars == <<device, cache, deck, call, bounds, history>>

MaybeImage == Images \cup {None}
Slots == Keys \X BOOLEAN          \* a key, and whether it is held
NoSlots == [s \in Slots |-> None]
Resident == Range(entries)

(* op: set_key_image or reset; seeding: the picture being cached is Blank.  *)
Calls == [op : {"none", "paint", "reset"}, key : Keys, image : Images,
          seeding : BOOLEAN, held : BOOLEAN,
          at : {"idle", "lookup", "wipe", "evict", "upload", "page", "show",
                "choose", "slot"}]
NoCall == [op |-> "none", key |-> CHOOSE k \in Keys : TRUE, image |-> Blank,
           seeding |-> FALSE, held |-> FALSE, at |-> "idle"]

TypeOK ==
    /\ files \subseteq Images /\ page \in MaybeImage
    /\ front \in BOOLEAN /\ shown \in [Slots -> MaybeImage]
    /\ entries \in Seq(Images) /\ wiped \in BOOLEAN
    /\ blank \in MaybeImage /\ pushed \in BOOLEAN
    /\ pressed \subseteq Keys /\ last \in [Slots -> MaybeImage]
    /\ call \in Calls
    /\ faults \in 0 .. MaxFaults /\ sessions \in 0 .. MaxSessions
    /\ asked \in [Images -> SUBSET Images] /\ leaked \subseteq Images
    /\ doubt \subseteq Slots

-----------------------------------------------------------------------------
(* A command ends in one of three ways, and raises in the last two.         *)
Outcomes == {"done", "lost", "late"}
Happens(outcome) == outcome \in {"done", "late"}
Raises(outcome) == outcome # "done"

Command(outcome) ==
    /\ Raises(outcome) => faults < MaxFaults
    /\ faults' = faults + (IF Raises(outcome) THEN 1 ELSE 0)
    /\ UNCHANGED sessions

GoTo(place) == call' = [call EXCEPT !.at = place]
Leave == call' = NoCall
Want == IF call.seeding THEN Blank ELSE call.image

(* Mutant: the two slots of a key are one.                                  *)
BuiltByKey(b) == [k \in Keys |-> b]
(* The page as it is built from its file.                                   *)
Built(b) == [s \in Slots |-> IF s[2] THEN None ELSE b]

-----------------------------------------------------------------------------
(* The program's calls.  set_key_image pushes the page the first time, and  *)
(* _push_page caches the blank picture the first time.                      *)

Seed(op, k, image) ==
    IF blank = None
    THEN [op |-> op, key |-> k, image |-> image, seeding |-> TRUE,
          held |-> FALSE, at |-> "lookup"]
    ELSE [op |-> op, key |-> k, image |-> image, seeding |-> FALSE,
          held |-> FALSE, at |-> "page"]

SetKeyImage(k, image) ==
    /\ call.at = "idle"
    /\ call' = IF pushed
               THEN [op |-> "paint", key |-> k, image |-> image,
                     seeding |-> FALSE, held |-> FALSE, at |-> "lookup"]
               ELSE Seed("paint", k, image)
    /\ UNCHANGED <<device, cache, deck, bounds, history>>

Reset ==
    /\ call.at = "idle"
    /\ call' = Seed("reset", NoCall.key, Blank)
    /\ UNCHANGED <<device, cache, deck, bounds, history>>

(* set_cached_image returns its picture.                                    *)
Obtained ==
    /\ asked' = [asked EXCEPT ![Want] = {}]
    /\ blank' = IF call.seeding THEN Blank ELSE blank
    /\ GoTo(IF call.seeding THEN "page" ELSE "choose")
    /\ UNCHANGED <<pushed, pressed, last>>

Requested == [i \in Images |-> IF i = Want THEN asked[i] ELSE asked[i] \cup {Want}]

Place(seq, i) == CHOOSE n \in DOMAIN seq : seq[n] = i
Touched(seq, i) == Append(RemoveAt(seq, Place(seq, i)), i)

Hit ==
    /\ call.at = "lookup" /\ wiped /\ Want \in Resident
    /\ entries' = Touched(entries, Want)
    /\ asked' = [Requested EXCEPT ![Want] = {}]
    /\ blank' = IF call.seeding THEN Blank ELSE blank
    /\ GoTo(IF call.seeding THEN "page" ELSE "choose")
    /\ UNCHANGED <<device, wiped, pushed, pressed, last, bounds, leaked, doubt>>

(* Mutant: the oldest entry goes when one too many is there.                *)
FullLate == Len(entries) > Capacity
Full == Len(entries) >= Capacity

Miss ==
    /\ call.at = "lookup" /\ (wiped => Want \notin Resident)
    /\ asked' = Requested
    /\ GoTo(IF ~wiped THEN "wipe" ELSE IF Full THEN "evict" ELSE "upload")
    /\ UNCHANGED <<device, cache, deck, bounds, leaked, doubt>>

(* A delete that raises is logged and forgotten.                            *)
Wipe(outcome) ==
    /\ call.at = "wipe"
    /\ Command(outcome)
    /\ files' = IF Happens(outcome) THEN {} ELSE files
    /\ leaked' = IF Raises(outcome) THEN leaked ELSE {}
    /\ wiped' = TRUE
    /\ GoTo("upload")
    /\ UNCHANGED <<page, front, shown, entries, deck, asked, doubt>>

Evict(outcome) ==
    /\ call.at = "evict"
    /\ Command(outcome)
    /\ entries' = Tail(entries)
    /\ files' = IF Happens(outcome) THEN files \ {Head(entries)} ELSE files
    /\ leaked' = IF Raises(outcome) THEN leaked \cup {Head(entries)} ELSE leaked
    /\ GoTo("upload")
    /\ UNCHANGED <<page, front, shown, wiped, deck, asked, doubt>>

(* Mutant: the picture is entered before it is uploaded.                    *)
EnteredEarly(outcome) == TRUE
Entered(outcome) == ~Raises(outcome)

Upload(outcome) ==
    /\ call.at = "upload"
    /\ Command(outcome)
    /\ files' = IF Happens(outcome) THEN files \cup {Want} ELSE files
    /\ entries' = IF Entered(outcome) THEN Append(entries, Want) ELSE entries
    /\ IF Raises(outcome)
       THEN /\ leaked' = leaked \cup {Want}
            /\ Leave
            /\ UNCHANGED <<asked, deck>>
       ELSE leaked' = leaked \ {Want} /\ Obtained
    /\ UNCHANGED <<page, front, shown, wiped, doubt>>

-----------------------------------------------------------------------------
(* The page.  Its file, once replaced, is rebuilt where it shows.           *)

SavePage(outcome) ==
    /\ call.at = "page"
    /\ Command(outcome)
    /\ page' = IF Happens(outcome) THEN blank ELSE page
    /\ shown' = IF Happens(outcome) /\ front THEN Built(blank) ELSE shown
    /\ doubt' = Slots
    /\ IF Raises(outcome) THEN Leave ELSE GoTo("show")
    /\ UNCHANGED <<files, front, cache, deck, asked, leaked>>

Forgotten == NoSlots

ShowPage(outcome) ==
    /\ call.at = "show"
    /\ Command(outcome)
    /\ front' = (front \/ Happens(outcome))
    /\ shown' = IF Happens(outcome) THEN Built(page) ELSE shown
    /\ IF Raises(outcome)
       THEN Leave /\ UNCHANGED <<pushed, pressed, last, doubt>>
       ELSE /\ pushed' = TRUE
            /\ IF call.op = "reset"
               THEN /\ pressed' = {} /\ last' = Forgotten /\ doubt' = {}
                    /\ Leave
               ELSE /\ GoTo("lookup")
                    /\ UNCHANGED <<pressed, last, doubt>>
    /\ UNCHANGED <<files, page, cache, blank, asked, leaked>>

Chosen == <<call.key, call.key \in pressed>>

(* The slot is the held one or the other, and is left alone when it is known*)
(* to show the picture.                                                     *)
Skip ==
    /\ call.at = "choose" /\ last[Chosen] = call.image
    /\ Leave
    /\ UNCHANGED <<device, cache, deck, bounds, history>>

Choose ==
    /\ call.at = "choose" /\ last[Chosen] # call.image
    /\ call' = [call EXCEPT !.at = "slot", !.held = Chosen[2]]
    /\ UNCHANGED <<device, cache, deck, bounds, history>>

(* The device answers before it looks for the button.                       *)
SetSlot(outcome) ==
    LET s == <<call.key, call.held>>
    IN  /\ call.at = "slot"
        /\ Command(outcome)
        /\ shown' = IF Happens(outcome) /\ front
                    THEN [shown EXCEPT ![s] = call.image] ELSE shown
        /\ last' = IF Raises(outcome) THEN last ELSE [last EXCEPT ![s] = call.image]
        /\ doubt' = IF Raises(outcome) \/ ~front THEN doubt \cup {s} ELSE doubt \ {s}
        /\ Leave
        /\ UNCHANGED <<files, page, front, cache, blank, pushed, pressed, asked, leaked>>

-----------------------------------------------------------------------------
(* _read_control_states of the read thread.                                 *)
Edge(k) ==
    /\ pressed' = IF k \in pressed THEN pressed \ {k} ELSE pressed \cup {k}
    /\ UNCHANGED <<device, cache, blank, pushed, last, call, bounds, history>>

(* The user turns to another page of the chrome, or back.                   *)
TurnPage ==
    /\ ~OnePage /\ page # None
    /\ front' = ~front
    /\ shown' = IF front THEN NoSlots ELSE Built(page)
    /\ doubt' = Slots
    /\ UNCHANGED <<files, page, cache, deck, call, bounds, asked, leaked>>

(* A new TouchyDeck, on the device as it is or after its power cycle.       *)
Fresh ==
    /\ sessions < MaxSessions /\ sessions' = sessions + 1
    /\ entries' = <<>> /\ wiped' = FALSE
    /\ blank' = None /\ pushed' = FALSE
    /\ pressed' = {} /\ last' = NoSlots
    /\ call' = NoCall
    /\ asked' = [i \in Images |-> Images]
    /\ UNCHANGED faults

NewProgram ==
    /\ Fresh
    /\ leaked' = files /\ doubt' = {}
    /\ UNCHANGED device

PowerCycle ==
    /\ Fresh
    /\ files' = {} /\ front' = FALSE /\ shown' = NoSlots
    /\ leaked' = {} /\ doubt' = {}
    /\ UNCHANGED page

Init ==
    /\ files = {} /\ page = None /\ front = FALSE /\ shown = NoSlots
    /\ entries = <<>> /\ wiped = FALSE
    /\ blank = None /\ pushed = FALSE /\ pressed = {} /\ last = NoSlots
    /\ call = NoCall
    /\ faults = 0 /\ sessions = 0
    /\ asked = [i \in Images |-> Images] /\ leaked = {} /\ doubt = {}

Next ==
    \/ \E k \in Keys, image \in Images : SetKeyImage(k, image)
    \/ Reset \/ Hit \/ Miss \/ Skip \/ Choose
    \/ \E outcome \in Outcomes :
          Wipe(outcome) \/ Evict(outcome) \/ Upload(outcome)
          \/ SavePage(outcome) \/ ShowPage(outcome) \/ SetSlot(outcome)
    \/ \E k \in Keys : Edge(k)
    \/ TurnPage \/ NewProgram \/ PowerCycle

Spec == Init /\ [][Next]_vars

-----------------------------------------------------------------------------
(* A picture the cache would answer for without a word to the device is on  *)
(* the device, whichever deletes and uploads have raised.                   *)
ResidentIsOnDevice == Resident \subseteq files

(* The device has no more pictures than the cache may hold, but for those   *)
(* whose delete or upload raised, or that another session left.             *)
WithinCapacity == Cardinality(files \ leaked) <= Capacity

(* A picture stays until as many others have been asked for as the cache    *)
(* holds: what an animated key needs not to be uploaded again and again.    *)
KeepsRecent ==
    \A i \in Images : Cardinality(asked[i]) < Capacity => i \in Resident

(* The cache evicts when it must, and then what was asked for longest ago.  *)
EvictsTheOldest == WithinCapacity /\ KeepsRecent

(* What the deck knows of a slot, and skips a repaint for, is what the slot *)
(* shows, unless a command for it raised or the page was rebuilt unnoticed. *)
KnownIsShown == \A s \in Slots \ doubt : last[s] # None => shown[s] = last[s]

(* Both of the program's records of the device are true.                    *)
RecordsAreTrue == ResidentIsOnDevice /\ KnownIsShown

(* deck.py:402: a repaint is skipped "when that slot already shows this     *)
(* asset".                                                                  *)
SkipsOnlyShown == [][Skip /\ front => shown[Chosen] = call.image]_vars

(* deck.py:343: the blank seeded once gives every key a valid picture.  It  *)
(* may have been evicted when the page is pushed again.                     *)
BlankIsOnDevice == call.at = "show" => page \in files

(* What a key shows is on the device: not so for one that is repainted less *)
(* often than the cache evicts.                                             *)
ShownIsOnDevice == \A s \in Slots : shown[s] # None => shown[s] \in files

(* design.md:4131: the map in RAM "always matches device state".            *)
MapMatchesDevice == call.at = "idle" /\ wiped => files = Resident
=============================================================================
