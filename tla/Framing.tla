------------------------------ MODULE Framing ------------------------------
(* The bytes of the command channel on a link that may lose some: a frame   *)
(* is MAGIC | LEN | payload | CRC, the device (main/api/host_api.cpp) and   *)
(* the client (api/_transport.py, api/client.py) each look for the magic    *)
(* and reject what the checksum does not fit.  A reply names no request.    *)
(*                                                                          *)
(* LEN is one byte here and two in the code.  A checksum fits the bytes it  *)
(* was computed over and no others.  Fields read by neither decoder are one *)
(* byte of payload or none.                                                 *)
EXTENDS Integers, Sequences, FiniteSetsExt

CONSTANTS
    Commands,      \* kinds of command
    None,
    Payload,       \* [Commands -> sequences of byte values]
    Reply,         \* [Commands -> sequences of byte values]
    Noise,         \* what a line may carry when a port opens or a device boots
    SumAs,         \* the length a checksum is taken for when read as LEN
    RxMax,         \* HOST_API_RX_MAX
    MaxFlush,      \* max_frames of _flush_stale_frames
    MaxFaults,     \* bound on the faults of a behaviour
    SlowDevice,    \* may a time-out come before the device is done?
    LenAtRisk      \* may the LEN of a reply be lost?

\* 256 is the value of no byte: it marks a checksum.
Bytes == {<<n>> : n \in 0 .. 255}
A5 == <<165>>
x5A == <<90>>
Sum(body) == <<256>> \o body
Value(b) == IF b[1] = 256 THEN SumAs ELSE b[1]
AsBytes(p) == [i \in DOMAIN p |-> <<p[i]>>]

ASSUME FramingAssumption ==
    /\ None \notin Commands
    /\ Payload \in [Commands -> Seq(0 .. 255)]
    /\ Reply \in [Commands -> Seq(0 .. 255)]
    /\ \A c, d \in Commands : c # d => Payload[c] # Payload[d]
    /\ \A c \in Commands : Len(Payload[c]) <= RxMax /\ Len(Reply[c]) <= 255
    /\ Noise \subseteq Seq(0 .. 255) /\ <<>> \in Noise
    /\ {SumAs, MaxFaults} \subseteq Nat /\ RxMax \in 0 .. 255 /\ MaxFlush \in Nat \ {0}
    /\ {SlowDevice, LenAtRisk} \subseteq BOOLEAN

VARIABLES
    up,        \* bytes on the way to the device and not yet consumed
    down,      \* bytes on the way to the host and not yet read
    dev,       \* the command the dispatcher is carrying out, or None
    proc,      \* the host program: "down", "opening", "idle", "waiting"
    hbuf,      \* _buf of its _FrameDecoder
    flushed,   \* frames dropped by _flush_stale_frames
    asked,     \* the command whose reply is awaited, or None
    got,       \* the payload the last call returned, or None
    carried,   \* history: the command the device took for the call, or None
    faulted,   \* history: whether something was lost since the last answer
    lost,      \* history: calls that raised since then; 2 stands for more
    faults     \* number of faults so far

hostVars == <<proc, hbuf, flushed, asked, got>>
history == <<carried, faulted, lost, faults>>
vars == <<up, down, dev, hostVars, history>>

-----------------------------------------------------------------------------
(* Frames.                                                                  *)

Pack(p) ==
    LET body == <<<<Len(p)>>>> \o AsBytes(p)
    IN  <<A5, x5A>> \o body \o <<Sum(body)>>

From(buf, i) == SubSeq(buf, i, Len(buf))
Magics(buf) == {i \in 1 .. Len(buf) - 1 : buf[i] = A5 /\ buf[i + 1] = x5A}

HasHeader(buf) == Len(buf) >= 3 /\ buf[1] = A5 /\ buf[2] = x5A
Length(buf) == Value(buf[3])
Whole(buf) == HasHeader(buf) /\ Len(buf) >= Length(buf) + 4
Intact(buf) == buf[Length(buf) + 4] = Sum(SubSeq(buf, 3, Length(buf) + 3))
Content(buf) == SubSeq(buf, 4, Length(buf) + 3)
AfterFrame(buf) == From(buf, Length(buf) + 5)

-----------------------------------------------------------------------------
(* The device.  It reads one frame, carries the command out, writes one     *)
(* response, and reads again.                                               *)

(* Mutant: a run of A5 disarms the scan.                                    *)
HuntedDisarmed(buf) ==
    LET single == {i \in Magics(buf) : i = 1 \/ buf[i - 1] # A5}
    IN  IF single # {} THEN From(buf, Min(single))
        ELSE IF buf # <<>> /\ buf[Len(buf)] = A5 THEN <<A5>> ELSE <<>>

\* link_sync_magic: a run of A5 keeps it armed.
Hunted(buf) ==
    IF Magics(buf) # {} THEN From(buf, Min(Magics(buf)))
    ELSE IF buf # <<>> /\ buf[Len(buf)] = A5 THEN <<A5>> ELSE <<>>

Hunt ==
    /\ dev = None /\ Hunted(up) # up
    /\ up' = Hunted(up)
    /\ UNCHANGED <<down, dev, hostVars, history>>

(* Mutant: a LEN beyond the buffer is read again and again.                 *)
OversizeStays ==
    /\ dev = None /\ HasHeader(up) /\ Length(up) > RxMax
    /\ UNCHANGED vars

Oversize ==
    /\ dev = None /\ HasHeader(up) /\ Length(up) > RxMax
    /\ up' = From(up, 4)
    /\ UNCHANGED <<down, dev, hostVars, history>>

(* Mutant: the device resumes one byte after the magic, as the client does. *)
MismatchRescans ==
    /\ dev = None /\ Whole(up) /\ Length(up) <= RxMax /\ ~Intact(up)
    /\ up' = From(up, 2)
    /\ UNCHANGED <<down, dev, hostVars, history>>

\* A frame that fails its checksum is dropped with everything it covers.
Mismatch ==
    /\ dev = None /\ Whole(up) /\ Length(up) <= RxMax /\ ~Intact(up)
    /\ up' = AfterFrame(up)
    /\ UNCHANGED <<down, dev, hostVars, history>>

Deliver(c) ==
    /\ dev = None /\ Whole(up) /\ Length(up) <= RxMax /\ Intact(up)
    /\ Content(up) = AsBytes(Payload[c])
    /\ up' = AfterFrame(up)
    /\ dev' = c
    /\ carried' = c
    /\ UNCHANGED <<down, hostVars, faulted, lost, faults>>

Respond ==
    /\ dev # None
    /\ down' = down \o Pack(Reply[dev])
    /\ dev' = None
    /\ UNCHANGED <<up, hostVars, history>>

\* The dispatcher waits for bytes.
DeviceWaits ==
    /\ dev = None /\ Hunted(up) = up
    /\ HasHeader(up) => Length(up) <= RxMax /\ ~Whole(up)

Device == Hunt \/ Oversize \/ Mismatch \/ Respond \/ \E c \in Commands : Deliver(c)

-----------------------------------------------------------------------------
(* The client.                                                              *)

(* Mutant: the client takes the first candidate, whatever its checksum.     *)
SearchedUnchecked(buf) ==
    IF Magics(buf) # {} THEN From(buf, Min(Magics(buf))) ELSE From(buf, Max({1, Len(buf)}))

\* _FrameDecoder.next_frame: a candidate that fails its checksum costs one
\* byte, one that is not complete yet stops the search.
Rejected(buf) == {i \in Magics(buf) : Whole(From(buf, i)) /\ ~Intact(From(buf, i))}
Searched(buf) ==
    LET left == Magics(buf) \ Rejected(buf)
    IN  IF left # {} THEN From(buf, Min(left)) ELSE From(buf, Max({1, Len(buf)}))
FrameReady(buf) == Whole(Searched(buf))

Open(noise) ==
    /\ proc = "down"
    /\ proc' = "opening" /\ flushed' = 0 /\ hbuf' = <<>>
    /\ up' = up \o AsBytes(noise)
    /\ UNCHANGED <<down, dev, asked, got, history>>

\* recv_response reads a chunk while the decoder has no frame.
Read(n) ==
    /\ proc \in {"opening", "waiting"} /\ ~FrameReady(hbuf)
    /\ n \in 1 .. Len(down)
    /\ hbuf' = Searched(hbuf) \o SubSeq(down, 1, n)
    /\ down' = From(down, n + 1)
    /\ UNCHANGED <<up, dev, proc, flushed, asked, got, history>>

\* A read's time-out (40 ms at the opening, 2 s for a call): nothing comes.
NothingComes ==
    /\ ~FrameReady(hbuf) /\ down = <<>>
    /\ SlowDevice \/ DeviceWaits

\* _flush_stale_frames drops what is there, at most MaxFlush frames.
Flush ==
    /\ proc = "opening" /\ FrameReady(hbuf)
    /\ hbuf' = AfterFrame(Searched(hbuf))
    /\ flushed' = flushed + 1
    /\ proc' = IF flushed + 1 = MaxFlush THEN "idle" ELSE "opening"
    /\ asked' = IF flushed + 1 = MaxFlush THEN None ELSE asked
    /\ UNCHANGED <<up, down, dev, got, history>>

FlushEnds ==
    /\ proc = "opening" /\ NothingComes
    /\ proc' = "idle" /\ asked' = None
    /\ hbuf' = Searched(hbuf)
    /\ UNCHANGED <<up, down, dev, flushed, got, history>>

Send(c) ==
    /\ proc = "idle"
    /\ up' = up \o Pack(Payload[c])
    /\ proc' = "waiting" /\ asked' = c /\ got' = None
    /\ carried' = None
    /\ UNCHANGED <<down, dev, hbuf, flushed, faulted, lost, faults>>

Take ==
    /\ proc = "waiting" /\ FrameReady(hbuf)
    /\ got' = Content(Searched(hbuf))
    /\ hbuf' = AfterFrame(Searched(hbuf))
    /\ proc' = "idle" /\ asked' = None
    /\ faulted' = FALSE /\ lost' = 0
    /\ UNCHANGED <<up, down, dev, flushed, carried, faults>>

TimeOut ==
    /\ proc = "waiting" /\ NothingComes
    /\ proc' = "idle" /\ asked' = None
    /\ hbuf' = Searched(hbuf)
    /\ lost' = Min({lost + 1, 2})
    /\ UNCHANGED <<up, down, dev, flushed, got, carried, faulted, faults>>

Client ==
    \/ \E noise \in Noise : Open(noise)
    \/ \E n \in 1 .. Len(down) : Read(n)
    \/ Flush \/ FlushEnds \/ Take \/ TimeOut
    \/ \E c \in Commands : Send(c)

-----------------------------------------------------------------------------
(* Faults.                                                                  *)

Fault ==
    /\ faults < MaxFaults /\ faults' = faults + 1
    /\ faulted' = TRUE /\ UNCHANGED lost

Without(s, i) == SubSeq(s, 1, i - 1) \o From(s, i + 1)

\* The program is killed: between two steps, or while it writes a command.
Die ==
    /\ Fault /\ proc # "down"
    /\ proc' = "down" /\ hbuf' = <<>>
    /\ UNCHANGED <<up, down, dev, flushed, asked, got, carried>>

DieSending(c) ==
    /\ Fault /\ proc = "idle"
    /\ \E n \in 1 .. Len(Pack(Payload[c])) - 1 : up' = up \o SubSeq(Pack(Payload[c]), 1, n)
    /\ proc' = "down" /\ hbuf' = <<>>
    /\ UNCHANGED <<down, dev, flushed, asked, got, carried>>

\* The link drops: read_frame gives up, the client's transport is closed.
Unplug ==
    /\ Fault
    /\ up' = <<>> /\ down' = <<>>
    /\ proc' = "down" /\ hbuf' = <<>>
    /\ UNCHANGED <<dev, flushed, asked, got, carried>>

\* The device restarts behind a UART bridge, which stays open.
Reset(noise) ==
    /\ Fault
    /\ dev' = None /\ up' = <<>>
    /\ down' = down \o AsBytes(noise)
    /\ UNCHANGED <<hostVars, carried>>

\* The UARTs have no flow control: a byte is lost on its way.
SendShort(c) ==
    /\ Fault /\ proc = "idle"
    /\ \E i \in DOMAIN Pack(Payload[c]) : up' = up \o Without(Pack(Payload[c]), i)
    /\ proc' = "waiting" /\ asked' = c /\ got' = None
    /\ carried' = None
    /\ UNCHANGED <<down, dev, hbuf, flushed>>

RespondShort ==
    /\ Fault /\ dev # None
    /\ \E i \in DOMAIN Pack(Reply[dev]) :
        /\ LenAtRisk \/ i # 3
        /\ down' = down \o Without(Pack(Reply[dev]), i)
    /\ dev' = None
    /\ UNCHANGED <<up, hostVars, carried>>

\* The response does not fit the buffer it is encoded into: none is sent.
Unencodable ==
    /\ Fault /\ dev # None
    /\ dev' = None
    /\ UNCHANGED <<up, down, hostVars, carried>>

Faults ==
    \/ Die \/ Unplug \/ RespondShort \/ Unencodable
    \/ \E c \in Commands : DieSending(c) \/ SendShort(c)
    \/ \E noise \in Noise : Reset(noise)

-----------------------------------------------------------------------------
Init ==
    /\ up = <<>> /\ down = <<>> /\ dev = None
    /\ proc = "down" /\ hbuf = <<>> /\ flushed = 0 /\ asked = None /\ got = None
    /\ carried = None /\ faulted = FALSE /\ lost = 0 /\ faults = 0

Next == Device \/ Client \/ Faults

Spec == Init /\ [][Next]_vars

\* The dispatcher runs when there is something to do; the host has a program
\* that goes on asking, and a new one is started when it has died.
FairSpec == Spec /\ WF_vars(Device) /\ WF_vars(Client)

-----------------------------------------------------------------------------
\* What the proofs ask of the constants: a time-out comes when the device is
\* done, and the frames on the line to the host can be told from what is between
\* them: no reply holds a second magic, nor one that lost a byte (its LEN is not
\* lost), and no noise holds one or could end one.
Unmistakable ==
    /\ ~SlowDevice /\ ~LenAtRisk
    /\ \A c \in Commands :
          /\ Magics(Pack(Reply[c])) \subseteq {1}
          /\ \A i \in 1 .. 2 : Magics(Without(Pack(Reply[c]), i)) = {}
          /\ \A i \in 4 .. Len(Pack(Reply[c])) : Magics(Without(Pack(Reply[c]), i)) \subseteq {1}
    /\ \A n \in Noise : Magics(AsBytes(n)) = {} /\ (n # <<>> => n[1] # 90)

Sent == UNION {{Pack(Payload[c])[i] : i \in DOMAIN Pack(Payload[c])} : c \in Commands}
Answered == UNION {{Pack(Reply[c])[i] : i \in DOMAIN Pack(Reply[c])} : c \in Commands}
Noisy == UNION {{AsBytes(n)[i] : i \in DOMAIN n} : n \in Noise}

(* The types; a stuck frame never holds more than the longest one there is. *)
TypeOK ==
    /\ up \in Seq(Sent \cup Noisy)
    /\ down \in Seq(Answered \cup Noisy) /\ hbuf \in Seq(Answered \cup Noisy)
    /\ dev \in Commands \cup {None}
    /\ proc \in {"down", "opening", "idle", "waiting"}
    /\ flushed \in 0 .. MaxFlush
    /\ asked \in Commands \cup {None}
    /\ got \in {None} \cup {AsBytes(Reply[c]) : c \in Commands}
    /\ carried \in Commands \cup {None} /\ faulted \in BOOLEAN /\ lost \in 0 .. 2
    /\ faults \in 0 .. MaxFaults

\* The history variables and the state as a caller sees them.
R == INSTANCE Rpc WITH call <- asked, carriedOut <- carried, answer <- got,
                       Reply <- [c \in Commands |-> AsBytes(Reply[c])]

(* However many bytes were lost and programs killed, the channel is a       *)
(* sequence of calls: a command cut short or given up is not carried out    *)
(* later, and a reply left over is not taken for another call's.            *)
ImplementsRpc == R!Spec

(* A call fails only when something was lost since the last that did not:   *)
(* an answer means that both ends are in step again.                        *)
NothingLostUnprovoked == [][TimeOut => faulted]_vars

(* A caller that goes on asking is answered again and again, whatever a cut *)
(* frame made the device wait for.                                          *)
GetsThrough == []<>(got # None)

-----------------------------------------------------------------------------
(* What the documents say and the code does not do.                         *)

(* docs/host-api.md, "Wire framing": the magic lets a reader "re-align to a *)
(* frame boundary after garbage".  The client does, but late: when a LEN    *)
(* was lost it waits for bytes, and what it finds when they have come are   *)
(* the replies of calls that have raised, which it gives to later ones.     *)
AnswersMatch ==
    [][\A c \in Commands : (Take /\ asked = c) => got' = AsBytes(Reply[c])]_vars

(* docs/design.md, "Resync algorithm": no more is lost "than the very first *)
(* frame after open".  A frame cut after its LEN makes the device wait for  *)
(* that many bytes, of as many calls as it takes.                           *)
OnlyFirstLost == lost < 2
=============================================================================
