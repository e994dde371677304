-------------------------------- MODULE Rpc --------------------------------
(* What a caller is promised of the command channel (docs/host-api.md,      *)
(* "Channel semantics"): one command at a time; the device carries it out   *)
(* at most once, and only while its caller has not given it up; an answer   *)
(* is the answer to that command.                                           *)
EXTENDS Naturals

CONSTANTS
    Commands,
    None,      \* none of them
    Reply      \* [Commands -> answers]: what the device says to a command

VARIABLES
    call,        \* the command asked for, None when there is none
    carriedOut,  \* the command the device has taken for it, or None
    answer       \* what the last call returned, None when it raised

vars == <<call, carriedOut, answer>>

Init == call = None /\ carriedOut = None /\ answer = None

Ask(c) == call = None /\ call' = c /\ carriedOut' = None /\ answer' = None

CarryOut ==
    /\ call # None /\ carriedOut = None
    /\ carriedOut' = call
    /\ UNCHANGED <<call, answer>>

Return ==
    /\ call # None /\ carriedOut = call
    /\ call' = None /\ answer' = Reply[call]
    /\ UNCHANGED carriedOut

GiveUp == call # None /\ call' = None /\ UNCHANGED <<carriedOut, answer>>

Next == (\E c \in Commands : Ask(c)) \/ CarryOut \/ Return \/ GiveUp

Spec == Init /\ [][Next]_vars
=============================================================================
