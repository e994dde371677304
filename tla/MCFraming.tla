------------------------------ MODULE MCFraming ------------------------------
(* Two commands, one of which reads as a length that fits when the byte     *)
(* before it is lost, and one as a length that does not.                    *)
EXTENDS Framing

MCPayload == [c \in Commands |-> IF c = 1 THEN <<9>> ELSE <<7, 2>>]
MCReply == [c \in Commands |-> IF c = 1 THEN <<9>> ELSE <<0, 8>>]
MCNoise == {<<>>, <<1>>, <<165>>}

(* These are constants the theorems are about.                              *)
ASSUME MCUnmistakable == ~SlowDevice /\ ~LenAtRisk => Unmistakable
=============================================================================
