----------------------------- MODULE MCGestures -----------------------------
(* Gestures for TLC: three corners of a rectangle of 3 by 4, whose sides and  *)
(* diagonals are whole numbers.                                             *)
EXTENDS Gestures

Corners == {<<0, 0>>, <<3, 0>>, <<0, 4>>}
MCSpan == [p \in Corners, q \in Corners |->
             CHOOSE n \in 0 .. 5 : n * n = Square(Minus(p, q))]
MCAngle == [p \in Corners, q \in Corners |->
              CASE p[2] = q[2] -> 0
                [] p[1] = q[1] /\ p[2] # q[2] -> 90
                [] (p[1] - q[1]) * (p[2] - q[2]) > 0 -> 53
                [] OTHER -> 127]
Off == [need |-> Unset, time |-> 1, more |-> Unset, moreTime |-> 1]
Once(need) == [Off EXCEPT !.need = need]
Again(need, more) == [Off EXCEPT !.need = need, !.more = more]

(* A page that drags on a hold and zooms, and one that knows every gesture  *)
(* once.                                                                    *)
Drags == [tapTime |-> 1, tapDistance |-> 3, hold |-> 1, tan |-> 148,
          swipe |-> Again(3, 3), zoom |-> Again(1, 1), twist |-> Off]
Knows == [tapTime |-> 1, tapDistance |-> 3, hold |-> Unset, tan |-> 148,
          swipe |-> Once(3), zoom |-> Once(1), twist |-> Once(50)]
Turns == [Drags EXCEPT !.zoom = Off, !.twist = Again(50, 37)]
MCTrackpads == {Drags, Knows, Turns}
=============================================================================
