---------------------------- MODULE MCHidOutput ----------------------------
(* HidOutput with the trackpad page of the application (drag and drop on a  *)
(* hold), a key macro and a scroll that zooms.                              *)
EXTENDS HidOutput

Key == {"key"}
Left == {"left"}

MCControls == {"key", "left", "ctrl"}
MCMacros == {KeyTap(Key)}
MCOnTap == [n \in 1 .. MaxFingers |-> IF n = 1 THEN Click(Left) ELSE <<>>]
MCOnHold == <<Buttons(Left)>>
MCOnHoldRelease == <<Buttons({})>>
MCOnMove == {<<Pointer>>}
MCOnTwoFingers == {Zoom({"ctrl"})}
=============================================================================
