------------------------------ MODULE MCFileTxn ------------------------------
(* The sets TLC gives FileTxn: one screen on flash, one image in RAM and    *)
(* the preferences file.                                                    *)
EXTENDS FileTxn

CONSTANTS screen, image, prefsFile, c1, c2, usb, uart

MCPaths == {screen, image, prefsFile}
MCRamPaths == {image}
MCHostPaths == {screen, image}
MCScreenPaths == {screen}

OneLink == [c \in Clients |-> usb]
TwoLinks == [c \in Clients |-> IF c = c1 THEN usb ELSE uart]
=============================================================================
