---------------------------- MODULE MCScreenReload ----------------------------
(* home shows a page, by two references if there is a slot sq; the page      *)
(* shows an image and another WidgetRef.                                    *)
EXTENDS ScreenReload

HasSlots(f, S) == S \cap
    CASE f = "home" -> {"sp", "sq"}
      [] f = "page" -> {"sk", "si"}
      [] OTHER -> {}

SlotsInDef == [f \in Files |-> HasSlots(f, Slots)]
ConfiguredDef == [s \in Slots |-> CASE s \in {"sp", "sq"} -> "page"
                                    [] s = "sk" -> "key"
                                    [] OTHER -> "pic"]
=============================================================================
