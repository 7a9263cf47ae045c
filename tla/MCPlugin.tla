------------------------------- MODULE MCPlugin -------------------------------
(* The defaults and one other configuration; one source that is switched to    *)
(* a slot and away from it.                                                    *)
EXTENDS Plugin

OneSlot == {1}

==============================================================================
