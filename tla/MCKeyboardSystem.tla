-------------------------- MODULE MCKeyboardSystem --------------------------
(***************************************************************************)
(* Small instances of KeyboardSystem.tla.                                  *)
(***************************************************************************)
EXTENDS KeyboardSystem

Terminal == [gtk |-> FALSE, paste |-> FALSE, driver |-> FALSE]
Window == [gtk |-> TRUE, paste |-> TRUE, driver |-> FALSE]
WindowWithDriver == [gtk |-> TRUE, paste |-> FALSE, driver |-> TRUE]

OrderlyModes == {Terminal, Window, WindowWithDriver}
=============================================================================
