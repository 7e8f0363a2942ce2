------------------------ MODULE MCKeyboardController ------------------------
(***************************************************************************)
(* Small instances of KeyboardController.tla: a guest that programs the    *)
(* controller while ready-made keys arrive, and a keyboard whose scan      *)
(* codes arrive while the guest only reads.                                *)
(***************************************************************************)
EXTENDS KeyboardController

Programs == [typed |-> {}, ports |-> TRUE]
Types == [typed |-> ModCodes, ports |-> FALSE]

Both == {Programs, Types}
=============================================================================
