--------------------------- MODULE MCIRQDispatch ---------------------------
(***************************************************************************)
(* A small instance of IRQDispatch.tla: the timer and the keyboard, three  *)
(* nested guest handlers.                                                  *)
(***************************************************************************)
EXTENDS IRQDispatch

EachMask == {{}, {0}, {1}}
=============================================================================
