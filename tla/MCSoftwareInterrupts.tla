------------------------ MODULE MCSoftwareInterrupts ------------------------
(* Guests for SoftwareInterrupts: DOS with a program that hooks the timer  *)
(* and the keyboard, a debugger under DOS, and a console filter.           *)
EXTENDS SoftwareInterrupts

MCInstalls == {{"dos", "key", "tick"}, {"dos", "key", "trap"}, {"dos", "tick", "putc"}}
=============================================================================
