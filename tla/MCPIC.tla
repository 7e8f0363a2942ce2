------------------------------- MODULE MCPIC -------------------------------
(***************************************************************************)
(* A small instance of PIC.tla.  Three lines per chip are enough for a     *)
(* line below and one above the cascade; every control path of the class   *)
(* treats its lines alike but for their order and the cascade.             *)
(***************************************************************************)
EXTENDS PIC

\* Both direct lines of the master, two of the slave.
SomeIRQs == {0, 2, SlaveIRQ(0), SlaveIRQ(2)}

\* The shortest and the longest initialisation.
ShortAndLong ==
  {[needIcw4 |-> FALSE, single |-> TRUE], [needIcw4 |-> TRUE, single |-> FALSE]}

SomeMasterMasks == {{}, {0}, {0, 1}}
SomeSlaveMasks == {{}, {0}}
=============================================================================
