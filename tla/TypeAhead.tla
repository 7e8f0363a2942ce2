----------------------------- MODULE TypeAhead -----------------------------
(***************************************************************************)
(* What the keyboard promises to a program that reads it: the keys typed   *)
(* arrive once each and in the order they were typed, and a key a program  *)
(* has looked at is the one it gets when it reads next.  Where a key waits *)
(* (controller, interrupt handler, BIOS buffer) is not visible here.       *)
(***************************************************************************)
EXTENDS Sequences

CONSTANTS Keys, NoKey

VARIABLES
  pending,  \* keys typed and not yet read, oldest first
  seen,     \* what the last look showed, until the next read
  got       \* the key the last read returned

Init == pending = <<>> /\ seen = NoKey /\ got = NoKey

Type(k) == pending' = Append(pending, k) /\ UNCHANGED <<seen, got>>

\* A look may come too early to show a key that is on its way, and then it
\* shows none; it never shows another key than the next.
Look ==
  /\ \/ seen' = NoKey
     \/ pending # <<>> /\ seen' = Head(pending)
  /\ UNCHANGED <<pending, got>>

Read ==
  /\ pending # <<>>
  /\ got' = Head(pending)
  /\ pending' = Tail(pending)
  /\ seen' = NoKey

Next == (\E k \in Keys : Type(k)) \/ Look \/ Read

Spec == Init /\ [][Next]_<<pending, seen, got>>
=============================================================================
