---------------------------- MODULE MCKeySources ----------------------------
(* Bytes and keys for KeySources: cursor keys of both forms, one with a    *)
(* modifier, Alt chords, plain bytes that also occur inside the sequences; *)
(* two physical keys, one whose meaning Shift changes and one that is a    *)
(* shortcut of the window with Ctrl and Shift.                             *)
EXTENDS KeySources

MCEscapes == {<<Esc, "[", "A">>, <<Esc, "O", "A">>, <<Esc, "[", "1", "A">>}
MCAltBytes == {"A", "1"}
MCTermKeys == MCEscapes \cup {<<Esc>>, <<"A">>, <<"[">>, <<Esc, "1">>}
MCFaces == [seven |-> <<"7", "slash">>, minus |-> <<"minus", "minus">>]
=============================================================================
