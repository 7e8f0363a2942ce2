----------------------------- MODULE KeySources -----------------------------
(***************************************************************************)
(* Keys on their way from the host to the guest's keyboard controller.     *)
(* A session reads either a terminal, whose bytes are decoded into keys as *)
(* they come (terminal_keyboard.py, class TerminalKeyDecoder), or a window,*)
(* whose key events become make and break codes (gtdisplay.py).            *)
(***************************************************************************)
EXTENDS Naturals, Sequences, FiniteSets, SequencesExt

CONSTANTS
  Escapes,     \* the byte sequences of cursor and function keys
  AltBytes,    \* second bytes of an Alt chord
  TermKeys,    \* keys typed at the terminal, as the bytes it sends
  MaxTyped,    \* keys typed in a terminal session
  ReadSize,    \* bytes of one read
  Faces,       \* physical keys: the make code without and with Shift
  Modifiers,   \* Shift, Ctrl, Alt and the locks, each its own make code
  Shortcuts,   \* keys the window keeps for itself with Ctrl and Shift
  Spans        \* time units until a held key repeats

Esc == "esc"

ASSUME EscapesAssumption ==
  \A s \in Escapes : Len(s) > 2 /\ s[1] = Esc /\ s[2] \in {"[", "O"}
(* No sequence begins another: each ends in a letter or a tilde.           *)
ASSUME ApartAssumption == \A s, t \in Escapes : IsPrefix(s, t) => s = t
ASSUME TermKeysAssumption ==
  \A k \in TermKeys : \/ Len(k) = 1 \/ k \in Escapes
                      \/ Len(k) = 2 /\ k[1] = Esc /\ k[2] \in AltBytes
ASSUME StreamsAssumption == \A s \in Escapes \cup TermKeys : s \in Seq(Range(s))
ASSUME FacesAssumption == \A k \in DOMAIN Faces : {1, 2} \subseteq DOMAIN Faces[k]
ASSUME CodesAssumption ==
  \A k, l \in DOMAIN Faces : k # l => Range(Faces[k]) \cap Range(Faces[l]) = {}
ASSUME ModifiersAssumption == \A k \in DOMAIN Faces : Range(Faces[k]) \cap Modifiers = {}
ASSUME SizesAssumption == MaxTyped \in Nat /\ ReadSize \in Nat \ {0} /\ Spans \in Nat \ {0}

VARIABLES
  source,   \* "terminal" or "window", for the whole session
  wire,     \* bytes sent by the terminal, not there yet, and bytes to read
  decoder,  \* the decoder's buffer and the age of its Escape
  typed,    \* history: the keys typed, whether one was torn by a pause
  heard,    \* the events given to the controller, as the bytes they stand for
  user,     \* keys and modifiers the user holds down, and whether the window
            \* has the focus; history: the modifiers that were down when it
            \* lost the focus and have not been released to it since
  window,   \* keys the window holds, the one that repeats and its deadline
  down      \* make codes the guest has seen without their break

vars == <<source, wire, decoder, typed, heard, user, window, down>>

-----------------------------------------------------------------------------
(* The decoder.                                                            *)

Starts == UNION {Prefixes(s) \ {s} : s \in Escapes}
Complete(buf) == {s \in Escapes : IsPrefix(s, buf)}
AltChord(buf) == Len(buf) > 1 /\ buf[2] \notin {"[", "O"} /\ buf[2] \in AltBytes

(* An Escape that may still become a key keeps its place.                  *)
\* Mutant: only a lone Escape waits for the rest of its sequence.
UndecidedLone(buf, force) == Complete(buf) = {} /\ ~force /\ Len(buf) = 1
Undecided(buf, force) == Complete(buf) = {} /\ ~force /\ buf \in Starts \cup {<<Esc>>}

(* How many bytes the next event takes: a key, an Alt chord, or one byte.  *)
Takes(buf) ==
  IF Head(buf) # Esc THEN 1
  ELSE IF Complete(buf) # {} THEN Len(CHOOSE s \in Complete(buf) : TRUE)
  ELSE IF AltChord(buf) THEN 2 ELSE 1

(* A round of the loop of _decode, and the loop.                           *)
\* Mutant: an Escape that starts no key is dropped.
RoundDropping(s, force) ==
  IF s.buf = <<>> \/ s.halt THEN s
  ELSE IF Head(s.buf) = Esc /\ Undecided(s.buf, force)
    THEN [s EXCEPT !.halt = TRUE, !.age = IF @ = "none" THEN "new" ELSE @]
    ELSE LET n == Takes(s.buf) IN
         [s EXCEPT !.buf = SubSeq(@, n + 1, Len(@)),
                   !.events = IF n = 1 /\ Head(s.buf) = Esc /\ Len(s.buf) > 1 THEN @
                              ELSE Append(@, SubSeq(s.buf, 1, n)),
                   !.age = IF Head(s.buf) = Esc THEN "none" ELSE @]
Round(s, force) ==
  IF s.buf = <<>> \/ s.halt THEN s
  ELSE IF Head(s.buf) = Esc /\ Undecided(s.buf, force)
    THEN [s EXCEPT !.halt = TRUE, !.age = IF @ = "none" THEN "new" ELSE @]
    ELSE LET n == Takes(s.buf) IN
         [s EXCEPT !.buf = SubSeq(@, n + 1, Len(@)),
                   !.events = Append(@, SubSeq(s.buf, 1, n)),
                   !.age = IF Head(s.buf) = Esc THEN "none" ELSE @]

Decode(d, force) ==
  LET after[k \in 0..Len(d.buf)] ==
        IF k = 0 THEN [buf |-> d.buf, age |-> d.age, events |-> <<>>, halt |-> FALSE]
        ELSE CHOOSE next \in {Round(s, force) : s \in {after[k - 1]}} : TRUE
  IN  after[Len(d.buf)]

Feed(d, bytes) == Decode([d EXCEPT !.buf = @ \o bytes], FALSE)

(* Flush, at every turn of the loop: an Escape older than the timeout is   *)
(* no longer the start of a key.                                           *)
\* Mutant: the timeout decides only about an Escape that is alone.
FlushLone(d) == Decode(d, d.buf = <<Esc>> /\ d.age = "old")
Flush(d) == Decode(d, d.buf # <<>> /\ Head(d.buf) = Esc /\ d.age = "old")

-----------------------------------------------------------------------------
(* A terminal session.                                                     *)

Window == UNCHANGED <<user, window, down>>
Quiet == wire.sent = <<>> /\ wire.there = <<>> /\ decoder.buf = <<>>

(* The bytes of an Escape and of a key typed before it got through may be  *)
(* those of another key: such keys are torn as well.                       *)
Type(k) ==
  /\ source = "terminal" /\ Len(typed.keys) < MaxTyped
  /\ typed' = [keys |-> Append(typed.keys, k),
                torn |-> typed.torn \/ (~Quiet /\ Last(typed.keys) = <<Esc>>)]
  /\ wire' = [wire EXCEPT !.sent = @ \o k]
  /\ UNCHANGED <<source, decoder, heard>> /\ Window

Arrive ==
  /\ source = "terminal" /\ wire.sent # <<>>
  /\ \E n \in 1..Len(wire.sent) :
       wire' = [sent |-> SubSeq(wire.sent, n + 1, Len(wire.sent)),
                there |-> wire.there \o SubSeq(wire.sent, 1, n)]
  /\ UNCHANGED <<source, decoder, typed, heard>> /\ Window

(* One turn of the loop: the bytes that are there, then the flush.         *)
Poll ==
  /\ source = "terminal" /\ (wire.there # <<>> \/ decoder.age = "old")
  /\ \E n \in {IF Len(wire.there) < ReadSize THEN Len(wire.there) ELSE ReadSize} :
     \E fed \in {Feed(decoder, SubSeq(wire.there, 1, n))} :
     \E flushed \in {Flush([buf |-> fed.buf, age |-> fed.age])} :
       /\ wire' = [wire EXCEPT !.there = SubSeq(@, n + 1, Len(@))]
       /\ decoder' = [buf |-> flushed.buf, age |-> flushed.age]
       /\ heard' = heard \o fed.events \o flushed.events
  /\ UNCHANGED <<source, typed>> /\ Window

(* More time than the decoder allows passes while an Escape waits. A key   *)
(* whose bytes are on their way is torn.                                   *)
Pause ==
  /\ source = "terminal" /\ decoder.age = "new"
  /\ decoder' = [decoder EXCEPT !.age = "old"]
  /\ typed' = [typed EXCEPT !.torn = @ \/ wire.sent # <<>> \/ wire.there # <<>>]
  /\ UNCHANGED <<source, wire, heard>> /\ Window

-----------------------------------------------------------------------------
(* A window session.                                                       *)

Terminal == UNCHANGED <<wire, decoder, typed, heard>>
Face(k) == Faces[k][IF "shift" \in user.mods THEN 2 ELSE 1]
Reserved(k) == {"ctrl", "shift"} \subseteq user.mods /\ k \in Shortcuts

Held == DOMAIN window.held
Put(held, k, make) == [l \in DOMAIN held \cup {k} |-> IF l = k THEN make ELSE held[l]]
Drop(held, k) == [l \in DOMAIN held \ {k} |-> held[l]]

(* A press: the key's make, once, and its repeat. The window's own         *)
(* shortcuts send nothing.                                                 *)
PressKey(k) ==
  /\ source = "window" /\ k \notin user.keys
  /\ user' = [user EXCEPT !.keys = @ \cup {k}]
  /\ IF user.focus /\ k \notin Held /\ ~Reserved(k)
     THEN /\ window' = [held |-> Put(window.held, k, Face(k)), repeats |-> {k}, wait |-> Spans]
          /\ down' = down \cup {Face(k)}
     ELSE UNCHANGED <<window, down>>
  /\ UNCHANGED source /\ Terminal

(* The host repeats a press, with or without a release before it: a        *)
(* release that its press follows at once is not one.                      *)
HostRepeat(k) ==
  /\ source = "window" /\ user.focus /\ k \in user.keys
  /\ IF k \in Held \/ Reserved(k) THEN UNCHANGED <<window, down>>
     ELSE /\ window' = [held |-> Put(window.held, k, Face(k)), repeats |-> {k}, wait |-> Spans]
          /\ down' = down \cup {Face(k)}
  /\ UNCHANGED <<source, user>> /\ Terminal

(* A release of the host's repeat, when its press is not yet in the queue. *)
HostRelease(k) ==
  /\ source = "window" /\ user.focus /\ k \in user.keys \cap Held
  /\ window' = [window EXCEPT !.held = Drop(@, k), !.repeats = @ \ {k}]
  /\ down' = down \ {window.held[k]}
  /\ UNCHANGED <<source, user>> /\ Terminal

(* The break of a release is that of the make that was sent.               *)
\* Mutant: the break of what the key means now.
BreakNow(k) == Face(k)
BreakOf(k) == IF k \in Held THEN window.held[k] ELSE Face(k)

ReleaseKey(k) ==
  /\ source = "window" /\ k \in user.keys
  /\ user' = [user EXCEPT !.keys = @ \ {k}]
  /\ IF user.focus
     THEN /\ window' = [window EXCEPT !.held = Drop(@, k), !.repeats = @ \ {k}]
          /\ down' = down \ {BreakOf(k)}
     ELSE UNCHANGED <<window, down>>
  /\ UNCHANGED source /\ Terminal

(* A modifier sends its codes, and enters no record of held keys.          *)
PressModifier(m) ==
  /\ source = "window"
  /\ user' = [user EXCEPT !.mods = @ \cup {m}]
  /\ down' = IF user.focus THEN down \cup {m} ELSE down
  /\ UNCHANGED <<source, window>> /\ Terminal

ReleaseModifier(m) ==
  /\ source = "window" /\ m \in user.mods
  /\ user' = [user EXCEPT !.mods = @ \ {m},
                          !.stranded = IF user.focus THEN @ \ {m} ELSE @]
  /\ down' = IF user.focus THEN down \ {m} ELSE down
  /\ UNCHANGED <<source, window>> /\ Terminal

(* The focus goes: the releases of what is held will not come. The keys in *)
(* the record are released, the modifiers are not.                         *)
FocusOut ==
  /\ source = "window" /\ user.focus
  /\ user' = [user EXCEPT !.focus = FALSE, !.stranded = @ \cup (user.mods \cap down)]
  /\ window' = [window EXCEPT !.held = <<>>, !.repeats = {}]
  /\ down' = down \ {window.held[k] : k \in Held}
  /\ UNCHANGED source /\ Terminal

FocusIn ==
  /\ source = "window" /\ ~user.focus
  /\ user' = [user EXCEPT !.focus = TRUE]
  /\ UNCHANGED <<source, window, down>> /\ Terminal

(* At every turn of the loop, one repeat of the last key at most.          *)
Typematic ==
  /\ source = "window" /\ window.repeats # {}
  /\ \E k \in window.repeats :
       IF window.wait > 0
       THEN window' = [window EXCEPT !.wait = @ - 1] /\ UNCHANGED down
       ELSE window' = [window EXCEPT !.wait = 1] /\ down' = down \cup {window.held[k]}
  /\ UNCHANGED <<source, user>> /\ Terminal

-----------------------------------------------------------------------------
Init ==
  /\ source \in {"terminal", "window"}
  /\ wire = [sent |-> <<>>, there |-> <<>>]
  /\ decoder = [buf |-> <<>>, age |-> "none"]
  /\ typed = [keys |-> <<>>, torn |-> FALSE]
  /\ heard = <<>>
  /\ user = [keys |-> {}, mods |-> {}, focus |-> TRUE, stranded |-> {}]
  /\ window = [held |-> <<>>, repeats |-> {}, wait |-> 0]
  /\ down = {}

Next ==
  \/ \E k \in TermKeys : Type(k)
  \/ Arrive \/ Poll \/ Pause
  \/ \E k \in DOMAIN Faces : PressKey(k) \/ ReleaseKey(k) \/ HostRepeat(k) \/ HostRelease(k)
  \/ \E m \in Modifiers : PressModifier(m) \/ ReleaseModifier(m)
  \/ FocusOut \/ FocusIn \/ Typematic

(* The terminal's bytes arrive, the loop turns and its clock goes on.      *)
Spec == Init /\ [][Next]_vars /\ WF_vars(Arrive) /\ WF_vars(Poll) /\ WF_vars(Pause)

-----------------------------------------------------------------------------
(* Properties.                                                             *)

(* However the bytes of the terminal are cut into reads and turns, the     *)
(* events are the keys that were typed, unless a pause longer than the     *)
(* decoder's timeout, or an Escape typed just before, tore one.            *)
KeysDecoded == ~typed.torn => IsPrefix(heard, typed.keys)

(* No byte is swallowed, none is doubled and none overtakes another, torn  *)
(* keys included.                                                          *)
NothingSwallowed ==
  FlattenSeq(heard) \o decoder.buf \o wire.there \o wire.sent = FlattenSeq(typed.keys)

(* Whatever was typed comes out: an Escape, or the start of a key that     *)
(* never gets its end, does not wait in the decoder for the next key.      *)
AllHeard == []<>Quiet

(* What the guest has seen go down and not up is held down by the user:    *)
(* neither the host's repeats, nor a key whose meaning changed while it    *)
(* was held, nor the loss of the focus leaves a key stuck. Only a modifier *)
(* that is held as the focus is lost (Alt, of Alt+Tab) stays down, until   *)
(* it is released to the window again: the loss of the focus releases the  *)
(* keys the window has a record of, and it keeps none of modifiers.        *)
NoKeyStuck ==
  \A m \in down : \/ \E k \in user.keys : m \in Range(Faces[k])
                  \/ m \in user.mods \cup user.stranded
=============================================================================
