-------------------------- MODULE KeySourcesProofs --------------------------
(***************************************************************************)
(* Proofs about KeySources.tla, for any physical keys and any codes, any   *)
(* sequences of the terminal and any bounds: the keys of the window come   *)
(* up, the bytes of the terminal come through, and its keys come whole.    *)
(***************************************************************************)
EXTENDS KeySources, SequenceTheorems, WellFoundedInduction, TLAPS

(* The window and the user agree: what the guest sees as down is what the  *)
(* window holds, under the code the key was pressed as, or a modifier that *)
(* the user holds or that was down as the focus was lost; the window holds *)
(* keys the user holds, and none without the focus.                        *)
Shape ==
  /\ DOMAIN window = {"held", "repeats", "wait"}
  /\ DOMAIN user = {"keys", "mods", "focus", "stranded"}
Agree ==
  /\ Held \subseteq user.keys \cap DOMAIN Faces
  /\ ~user.focus => Held = {}
  /\ \A k \in Held : window.held[k] \in Range(Faces[k])
  /\ window.repeats \subseteq Held
  /\ down \subseteq {window.held[k] : k \in Held} \cup Modifiers
  /\ \A m \in down \cap Modifiers : m \in user.stranded \/ (user.focus /\ m \in user.mods)
IInv == Shape /\ Agree

-----------------------------------------------------------------------------
\* Whatever Shift is, a key has a code of its own.
LEMMA FaceInRange == ASSUME NEW k \in DOMAIN Faces PROVE Face(k) \in Range(Faces[k])
BY FacesAssumption DEF Face, Range

\* A make that is given to the guest enters the record of held keys.
LEMMA HoldSound ==
  ASSUME IInv, NEW k \in DOMAIN Faces, k \notin Held,
         window' = [held |-> Put(window.held, k, Face(k)), repeats |-> {k}, wait |-> Spans],
         down' = down \cup {Face(k)},
         k \in user'.keys, user.keys \subseteq user'.keys, user.focus, user'.focus,
         user'.mods = user.mods, user'.stranded = user.stranded, DOMAIN user' = DOMAIN user
  PROVE  IInv'
<1>1. Shape'
  BY DEF IInv, Shape
<1>2. Held' = Held \cup {k}
  BY DEF Held, Put
<1>3. \A l \in Held : window'.held[l] = window.held[l]
  BY DEF Held, Put
<1>4. window'.held[k] = Face(k)
  BY DEF Held, Put
<1>5. \A l \in Held' : window'.held[l] \in Range(Faces[l])
  BY <1>2, <1>3, <1>4, FaceInRange DEF IInv, Agree
<1>6. down' \subseteq {window'.held[l] : l \in Held'} \cup Modifiers
  BY <1>2, <1>3, <1>4 DEF IInv, Agree
<1>7. Face(k) \notin Modifiers
  BY FaceInRange, ModifiersAssumption
<1> QED
  BY <1>1, <1>2, <1>5, <1>6, <1>7 DEF IInv, Agree

\* A break that is given to the guest is that of the code in the record.
LEMMA ReleaseSound ==
  ASSUME IInv, NEW k,
         window' = [window EXCEPT !.held = Drop(@, k), !.repeats = @ \ {k}],
         down' = down \ {BreakOf(k)},
         user.keys \ {k} \subseteq user'.keys, user'.focus = user.focus,
         user'.mods = user.mods, user'.stranded = user.stranded, DOMAIN user' = DOMAIN user
  PROVE  IInv'
<1>1. Shape'
  BY DEF IInv, Shape
<1>2. window'.held = Drop(window.held, k) /\ window'.repeats = window.repeats \ {k}
  BY DEF IInv, Shape
<1>3. Held' = Held \ {k}
  BY <1>2 DEF Held, Drop
<1>4. \A l \in Held' : window'.held[l] = window.held[l]
  BY <1>2, <1>3 DEF Held, Drop
<1>5. down' \subseteq {window'.held[l] : l \in Held'} \cup Modifiers
  <2> SUFFICES ASSUME NEW m \in down', m \notin Modifiers
               PROVE  \E l \in Held' : m = window'.held[l]
    OBVIOUS
  <2>1. PICK l \in Held : m = window.held[l]
    BY DEF IInv, Agree
  <2>2. l # k
    BY <2>1 DEF BreakOf
  <2> QED
    BY <2>1, <2>2, <1>3, <1>4
<1> QED
  BY <1>1, <1>2, <1>3, <1>4, <1>5 DEF IInv, Agree

\* Steps that leave the window alone keep the agreement while no key and no
\* modifier is released and the focus is not lost with keys held.
LEMMA UserOnly ==
  ASSUME IInv, UNCHANGED <<window, down>>, DOMAIN user' = DOMAIN user,
         Held \subseteq user'.keys, ~user'.focus => Held = {},
         user'.stranded = user.stranded,
         \A m \in user.mods : user.focus => m \in user'.mods /\ user'.focus
  PROVE  IInv'
BY DEF IInv, Shape, Agree, Held

-----------------------------------------------------------------------------
\* The invariant that NoKeyStuck needs is kept by every step.
LEMMA StepSound == ASSUME IInv, [Next]_vars PROVE IInv'
<1>0. DOMAIN user = {"keys", "mods", "focus", "stranded"}
  BY DEF IInv, Shape
<1>u. Held \subseteq user.keys /\ (~user.focus => Held = {})
  BY DEF IInv, Agree
<1>1. ASSUME NEW k \in DOMAIN Faces, PressKey(k) PROVE IInv'
  <2>1. /\ user'.keys = user.keys \cup {k} /\ user'.focus = user.focus
        /\ user'.mods = user.mods /\ user'.stranded = user.stranded /\ DOMAIN user' = DOMAIN user
    BY <1>0, <1>1 DEF PressKey
  <2>2. CASE user.focus /\ k \notin Held /\ ~Reserved(k)
    BY <1>1, <2>1, <2>2, HoldSound DEF PressKey
  <2>3. CASE ~(user.focus /\ k \notin Held /\ ~Reserved(k))
    <3>1. UNCHANGED <<window, down>>
      BY <1>1, <2>3 DEF PressKey
    <3> QED BY <2>1, <3>1, <1>u, UserOnly
  <2> QED BY <2>2, <2>3
<1>2. ASSUME NEW k \in DOMAIN Faces, ReleaseKey(k) PROVE IInv'
  <2>1. /\ user'.keys = user.keys \ {k} /\ user'.focus = user.focus
        /\ user'.mods = user.mods /\ user'.stranded = user.stranded /\ DOMAIN user' = DOMAIN user
    BY <1>0, <1>2 DEF ReleaseKey
  <2>2. CASE user.focus
    BY <1>2, <2>1, <2>2, ReleaseSound DEF ReleaseKey
  <2>3. CASE ~user.focus
    <3>1. UNCHANGED <<window, down>>
      BY <1>2, <2>3 DEF ReleaseKey
    <3> QED BY <2>1, <2>3, <3>1, <1>u, UserOnly
  <2> QED BY <2>2, <2>3
<1>3. ASSUME NEW k \in DOMAIN Faces, HostRepeat(k) PROVE IInv'
  <2>1. UNCHANGED user /\ user.focus /\ k \in user.keys
    BY <1>3 DEF HostRepeat
  <2>2. CASE k \in Held \/ Reserved(k)
    BY <1>3, <2>1, <2>2, <1>u, UserOnly DEF HostRepeat
  <2>3. CASE ~(k \in Held \/ Reserved(k))
    BY <1>3, <2>1, <2>3, HoldSound DEF HostRepeat
  <2> QED BY <2>2, <2>3
<1>4. ASSUME NEW k \in DOMAIN Faces, HostRelease(k) PROVE IInv'
  BY <1>4, ReleaseSound DEF HostRelease, BreakOf
<1>5. ASSUME NEW m \in Modifiers, PressModifier(m) \/ ReleaseModifier(m) PROVE IInv'
  <2>1. user'.keys = user.keys /\ user'.focus = user.focus /\ DOMAIN user' = DOMAIN user
    BY <1>0, <1>5 DEF PressModifier, ReleaseModifier
  <2>2. Shape' /\ UNCHANGED window
    BY <1>5, <2>1 DEF PressModifier, ReleaseModifier, IInv, Shape
  <2>3. CASE PressModifier(m)
    <3>1. user'.mods = user.mods \cup {m} /\ user'.stranded = user.stranded
      BY <1>0, <2>3 DEF PressModifier
    <3>2. down' = IF user.focus THEN down \cup {m} ELSE down
      BY <2>3 DEF PressModifier
    <3> QED BY <2>1, <2>2, <3>1, <3>2 DEF IInv, Agree, Held
  <2>4. CASE ReleaseModifier(m)
    <3>1. /\ user'.mods = user.mods \ {m}
          /\ user'.stranded = IF user.focus THEN user.stranded \ {m} ELSE user.stranded
      BY <1>0, <2>4 DEF ReleaseModifier
    <3>2. down' = IF user.focus THEN down \ {m} ELSE down
      BY <2>4 DEF ReleaseModifier
    <3> QED BY <2>1, <2>2, <3>1, <3>2 DEF IInv, Agree, Held
  <2> QED BY <1>5, <2>3, <2>4
<1>6. CASE FocusOut
  <2>1. window'.held = <<>> /\ window'.repeats = {} /\ Shape'
    BY <1>6 DEF FocusOut, IInv, Shape
  <2>2. Held' = {}
    BY <2>1 DEF Held
  <2>3. down' \subseteq down \cap Modifiers
    BY <1>6 DEF FocusOut, IInv, Agree
  <2>4. user'.stranded = user.stranded \cup (user.mods \cap down) /\ ~user'.focus
    BY <1>0, <1>6 DEF FocusOut
  <2> QED BY <2>1, <2>2, <2>3, <2>4 DEF IInv, Agree
<1>7. CASE FocusIn
  <2>1. /\ user'.keys = user.keys /\ user'.focus /\ user'.mods = user.mods
        /\ user'.stranded = user.stranded /\ DOMAIN user' = DOMAIN user
    BY <1>0, <1>7 DEF FocusIn
  <2> QED BY <2>1, <1>7, <1>u, UserOnly DEF FocusIn
<1>8. CASE Typematic
  <2>1. /\ Shape' /\ UNCHANGED user
        /\ window'.held = window.held /\ window'.repeats = window.repeats
    BY <1>8 DEF Typematic, IInv, Shape
  <2>2. down' \subseteq down \cup {window.held[k] : k \in Held}
    BY <1>8 DEF Typematic, IInv, Agree
  <2>3. {window.held[k] : k \in Held} \cap Modifiers = {}
    BY ModifiersAssumption DEF IInv, Agree
  <2> QED BY <2>1, <2>2, <2>3 DEF IInv, Agree, Held
<1>9. CASE UNCHANGED <<user, window, down>>
  BY <1>9 DEF IInv, Shape, Agree, Held
<1> QED
  <2>1. ASSUME NEW k \in TermKeys, Type(k) PROVE UNCHANGED <<user, window, down>>
    BY <2>1 DEF Type, Window
  <2>2. CASE Arrive \/ Poll \/ Pause
    BY <2>2, <1>9 DEF Arrive, Poll, Pause, Window
  <2> QED
    BY <1>1, <1>2, <1>3, <1>4, <1>5, <1>6, <1>7, <1>8, <1>9, <2>1, <2>2 DEF Next, vars

\* What the guest has seen go down and not up is held down by the user:
\* whatever the host repeats, whatever the key comes to mean while it is
\* held, and although its release is not seen without the focus; all but
\* the modifiers that were down as the focus was lost.
THEOREM KeysComeUp == Spec => []NoKeyStuck
<1>1. Init => IInv
  BY DEF Init, IInv, Shape, Agree, Held
<1>2. IInv => NoKeyStuck
  BY DEF IInv, Agree, NoKeyStuck
<1> QED
  BY <1>1, <1>2, StepSound, PTL DEF Spec

-----------------------------------------------------------------------------
(* Numbers and sequences.                                                  *)

\* A set of numbers has a least one: what induction is in the proofs below.
LEMMA LeastNumber ==
  ASSUME NEW S \in SUBSET Nat, S # {} PROVE \E x \in S : \A y \in S : x <= y
<1>1. IsWellFoundedOn({p \in Nat \X Nat : p[1] < p[2]}, Nat)
  BY NatLessThanWellFounded DEF OpToRel
<1>2. PICK x \in S : \A y \in S : ~ (<<y, x>> \in {p \in Nat \X Nat : p[1] < p[2]})
  BY <1>1, WFMin
<1>3. ASSUME NEW y \in S PROVE x <= y
  <2>1. ~ (<<y, x>> \in {p \in Nat \X Nat : p[1] < p[2]})
    BY <1>2
  <2>2. <<y, x>> \in Nat \X Nat /\ <<y, x>>[1] = y /\ <<y, x>>[2] = x
    OBVIOUS
  <2> QED BY <2>1, <2>2
<1> QED BY <1>3

\* What a terminal sends, and what comes of it.
Bytes == UNION {Range(s) : s \in Escapes \cup TermKeys}
Stream == Seq(Bytes)

\* Sequences of the terminal are made of its bytes.
LEMMA SentBytes == Escapes \cup TermKeys \subseteq Stream
<1> SUFFICES ASSUME NEW s \in Escapes \cup TermKeys PROVE s \in Stream
  OBVIOUS
<1>1. s \in Seq(Range(s)) /\ Range(s) \subseteq Bytes
  BY StreamsAssumption DEF Bytes
<1> QED BY <1>1, SeqMonotonic DEF Stream

\* Streams may be joined in any order.
LEMMA Join ==
  /\ \A s, t \in Stream : s \o t \in Stream
  /\ \A s, t, u \in Stream : (s \o t) \o u = s \o (t \o u)
  /\ <<>> \in Stream /\ \A s \in Stream : s \o <<>> = s /\ <<>> \o s = s
<1>1. \A s, t \in Stream : s \o t \in Stream
  BY ConcatProperties DEF Stream
<1>2. \A s, t, u \in Stream : (s \o t) \o u = s \o (t \o u)
  BY ConcatAssociative DEF Stream
<1>3. <<>> \in Stream /\ \A s \in Stream : s \o <<>> = s /\ <<>> \o s = s
  BY EmptySeq, ConcatEmptySeq DEF Stream
<1> QED BY <1>1, <1>2, <1>3

\* A stream that is cut in two is the one part and then the other.
LEMMA Cut ==
  ASSUME NEW s \in Stream, NEW n \in 0 .. Len(s)
  PROVE  /\ SubSeq(s, 1, n) \in Stream /\ SubSeq(s, n + 1, Len(s)) \in Stream
         /\ SubSeq(s, 1, n) \o SubSeq(s, n + 1, Len(s)) = s
         /\ Len(SubSeq(s, n + 1, Len(s))) = Len(s) - n
<1>1. Len(s) \in Nat /\ n \in Nat /\ n <= Len(s)
  BY LenProperties DEF Stream
<1>2. \A i \in 1 .. Len(s) : s[i] \in Bytes
  BY ElementOfSeq DEF Stream
<1>3. SubSeq(s, 1, n) \in Stream
  BY <1>1, <1>2, SubSeqProperties DEF Stream
<1>4. SubSeq(s, n + 1, Len(s)) \in Stream
      /\ Len(SubSeq(s, n + 1, Len(s))) = Len(s) - n
  <2>1. \A i \in n + 1 .. Len(s) : s[i] \in Bytes
    BY <1>1, <1>2
  <2>2. n + 1 \in Int /\ Len(s) \in Int
    BY <1>1
  <2>3. Len(SubSeq(s, n + 1, Len(s)))
          = IF n + 1 <= Len(s) THEN Len(s) - (n + 1) + 1 ELSE 0
    BY <2>1, <2>2, SubSeqProperties
  <2>4. SubSeq(s, n + 1, Len(s)) \in Stream
    BY <2>1, <2>2, SubSeqProperties DEF Stream
  <2> QED BY <1>1, <2>3, <2>4
<1>5. SubSeq(s, 1, n) \o SubSeq(s, n + 1, Len(s)) = SubSeq(s, 1, Len(s))
  <2>1. 1 \in 1 .. Len(s) + 1 /\ n \in 1 - 1 .. Len(s) /\ Len(s) \in n .. Len(s)
    BY <1>1
  <2> QED BY <2>1, ConcatAdjacentSubSeq DEF Stream
<1> QED BY <1>3, <1>4, <1>5, SubSeqFull DEF Stream

-----------------------------------------------------------------------------
(* Keys strung together: FlattenSeq.                                       *)

\* f is the recursion of FlattenSeq for s, up to n.
Strung(s, n, f) ==
  f = [i \in 1 .. n |-> IF i = 1 THEN s[i] ELSE f[i - 1] \o s[i]]

\* The recursion has a solution: it is built up key by key.
LEMMA StrungExists == ASSUME NEW s, NEW n \in Nat PROVE \E f : Strung(s, n, f)
<1> DEFINE Bad == {m \in Nat : \A f : ~ Strung(s, m, f)}
<1>1. SUFFICES ASSUME Bad # {} PROVE FALSE
  OBVIOUS
<1>2. PICK m \in Bad : \A k \in Bad : m <= k
  <2> Bad \in SUBSET Nat
    OBVIOUS
  <2> HIDE DEF Bad
  <2> QED BY <1>1, LeastNumber
<1>3. CASE m = 0
  <2> DEFINE f == [i \in {} |-> s[i]]
  <2>1. 1 .. 0 = {}
    OBVIOUS
  <2>2. f = [i \in 1 .. 0 |-> IF i = 1 THEN s[i] ELSE f[i - 1] \o s[i]]
    BY <2>1
  <2>3. Strung(s, 0, f)
    BY <2>2 DEF Strung
  <2> QED BY <1>2, <1>3, <2>3
<1>4. CASE m # 0
  <2>1. m \in Nat /\ m - 1 \in Nat /\ m - 1 \notin Bad
    BY <1>2, <1>4
  <2>2. PICK f : Strung(s, m - 1, f)
    BY <2>1
  <2> DEFINE g == [i \in 1 .. m |-> IF i = 1 THEN s[i] ELSE f[i - 1] \o s[i]]
  <2>3. \A i \in 1 .. m - 1 : g[i] = f[i]
    <3>1. \A i \in 1 .. m - 1 : f[i] = IF i = 1 THEN s[i] ELSE f[i - 1] \o s[i]
      BY <2>1, <2>2 DEF Strung
    <3>2. \A i \in 1 .. m - 1 : i \in 1 .. m
      BY <2>1
    <3>3. \A i \in 1 .. m : g[i] = IF i = 1 THEN s[i] ELSE f[i - 1] \o s[i]
      OBVIOUS
    <3> QED BY <3>1, <3>2, <3>3
  <2>4. g = [i \in 1 .. m |-> IF i = 1 THEN s[i] ELSE g[i - 1] \o s[i]]
    <3>1. \A i \in 1 .. m : i # 1 => i - 1 \in 1 .. m - 1
      BY <2>1
    <3>2. \A i \in 1 .. m : i # 1 => g[i - 1] = f[i - 1]
      BY <2>3, <3>1
    <3> QED BY <3>2
  <2> QED BY <1>2, <2>4 DEF Strung
<1> QED BY <1>3, <1>4

\* FlattenSeq is its recursion at the last key.
LEMMA FlatSolved ==
  ASSUME NEW s, Len(s) \in Nat, Len(s) # 0
  PROVE  \E f : Strung(s, Len(s), f) /\ FlattenSeq(s) = f[Len(s)]
<1> DEFINE f == CHOOSE g : Strung(s, Len(s), g)
<1>1. Strung(s, Len(s), f)
  BY StrungExists
<1>2. FlattenSeq(s) = f[Len(s)]
  BY DEF FlattenSeq, Strung
<1> QED BY <1>1, <1>2

\* The recursion, unfolded; its results are streams if the keys are.
Links(s, n, f) ==
  /\ f[1] = s[1] /\ \A i \in 2 .. n : f[i] = f[i - 1] \o s[i]
  /\ \A i \in 1 .. n : f[i] \in Stream

\* What solves the recursion goes its steps.
LEMMA StrungSteps ==
  ASSUME NEW s \in Seq(Stream), NEW n \in 1 .. Len(s), NEW f, Strung(s, n, f)
  PROVE  Links(s, n, f)
<1>0. Len(s) \in Nat /\ n \in Nat /\ \A i \in 1 .. n : s[i] \in Stream
  BY LenProperties, ElementOfSeq
<1>1. f[1] = s[1] /\ \A i \in 2 .. n : f[i] = f[i - 1] \o s[i]
  <2>1. 1 \in 1 .. n /\ \A i \in 2 .. n : i \in 1 .. n /\ i # 1
    BY <1>0
  <2> QED BY <2>1 DEF Strung
<1> DEFINE Bad == {i \in 1 .. n : f[i] \notin Stream}
<1>2. ASSUME Bad # {} PROVE FALSE
  <2>1. PICK m \in Bad : \A i \in Bad : m <= i
    <3> Bad \in SUBSET Nat
      OBVIOUS
    <3> HIDE DEF Bad
    <3> QED BY <1>2, LeastNumber
  <2>2. CASE m = 1
    BY <1>0, <1>1, <2>1, <2>2
  <2>3. CASE m # 1
    <3>1. m \in 2 .. n /\ m \in 1 .. n /\ m - 1 \in 1 .. n /\ m - 1 \notin Bad
      BY <1>0, <2>1, <2>3
    <3>2. f[m] = f[m - 1] \o s[m] /\ s[m] \in Stream /\ f[m - 1] \in Stream
      BY <1>0, <1>1, <3>1
    <3>3. f[m - 1] \o s[m] \in Stream
      BY <3>2, Join
    <3> QED BY <2>1, <3>2, <3>3
  <2> QED BY <2>2, <2>3
<1> QED BY <1>1, <1>2 DEF Links

\* Sequences that begin alike have recursions that begin alike.
LEMMA StrungAlike ==
  ASSUME NEW s \in Seq(Stream), NEW t \in Seq(Stream), NEW n \in 1 .. Len(s),
         NEW k \in n .. Len(t), \A i \in 1 .. n : s[i] = t[i],
         NEW f, NEW g, Strung(s, n, f), Strung(t, k, g)
  PROVE  f[n] = g[n]
<1>0. n \in Nat /\ k \in Nat /\ n <= k /\ k \in 1 .. Len(t)
  BY LenProperties
<1>1. /\ f[1] = s[1] /\ \A i \in 2 .. n : f[i] = f[i - 1] \o s[i]
      /\ g[1] = t[1] /\ \A i \in 2 .. n : g[i] = g[i - 1] \o t[i]
  <2>1. Links(s, n, f)
    BY StrungSteps
  <2>2. Links(t, k, g)
    BY <1>0, StrungSteps
  <2>3. \A i \in 2 .. n : i \in 2 .. k
    BY <1>0
  <2> QED BY <2>1, <2>2, <2>3 DEF Links
<1> DEFINE Bad == {i \in 1 .. n : f[i] # g[i]}
<1>2. ASSUME Bad # {} PROVE FALSE
  <2>1. PICK m \in Bad : \A i \in Bad : m <= i
    <3> Bad \in SUBSET Nat
      OBVIOUS
    <3> HIDE DEF Bad
    <3> QED BY <1>2, LeastNumber
  <2>2. CASE m = 1
    BY <1>0, <1>1, <2>1, <2>2
  <2>3. CASE m # 1
    <3>1. m \in 2 .. n /\ m - 1 \in 1 .. n /\ m - 1 \notin Bad
      BY <1>0, <2>1, <2>3
    <3>2. f[m - 1] = g[m - 1] /\ s[m] = t[m]
      BY <3>1
    <3> QED BY <1>1, <2>1, <3>1, <3>2
  <2> QED BY <2>2, <2>3
<1> QED BY <1>0, <1>2

\* Strung together, nothing is nothing, and a key more comes at the end.
LEMMA Flat ==
  /\ FlattenSeq(<<>>) = <<>>
  /\ \A s \in Seq(Stream) : FlattenSeq(s) \in Stream
  /\ \A s \in Seq(Stream) : \A x \in Stream :
       FlattenSeq(Append(s, x)) = FlattenSeq(s) \o x
<1>1. FlattenSeq(<<>>) = <<>>
  BY EmptySeq DEF FlattenSeq
<1>2. ASSUME NEW s \in Seq(Stream) PROVE FlattenSeq(s) \in Stream
  <2>0. Len(s) \in Nat /\ (Len(s) = 0 => s = <<>>)
    BY LenProperties, EmptySeq
  <2>1. CASE Len(s) = 0
    BY <1>1, <2>0, <2>1, Join
  <2>2. CASE Len(s) # 0
    <3>1. PICK f : Strung(s, Len(s), f) /\ FlattenSeq(s) = f[Len(s)]
      BY <2>0, <2>2, FlatSolved
    <3>2. Len(s) \in 1 .. Len(s)
      BY <2>0, <2>2
    <3>3. Links(s, Len(s), f)
      BY <3>1, <3>2, StrungSteps
    <3> QED BY <3>1, <3>2, <3>3 DEF Links
  <2> QED BY <2>1, <2>2
<1>3. ASSUME NEW s \in Seq(Stream), NEW x \in Stream
      PROVE  FlattenSeq(Append(s, x)) = FlattenSeq(s) \o x
  <2> DEFINE t == Append(s, x)
             n == Len(s)
  <2>0. /\ n \in Nat /\ Len(t) = n + 1 /\ t \in Seq(Stream)
        /\ \A i \in 1 .. n : s[i] = t[i]
        /\ t[n + 1] = x /\ (n = 0 => s = <<>>)
    BY AppendProperties, LenProperties, EmptySeq
  <2> HIDE DEF t, n
  <2>1. PICK g : Strung(t, n + 1, g) /\ FlattenSeq(t) = g[n + 1]
    BY <2>0, FlatSolved
  <2>2. n + 1 \in 1 .. Len(t)
    BY <2>0
  <2>3. /\ g[1] = t[1]
        /\ \A i \in 2 .. n + 1 : g[i] = g[i - 1] \o t[i]
    <3>1. Links(t, n + 1, g)
      BY <2>0, <2>1, <2>2, StrungSteps
    <3> QED BY <3>1 DEF Links
  <2>4. CASE n = 0
    <3>1. FlattenSeq(t) = x /\ FlattenSeq(s) = <<>>
      BY <1>1, <2>0, <2>1, <2>3, <2>4
    <3> QED BY <3>1, Join DEF t
  <2>5. CASE n # 0
    <3>1. PICK f : Strung(s, n, f) /\ FlattenSeq(s) = f[n]
      BY <2>0, <2>5, FlatSolved DEF n
    <3>2. n \in 1 .. Len(s) /\ n + 1 \in n .. Len(t)
      BY <2>0, <2>5 DEF n
    <3>3. f[n] = g[n]
      BY <2>0, <2>1, <3>1, <3>2, StrungAlike
    <3>4. n + 1 \in 2 .. n + 1 /\ (n + 1) - 1 = n
      BY <2>0, <2>5
    <3>5. g[n + 1] = g[(n + 1) - 1] \o t[n + 1]
      BY <2>3, <3>4
    <3> QED BY <2>0, <2>1, <3>1, <3>3, <3>4, <3>5 DEF t
  <2> QED BY <2>4, <2>5
<1> QED BY <1>1, <1>2, <1>3

-----------------------------------------------------------------------------
(* The decoder.                                                            *)

Ages == {"none", "new", "old"}
Decoders == [buf : Stream, age : Ages]
States == [buf : Stream, age : Ages, events : Seq(Stream), halt : BOOLEAN]

\* What the keys h and then the events and the buffer of s are, strung together.
Whole(h, s) == FlattenSeq(h \o s.events) \o s.buf

\* The next event takes something, and no more than there is.
LEMMA TakesSome ==
  ASSUME NEW buf \in Stream, buf # <<>> PROVE Takes(buf) \in 1 .. Len(buf)
<1>1. Len(buf) \in Nat \ {0}
  BY EmptySeq DEF Stream
<1>2. ASSUME Complete(buf) # {}
      PROVE  Len(CHOOSE s \in Complete(buf) : TRUE) \in 1 .. Len(buf)
  <2>1. PICK s : s = CHOOSE t \in Complete(buf) : TRUE
    OBVIOUS
  <2>2. s \in Escapes /\ Len(s) <= Len(buf)
    BY <1>2, <2>1 DEF Complete, IsPrefix
  <2>3. Len(s) \in Nat /\ Len(s) > 2
    BY <2>2, SentBytes, LenProperties, EscapesAssumption DEF Stream
  <2> QED BY <1>1, <2>1, <2>2, <2>3
<1>3. AltChord(buf) => 2 \in 1 .. Len(buf)
  BY <1>1 DEF AltChord
<1>4. 1 \in 1 .. Len(buf)
  BY <1>1
<1> QED BY <1>2, <1>3, <1>4 DEF Takes

\* An event that is added to the last ones is added to all.
LEMMA Later ==
  ASSUME NEW h \in Seq(Stream), NEW events \in Seq(Stream), NEW event \in Stream
  PROVE  /\ h \o Append(events, event) = Append(h \o events, event)
         /\ h \o events \in Seq(Stream)
<1>1. Append(events, event) = events \o <<event>>
  BY AppendIsConcat
<1>2. h \o events \in Seq(Stream)
  BY ConcatProperties
<1>3. Append(h \o events, event) = (h \o events) \o <<event>>
  BY <1>2, AppendIsConcat
<1>4. PICK one \in Seq(Stream) : one = <<event>>
  <2>1. <<event>> \in Seq(Stream)
    OBVIOUS
  <2> HIDE DEF Stream
  <2> QED BY <2>1, Zenon
<1>5. (h \o events) \o one = h \o (events \o one)
  BY ConcatAssociative
<1> QED BY <1>1, <1>2, <1>3, <1>4, <1>5

\* A round takes from the front of the buffer what it adds to the events.
LEMMA RoundKeeps ==
  ASSUME NEW s \in States, NEW force, NEW h \in Seq(Stream)
  PROVE  Round(s, force) \in States /\ Whole(h, Round(s, force)) = Whole(h, s)
<1>1. CASE s.buf = <<>> \/ s.halt
  BY <1>1 DEF Round
<1>2. CASE ~ (s.buf = <<>> \/ s.halt) /\ Head(s.buf) = Esc /\ Undecided(s.buf, force)
  <2> DEFINE age == IF s.age = "none" THEN "new" ELSE s.age
  <2>1. Round(s, force) = [s EXCEPT !.halt = TRUE, !.age = age]
    BY <1>2 DEF Round
  <2>2. age \in Ages
    BY DEF States, Ages
  <2> HIDE DEF age
  <2>3. [s EXCEPT !.halt = TRUE, !.age = age] \in States
    BY <2>2 DEF States
  <2>4. /\ [s EXCEPT !.halt = TRUE, !.age = age].buf = s.buf
        /\ [s EXCEPT !.halt = TRUE, !.age = age].events = s.events
    BY DEF States
  <2> QED BY <2>1, <2>3, <2>4 DEF Whole
<1>3. CASE ~ (s.buf = <<>> \/ s.halt) /\ ~ (Head(s.buf) = Esc /\ Undecided(s.buf, force))
  <2> DEFINE n == Takes(s.buf)
             rest == SubSeq(s.buf, n + 1, Len(s.buf))
             event == SubSeq(s.buf, 1, n)
             age == IF Head(s.buf) = Esc THEN "none" ELSE s.age
             r == [s EXCEPT !.buf = rest, !.events = Append(s.events, event), !.age = age]
  <2>1. Round(s, force) = r
    BY <1>3 DEF Round
  <2>2. s.buf \in Stream /\ s.events \in Seq(Stream) /\ age \in Ages
    BY DEF States, Ages
  <2>3. n \in 0 .. Len(s.buf)
    <3>1. n \in 1 .. Len(s.buf)
      BY <1>3, <2>2, TakesSome
    <3>2. Len(s.buf) \in Nat
      BY <2>2, LenProperties DEF Stream
    <3> QED BY <3>1, <3>2
  <2>4. rest \in Stream /\ event \in Stream /\ event \o rest = s.buf
    BY <2>2, <2>3, Cut
  <2> HIDE DEF n, rest, event, age
  <2>5. Append(s.events, event) \in Seq(Stream)
    BY <2>2, <2>4, AppendProperties
  <2>6. r \in States /\ r.buf = rest /\ r.events = Append(s.events, event)
    BY <2>2, <2>4, <2>5 DEF States
  <2>7. h \o Append(s.events, event) = Append(h \o s.events, event)
        /\ h \o s.events \in Seq(Stream)
    BY <2>2, <2>4, Later
  <2>8. FlattenSeq(h \o Append(s.events, event)) \o rest
          = (FlattenSeq(h \o s.events) \o event) \o rest
    BY <2>4, <2>7, Flat
  <2>9. FlattenSeq(h \o s.events) \in Stream
    BY <2>7, Flat
  <2>10. (FlattenSeq(h \o s.events) \o event) \o rest = FlattenSeq(h \o s.events) \o s.buf
    <3>1. PICK a \in Stream : a = FlattenSeq(h \o s.events)
      BY <2>9
    <3>2. (a \o event) \o rest = a \o (event \o rest)
      BY <2>4, Join
    <3> QED BY <2>4, <3>1, <3>2
  <2>11. Whole(h, r) = Whole(h, s)
    BY <2>6, <2>8, <2>10 DEF Whole
  <2> QED BY <2>1, <2>6, <2>11
<1> QED BY <1>1, <1>2, <1>3

-----------------------------------------------------------------------------
(* The loop of the decoder.                                                *)

\* One more round, as Decode has it.
Again(s, force) == CHOOSE next \in {Round(t, force) : t \in {s}} : TRUE

\* It is a round.
LEMMA AgainRound == \A s, force : Again(s, force) = Round(s, force)
BY DEF Again

Begin(d) == [buf |-> d.buf, age |-> d.age, events |-> <<>>, halt |-> FALSE]

\* f is the recursion of Decode, up to n rounds.
Decoded(d, force, n, f) ==
  f = [k \in 0 .. n |-> IF k = 0 THEN Begin(d) ELSE Again(f[k - 1], force)]

\* The recursion has a solution: it is built up round by round.
LEMMA DecodedExists ==
  ASSUME NEW d, NEW force, NEW n \in Nat PROVE \E f : Decoded(d, force, n, f)
<1> DEFINE Bad == {m \in Nat : \A f : ~ Decoded(d, force, m, f)}
<1>1. SUFFICES ASSUME Bad # {} PROVE FALSE
  OBVIOUS
<1>2. PICK m \in Bad : \A k \in Bad : m <= k
  <2> Bad \in SUBSET Nat
    OBVIOUS
  <2> HIDE DEF Bad
  <2> QED BY <1>1, LeastNumber
<1>3. CASE m = 0
  <2> DEFINE f == [k \in 0 .. 0 |-> Begin(d)]
  <2>1. Decoded(d, force, 0, f)
    BY DEF Decoded
  <2> QED BY <1>2, <1>3, <2>1
<1>4. CASE m # 0
  <2>1. m \in Nat /\ m - 1 \in Nat /\ m - 1 \notin Bad
    BY <1>2, <1>4
  <2>2. PICK f : Decoded(d, force, m - 1, f)
    BY <2>1
  <2> DEFINE g == [k \in 0 .. m |-> IF k = 0 THEN Begin(d) ELSE Again(f[k - 1], force)]
  <2>3. \A k \in 0 .. m - 1 : g[k] = f[k]
    <3>1. \A k \in 0 .. m - 1 : f[k] = IF k = 0 THEN Begin(d) ELSE Again(f[k - 1], force)
      BY <2>1, <2>2 DEF Decoded
    <3>2. \A k \in 0 .. m - 1 : k \in 0 .. m
      BY <2>1
    <3>3. \A k \in 0 .. m : g[k] = IF k = 0 THEN Begin(d) ELSE Again(f[k - 1], force)
      OBVIOUS
    <3> QED BY <3>1, <3>2, <3>3
  <2>4. g = [k \in 0 .. m |-> IF k = 0 THEN Begin(d) ELSE Again(g[k - 1], force)]
    <3>1. \A k \in 0 .. m : k # 0 => k - 1 \in 0 .. m - 1
      BY <2>1
    <3>2. \A k \in 0 .. m : k # 0 => g[k - 1] = f[k - 1]
      BY <2>3, <3>1
    <3> QED BY <3>2
  <2> QED BY <1>2, <2>4 DEF Decoded
<1> QED BY <1>3, <1>4

\* Decode is its recursion after as many rounds as there are bytes.
LEMMA DecodeSolved ==
  ASSUME NEW d, Len(d.buf) \in Nat, NEW force
  PROVE  \E f : Decoded(d, force, Len(d.buf), f) /\ Decode(d, force) = f[Len(d.buf)]
<1> DEFINE f == CHOOSE g : Decoded(d, force, Len(d.buf), g)
<1>1. Decoded(d, force, Len(d.buf), f)
  BY DecodedExists
<1>2. Decode(d, force) = f[Len(d.buf)]
  BY DEF Decode, Decoded, Again, Begin
<1> QED BY <1>1, <1>2

\* Decoding keeps every byte, in its place: what was heard before, the events
\* and what is left in the buffer are what was heard and what was in the buffer.
LEMMA DecodeKeeps ==
  ASSUME NEW d \in Decoders, NEW force, NEW h \in Seq(Stream)
  PROVE  /\ Decode(d, force) \in States
         /\ Whole(h, Decode(d, force)) = FlattenSeq(h) \o d.buf
<1>1. d.buf \in Stream /\ d.age \in Ages
  BY DEF Decoders
<1> DEFINE n == Len(d.buf)
<1>2. n \in Nat
  BY <1>1, LenProperties DEF Stream
<1>3. PICK f : Decoded(d, force, n, f) /\ Decode(d, force) = f[n]
  BY <1>2, DecodeSolved
<1>4. Begin(d) \in States /\ Begin(d).events = <<>> /\ Begin(d).buf = d.buf
  BY <1>1 DEF Begin, States
<1>5. Whole(h, Begin(d)) = FlattenSeq(h) \o d.buf
  BY <1>4, ConcatEmptySeq DEF Whole
<1> DEFINE Right(k) == f[k] \in States /\ Whole(h, f[k]) = FlattenSeq(h) \o d.buf
           Bad == {k \in 0 .. n : ~ Right(k)}
<1> HIDE DEF n
<1>6. ASSUME Bad # {} PROVE FALSE
  <2>1. PICK m \in Bad : \A k \in Bad : m <= k
    <3> Bad \in SUBSET Nat
      OBVIOUS
    <3> HIDE DEF Bad
    <3> QED BY <1>6, LeastNumber
  <2>2. f[m] = IF m = 0 THEN Begin(d) ELSE Again(f[m - 1], force)
    BY <1>2, <1>3, <2>1 DEF Decoded
  <2>3. CASE m = 0
    BY <1>4, <1>5, <2>1, <2>2, <2>3
  <2>4. CASE m # 0
    <3>1. m - 1 \in 0 .. n /\ m - 1 \notin Bad
      BY <1>2, <2>1, <2>4
    <3>2. Right(m - 1) /\ f[m] = Round(f[m - 1], force)
      BY <2>2, <2>4, <3>1, AgainRound
    <3>3. Right(m)
      BY <3>2, RoundKeeps
    <3> QED BY <2>1, <3>3
  <2> QED BY <2>3, <2>4
<1>7. Right(n)
  BY <1>2, <1>6
<1> QED BY <1>3, <1>7

-----------------------------------------------------------------------------
(* The bytes of a terminal session.                                        *)

StreamTypes ==
  /\ wire \in [sent : Stream, there : Stream]
  /\ decoder \in Decoders
  /\ DOMAIN typed = {"keys", "torn"} /\ typed.keys \in Seq(Stream)
  /\ heard \in Seq(Stream)

Streams == StreamTypes /\ NothingSwallowed

\* A key typed comes at the end of both.
LEMMA TypeKeeps == ASSUME Streams, NEW k \in TermKeys, Type(k) PROVE Streams'
<1>1. /\ wire.sent \in Stream /\ wire.there \in Stream /\ decoder.buf \in Stream
      /\ typed.keys \in Seq(Stream) /\ heard \in Seq(Stream) /\ k \in Stream
  BY SentBytes DEF Streams, StreamTypes, Decoders
<1>2. /\ wire' = [wire EXCEPT !.sent = @ \o k] /\ typed'.keys = Append(typed.keys, k)
      /\ DOMAIN typed' = {"keys", "torn"} /\ decoder' = decoder /\ heard' = heard
  BY DEF Type
<1>3. wire.sent \o k \in Stream /\ Append(typed.keys, k) \in Seq(Stream)
  BY <1>1, Join, AppendProperties
<1>4. wire'.sent = wire.sent \o k /\ wire'.there = wire.there
      /\ wire' \in [sent : Stream, there : Stream]
  BY <1>2, <1>3 DEF Streams, StreamTypes
<1>5. StreamTypes'
  BY <1>2, <1>3, <1>4 DEF Streams, StreamTypes
<1>6. PICK a \in Stream : a = FlattenSeq(heard) \o decoder.buf \o wire.there
  <2>1. FlattenSeq(heard) \in Stream
    BY <1>1, Flat
  <2> QED BY <1>1, <2>1, Join
<1>7. a \o (wire.sent \o k) = (a \o wire.sent) \o k
  BY <1>1, Join, ZenonT(60)
<1>8. FlattenSeq(Append(typed.keys, k)) = FlattenSeq(typed.keys) \o k
  BY <1>1, Flat
<1>9. a \o wire.sent = FlattenSeq(typed.keys)
  BY <1>6 DEF Streams, NothingSwallowed
<1>10. NothingSwallowed'
  BY <1>2, <1>4, <1>6, <1>7, <1>8, <1>9 DEF NothingSwallowed
<1> QED BY <1>5, <1>10 DEF Streams

\* Bytes that arrive pass from one stream to the other.
LEMMA ArriveKeeps == ASSUME Streams, Arrive PROVE Streams'
<1>1. /\ wire.sent \in Stream /\ wire.there \in Stream /\ decoder.buf \in Stream
      /\ heard \in Seq(Stream)
  BY DEF Streams, StreamTypes, Decoders
<1>2. PICK n \in 1 .. Len(wire.sent) :
        wire' = [sent |-> SubSeq(wire.sent, n + 1, Len(wire.sent)),
                 there |-> wire.there \o SubSeq(wire.sent, 1, n)]
  BY DEF Arrive
<1>3. UNCHANGED <<decoder, typed, heard>>
  BY DEF Arrive
<1>4. n \in 0 .. Len(wire.sent)
  BY <1>1, LenProperties DEF Stream
<1> DEFINE rest == SubSeq(wire.sent, n + 1, Len(wire.sent))
           come == SubSeq(wire.sent, 1, n)
<1>5. rest \in Stream /\ come \in Stream /\ come \o rest = wire.sent
  BY <1>1, <1>4, Cut
<1>6. wire'.sent = rest /\ wire'.there = wire.there \o come
  BY <1>2
<1> HIDE DEF rest, come
<1>7. wire.there \o come \in Stream
  BY <1>1, <1>5, Join
<1>8. wire' \in [sent : Stream, there : Stream]
  BY <1>2, <1>5, <1>7 DEF rest, come
<1>9. StreamTypes'
  BY <1>3, <1>8 DEF Streams, StreamTypes
<1>10. PICK a \in Stream : a = FlattenSeq(heard) \o decoder.buf
  BY <1>1, Flat, Join
<1>11. PICK t \in Stream : t = wire.there
  BY <1>1
<1>12. (a \o (t \o come)) \o rest = (a \o t) \o (come \o rest)
  <2>1. PICK c \in Stream : c = come
    BY <1>5
  <2>2. PICK r \in Stream : r = rest
    BY <1>5
  <2>3. PICK first \in Stream : first = a \o t
    BY Join
  <2>4. a \o (t \o c) = first \o c
    BY <2>3, Join, ZenonT(60)
  <2>5. (first \o c) \o r = first \o (c \o r)
    BY Join, ZenonT(60)
  <2> QED BY <2>1, <2>2, <2>3, <2>4, <2>5
<1>13. NothingSwallowed'
  BY <1>3, <1>5, <1>6, <1>10, <1>11, <1>12 DEF Streams, NothingSwallowed
<1> QED BY <1>9, <1>13 DEF Streams

\* A turn decodes the bytes that are there and looks at the Escape that waits.
LEMMA PollKeeps == ASSUME Streams, Poll PROVE Streams'
<1>1. /\ wire.sent \in Stream /\ wire.there \in Stream /\ decoder \in Decoders
      /\ decoder.buf \in Stream /\ heard \in Seq(Stream)
  BY DEF Streams, StreamTypes, Decoders
<1> DEFINE n == IF Len(wire.there) < ReadSize THEN Len(wire.there) ELSE ReadSize
           come == SubSeq(wire.there, 1, n)
           rest == SubSeq(wire.there, n + 1, Len(wire.there))
           fed == Feed(decoder, come)
           flushed == Flush([buf |-> fed.buf, age |-> fed.age])
<1>2. /\ wire' = [wire EXCEPT !.there = rest]
      /\ decoder' = [buf |-> flushed.buf, age |-> flushed.age]
      /\ heard' = heard \o fed.events \o flushed.events
      /\ UNCHANGED typed
  BY DEF Poll
<1>3. n \in 0 .. Len(wire.there)
  <2>1. Len(wire.there) \in Nat /\ ReadSize \in Nat
    BY <1>1, SizesAssumption, LenProperties DEF Stream
  <2> QED BY <2>1
<1> HIDE DEF n
<1>4. rest \in Stream /\ come \in Stream /\ come \o rest = wire.there
  BY <1>1, <1>3, Cut
<1> HIDE DEF come, rest
<1> DEFINE d == [decoder EXCEPT !.buf = @ \o come]
<1>5. d \in Decoders /\ d.buf = decoder.buf \o come
  <2>1. decoder.buf \o come \in Stream
    BY <1>1, <1>4, Join
  <2> QED BY <1>1, <2>1 DEF Decoders
<1>6. fed = Decode(d, FALSE)
  BY DEF Feed
<1> HIDE DEF d, fed
<1>7. fed \in States /\ Whole(heard, fed) = FlattenSeq(heard) \o d.buf
  BY <1>1, <1>5, <1>6, DecodeKeeps
<1>8. fed.events \in Seq(Stream) /\ fed.buf \in Stream /\ fed.age \in Ages
  BY <1>7 DEF States
<1> DEFINE e == [buf |-> fed.buf, age |-> fed.age]
           force == e.buf # <<>> /\ Head(e.buf) = Esc /\ e.age = "old"
           h == heard \o fed.events
<1>9. e \in Decoders /\ e.buf = fed.buf
  BY <1>8 DEF Decoders
<1>10. flushed = Decode(e, force)
  BY DEF Flush
<1>11. h \in Seq(Stream)
  BY <1>1, <1>8, ConcatProperties
<1> HIDE DEF flushed, e, force, h
<1>12. flushed \in States /\ Whole(h, flushed) = FlattenSeq(h) \o fed.buf
  BY <1>9, <1>10, <1>11, DecodeKeeps
<1>13. flushed.events \in Seq(Stream) /\ flushed.buf \in Stream /\ flushed.age \in Ages
  BY <1>12 DEF States
<1>14. /\ heard' = h \o flushed.events /\ heard' \in Seq(Stream)
       /\ decoder'.buf = flushed.buf /\ decoder' \in Decoders
  <2>1. h \o flushed.events \in Seq(Stream)
    BY <1>11, <1>13, ConcatProperties
  <2> QED BY <1>2, <1>13, <2>1 DEF h, Decoders
<1>15. wire'.there = rest /\ wire'.sent = wire.sent /\ wire' \in [sent : Stream, there : Stream]
  BY <1>2, <1>4 DEF Streams, StreamTypes
<1>16. StreamTypes'
  BY <1>2, <1>14, <1>15 DEF Streams, StreamTypes
<1>17. FlattenSeq(heard') \o decoder'.buf = FlattenSeq(heard) \o (decoder.buf \o come)
  BY <1>5, <1>7, <1>12, <1>14 DEF Whole, h
<1>18. PICK a \in Stream : a = FlattenSeq(heard)
  BY <1>1, Flat
<1>19. PICK b \in Stream : b = decoder.buf
  BY <1>1
<1>20. (a \o (b \o come)) \o rest = (a \o b) \o (come \o rest)
  <2>1. PICK c \in Stream : c = come
    BY <1>4
  <2>2. PICK r \in Stream : r = rest
    BY <1>4
  <2>3. PICK first \in Stream : first = a \o b
    BY Join
  <2>4. a \o (b \o c) = first \o c
    BY <2>3, Join
  <2>5. (first \o c) \o r = first \o (c \o r)
    BY Join
  <2> QED BY <2>1, <2>2, <2>3, <2>4, <2>5
<1>21. NothingSwallowed'
  BY <1>2, <1>4, <1>15, <1>17, <1>18, <1>19, <1>20 DEF Streams, NothingSwallowed
<1> QED BY <1>16, <1>21 DEF Streams

\* Every step keeps the bytes.
LEMMA NextStreams == ASSUME Streams, [Next]_vars PROVE Streams'
<1>1. CASE UNCHANGED <<wire, decoder, typed, heard>>
  BY <1>1 DEF Streams, StreamTypes, NothingSwallowed
<1>2. CASE Pause
  <2>1. /\ UNCHANGED <<wire, heard>> /\ decoder' = [decoder EXCEPT !.age = "old"]
        /\ typed'.keys = typed.keys /\ DOMAIN typed' = {"keys", "torn"}
    BY <1>2 DEF Pause, Streams, StreamTypes
  <2>2. decoder'.buf = decoder.buf /\ decoder' \in Decoders
    BY <2>1 DEF Streams, StreamTypes, Decoders, Ages
  <2> QED BY <2>1, <2>2 DEF Streams, StreamTypes, NothingSwallowed
<1>3. ASSUME NEW k \in DOMAIN Faces,
             PressKey(k) \/ ReleaseKey(k) \/ HostRepeat(k) \/ HostRelease(k)
      PROVE  Streams'
  BY <1>1, <1>3 DEF PressKey, ReleaseKey, HostRepeat, HostRelease, Terminal
<1>4. CASE FocusOut \/ FocusIn \/ Typematic
  BY <1>1, <1>4 DEF FocusOut, FocusIn, Typematic, Terminal
<1>5. CASE UNCHANGED vars
  BY <1>1, <1>5 DEF vars
<1>6. ASSUME NEW m \in Modifiers, PressModifier(m) \/ ReleaseModifier(m) PROVE Streams'
  BY <1>1, <1>6 DEF PressModifier, ReleaseModifier, Terminal
<1> QED BY <1>2, <1>3, <1>4, <1>5, <1>6, TypeKeeps, ArriveKeeps, PollKeeps DEF Next

\* No byte of a terminal is swallowed, doubled or overtaken, for any sequences,
\* however the bytes are cut into reads and turns, and whatever times out.
THEOREM BytesComeThrough == Spec => []NothingSwallowed
<1>1. Init => Streams
  <2> SUFFICES ASSUME Init PROVE Streams
    OBVIOUS
  <2>1. StreamTypes
    BY EmptySeq DEF Init, StreamTypes, Decoders, Ages, Stream
  <2>2. NothingSwallowed
    BY Flat, Join DEF Init, NothingSwallowed
  <2> QED BY <2>1, <2>2 DEF Streams
<1>2. Streams => NothingSwallowed
  BY DEF Streams
<1> QED BY <1>1, <1>2, NextStreams, PTL DEF Spec

-----------------------------------------------------------------------------
(* The bytes that are left are the keys that are left.                     *)

\* The beginning of a stream of keys is the beginning of their bytes.
LEMMA FlatBegins ==
  ASSUME NEW s \in Seq(Stream), NEW i \in 0 .. Len(s)
  PROVE  \E m \in Stream : FlattenSeq(s) = FlattenSeq(SubSeq(s, 1, i)) \o m
<1>1. Len(s) \in Nat /\ i \in Nat /\ i <= Len(s) /\ \A j \in 1 .. Len(s) : s[j] \in Stream
  BY LenProperties, ElementOfSeq
<1> DEFINE Upto(n) == SubSeq(s, 1, n)
<1>2. \A n \in 0 .. Len(s) : Upto(n) \in Seq(Stream) /\ Len(Upto(n)) = n
  <2> SUFFICES ASSUME NEW n \in 0 .. Len(s) PROVE Upto(n) \in Seq(Stream) /\ Len(Upto(n)) = n
    OBVIOUS
  <2>1. \A j \in 1 .. n : s[j] \in Stream
    BY <1>1
  <2> QED BY <1>1, <2>1, SubSeqProperties
<1>3. \A n \in 1 .. Len(s) : Upto(n) = Append(Upto(n - 1), s[n])
  <2> SUFFICES ASSUME NEW n \in 1 .. Len(s) PROVE Upto(n) = Append(Upto(n - 1), s[n])
    OBVIOUS
  <2>1. n \in Nat /\ n - 1 \in 0 .. Len(s) /\ n \in 0 .. Len(s)
    BY <1>1
  <2>2. \A j \in 1 .. n : Upto(n)[j] = s[j]
    BY <1>1, <2>1, SubSeqProperties
  <2> QED BY <1>1, <1>2, <2>1
<1> HIDE DEF Upto
<1> DEFINE Bad == {n \in i .. Len(s) : ~ \E m \in Stream :
                                         FlattenSeq(Upto(n)) = FlattenSeq(Upto(i)) \o m}
<1>4. ASSUME Bad # {} PROVE FALSE
  <2>1. PICK n \in Bad : \A k \in Bad : n <= k
    <3> Bad \in SUBSET Nat
      BY <1>1
    <3> HIDE DEF Bad
    <3> QED BY <1>4, LeastNumber
  <2>2. CASE n = i
    <3>1. FlattenSeq(Upto(i)) \in Stream
      BY <1>1, <1>2, Flat
    <3>2. FlattenSeq(Upto(i)) = FlattenSeq(Upto(i)) \o <<>> /\ <<>> \in Stream
      BY <3>1, Join
    <3> QED BY <2>1, <2>2, <3>2
  <2>3. CASE n # i
    <3>0. n \in i .. Len(s)
      BY <2>1
    <3>h. n \in Nat /\ n - 1 \in i .. Len(s) /\ n \in 1 .. Len(s) /\ n - 1 \in 0 .. Len(s)
      BY <1>1, <2>3, <3>0
    <3>1. n - 1 \in i .. Len(s) /\ n - 1 \notin Bad /\ n \in 1 .. Len(s) /\ n - 1 \in 0 .. Len(s)
      <4> HIDE DEF Bad
      <4> QED BY <2>1, <3>h
    <3>2. PICK m \in Stream : FlattenSeq(Upto(n - 1)) = FlattenSeq(Upto(i)) \o m
      BY <3>1
    <3>3. PICK u \in Seq(Stream) : u = Upto(n - 1)
      BY <1>2, <3>1
    <3>4. PICK x \in Stream : x = s[n]
      BY <1>1, <3>1
    <3>5. FlattenSeq(Upto(n)) = FlattenSeq(u) \o x
      <4>1. Upto(n) = Append(u, x)
        BY <1>3, <3>1, <3>3, <3>4
      <4>2. FlattenSeq(Append(u, x)) = FlattenSeq(u) \o x
        BY Flat
      <4> QED BY <4>1, <4>2
    <3>6. PICK a \in Stream : a = FlattenSeq(Upto(i))
      BY <1>1, <1>2, Flat
    <3>7. (a \o m) \o x = a \o (m \o x) /\ m \o x \in Stream
      BY Join
    <3> QED BY <2>1, <3>2, <3>3, <3>5, <3>6, <3>7
  <2> QED BY <2>2, <2>3
<1>5. \E m \in Stream : FlattenSeq(Upto(Len(s))) = FlattenSeq(Upto(i)) \o m
  BY <1>1, <1>4
<1>6. Upto(Len(s)) = s
  BY SubSeqFull DEF Upto
<1> QED BY <1>5, <1>6 DEF Upto

\* What follows the same bytes is the same.
LEMMA CancelBytes ==
  ASSUME NEW a \in Stream, NEW b \in Stream, NEW c \in Stream, a \o b = a \o c
  PROVE  b = c
BY ConcatSimplifications DEF Stream

\* The bytes b are those of the key of K after g, and what follows it.
Follows(K, g, b) == \E m \in Stream : /\ b = K[Len(g) + 1] \o m
                                      /\ Len(g) + 1 = Len(K) => m = <<>>

\* After the keys heard, the bytes are those of the next key and what follows.
LEMMA NextKey ==
  ASSUME NEW K \in Seq(Stream), NEW g \in Seq(Stream), IsPrefix(g, K),
         NEW b \in Stream, FlattenSeq(g) \o b = FlattenSeq(K)
  PROVE  /\ Len(g) \in 0 .. Len(K)
         /\ Len(g) = Len(K) => b = <<>>
         /\ Len(g) # Len(K) => Follows(K, g, b)
<1>1. /\ Len(g) \in Nat /\ Len(K) \in Nat /\ Len(g) <= Len(K)
      /\ SubSeq(g, 1, Len(g)) = SubSeq(K, 1, Len(g))
      /\ \A j \in 1 .. Len(K) : K[j] \in Stream
  BY LenProperties, ElementOfSeq DEF IsPrefix
<1>2. g = SubSeq(K, 1, Len(g))
  BY <1>1, SubSeqFull
<1>3. PICK a \in Stream : a = FlattenSeq(g)
  BY Flat
<1>4. CASE Len(g) = Len(K)
  <2>1. g = K
    BY <1>2, <1>4, SubSeqFull
  <2>2. a \o b = a \o <<>> /\ <<>> \in Stream
    BY <1>3, <2>1, Join
  <2>3. b = <<>>
    BY <2>2, CancelBytes
  <2> QED BY <1>1, <1>4, <2>3
<1>5. CASE Len(g) # Len(K)
  <2>1. Len(g) + 1 \in 0 .. Len(K) /\ Len(g) + 1 \in 1 .. Len(K)
    BY <1>1, <1>5
  <2>2. PICK x \in Stream : x = K[Len(g) + 1]
    BY <1>1, <2>1
  <2> DEFINE n == Len(g) + 1
  <2>3. SubSeq(K, 1, n) = Append(g, x)
    <3>1. \A j \in 1 .. n : K[j] \in Stream
      BY <1>1, <2>1
    <3>2. SubSeq(K, 1, n) \in Seq(Stream) /\ Len(SubSeq(K, 1, n)) = n
          /\ \A j \in 1 .. n : SubSeq(K, 1, n)[j] = K[j]
      BY <1>1, <2>1, <3>1, SubSeqProperties
    <3>3. \A j \in 1 .. Len(g) : g[j] = K[j]
      BY <1>1, <1>2, SubSeqProperties
    <3> QED BY <1>1, <2>2, <3>2, <3>3
  <2>4. PICK m \in Stream : /\ FlattenSeq(K) = FlattenSeq(SubSeq(K, 1, n)) \o m
                            /\ n = Len(K) => m = <<>>
    <3>1. CASE n = Len(K)
      <4>1. SubSeq(K, 1, n) = K
        BY <3>1, SubSeqFull
      <4>2. FlattenSeq(K) \in Stream
        BY Flat
      <4>3. FlattenSeq(K) = FlattenSeq(K) \o <<>> /\ <<>> \in Stream
        BY <4>2, Join
      <4> QED BY <4>1, <4>3
    <3>2. CASE n # Len(K)
      BY <2>1, <3>2, FlatBegins
    <3> QED BY <3>1, <3>2
  <2>5. FlattenSeq(Append(g, x)) = a \o x
    BY <1>3, Flat
  <2>6. a \o b = a \o (x \o m) /\ x \o m \in Stream
    <3>1. a \o b = (a \o x) \o m
      BY <1>3, <2>3, <2>4, <2>5
    <3>2. (a \o x) \o m = a \o (x \o m) /\ x \o m \in Stream
      BY Join
    <3> QED BY <3>1, <3>2
  <2>7. b = x \o m
    BY <2>6, CancelBytes
  <2>8. Follows(K, g, b)
    BY <2>2, <2>4, <2>7 DEF Follows
  <2> QED BY <1>1, <1>5, <2>8
<1> QED BY <1>4, <1>5

-----------------------------------------------------------------------------
(* What the decoder takes is the next key.                                 *)

(* Alt and a bracket or an O sends what cursor and function keys begin     *)
(* with: nothing but time tells such a chord from them.                    *)
ChordsApart == \A k \in TermKeys : Len(k) = 2 => k[2] \notin {"[", "O"}

\* A key is a byte, a sequence of the table, or an Alt chord.
LEMMA KeyShape ==
  ASSUME ChordsApart, NEW k \in TermKeys
  PROVE  /\ k \in Stream /\ Len(k) \in Nat \ {0}
         /\ \/ Len(k) = 1
            \/ k \in Escapes /\ Len(k) > 2 /\ k[1] = Esc /\ k[2] \in {"[", "O"}
            \/ Len(k) = 2 /\ k[1] = Esc /\ k[2] \in AltBytes /\ k[2] \notin {"[", "O"}
<1>1. k \in Stream /\ Len(k) \in Nat
  BY SentBytes, LenProperties DEF Stream
<1>2. k \in Escapes => Len(k) > 2 /\ k[1] = Esc /\ k[2] \in {"[", "O"}
  BY EscapesAssumption
<1>3. Len(k) = 1 \/ k \in Escapes \/ (Len(k) = 2 /\ k[1] = Esc /\ k[2] \in AltBytes)
  BY TermKeysAssumption
<1> QED BY <1>1, <1>2, <1>3 DEF ChordsApart

\* Streams that begin alike: byte by byte.
LEMMA PrefixBytes ==
  ASSUME NEW s \in Stream, NEW t \in Stream
  PROVE  IsPrefix(s, t) <=> Len(s) <= Len(t) /\ \A j \in 1 .. Len(s) : s[j] = t[j]
<1>1. Len(s) \in Nat /\ Len(t) \in Nat
      /\ (\A j \in 1 .. Len(s) : s[j] \in Bytes) /\ (\A j \in 1 .. Len(t) : t[j] \in Bytes)
  BY LenProperties, ElementOfSeq DEF Stream
<1>2. SubSeq(s, 1, Len(s)) = s
  BY SubSeqFull DEF Stream
<1>3. CASE ~ Len(s) <= Len(t)
  BY <1>3 DEF IsPrefix
<1>4. CASE Len(s) <= Len(t)
  <2>1. \A j \in 1 .. Len(s) : t[j] \in Bytes
    BY <1>1, <1>4
  <2>2. SubSeq(t, 1, Len(s)) \in Stream /\ Len(SubSeq(t, 1, Len(s))) = Len(s)
        /\ \A j \in 1 .. Len(s) : SubSeq(t, 1, Len(s))[j] = t[j]
    BY <1>1, <2>1, SubSeqProperties DEF Stream
  <2>3. s = SubSeq(t, 1, Len(s)) <=> \A j \in 1 .. Len(s) : s[j] = SubSeq(t, 1, Len(s))[j]
    BY <1>1, <2>2, SeqEqual DEF Stream
  <2> QED BY <1>2, <1>4, <2>2, <2>3 DEF IsPrefix
<1> QED BY <1>3, <1>4

\* Of two ways to cut the same bytes the first parts agree, and where one is
\* as long as the other, they are one.
LEMMA Overlap ==
  ASSUME NEW a \in Stream, NEW b \in Stream, NEW c \in Stream, NEW d \in Stream,
         a \o b = c \o d
  PROVE  /\ \A j \in 1 .. Len(a) : j <= Len(c) => a[j] = c[j]
         /\ Len(a) + Len(b) = Len(c) + Len(d)
         /\ Len(c) <= Len(a) => SubSeq(a, 1, Len(c)) = c
<1>1. /\ Len(a) \in Nat /\ Len(b) \in Nat /\ Len(c) \in Nat /\ Len(d) \in Nat
      /\ \A j \in 1 .. Len(a) : a[j] \in Bytes
  BY LenProperties, ElementOfSeq DEF Stream
<1>2. /\ Len(a \o b) = Len(a) + Len(b) /\ Len(c \o d) = Len(c) + Len(d)
      /\ \A j \in 1 .. Len(a) : (a \o b)[j] = a[j]
      /\ \A j \in 1 .. Len(c) : (c \o d)[j] = c[j]
  <2>1. Len(a \o b) = Len(a) + Len(b) /\ Len(c \o d) = Len(c) + Len(d)
    BY ConcatProperties DEF Stream
  <2>2. \A j \in 1 .. Len(a) : j \in 1 .. Len(a) + Len(b) /\ j <= Len(a)
    BY <1>1
  <2>3. \A j \in 1 .. Len(c) : j \in 1 .. Len(c) + Len(d) /\ j <= Len(c)
    BY <1>1
  <2>4. \A j \in 1 .. Len(a) + Len(b) :
           (a \o b)[j] = IF j <= Len(a) THEN a[j] ELSE b[j - Len(a)]
    BY ConcatProperties DEF Stream
  <2>5. \A j \in 1 .. Len(c) + Len(d) :
           (c \o d)[j] = IF j <= Len(c) THEN c[j] ELSE d[j - Len(c)]
    BY ConcatProperties DEF Stream
  <2> QED BY <2>1, <2>2, <2>3, <2>4, <2>5
<1>3. \A j \in 1 .. Len(a) : j <= Len(c) => a[j] = c[j]
  <2>1. \A j \in 1 .. Len(a) : j <= Len(c) => j \in 1 .. Len(c)
    BY <1>1
  <2> QED BY <1>2, <2>1
<1>4. ASSUME Len(c) <= Len(a) PROVE SubSeq(a, 1, Len(c)) = c
  <2>1. \A j \in 1 .. Len(c) : j \in 1 .. Len(a) /\ j <= Len(c) /\ a[j] \in Bytes
    BY <1>1, <1>4
  <2>2. SubSeq(a, 1, Len(c)) \in Stream /\ Len(SubSeq(a, 1, Len(c))) = Len(c)
        /\ \A j \in 1 .. Len(c) : SubSeq(a, 1, Len(c))[j] = a[j]
    BY <1>1, <2>1, SubSeqProperties DEF Stream
  <2>3. \A j \in 1 .. Len(c) : SubSeq(a, 1, Len(c))[j] = c[j]
    BY <1>3, <2>1, <2>2
  <2> QED BY <2>2, <2>3, SeqEqual DEF Stream
<1> QED BY <1>1, <1>2, <1>3, <1>4

\* Sequences that complete the same buffer are one.
LEMMA OneComplete ==
  ASSUME NEW buf \in Stream, NEW s \in Complete(buf), NEW e \in Escapes,
         \A j \in 1 .. Len(buf) : j <= Len(e) => buf[j] = e[j]
  PROVE  s = e
<1>1. /\ s \in Escapes /\ IsPrefix(s, buf)
      /\ s \in Stream /\ e \in Stream
  BY SentBytes DEF Complete
<1>2. Len(s) \in Nat /\ Len(e) \in Nat /\ Len(buf) \in Nat
  BY <1>1, LenProperties DEF Stream
<1>3. Len(s) <= Len(buf) /\ \A j \in 1 .. Len(s) : s[j] = buf[j]
  BY <1>1, PrefixBytes
<1>4. \A j \in 1 .. Len(s) : j <= Len(e) => s[j] = e[j]
  BY <1>2, <1>3
<1>5. CASE Len(s) <= Len(e)
  <2>1. \A j \in 1 .. Len(s) : s[j] = e[j]
    BY <1>2, <1>4, <1>5
  <2>2. IsPrefix(s, e)
    BY <1>1, <1>5, <2>1, PrefixBytes
  <2> QED BY <1>1, <2>2, ApartAssumption
<1>6. CASE Len(e) <= Len(s)
  <2>1. \A j \in 1 .. Len(e) : e[j] = s[j]
    BY <1>2, <1>4, <1>6
  <2>2. IsPrefix(e, s)
    BY <1>1, <1>6, <2>1, PrefixBytes
  <2> QED BY <1>1, <2>2, ApartAssumption
<1> QED BY <1>2, <1>5, <1>6

\* A buffer without the second byte of a sequence completes none.
LEMMA NoneComplete ==
  ASSUME NEW buf \in Stream, Len(buf) < 2 \/ buf[2] \notin {"[", "O"}
  PROVE  Complete(buf) = {}
<1> SUFFICES ASSUME NEW s \in Complete(buf) PROVE FALSE
  OBVIOUS
<1>1. /\ s \in Escapes /\ IsPrefix(s, buf) /\ s \in Stream
  BY SentBytes DEF Complete
<1>2. Len(s) > 2 /\ s[2] \in {"[", "O"} /\ Len(s) \in Nat /\ Len(buf) \in Nat
  BY <1>1, EscapesAssumption, LenProperties DEF Stream
<1>3. Len(s) <= Len(buf) /\ \A j \in 1 .. Len(s) : s[j] = buf[j]
  BY <1>1, PrefixBytes
<1>4. 2 \in 1 .. Len(s)
  BY <1>2
<1>5. buf[2] \in {"[", "O"} /\ ~ Len(buf) < 2
  BY <1>2, <1>3, <1>4
<1> QED BY <1>5

\* What begins a sequence has a bracket or an O as its second byte.
LEMMA StartsSecond ==
  ASSUME NEW buf \in Starts, Len(buf) \in Nat, Len(buf) > 1 PROVE buf[2] \in {"[", "O"}
<1>1. PICK s \in Escapes : buf \in Prefixes(s)
  BY DEF Starts
<1>2. PICK l \in 0 .. Len(s) : buf = SubSeq(s, 1, l)
  BY <1>1 DEF Prefixes
<1>3. s \in Stream /\ Len(s) \in Nat /\ s[2] \in {"[", "O"}
      /\ \A j \in 1 .. Len(s) : s[j] \in Bytes
  BY SentBytes, EscapesAssumption, LenProperties, ElementOfSeq DEF Stream
<1>4. \A j \in 1 .. l : s[j] \in Bytes
  BY <1>3
<1>5. Len(buf) = l /\ \A j \in 1 .. l : buf[j] = s[j]
  BY <1>2, <1>3, <1>4, SubSeqProperties
<1>6. 2 \in 1 .. l
  BY <1>5
<1> QED BY <1>3, <1>5, <1>6

\* What the buffer holds and what is to come are a key and what follows it; an
\* Escape is followed by nothing.
Ahead(buf, later, k, m) ==
  /\ k \in TermKeys /\ buf \in Stream /\ later \in Stream /\ m \in Stream /\ buf # <<>>
  /\ buf \o later = k \o m
  /\ k = <<Esc>> => m = <<>>

\* Bytes in the buffer and bytes to come, cut as the next key and the rest.
LEMMA NextBytes ==
  ASSUME ChordsApart, NEW k, NEW buf, NEW later, NEW m, Ahead(buf, later, k, m)
  PROVE  /\ k \in Stream /\ Len(k) \in Nat /\ Len(k) # 0
         /\ Len(buf) \in Nat /\ Len(buf) # 0 /\ Head(buf) = buf[1] /\ buf[1] = k[1]
         /\ Len(buf) = 1 => buf = <<buf[1]>>
         /\ Len(k) = 1 => k = <<k[1]>>
         /\ k = <<Esc>> => Len(buf) <= Len(k)
         /\ \A j \in 1 .. Len(buf) : j <= Len(k) => buf[j] = k[j]
         /\ Len(k) <= Len(buf) => SubSeq(buf, 1, Len(k)) = k
         /\ Len(buf) <= Len(k) => SubSeq(k, 1, Len(buf)) = buf
<1>0. /\ k \in TermKeys /\ buf \in Stream /\ later \in Stream /\ m \in Stream /\ buf # <<>>
      /\ buf \o later = k \o m
      /\ k = <<Esc>> => m = <<>>
  BY DEF Ahead
<1>1. k \in Stream /\ Len(k) \in Nat /\ Len(k) # 0
  BY <1>0, KeyShape
<1>2. Len(buf) \in Nat /\ Len(buf) # 0 /\ Head(buf) = buf[1]
  BY <1>0, EmptySeq, LenProperties DEF Stream
<1>3. /\ Len(buf) = 1 => buf = <<buf[1]>>
      /\ Len(k) = 1 => k = <<k[1]>>
  BY <1>0, <1>1 DEF Stream
<1>4. \A j \in 1 .. Len(buf) : j <= Len(k) => buf[j] = k[j]
  BY <1>0, <1>1, Overlap
<1>5. Len(buf) + Len(later) = Len(k) + Len(m)
  BY <1>0, <1>1, Overlap
<1>6. Len(k) <= Len(buf) => SubSeq(buf, 1, Len(k)) = k
  BY <1>0, <1>1, Overlap
<1>7. Len(buf) <= Len(k) => SubSeq(k, 1, Len(buf)) = buf
  <2>1. k \o m = buf \o later
    BY <1>0
  <2> QED BY <1>0, <1>1, <2>1, Overlap
<1>8. buf[1] = k[1]
  <2>1. 1 \in 1 .. Len(buf) /\ 1 <= Len(k)
    BY <1>1, <1>2
  <2> QED BY <1>4, <2>1
<1>9. k = <<Esc>> => Len(buf) <= Len(k)
  <2>1. Len(later) \in Nat
    BY <1>0, LenProperties DEF Stream
  <2>2. k = <<Esc>> => Len(m) = 0
    BY <1>0
  <2> QED BY <1>1, <1>2, <1>5, <2>1, <2>2
<1> QED BY <1>1, <1>2, <1>3, <1>4, <1>6, <1>7, <1>8, <1>9

\* What the decoder takes, case by case.
LEMMA TakesCases ==
  ASSUME NEW buf
  PROVE  /\ Head(buf) # Esc => Takes(buf) = 1
         /\ \A k \in Complete(buf) :
              Head(buf) = Esc /\ (\A s \in Complete(buf) : s = k) => Takes(buf) = Len(k)
         /\ Head(buf) = Esc /\ Complete(buf) = {} /\ AltChord(buf) => Takes(buf) = 2
         /\ Head(buf) = Esc /\ Complete(buf) = {} /\ ~ AltChord(buf) => Takes(buf) = 1
<1>1. ASSUME NEW k \in Complete(buf), Head(buf) = Esc, \A s \in Complete(buf) : s = k
      PROVE  Takes(buf) = Len(k)
  <2>1. Complete(buf) # {}
    BY <1>1
  <2>2. (CHOOSE s \in Complete(buf) : TRUE) = k
    BY <1>1
  <2>3. Takes(buf) = Len(CHOOSE s \in Complete(buf) : TRUE)
    BY <1>1, <2>1 DEF Takes
  <2> QED BY <2>2, <2>3
<1> QED BY <1>1 DEF Takes

\* A length that is neither nought nor one.
LEMMA AboveOne == \A n \in Nat : n # 0 /\ n # 1 => n > 1 /\ 2 <= n
OBVIOUS

\* What waits in the buffer for its end is a lone Escape or not all of its key.
LEMMA Waiting ==
  ASSUME ChordsApart, NEW k, NEW buf, NEW later, NEW m, Ahead(buf, later, k, m),
         Head(buf) = Esc, Undecided(buf, FALSE)
  PROVE  buf = <<Esc>> \/ Len(buf) < Len(k)
<1>1. Len(k) \in Nat /\ Len(buf) \in Nat
  BY NextBytes
<1>0. k \in TermKeys /\ buf \in Stream
  BY DEF Ahead
<1>2. SUFFICES ASSUME Len(k) <= Len(buf), buf # <<Esc>> PROVE FALSE
  BY <1>1
<1>3. Complete(buf) = {} /\ buf \in Starts
  BY <1>2 DEF Undecided
<1>4. buf[1] = Esc /\ Len(buf) # 0 /\ k[1] = Esc
  BY NextBytes
<1>5. Len(buf) # 1
  <2>1. Len(buf) = 1 => buf = <<buf[1]>>
    BY NextBytes
  <2> QED BY <1>2, <1>4, <2>1
<1>6. Len(buf) > 1
  BY <1>1, <1>4, <1>5, AboveOne, Zenon
<1>7. buf[2] \in {"[", "O"}
  BY <1>1, <1>3, <1>6, StartsSecond
<1>8. \A j \in 1 .. Len(k) : k[j] = buf[j]
  <2>1. \A j \in 1 .. Len(buf) : j <= Len(k) => buf[j] = k[j]
    BY NextBytes
  <2>2. \A j \in 1 .. Len(k) : j \in 1 .. Len(buf) /\ j <= Len(k)
    BY <1>1, <1>2
  <2> QED BY <2>1, <2>2
<1>9. CASE k \in Escapes
  <2>1. IsPrefix(k, buf)
    BY <1>0, <1>2, <1>8, KeyShape, PrefixBytes
  <2> QED BY <1>3, <1>9, <2>1 DEF Complete
<1>10. CASE Len(k) = 2 /\ k[2] \notin {"[", "O"}
  <2>1. 2 \in 1 .. Len(k)
    BY <1>10
  <2> QED BY <1>7, <1>8, <1>10, <2>1
<1>11. CASE Len(k) = 1
  <2>1. k = <<Esc>>
    <3>1. k = <<k[1]>>
      BY <1>11, NextBytes
    <3> QED BY <1>4, <3>1
  <2>2. Len(buf) <= Len(k)
    BY <2>1, NextBytes
  <2> QED BY <1>1, <1>6, <1>11, <2>2
<1> QED BY <1>0, <1>9, <1>10, <1>11, KeyShape

\* What is decided is the next key, and the decoder takes its bytes.
LEMMA TakesKey ==
  ASSUME ChordsApart, NEW k, NEW buf, NEW later, NEW m, Ahead(buf, later, k, m),
         ~ (Head(buf) = Esc /\ Undecided(buf, FALSE))
  PROVE  Takes(buf) = Len(k) /\ SubSeq(buf, 1, Len(k)) = k
<1>1. Len(k) \in Nat /\ Len(k) # 0 /\ Len(buf) \in Nat /\ Len(buf) # 0 /\ k \in Stream
  BY NextBytes
<1>0. k \in TermKeys /\ buf \in Stream
  BY DEF Ahead
<1>2. Head(buf) = buf[1] /\ buf[1] = k[1]
  BY NextBytes
<1>3. Len(k) <= Len(buf) => SubSeq(buf, 1, Len(k)) = k
  BY NextBytes
<1>4. Len(buf) = 1 => buf = <<k[1]>>
  BY NextBytes
<1>5. CASE Len(k) = 1 /\ k[1] # Esc
  <2>1. Takes(buf) = 1
    BY <1>2, <1>5, TakesCases
  <2>2. Len(k) <= Len(buf)
    BY <1>1, <1>5
  <2> QED BY <1>3, <1>5, <2>1, <2>2
<1>6. CASE Len(k) = 1 /\ k[1] = Esc
  <2>1. k = <<Esc>>
    <3>1. k = <<k[1]>>
      BY <1>6, NextBytes
    <3> QED BY <1>6, <3>1
  <2>2. Len(buf) <= Len(k)
    BY <2>1, NextBytes
  <2>3. Len(buf) = 1
    BY <1>1, <1>6, <2>2
  <2>4. Complete(buf) = {}
    BY <1>0, <2>3, NoneComplete
  <2>5. buf = <<Esc>>
    BY <1>4, <1>6, <2>3
  <2>6. Undecided(buf, FALSE)
    BY <2>4, <2>5 DEF Undecided
  <2> QED BY <1>2, <1>6, <2>6
<1>7. CASE Len(k) = 2 /\ k[1] = Esc /\ k[2] \in AltBytes /\ k[2] \notin {"[", "O"}
  <2>1. Len(buf) # 1
    <3>1. SUFFICES ASSUME Len(buf) = 1 PROVE FALSE
      OBVIOUS
    <3>2. Complete(buf) = {}
      BY <1>0, <3>1, NoneComplete
    <3>3. buf = <<Esc>>
      BY <1>4, <1>7, <3>1
    <3>4. Undecided(buf, FALSE)
      BY <3>2, <3>3 DEF Undecided
    <3> QED BY <1>2, <1>7, <3>4
  <2>2. Len(buf) > 1 /\ Len(k) <= Len(buf)
    BY <1>1, <1>7, <2>1, AboveOne, Zenon
  <2>3. buf[2] = k[2]
    <3>1. 2 \in 1 .. Len(buf) /\ 2 <= Len(k)
      BY <1>1, <1>7, <2>2
    <3> QED BY <3>1, NextBytes
  <2>4. Complete(buf) = {} /\ AltChord(buf)
    BY <1>0, <1>7, <2>2, <2>3, NoneComplete DEF AltChord
  <2>5. Takes(buf) = 2
    BY <1>2, <1>7, <2>4, TakesCases
  <2> QED BY <1>3, <1>7, <2>2, <2>5
<1>8. CASE k \in Escapes /\ k[1] = Esc
  <2>1. ASSUME NEW s \in Complete(buf) PROVE s = k
    <3>1. \A j \in 1 .. Len(buf) : j <= Len(k) => buf[j] = k[j]
      BY NextBytes
    <3> QED BY <1>0, <1>8, <3>1, OneComplete
  <2>2. CASE Len(k) <= Len(buf)
    <3>1. \A j \in 1 .. Len(k) : k[j] = buf[j]
      <4>1. \A j \in 1 .. Len(buf) : j <= Len(k) => buf[j] = k[j]
        BY NextBytes
      <4>2. \A j \in 1 .. Len(k) : j \in 1 .. Len(buf) /\ j <= Len(k)
        BY <1>1, <2>2
      <4> QED BY <4>1, <4>2
    <3>2. IsPrefix(k, buf)
      BY <1>0, <1>1, <2>2, <3>1, PrefixBytes
    <3>3. k \in Complete(buf)
      BY <1>8, <3>2 DEF Complete
    <3>4. Takes(buf) = Len(k)
      BY <1>2, <1>8, <2>1, <3>3, TakesCases
    <3> QED BY <1>3, <2>2, <3>4
  <2>3. CASE ~ Len(k) <= Len(buf)
    <3>1. Complete(buf) = {}
      <4> SUFFICES ASSUME NEW s \in Complete(buf) PROVE FALSE
        OBVIOUS
      <4>1. IsPrefix(k, buf)
        BY <2>1 DEF Complete
      <4> QED BY <1>0, <1>1, <2>3, <4>1, PrefixBytes
    <3>2. Len(buf) \in 0 .. Len(k) /\ Len(buf) <= Len(k) /\ Len(buf) # Len(k)
      BY <1>1, <2>3
    <3>3. SubSeq(k, 1, Len(buf)) = buf
      BY <3>2, NextBytes
    <3>4. buf \in Prefixes(k) /\ buf # k
      BY <3>2, <3>3 DEF Prefixes
    <3>5. buf \in Starts
      BY <1>8, <3>4 DEF Starts
    <3>6. Undecided(buf, FALSE)
      BY <3>1, <3>5 DEF Undecided
    <3> QED BY <1>2, <1>8, <3>6
  <2> QED BY <2>2, <2>3
<1>9. Len(k) = 1 \/ (k \in Escapes /\ k[1] = Esc)
      \/ (Len(k) = 2 /\ k[1] = Esc /\ k[2] \in AltBytes /\ k[2] \notin {"[", "O"})
  BY <1>0, KeyShape
<1> QED BY <1>5, <1>6, <1>7, <1>8, <1>9

-----------------------------------------------------------------------------
(* The keys heard are the first of those typed.                            *)

\* Of the keys not heard, an Escape is the last.
EscLast(g, K) == \A i \in Len(g) + 1 .. Len(K) - 1 : K[i] # <<Esc>>

\* The keys g were heard, the bytes of buf and of later are left.
Left(K, g, buf, later) ==
  /\ K \in Seq(TermKeys) /\ g \in Seq(Stream) /\ buf \in Stream /\ later \in Stream
  /\ FlattenSeq(g) \o (buf \o later) = FlattenSeq(K)
  /\ IsPrefix(g, K) /\ EscLast(g, K)

\* Keys are streams of bytes.
LEMMA KeysAreStreams == \A K \in Seq(TermKeys) : K \in Seq(Stream)
BY SentBytes

\* Bytes in the buffer are those of the next key.
LEMMA NextAhead ==
  ASSUME ChordsApart, NEW K, NEW g, NEW buf, NEW later, Left(K, g, buf, later), buf # <<>>
  PROVE  /\ Len(g) \in Nat /\ Len(K) \in Nat /\ Len(g) < Len(K)
         /\ K[Len(g) + 1] \in TermKeys
         /\ K[Len(g) + 1] = <<Esc>> => Len(g) + 1 = Len(K)
         /\ \E m : Ahead(buf, later, K[Len(g) + 1], m)
<1>1. /\ K \in Seq(TermKeys) /\ K \in Seq(Stream) /\ g \in Seq(Stream)
      /\ buf \in Stream /\ later \in Stream /\ IsPrefix(g, K)
  BY KeysAreStreams DEF Left
<1>2. PICK b \in Stream : b = buf \o later
  BY <1>1, Join
<1>3. FlattenSeq(g) \o b = FlattenSeq(K)
  BY <1>2 DEF Left
<1>4. Len(g) \in 0 .. Len(K) /\ Len(K) \in Nat
  BY <1>1, <1>3, NextKey, LenProperties
<1>5. b # <<>>
  <2>1. Len(b) = Len(buf) + Len(later) /\ Len(buf) \in Nat \ {0} /\ Len(later) \in Nat
    BY <1>1, <1>2, ConcatProperties, EmptySeq, LenProperties DEF Stream
  <2> QED BY <2>1
<1>6. Len(g) # Len(K)
  BY <1>1, <1>3, <1>5, NextKey
<1>7. PICK m \in Stream : /\ b = K[Len(g) + 1] \o m
                          /\ Len(g) + 1 = Len(K) => m = <<>>
  <2>1. K \in Seq(Stream) /\ g \in Seq(Stream) /\ IsPrefix(g, K)
    BY <1>1
  <2>2. Follows(K, g, b)
    BY <1>3, <1>6, <2>1, NextKey
  <2> QED BY <2>2 DEF Follows
<1>8. Len(g) + 1 \in 1 .. Len(K)
  BY <1>4, <1>6
<1>9. K[Len(g) + 1] \in TermKeys
  BY <1>1, <1>8, ElementOfSeq
<1>10. K[Len(g) + 1] = <<Esc>> => Len(g) + 1 = Len(K)
  <2>1. Len(g) + 1 # Len(K) => Len(g) + 1 \in Len(g) + 1 .. Len(K) - 1
    BY <1>4, <1>8
  <2> QED BY <2>1 DEF Left, EscLast
<1>11. Ahead(buf, later, K[Len(g) + 1], m)
  BY <1>1, <1>2, <1>7, <1>9, <1>10 DEF Ahead
<1> QED BY <1>4, <1>6, <1>9, <1>10, <1>11

\* With the next key heard, one key more was heard.
LEMMA HearNext ==
  ASSUME NEW K \in Seq(TermKeys), NEW g \in Seq(Stream), IsPrefix(g, K), EscLast(g, K),
         Len(g) < Len(K)
  PROVE  LET n == Append(g, K[Len(g) + 1]) IN IsPrefix(n, K) /\ EscLast(n, K)
<1>1. /\ K \in Seq(Stream) /\ Len(g) \in Nat /\ Len(K) \in Nat
      /\ \A j \in 1 .. Len(K) : K[j] \in Stream
      /\ SubSeq(g, 1, Len(g)) = SubSeq(K, 1, Len(g))
  BY KeysAreStreams, LenProperties, ElementOfSeq DEF IsPrefix
<1>2. g = SubSeq(K, 1, Len(g))
  BY <1>1, SubSeqFull
<1>3. PICK x \in Stream : x = K[Len(g) + 1]
  BY <1>1
<1> DEFINE n == Append(g, x)
           l == Len(g) + 1
<1>4. l \in Nat /\ l <= Len(K) /\ \A j \in 1 .. l : K[j] \in Stream
  BY <1>1
<1>5. n \in Seq(Stream) /\ Len(n) = l /\ (\A j \in 1 .. Len(g) : n[j] = g[j]) /\ n[l] = x
  BY <1>1, AppendProperties
<1>6. \A j \in 1 .. Len(g) : g[j] = K[j]
  BY <1>1, <1>2, SubSeqProperties
<1>7. /\ SubSeq(K, 1, l) \in Seq(Stream) /\ Len(SubSeq(K, 1, l)) = l
      /\ \A j \in 1 .. l : SubSeq(K, 1, l)[j] = K[j]
  BY <1>4, SubSeqProperties
<1>8. n = SubSeq(K, 1, l)
  <2>1. \A j \in 1 .. l : n[j] = K[j]
    <3>1. \A j \in 1 .. l : j \in 1 .. Len(g) \/ j = l
      BY <1>1
    <3> QED BY <1>3, <1>5, <1>6, <3>1
  <2> HIDE DEF n, l
  <2> QED BY <1>5, <1>7, <2>1, SeqEqual
<1>9. SubSeq(n, 1, Len(n)) = n
  BY <1>5, SubSeqFull
<1>10. IsPrefix(n, K)
  BY <1>4, <1>5, <1>8, <1>9 DEF IsPrefix
<1>11. EscLast(n, K)
  <2>1. \A j \in l + 1 .. Len(K) - 1 : j \in Len(g) + 1 .. Len(K) - 1
    BY <1>1
  <2> QED BY <1>5, <2>1 DEF EscLast
<1> QED BY <1>3, <1>10, <1>11

\* What a round of the loop keeps: the keys heard are the first of those typed,
\* the age is that of an Escape at the front, which grew old before the loop or
\* not at all; the timeout decides only when nothing but the Escape is left.
Fits(K, h, d, later, force, s) ==
  /\ s \in States /\ Left(K, h \o s.events, s.buf, later)
  /\ s.age # "none" => s.buf # <<>> /\ Head(s.buf) = Esc
  /\ s.halt => s.buf # <<>> /\ Head(s.buf) = Esc /\ Undecided(s.buf, force)
  /\ s.age = "old" => s.buf = d.buf /\ d.age = "old"
  /\ force => later = <<>> /\ s.buf \in {<<Esc>>, <<>>}

\* A lone Escape.
LEMMA Lone ==
  /\ Len(<<Esc>>) = 1 /\ Head(<<Esc>>) = Esc /\ <<Esc>> # <<>>
  /\ SubSeq(<<Esc>>, 1, 1) = <<Esc>> /\ SubSeq(<<Esc>>, 1 + 1, 1) = <<>>
<1>1. Len(<<Esc>>) = 1 /\ Head(<<Esc>>) = Esc /\ <<Esc>> # <<>>
  OBVIOUS
<1>2. SubSeq(<<Esc>>, 1, 1) = <<Esc>>
  <2>1. <<Esc>> \in Seq({Esc})
    OBVIOUS
  <2>2. SubSeq(<<Esc>>, 1, Len(<<Esc>>)) = <<Esc>>
    BY <2>1, SubSeqFull
  <2> QED BY <1>1, <2>2
<1>3. SubSeq(<<Esc>>, 1 + 1, 1) = <<>>
  OBVIOUS
<1> QED BY <1>1, <1>2, <1>3

\* Both cuts are as long.
LEMMA AheadLengths ==
  ASSUME NEW k, NEW buf, NEW later, NEW m, Ahead(buf, later, k, m)
  PROVE  Len(k) + Len(m) = Len(buf) + Len(later)
<1>1. /\ k \in Stream /\ m \in Stream /\ buf \in Stream /\ later \in Stream
      /\ k \o m = buf \o later
  BY SentBytes DEF Ahead
<1> QED BY <1>1, Overlap

\* The only key in a lone Escape is Escape.
LEMMA LoneKey ==
  ASSUME ChordsApart, NEW k, NEW buf, NEW later, NEW m, Ahead(buf, later, k, m)
  PROVE  buf = <<Esc>> /\ later = <<>> => k = <<Esc>>
<1>1. Len(k) \in Nat /\ Len(k) # 0 /\ buf[1] = k[1]
  BY NextBytes
<1>2. Len(k) + Len(m) = Len(buf) + Len(later)
  BY AheadLengths
<1>3. Len(m) \in Nat
  BY LenProperties DEF Ahead, Stream
<1>4. Len(k) = 1 => k = <<k[1]>>
  BY NextBytes
<1>5. ASSUME buf = <<Esc>>, later = <<>> PROVE k = <<Esc>>
  <2>1. Len(buf) = 1 /\ Len(later) = 0 /\ k[1] = Esc
    BY <1>1, <1>5, Lone
  <2>2. Len(k) = 1
    <3>1. \A i, j \in Nat : i # 0 /\ i + j = 1 + 0 => i = 1
      OBVIOUS
    <3> QED BY <1>1, <1>2, <1>3, <2>1, <3>1
  <2> QED BY <1>4, <2>1, <2>2
<1> QED BY <1>5

\* The bytes the decoder takes, when it does, are those of the next key.
LEMMA TakesNext ==
  ASSUME ChordsApart, NEW K, NEW g, NEW buf, NEW later, NEW force \in BOOLEAN,
         Left(K, g, buf, later), buf # <<>>,
         force => later = <<>> /\ buf = <<Esc>>,
         ~ (Head(buf) = Esc /\ Undecided(buf, force))
  PROVE  /\ Len(g) < Len(K) /\ Takes(buf) = Len(K[Len(g) + 1])
         /\ SubSeq(buf, 1, Takes(buf)) = K[Len(g) + 1]
<1>1. Len(g) < Len(K)
  BY NextAhead
<1>2. PICK k : k = K[Len(g) + 1]
  OBVIOUS
<1>3. PICK m : Ahead(buf, later, k, m)
  BY <1>2, NextAhead
<1>4. CASE ~ force
  <2>1. ~ (Head(buf) = Esc /\ Undecided(buf, FALSE))
    BY <1>4
  <2> QED BY <1>1, <1>2, <1>3, <2>1, TakesKey
<1>5. CASE force
  <2>1. buf = <<Esc>> /\ later = <<>> /\ Len(buf) = 1 /\ Head(buf) = Esc
    BY <1>5, Lone
  <2>2. Complete(buf) = {}
    BY <1>3, <2>1, NoneComplete DEF Ahead
  <2>3. Takes(buf) = 1
    BY <2>1, <2>2, TakesCases DEF AltChord
  <2>4. k = buf
    BY <1>3, <2>1, LoneKey
  <2>5. SubSeq(buf, 1, 1) = buf
    BY <2>1, Lone
  <2> QED BY <1>1, <1>2, <2>1, <2>3, <2>4, <2>5
<1> QED BY <1>4, <1>5

\* A round keeps it.
LEMMA RoundFits ==
  ASSUME ChordsApart, NEW K, NEW h \in Seq(Stream), NEW d, NEW later, NEW force \in BOOLEAN,
         NEW s, Fits(K, h, d, later, force, s)
  PROVE  Fits(K, h, d, later, force, Round(s, force))
<1>0. /\ s \in States /\ Left(K, h \o s.events, s.buf, later)
      /\ s.buf \in Stream /\ s.events \in Seq(Stream) /\ s.age \in Ages
      /\ DOMAIN s = {"buf", "age", "events", "halt"}
  BY DEF Fits, States
<1>1. CASE s.buf = <<>> \/ s.halt
  BY <1>1 DEF Round
<1>2. CASE ~ (s.buf = <<>> \/ s.halt) /\ Head(s.buf) = Esc /\ Undecided(s.buf, force)
  <2> DEFINE age == IF s.age = "none" THEN "new" ELSE s.age
             r == [s EXCEPT !.halt = TRUE, !.age = age]
  <2>1. Round(s, force) = r
    BY <1>2 DEF Round
  <2>2. r \in States
    BY <1>2, <2>1, RoundKeeps, <1>0, EmptySeq
  <2>3. /\ r.buf = s.buf /\ r.events = s.events /\ r.age = age
        /\ age = "old" => s.age = "old"
    BY <1>0
  <2> HIDE DEF age, r
  <2>4. r.age = "old" => r.buf = d.buf /\ d.age = "old"
    BY <2>3 DEF Fits
  <2>5. Left(K, h \o r.events, r.buf, later)
    BY <1>0, <2>3
  <2>6. force => later = <<>> /\ r.buf \in {<<Esc>>, <<>>}
    BY <2>3 DEF Fits
  <2>7. r.buf # <<>> /\ Head(r.buf) = Esc /\ Undecided(r.buf, force)
    BY <1>2, <2>3
  <2>8. Fits(K, h, d, later, force, r)
    BY <2>2, <2>4, <2>5, <2>6, <2>7 DEF Fits
  <2> QED BY <2>1, <2>8
<1>3. CASE ~ (s.buf = <<>> \/ s.halt) /\ ~ (Head(s.buf) = Esc /\ Undecided(s.buf, force))
  <2> DEFINE n == Takes(s.buf)
             rest == SubSeq(s.buf, n + 1, Len(s.buf))
             event == SubSeq(s.buf, 1, n)
             age == IF Head(s.buf) = Esc THEN "none" ELSE s.age
             r == [s EXCEPT !.buf = rest, !.events = Append(s.events, event), !.age = age]
             g == h \o s.events
  <2>1. Round(s, force) = r
    BY <1>3 DEF Round
  <2>2. r \in States /\ Whole(h, r) = Whole(h, s)
    BY <1>0, <2>1, RoundKeeps
  <2>3. r.buf = rest /\ r.events = Append(s.events, event) /\ r.age = age /\ r.halt = s.halt
    BY <1>0
  <2>4. rest \in Stream /\ r.events \in Seq(Stream)
    BY <2>2, <2>3 DEF States
  <2>5. age = "none"
    BY DEF Fits
  <2>6. n \in 1 .. Len(s.buf) /\ Len(s.buf) \in Nat
    BY <1>0, <1>3, TakesSome, LenProperties DEF Stream
  <2>7. event \in Stream
    <3>1. n \in 0 .. Len(s.buf)
      BY <2>6
    <3> HIDE DEF n, r, age, rest
    <3> QED BY <1>0, <3>1, Cut
  <2> HIDE DEF rest, age, r
  <2>8. force => later = <<>> /\ s.buf = <<Esc>>
    BY <1>3 DEF Fits
  <2>9. Len(g) < Len(K) /\ event = K[Len(g) + 1]
    BY <1>0, <1>3, <2>8, TakesNext
  <2>10. Append(g, event) = h \o r.events /\ g \in Seq(Stream) /\ h \o r.events \in Seq(Stream)
    <3>1. h \o Append(s.events, event) = Append(g, event) /\ g \in Seq(Stream)
      BY <1>0, <2>7, Later
    <3> QED BY <2>3, <2>4, <3>1, ConcatProperties
  <2>11. IsPrefix(h \o r.events, K) /\ EscLast(h \o r.events, K)
    <3>1. K \in Seq(TermKeys) /\ IsPrefix(g, K) /\ EscLast(g, K)
      BY <1>0 DEF Left
    <3> HIDE DEF g, event
    <3> QED BY <2>9, <2>10, <3>1, HearNext
  <2>12. FlattenSeq(h \o r.events) \o (r.buf \o later) = FlattenSeq(K)
    <3>1. PICK a \in Stream : a = FlattenSeq(h \o r.events)
      BY <2>10, Flat
    <3>2. PICK c \in Stream : c = FlattenSeq(g)
      BY <2>10, Flat
    <3>3. PICK x \in Stream : x = later
      BY <1>0 DEF Left
    <3>4. PICK y \in Stream : y = s.buf
      BY <1>0
    <3>5. PICK z \in Stream : z = rest
      BY <2>4
    <3>6. a \o z = c \o y
      BY <2>2, <2>3, <3>1, <3>2, <3>4, <3>5 DEF Whole
    <3>7. a \o (z \o x) = (a \o z) \o x /\ c \o (y \o x) = (c \o y) \o x
      BY Join, ZenonT(60)
    <3>8. c \o (y \o x) = FlattenSeq(K)
      BY <1>0, <3>2, <3>3, <3>4 DEF Left
    <3> QED BY <2>3, <3>1, <3>3, <3>5, <3>6, <3>7, <3>8
  <2>13. Left(K, h \o r.events, r.buf, later)
    BY <1>0, <2>3, <2>4, <2>10, <2>11, <2>12 DEF Left
  <2>14. force => later = <<>> /\ r.buf \in {<<Esc>>, <<>>}
    <3>1. force => Len(s.buf) = 1
      BY <2>8, Lone
    <3>2. force => n = 1
      <4>1. \A i \in Nat : \A j \in 1 .. i : i = 1 => j = 1
        OBVIOUS
      <4> HIDE DEF n
      <4> QED BY <2>6, <3>1, <4>1
    <3>3. ASSUME force PROVE rest = <<>>
      <4>1. s.buf = <<Esc>> /\ Len(s.buf) = 1 /\ n = 1
        BY <2>8, <3>1, <3>2, <3>3
      <4> HIDE DEF n
      <4> QED BY <4>1, Lone DEF rest
    <3> QED BY <2>3, <2>8, <3>3
  <2>15. r.age # "old" /\ r.age = "none" /\ ~ r.halt
    BY <1>3, <2>3, <2>5
  <2>16. Fits(K, h, d, later, force, r)
    BY <2>2, <2>13, <2>14, <2>15 DEF Fits
  <2> QED BY <2>1, <2>16
<1> QED BY <1>1, <1>2, <1>3

\* As long as it does not halt, a round leaves fewer bytes.
LEMMA RoundShortens ==
  ASSUME NEW s \in States, NEW force, NEW l \in Nat, s.halt \/ Len(s.buf) <= l
  PROVE  Round(s, force).halt \/ Len(Round(s, force).buf) <= l - 1 \/ Round(s, force).buf = <<>>
<1>0. s.buf \in Stream /\ Len(s.buf) \in Nat /\ DOMAIN s = {"buf", "age", "events", "halt"}
  BY LenProperties DEF States, Stream
<1>1. CASE s.buf = <<>> \/ s.halt
  BY <1>1 DEF Round
<1>2. CASE ~ (s.buf = <<>> \/ s.halt) /\ Head(s.buf) = Esc /\ Undecided(s.buf, force)
  <2> DEFINE age == IF s.age = "none" THEN "new" ELSE s.age
             r == [s EXCEPT !.halt = TRUE, !.age = age]
  <2>1. Round(s, force) = r
    BY <1>2 DEF Round
  <2>2. r.halt = TRUE
    BY <1>0
  <2> QED BY <2>1, <2>2
<1>3. CASE ~ (s.buf = <<>> \/ s.halt) /\ ~ (Head(s.buf) = Esc /\ Undecided(s.buf, force))
  <2> DEFINE n == Takes(s.buf)
             rest == SubSeq(s.buf, n + 1, Len(s.buf))
             events == Append(s.events, SubSeq(s.buf, 1, n))
             age == IF Head(s.buf) = Esc THEN "none" ELSE s.age
             r == [s EXCEPT !.buf = rest, !.events = events, !.age = age]
  <2>1. Round(s, force) = r
    BY <1>3 DEF Round
  <2>2. r.buf = rest
    BY <1>0
  <2>3. n \in 1 .. Len(s.buf)
    BY <1>0, <1>3, TakesSome
  <2> HIDE DEF n, events, age, r
  <2>4. \A j \in n + 1 .. Len(s.buf) : s.buf[j] \in Bytes
    BY <1>0, <2>3, ElementOfSeq DEF Stream
  <2>5. Len(rest) = Len(s.buf) - n
    <3>1. n + 1 \in 1 .. Len(s.buf) + 1
      BY <1>0, <2>3
    <3> QED BY <1>0, <2>3, <2>4, <3>1, SubSeqProperties
  <2>6. Len(rest) <= l - 1
    BY <1>0, <1>3, <2>3, <2>5
  <2> QED BY <2>1, <2>2, <2>6
<1> QED BY <1>1, <1>2, <1>3

-----------------------------------------------------------------------------
(* The loop hears whole keys.                                              *)

\* An Escape whose age is taken is at the front of the buffer and waits.
Aged(d) == d.age # "none" => d.buf # <<>> /\ Head(d.buf) = Esc

\* After as many rounds as there are bytes the decoder waits for the rest of a
\* key or has nothing left.
LEMMA DecodeFits ==
  ASSUME ChordsApart, NEW K, NEW h \in Seq(Stream), NEW d \in Decoders, NEW later,
         NEW force \in BOOLEAN, Left(K, h, d.buf, later), Aged(d),
         force => later = <<>> /\ d.buf = <<Esc>>
  PROVE  /\ Fits(K, h, d, later, force, Decode(d, force))
         /\ Decode(d, force).halt \/ Decode(d, force).buf = <<>>
<1>1. d.buf \in Stream /\ d.age \in Ages
  BY DEF Decoders
<1> DEFINE n == Len(d.buf)
<1>2. n \in Nat
  BY <1>1, LenProperties DEF Stream
<1>3. PICK f : Decoded(d, force, n, f) /\ Decode(d, force) = f[n]
  BY <1>2, DecodeSolved
<1>4. Begin(d) \in States /\ Begin(d).events = <<>> /\ Begin(d).buf = d.buf
      /\ Begin(d).age = d.age /\ ~ Begin(d).halt
  BY <1>1 DEF Begin, States
<1>5. Fits(K, h, d, later, force, Begin(d))
  <2>1. h \o Begin(d).events = h
    BY <1>4, ConcatEmptySeq
  <2> HIDE DEF n
  <2> QED BY <1>4, <2>1 DEF Fits, Aged
<1> DEFINE Short(k) == f[k].halt \/ Len(f[k].buf) <= n - k \/ f[k].buf = <<>>
           Right(k) == Fits(K, h, d, later, force, f[k]) /\ Short(k)
           Bad == {k \in 0 .. n : ~ Right(k)}
<1> HIDE DEF n
<1>6. ASSUME Bad # {} PROVE FALSE
  <2>1. PICK m \in Bad : \A k \in Bad : m <= k
    <3> Bad \in SUBSET Nat
      OBVIOUS
    <3> HIDE DEF Bad
    <3> QED BY <1>6, LeastNumber
  <2>2. f[m] = IF m = 0 THEN Begin(d) ELSE Again(f[m - 1], force)
    BY <1>2, <1>3, <2>1 DEF Decoded
  <2>3. CASE m = 0
    <3>1. f[m] = Begin(d)
      BY <2>2, <2>3
    <3>2. Short(m)
      BY <1>2, <1>4, <2>3, <3>1 DEF n
    <3> QED BY <1>5, <2>1, <3>1, <3>2
  <2>4. CASE m # 0
    <3>1. m - 1 \in 0 .. n /\ m - 1 \notin Bad /\ m \in 0 .. n
      BY <1>2, <2>1, <2>4
    <3>2. Right(m - 1) /\ f[m] = Round(f[m - 1], force)
      BY <2>2, <2>4, <3>1, AgainRound
    <3>3. PICK s : s = f[m - 1]
      OBVIOUS
    <3>4. Fits(K, h, d, later, force, s) /\ s \in States
      BY <3>2, <3>3 DEF Fits
    <3>5. Fits(K, h, d, later, force, f[m])
      BY <3>2, <3>3, <3>4, RoundFits
    <3>6. Short(m)
      <4>1. s.halt \/ Len(s.buf) <= n - (m - 1) \/ s.buf = <<>>
        BY <3>2, <3>3
      <4>2. CASE s.buf = <<>> \/ s.halt
        <5>1. Round(s, force) = s
          BY <4>2 DEF Round
        <5> QED BY <3>2, <3>3, <4>2, <5>1
      <4>3. CASE ~ (s.buf = <<>> \/ s.halt)
        <5>1. PICK l : l = n - (m - 1)
          OBVIOUS
        <5>2. l \in Nat /\ l - 1 = n - m /\ Len(s.buf) <= l
          BY <1>2, <3>1, <4>1, <4>3, <5>1
        <5>3. Round(s, force).halt \/ Len(Round(s, force).buf) <= l - 1
              \/ Round(s, force).buf = <<>>
          BY <3>4, <5>2, RoundShortens
        <5> QED BY <3>2, <3>3, <5>2, <5>3
      <4> QED BY <4>2, <4>3
    <3> QED BY <2>1, <3>5, <3>6
  <2> QED BY <2>3, <2>4
<1>7. Right(n) /\ n - n = 0
  BY <1>2, <1>6
<1>8. f[n].halt \/ f[n].buf = <<>>
  <2>1. PICK b : b = f[n].buf
    OBVIOUS
  <2>2. b \in Stream
    BY <1>7, <2>1 DEF Fits, States
  <2>3. Len(b) <= 0 => b = <<>>
    BY <2>2, EmptySeq, LenProperties DEF Stream
  <2> QED BY <1>7, <2>1, <2>3
<1> QED BY <1>3, <1>7, <1>8

-----------------------------------------------------------------------------
(* Keys come whole.                                                        *)

Waits(d) ==
  /\ d.age # "none" => d.buf # <<>> /\ Head(d.buf) = Esc /\ Undecided(d.buf, FALSE)
  /\ d.age = "old" => d.buf = <<Esc>>

(* Unless a key was torn: what was heard are the first of the keys; an     *)
(* Escape that was not heard is the last of them; an Escape whose age is   *)
(* taken waits for its key, and once it is old it is alone.                *)
Fitting ==
  /\ IsPrefix(heard, typed.keys) /\ EscLast(heard, typed.keys)
  /\ Waits(decoder)
  /\ decoder.age = "old" => wire.there = <<>> /\ wire.sent = <<>>

Clear == typed.keys \in Seq(TermKeys) /\ (~ typed.torn => Fitting)

\* What is left to hear: the bytes in the buffer, then those under way.
LEMMA LeftOver ==
  ASSUME Streams, Clear, ~ typed.torn
  PROVE  Left(typed.keys, heard, decoder.buf, wire.there \o wire.sent)
<1>1. /\ typed.keys \in Seq(TermKeys) /\ heard \in Seq(Stream) /\ decoder.buf \in Stream
      /\ wire.there \in Stream /\ wire.sent \in Stream
      /\ IsPrefix(heard, typed.keys) /\ EscLast(heard, typed.keys)
  BY DEF Clear, Fitting, Streams, StreamTypes, Decoders
<1>2. PICK a \in Stream : a = FlattenSeq(heard)
  BY <1>1, Flat
<1>3. PICK b \in Stream : b = decoder.buf
  BY <1>1
<1>4. PICK t \in Stream : t = wire.there
  BY <1>1
<1>5. PICK s \in Stream : s = wire.sent
  BY <1>1
<1>6. ((a \o b) \o t) \o s = FlattenSeq(typed.keys)
  BY <1>2, <1>3, <1>4, <1>5 DEF Streams, NothingSwallowed
<1>7. t \o s \in Stream /\ a \o (b \o (t \o s)) = ((a \o b) \o t) \o s
  <2>1. PICK ts \in Stream : ts = t \o s
    BY Join
  <2>2. PICK ab \in Stream : ab = a \o b
    BY Join
  <2>3. a \o (b \o ts) = ab \o ts
    BY <2>2, Join, ZenonT(60)
  <2>4. ab \o ts = (ab \o t) \o s
    <3>1. (ab \o t) \o s = ab \o (t \o s)
      BY Join, ZenonT(60)
    <3> QED BY <2>1, <3>1
  <2> QED BY <2>1, <2>2, <2>3, <2>4
<1> QED BY <1>1, <1>2, <1>3, <1>4, <1>5, <1>6, <1>7 DEF Left

\* A sequence is the beginning of itself and what is appended.
LEMMA GrownPrefix ==
  ASSUME NEW g \in Seq(Stream), NEW K \in Seq(Stream), IsPrefix(g, K), NEW k \in Stream
  PROVE  IsPrefix(g, Append(K, k))
<1>1. Len(g) \in Nat /\ Len(K) \in Nat /\ Len(g) <= Len(K) /\ \A j \in 1 .. Len(K) : K[j] \in Stream
  BY LenProperties, ElementOfSeq DEF IsPrefix
<1>2. PICK n \in Seq(Stream) : n = Append(K, k)
  BY AppendProperties
<1>3. Len(n) = Len(K) + 1 /\ \A j \in 1 .. Len(K) : n[j] = K[j]
  BY <1>2, AppendProperties
<1>4. \A j \in 1 .. Len(g) : K[j] \in Stream /\ n[j] \in Stream /\ n[j] = K[j]
  BY <1>1, <1>3
<1>5. /\ SubSeq(K, 1, Len(g)) \in Seq(Stream) /\ Len(SubSeq(K, 1, Len(g))) = Len(g)
      /\ \A j \in 1 .. Len(g) : SubSeq(K, 1, Len(g))[j] = K[j]
  BY <1>1, <1>4, SubSeqProperties
<1>6. /\ SubSeq(n, 1, Len(g)) \in Seq(Stream) /\ Len(SubSeq(n, 1, Len(g))) = Len(g)
      /\ \A j \in 1 .. Len(g) : SubSeq(n, 1, Len(g))[j] = n[j]
  BY <1>1, <1>4, SubSeqProperties
<1>7. SubSeq(K, 1, Len(g)) = SubSeq(n, 1, Len(g))
  BY <1>4, <1>5, <1>6, SeqEqual
<1>8. SubSeq(g, 1, Len(g)) = SubSeq(n, 1, Len(g)) /\ Len(g) <= Len(n)
  BY <1>1, <1>3, <1>7 DEF IsPrefix
<1> QED BY <1>2, <1>8 DEF IsPrefix

\* A key typed while others are on their way does not change which comes next.
LEMMA TypeClear ==
  ASSUME ChordsApart, Streams, Clear, NEW k \in TermKeys, Type(k) PROVE Clear'
<1>1. /\ typed'.keys = Append(typed.keys, k)
      /\ typed'.torn = (typed.torn \/ (~ Quiet /\ Last(typed.keys) = <<Esc>>))
      /\ decoder' = decoder /\ heard' = heard
  BY DEF Type
<1>2. typed.keys \in Seq(TermKeys) /\ k \in Stream /\ typed.keys \in Seq(Stream)
      /\ heard \in Seq(Stream) /\ Len(typed.keys) \in Nat /\ Len(heard) \in Nat
  BY SentBytes, KeysAreStreams, LenProperties DEF Clear, Streams, StreamTypes
<1>3. typed'.keys \in Seq(TermKeys) /\ Len(typed'.keys) = Len(typed.keys) + 1
      /\ \A j \in 1 .. Len(typed.keys) : typed'.keys[j] = typed.keys[j]
  BY <1>1, <1>2, AppendProperties
<1>4. SUFFICES ASSUME ~ typed'.torn PROVE Fitting'
  BY <1>3 DEF Clear
<1>5. ~ typed.torn /\ (Quiet \/ Last(typed.keys) # <<Esc>>)
  BY <1>1, <1>4
<1>6. Fitting
  BY <1>5 DEF Clear
<1>7. IsPrefix(heard, typed.keys) /\ EscLast(heard, typed.keys) /\ Waits(decoder)
  BY <1>6 DEF Fitting
<1> DEFINE later == wire.there \o wire.sent
<1>8. Left(typed.keys, heard, decoder.buf, later)
  BY <1>5, LeftOver
<1>9. typed.keys # <<>> => Last(typed.keys) = typed.keys[Len(typed.keys)]
  BY <1>2 DEF Last
<1>10. Len(heard) # Len(typed.keys) => ~ Quiet
  <2>1. SUFFICES ASSUME Quiet, Len(heard) # Len(typed.keys) PROVE FALSE
    OBVIOUS
  <2>2. wire.there = <<>> /\ wire.sent = <<>> /\ decoder.buf = <<>>
    BY <2>1 DEF Quiet
  <2>3. PICK b \in Stream : b = <<>>
    BY Join
  <2>4. FlattenSeq(heard) \o b = FlattenSeq(typed.keys)
    <3>1. PICK a \in Stream : a = FlattenSeq(heard)
      BY <1>2, Flat
    <3>2. a \o <<>> = a
      BY Join
    <3> QED BY <2>2, <2>3, <3>1, <3>2 DEF Streams, NothingSwallowed
  <2>5. Follows(typed.keys, heard, b) /\ Len(heard) \in 0 .. Len(typed.keys)
    BY <1>2, <1>7, <2>1, <2>4, NextKey
  <2>6. PICK m \in Stream : b = typed.keys[Len(heard) + 1] \o m
    BY <2>5 DEF Follows
  <2>7. Len(heard) + 1 \in 1 .. Len(typed.keys)
    BY <1>2, <2>1, <2>5
  <2>8. PICK x \in TermKeys : x = typed.keys[Len(heard) + 1]
    BY <1>2, <2>7, ElementOfSeq
  <2>9. x \in Stream /\ Len(x) \in Nat \ {0} /\ Len(m) \in Nat
    BY KeyShape, LenProperties DEF Stream
  <2>10. Len(x \o m) = Len(x) + Len(m)
    BY <2>9, ConcatProperties DEF Stream
  <2>11. Len(x \o m) = 0
    BY <2>3, <2>6, <2>8
  <2> QED BY <2>9, <2>10, <2>11
<1>11. EscLast(heard, typed'.keys)
  <2> SUFFICES ASSUME NEW i \in Len(heard) + 1 .. Len(typed'.keys) - 1
               PROVE  typed'.keys[i] # <<Esc>>
    BY DEF EscLast
  <2>1. i \in 1 .. Len(typed.keys) /\ i > Len(heard) /\ typed'.keys[i] = typed.keys[i]
    BY <1>2, <1>3
  <2>2. CASE i # Len(typed.keys)
    <3>1. i \in Len(heard) + 1 .. Len(typed.keys) - 1
      BY <1>2, <2>1, <2>2
    <3> QED BY <1>7, <2>1, <3>1 DEF EscLast
  <2>3. CASE i = Len(typed.keys)
    <3>1. Len(heard) # Len(typed.keys) /\ typed.keys # <<>>
      BY <1>2, <2>1, <2>3
    <3> QED BY <1>5, <1>9, <1>10, <2>1, <2>3, <3>1
  <2> QED BY <2>2, <2>3
<1>12. decoder.age # "old"
  <2>1. SUFFICES ASSUME decoder.age = "old" PROVE FALSE
    OBVIOUS
  <2>2. decoder.buf = <<Esc>> /\ wire.there = <<>> /\ wire.sent = <<>> /\ decoder.buf # <<>>
    BY <1>6, <2>1, Lone DEF Fitting, Waits
  <2>3. later = <<>> /\ ~ Quiet
    BY <2>2 DEF Quiet
  <2> HIDE DEF later
  <2>4. /\ Len(heard) < Len(typed.keys)
        /\ typed.keys[Len(heard) + 1] = <<Esc>> => Len(heard) + 1 = Len(typed.keys)
        /\ \E m : Ahead(decoder.buf, later, typed.keys[Len(heard) + 1], m)
    BY <1>8, <2>2, NextAhead
  <2>5. typed.keys[Len(heard) + 1] = <<Esc>>
    BY <2>2, <2>3, <2>4, LoneKey
  <2>6. typed.keys # <<>>
    BY <1>2, <2>4
  <2> QED BY <1>5, <1>9, <2>3, <2>4, <2>5, <2>6
<1>13. IsPrefix(heard, typed'.keys)
  BY <1>1, <1>2, <1>7, GrownPrefix
<1> QED BY <1>1, <1>7, <1>11, <1>12, <1>13 DEF Fitting

\* Bytes that arrive were on their way: the old Escape has none behind it.
LEMMA ArriveClear == ASSUME Streams, Clear, Arrive PROVE Clear'
<1>1. UNCHANGED <<decoder, typed, heard>> /\ wire.sent # <<>>
  BY DEF Arrive
<1> QED BY <1>1 DEF Clear, Fitting, EscLast, Waits

\* A pause with nothing on its way finds a lone Escape.
LEMMA PauseClear == ASSUME ChordsApart, Streams, Clear, Pause PROVE Clear'
<1>1. /\ decoder.age = "new" /\ decoder' = [decoder EXCEPT !.age = "old"]
      /\ typed'.torn = (typed.torn \/ wire.sent # <<>> \/ wire.there # <<>>)
      /\ typed'.keys = typed.keys /\ wire' = wire /\ heard' = heard
  BY DEF Pause, Streams, StreamTypes
<1>2. SUFFICES ASSUME ~ typed'.torn PROVE Fitting'
  BY <1>1 DEF Clear
<1>3. ~ typed.torn /\ wire.sent = <<>> /\ wire.there = <<>>
  BY <1>1, <1>2
<1>4. Fitting
  BY <1>3 DEF Clear
<1>5. /\ decoder.buf # <<>> /\ Head(decoder.buf) = Esc /\ Undecided(decoder.buf, FALSE)
  BY <1>1, <1>4 DEF Fitting, Waits
<1>6. decoder'.buf = decoder.buf /\ decoder'.age = "old" /\ decoder.buf \in Stream
  BY <1>1 DEF Streams, StreamTypes, Decoders
<1> DEFINE later == wire.there \o wire.sent
<1>7. Left(typed.keys, heard, decoder.buf, later)
  BY <1>3, LeftOver
<1>8. later = <<>>
  BY <1>3
<1> HIDE DEF later
<1>9. PICK k : k = typed.keys[Len(heard) + 1]
  OBVIOUS
<1>10. PICK m : Ahead(decoder.buf, later, k, m)
  BY <1>5, <1>7, <1>9, NextAhead
<1>11. decoder.buf = <<Esc>> \/ Len(decoder.buf) < Len(k)
  BY <1>5, <1>10, Waiting
<1>12. ~ Len(decoder.buf) < Len(k)
  <2>1. Len(k) + Len(m) = Len(decoder.buf) + Len(later)
    BY <1>10, AheadLengths
  <2>2. Len(k) \in Nat /\ Len(decoder.buf) \in Nat
    BY <1>10, NextBytes
  <2>3. Len(m) \in Nat
    BY <1>10, LenProperties DEF Ahead, Stream
  <2>4. Len(later) = 0
    BY <1>8
  <2>5. \A i, j, l \in Nat : i + j = l + 0 => ~ l < i
    OBVIOUS
  <2> QED BY <2>1, <2>2, <2>3, <2>4, <2>5
<1>13. Waits(decoder')
  BY <1>5, <1>6, <1>11, <1>12 DEF Waits
<1> QED BY <1>1, <1>3, <1>4, <1>13 DEF Fitting, EscLast

\* What is put behind an Escape leaves it in front.
LEMMA HeadJoin ==
  ASSUME NEW b \in Stream, NEW c \in Stream, b # <<>>
  PROVE  b \o c # <<>> /\ Head(b \o c) = Head(b)
<1>1. Len(b) \in Nat \ {0} /\ Len(c) \in Nat
  BY EmptySeq, LenProperties DEF Stream
<1>2. b \o c \in Stream /\ Len(b \o c) = Len(b) + Len(c)
  BY Join, ConcatProperties DEF Stream
<1>3. b \o c # <<>>
  BY <1>1, <1>2
<1>4. (b \o c)[1] = b[1]
  <2>1. 1 \in 1 .. Len(b) + Len(c) /\ 1 <= Len(b)
    BY <1>1
  <2> QED BY <2>1, ConcatProperties DEF Stream
<1>5. Head(b) = b[1] /\ Head(b \o c) = (b \o c)[1]
  BY <1>2, <1>3 DEF Stream
<1> QED BY <1>3, <1>4, <1>5

\* What the timeout does not decide, time before it does not decide either.
LEMMA UndecidedEarlier ==
  ASSUME NEW buf, NEW force \in BOOLEAN, Undecided(buf, force)
  PROVE  Undecided(buf, FALSE) /\ ~ force
BY DEF Undecided

\* A turn of the loop hears whole keys.
LEMMA PollClear == ASSUME ChordsApart, Streams, Clear, Poll PROVE Clear'
<1>1. /\ wire.sent \in Stream /\ wire.there \in Stream /\ decoder \in Decoders
      /\ decoder.buf \in Stream /\ decoder.age \in Ages /\ heard \in Seq(Stream)
  BY DEF Streams, StreamTypes, Decoders
<1> DEFINE n == IF Len(wire.there) < ReadSize THEN Len(wire.there) ELSE ReadSize
           come == SubSeq(wire.there, 1, n)
           rest == SubSeq(wire.there, n + 1, Len(wire.there))
           fed == Feed(decoder, come)
           flushed == Flush([buf |-> fed.buf, age |-> fed.age])
<1>2. /\ wire' = [wire EXCEPT !.there = rest]
      /\ decoder' = [buf |-> flushed.buf, age |-> flushed.age]
      /\ heard' = heard \o fed.events \o flushed.events
      /\ UNCHANGED typed
  BY DEF Poll
<1>3. SUFFICES ASSUME ~ typed.torn PROVE Fitting'
  BY <1>2 DEF Clear
<1>4. Fitting
  BY <1>3 DEF Clear
<1>5. n \in 0 .. Len(wire.there)
  <2>1. Len(wire.there) \in Nat /\ ReadSize \in Nat
    BY <1>1, SizesAssumption, LenProperties DEF Stream
  <2> QED BY <2>1
<1> HIDE DEF n
<1>6. rest \in Stream /\ come \in Stream /\ come \o rest = wire.there
  BY <1>1, <1>5, Cut
<1> HIDE DEF come, rest
<1> DEFINE d == [decoder EXCEPT !.buf = @ \o come]
           later == rest \o wire.sent
<1>7. d \in Decoders /\ d.buf = decoder.buf \o come /\ d.age = decoder.age /\ d.buf \in Stream
  <2>1. decoder.buf \o come \in Stream
    BY <1>1, <1>6, Join
  <2> QED BY <1>1, <2>1 DEF Decoders
<1>8. fed = Decode(d, FALSE)
  BY DEF Feed
<1> HIDE DEF d, fed
<1>9. Left(typed.keys, heard, d.buf, later)
  <2>1. Left(typed.keys, heard, decoder.buf, wire.there \o wire.sent)
    BY <1>3, LeftOver
  <2>2. PICK b \in Stream : b = decoder.buf
    BY <1>1
  <2>3. PICK c \in Stream : c = come
    BY <1>6
  <2>4. PICK r \in Stream : r = rest
    BY <1>6
  <2>5. PICK s \in Stream : s = wire.sent
    BY <1>1
  <2>6. r \o s \in Stream /\ b \o ((c \o r) \o s) = (b \o c) \o (r \o s)
    <3>1. PICK rs \in Stream : rs = r \o s
      BY Join
    <3>2. (c \o r) \o s = c \o rs
      BY <3>1, Join, ZenonT(60)
    <3>3. b \o (c \o rs) = (b \o c) \o rs
      BY Join, ZenonT(60)
    <3> QED BY <3>1, <3>2, <3>3
  <2>7. wire.there = c \o r
    BY <1>6, <2>3, <2>4
  <2> QED BY <1>7, <2>1, <2>2, <2>3, <2>4, <2>5, <2>6, <2>7 DEF Left
<1>10. decoder.age = "old" => later = <<>> /\ d.buf = <<Esc>>
  <2>1. SUFFICES ASSUME decoder.age = "old" PROVE later = <<>> /\ d.buf = <<Esc>>
    OBVIOUS
  <2>2. decoder.buf = <<Esc>> /\ wire.there = <<>> /\ wire.sent = <<>>
    BY <1>4, <2>1 DEF Fitting, Waits
  <2>3. Len(wire.there) = 0
    BY <2>2
  <2>4. n = 0
    BY <1>5, <2>3
  <2>5. come = <<>> /\ rest = <<>>
    <3>1. come = SubSeq(<<>>, 1, 0) /\ rest = SubSeq(<<>>, 0 + 1, 0)
      BY <2>2, <2>3, <2>4 DEF come, rest
    <3>2. SubSeq(<<>>, 1, 0) = <<>> /\ SubSeq(<<>>, 0 + 1, 0) = <<>>
      OBVIOUS
    <3> QED BY <3>1, <3>2
  <2>6. later = <<>> /\ d.buf = decoder.buf
    BY <1>1, <1>7, <2>2, <2>5, Join
  <2> QED BY <2>2, <2>6
<1>11. Aged(d)
  <2>1. decoder.age # "none" => decoder.buf # <<>> /\ Head(decoder.buf) = Esc
    BY <1>4 DEF Fitting, Waits
  <2>2. decoder.buf # <<>> => d.buf # <<>> /\ Head(d.buf) = Head(decoder.buf)
    BY <1>1, <1>6, <1>7, HeadJoin
  <2> QED BY <1>7, <2>1, <2>2 DEF Aged
<1> HIDE DEF later
<1>12. /\ Fits(typed.keys, heard, d, later, FALSE, fed)
       /\ fed.halt \/ fed.buf = <<>>
  BY <1>1, <1>7, <1>8, <1>9, <1>11, DecodeFits
<1> DEFINE e == [buf |-> fed.buf, age |-> fed.age]
           force == e.buf # <<>> /\ Head(e.buf) = Esc /\ e.age = "old"
           h == heard \o fed.events
<1>13. fed.buf \in Stream /\ fed.age \in Ages /\ fed.events \in Seq(Stream)
  BY <1>12 DEF Fits, States
<1>14. e \in Decoders /\ e.buf = fed.buf /\ e.age = fed.age /\ force \in BOOLEAN
  BY <1>13 DEF Decoders
<1>15. flushed = Decode(e, force)
  BY DEF Flush
<1>16. h \in Seq(Stream) /\ Left(typed.keys, h, e.buf, later) /\ Aged(e)
  <2>1. h \in Seq(Stream)
    BY <1>1, <1>13, ConcatProperties
  <2> QED BY <1>12, <1>14, <2>1 DEF Fits, Aged
<1>17. force => later = <<>> /\ e.buf = <<Esc>>
  BY <1>7, <1>10, <1>12, <1>14 DEF Fits
<1>18. e.age = "old" => force
  BY <1>16 DEF Aged
<1> HIDE DEF flushed, e, force, h
<1>19. /\ Fits(typed.keys, h, e, later, force, flushed)
       /\ flushed.halt \/ flushed.buf = <<>>
  BY <1>14, <1>15, <1>16, <1>17, DecodeFits
<1>20. heard' = h \o flushed.events /\ decoder'.buf = flushed.buf /\ decoder'.age = flushed.age
  BY <1>2 DEF h
<1>21. IsPrefix(heard', typed'.keys) /\ EscLast(heard', typed'.keys)
  BY <1>2, <1>19, <1>20 DEF Fits, Left
<1>22. flushed.age # "none" =>
         flushed.buf # <<>> /\ Head(flushed.buf) = Esc /\ Undecided(flushed.buf, FALSE) /\ ~ force
  <2>1. SUFFICES ASSUME flushed.age # "none"
                 PROVE  flushed.buf # <<>> /\ Head(flushed.buf) = Esc
                        /\ Undecided(flushed.buf, FALSE) /\ ~ force
    OBVIOUS
  <2>2. flushed.buf # <<>> /\ Head(flushed.buf) = Esc
    BY <1>19, <2>1 DEF Fits
  <2>3. Undecided(flushed.buf, force)
    BY <1>19, <2>2 DEF Fits
  <2> QED BY <1>14, <2>2, <2>3, UndecidedEarlier
<1>23. flushed.age # "old"
  <2>1. flushed.age = "old" => e.age = "old"
    BY <1>19 DEF Fits
  <2> QED BY <1>18, <1>22, <2>1
<1> QED BY <1>20, <1>21, <1>22, <1>23 DEF Fitting, Waits

\* Every step keeps what was heard whole.
LEMMA NextClear == ASSUME ChordsApart, Streams, Clear, [Next]_vars PROVE Clear'
<1>1. CASE UNCHANGED <<wire, decoder, typed, heard>>
  BY <1>1 DEF Clear, Fitting, EscLast, Waits
<1>2. ASSUME NEW k \in DOMAIN Faces,
             PressKey(k) \/ ReleaseKey(k) \/ HostRepeat(k) \/ HostRelease(k)
      PROVE  Clear'
  BY <1>1, <1>2 DEF PressKey, ReleaseKey, HostRepeat, HostRelease, Terminal
<1>3. CASE FocusOut \/ FocusIn \/ Typematic
  BY <1>1, <1>3 DEF FocusOut, FocusIn, Typematic, Terminal
<1>4. CASE UNCHANGED vars
  BY <1>1, <1>4 DEF vars
<1>5. ASSUME NEW m \in Modifiers, PressModifier(m) \/ ReleaseModifier(m) PROVE Clear'
  BY <1>1, <1>5 DEF PressModifier, ReleaseModifier, Terminal
<1> QED BY <1>2, <1>3, <1>4, <1>5, TypeClear, ArriveClear, PollClear, PauseClear DEF Next

\* For any keys and sequences a terminal can tell apart, however their bytes
\* are cut into reads and turns, the decoder hears the keys that were typed, in
\* their order, as long as no pause and no early Escape tore one.
THEOREM KeysComeWhole == ASSUME ChordsApart PROVE Spec => []KeysDecoded
<1>1. Init => Streams /\ Clear
  <2> SUFFICES ASSUME Init PROVE Streams /\ Clear
    OBVIOUS
  <2>1. StreamTypes
    BY EmptySeq DEF Init, StreamTypes, Decoders, Ages, Stream
  <2>2. NothingSwallowed
    BY Flat, Join DEF Init, NothingSwallowed
  <2>3. Clear
    <3>1. typed.keys = <<>> /\ heard = <<>> /\ decoder.age = "none" /\ <<>> \in Seq(TermKeys)
      BY DEF Init
    <3>2. IsPrefix(<<>>, <<>>)
      BY DEF IsPrefix
    <3>3. EscLast(<<>>, <<>>)
      BY DEF EscLast
    <3> QED BY <3>1, <3>2, <3>3 DEF Clear, Fitting, Waits
  <2> QED BY <2>1, <2>2, <2>3 DEF Streams
<1>2. Streams /\ Clear /\ [Next]_vars => Streams' /\ Clear'
  BY NextStreams, NextClear
<1>3. Clear => KeysDecoded
  BY DEF Clear, Fitting, KeysDecoded
<1> QED BY <1>1, <1>2, <1>3, PTL DEF Spec
=============================================================================
