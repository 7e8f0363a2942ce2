------------------------ MODULE KeyboardSystemProofs ------------------------
(***************************************************************************)
(* Proofs about KeyboardSystem.tla, for any scan codes, host keys, chips   *)
(* and modes, queues of any length and handlers nested to any depth: IRQ 1 *)
(* has one handler at a time, and the keys typed reach the program's reads *)
(* once each and in order (the specification of TypeAhead.tla).            *)
(***************************************************************************)
EXTENDS KeyboardSystem, SequenceTheorems, WellFoundedInduction, TLAPS

---------------------------------------------------------------------------
(* The controllers.                                                        *)

\* A chip that powers on is a chip.
LEMMA PowerOnType == \A b \in Bases : PowerOnChip(b) \in Chip
<1>1. 0 \in 0 .. 3 /\ {} \in SUBSET Lines /\ TRUE \in Flag /\ FALSE \in Flag
  BY DEF Flag
<1> QED BY Zenon, <1>1 DEF PowerOnChip, Chip

\* The command word that ends an interrupt makes a chip of a chip.
LEMMA ChipWrites ==
  ASSUME NEW c \in Chip
  PROVE  EndLowest(c) \in Chip
<1>1. /\ c.ims \ LowestOf(c.ims) \in SUBSET Lines
      /\ c.irr \ LowestOf(c.ims) \in SUBSET Lines
  BY DEF Chip
<1> QED BY Zenon, <1>1 DEF Chip, EndLowest

\* Raising, claiming and ending a line of the master keep the pair's type.
LEMMA PairCalls ==
  ASSUME NEW p \in PICPair, NEW irq \in IRQs, irq < Width
  PROVE  /\ RaiseIRQ(p, irq) \in PICPair
         /\ Claimed(p, irq) \in PICPair
         /\ SendEOI(p, irq) \in PICPair
<1>1. irq \in Lines
  BY PICAssumption DEF IRQs, Lines
<1>2. RaiseIRQ(p, irq) \in PICPair
  BY <1>1 DEF RaiseIRQ, PICPair, Chip
<1>3. Claimed(p, irq) \in PICPair
  BY <1>1 DEF Claimed, PICPair, Chip
<1>4. EndLine(p.master, irq) \in Chip
  BY DEF EndLine, PICPair, Chip
<1>5. SendEOI(p, irq) \in PICPair
  BY <1>4 DEF SendEOI, PICPair
<1> QED BY <1>2, <1>3, <1>5

---------------------------------------------------------------------------
(* Numbers and sequences.                                                  *)

\* A set of numbers has a least one: what induction is in the proofs below.
LEMMA LeastNumber ==
  ASSUME NEW S \in SUBSET Nat, S # {} PROVE \E x \in S : \A y \in S : x <= y
<1>1. IsWellFoundedOn({p \in Nat \X Nat : p[1] < p[2]}, Nat)
  BY NatLessThanWellFounded DEF OpToRel
<1>2. PICK x \in S : \A y \in S : ~ (<<y, x>> \in {p \in Nat \X Nat : p[1] < p[2]})
  BY <1>1, WFMin
<1>3. ASSUME NEW y \in S PROVE x <= y
  <2>1. ~ (<<y, x>> \in {p \in Nat \X Nat : p[1] < p[2]})
    BY <1>2
  <2>2. <<y, x>> \in Nat \X Nat /\ <<y, x>>[1] = y /\ <<y, x>>[2] = x
    OBVIOUS
  <2>3. QED
    BY <2>1, <2>2
<1>4. QED
  BY <1>3

\* Concatenations of keys may be regrouped.
LEMMA Regroup ==
  \A s, t, u \in Seq(KeyNames) : (s \o t) \o u = s \o (t \o u)
BY ConcatAssociative

\* What one entry gives a program to read.
Given(e) == IF Bufferable(e) THEN <<e.key>> ELSE <<>>

\* f is the recursion of KeysOf for s, up to n.
Solved(s, n, f) ==
  f = [i \in 0 .. n |-> IF i = 0 THEN <<>> ELSE f[i - 1] \o Given(s[i])]

\* The recursion has a solution: it is built up entry by entry.
LEMMA Solvable ==
  ASSUME NEW s, NEW n \in Nat
  PROVE  \E f : Solved(s, n, f)
<1> DEFINE Bad == {m \in Nat : \A f : ~ Solved(s, m, f)}
<1>1. SUFFICES ASSUME Bad # {} PROVE FALSE
  OBVIOUS
<1>2. PICK m \in Bad : \A k \in Bad : m <= k
  <2> Bad \in SUBSET Nat
    OBVIOUS
  <2> HIDE DEF Bad
  <2>1. QED
    BY <1>1, LeastNumber
<1>3. CASE m = 0
  <2> DEFINE f == [i \in 0 .. 0 |-> <<>>]
  <2>1. Solved(s, 0, f)
    BY DEF Solved
  <2>2. QED
    BY <1>2, <1>3, <2>1
<1>4. CASE m # 0
  <2>1. m \in Nat /\ m - 1 \in Nat /\ m - 1 \notin Bad
    BY <1>2, <1>4
  <2>2. PICK f : Solved(s, m - 1, f)
    BY <2>1
  <2> DEFINE g == [i \in 0 .. m |-> IF i = 0 THEN <<>> ELSE f[i - 1] \o Given(s[i])]
  <2>3. \A i \in 0 .. m - 1 : g[i] = f[i]
    BY <2>1, <2>2 DEF Solved
  <2>4. g = [i \in 0 .. m |-> IF i = 0 THEN <<>> ELSE g[i - 1] \o Given(s[i])]
    <3>1. \A i \in 0 .. m : i # 0 => i - 1 \in 0 .. m - 1
      BY <2>1
    <3>2. \A i \in 0 .. m : i # 0 => g[i - 1] = f[i - 1]
      BY <2>3, <3>1
    <3>3. QED
      BY <3>2
  <2>5. QED
    BY <1>2, <2>4 DEF Solved
<1>5. QED
  BY <1>3, <1>4

\* KeysOf is its recursion at the last entry.
LEMMA KeysSolved ==
  ASSUME NEW s, Len(s) \in Nat
  PROVE  \E f : Solved(s, Len(s), f) /\ KeysOf(s) = f[Len(s)]
<1> DEFINE f == CHOOSE g : Solved(s, Len(s), g)
<1>1. Solved(s, Len(s), f)
  BY Solvable
<1>2. KeysOf(s) = f[Len(s)]
  BY DEF KeysOf, Solved, Given
<1>3. QED
  BY <1>1, <1>2

\* The recursion, unfolded.
Steps(s, n, f) ==
  f[0] = <<>> /\ \A i \in 1 .. n : f[i] = f[i - 1] \o Given(s[i])

\* What solves the recursion goes its steps.
LEMMA SolvedStep ==
  ASSUME NEW s, NEW n \in Nat, NEW f, Solved(s, n, f)
  PROVE  Steps(s, n, f)
<1>1. 0 \in 0 .. n /\ \A i \in 1 .. n : i \in 0 .. n /\ i # 0
  OBVIOUS
<1>2. QED
  BY <1>1 DEF Solved, Steps

\* Sequences that begin alike have recursions that begin alike.
LEMMA SolvedAlike ==
  ASSUME NEW n \in Nat, NEW s, NEW t, \A i \in 1 .. n : s[i] = t[i],
         NEW f, NEW g, Steps(s, n, f), Steps(t, n, g)
  PROVE  f[n] = g[n]
<1> DEFINE Bad == {i \in 0 .. n : f[i] # g[i]}
<1>1. SUFFICES ASSUME Bad # {} PROVE FALSE
  OBVIOUS
<1>2. PICK m \in Bad : \A i \in Bad : m <= i
  <2> Bad \in SUBSET Nat
    OBVIOUS
  <2> HIDE DEF Bad
  <2>1. QED
    BY <1>1, LeastNumber
<1>3. CASE m = 0
  BY <1>2, <1>3 DEF Steps
<1>4. CASE m # 0
  <2>1. m \in 1 .. n /\ m - 1 \in 0 .. n /\ m - 1 \notin Bad
    BY <1>2, <1>4
  <2>2. f[m] = f[m - 1] \o Given(s[m]) /\ g[m] = g[m - 1] \o Given(t[m])
    BY <2>1 DEF Steps
  <2>3. QED
    BY <1>2, <2>1, <2>2
<1>5. QED
  BY <1>3, <1>4

---------------------------------------------------------------------------
(* Types.                                                                  *)

Modifiers == [held : SUBSET Held, locks : SUBSET LockCodes,
              pressed : SUBSET LockCodes, prefix : BOOLEAN]

\* What waits in the controller: the loop's host types no replies.
Entry == [src : {"host", "make", "other"}, key : KeyNames, mods : Modifiers]

\* What a read of the controller gives, and what a handler may have kept.
Event == Entry \cup [src : {"none", "void"}, key : {"none"}, mods : Modifiers]

Controller ==
  [queue : Seq(Entry), ready : BOOLEAN, gap : BOOLEAN, irqEvent : Event,
   irqPending : BOOLEAN, cmdMode : BOOLEAN, awaitPort : BOOLEAN,
   ledSelect : BOOLEAN, port : OutputPort, mods : Modifiers]

\* A key is given by an entry of the host or by a make.
LEMMA GivenType ==
  /\ \A e \in Event : Given(e) \in Seq(KeyNames)
  /\ \A e \in Entry : e \in Event
  /\ \A e \in Event : e.src \in {"none", "void"} => Given(e) = <<>>
BY DEF Entry, Event, Given, Bufferable

---------------------------------------------------------------------------
(* The keys among entries.                                                 *)

\* No entries, no keys.
LEMMA KeysEmpty == KeysOf(<<>>) = <<>>
<1>1. PICK f : Solved(<<>>, 0, f) /\ KeysOf(<<>>) = f[0]
  BY KeysSolved
<1>2. QED
  BY <1>1 DEF Solved

\* One entry gives what Given says.
LEMMA KeysOne ==
  ASSUME NEW e \in Event PROVE KeysOf(<<e>>) = Given(e)
<1>0. Len(<<e>>) = 1 /\ <<e>>[1] = e
  OBVIOUS
<1>1. PICK f : Solved(<<e>>, 1, f) /\ KeysOf(<<e>>) = f[1]
  BY <1>0, KeysSolved
<1>2. f[0] = <<>> /\ f[1] = f[0] \o Given(e)
  <2>1. 1 \in Nat /\ 1 \in 1 .. 1 /\ 1 - 1 = 0
    OBVIOUS
  <2>2. f[0] = <<>> /\ f[1] = f[1 - 1] \o Given(<<e>>[1])
    BY <1>1, <2>1, SolvedStep DEF Steps
  <2>3. QED
    BY <1>0, <2>1, <2>2
<1>3. Given(e) \in Seq({e.key})
  <2>1. <<>> \in Seq({e.key}) /\ <<e.key>> \in Seq({e.key})
    OBVIOUS
  <2>2. QED
    BY <2>1 DEF Given
<1>4. <<>> \o Given(e) = Given(e)
  BY <1>3, ConcatEmptySeq
<1>5. QED
  BY <1>1, <1>2, <1>4

\* The partial results of the recursion are sequences of keys.
LEMMA SolvedType ==
  ASSUME NEW s \in Seq(Entry), NEW n \in Nat, n <= Len(s),
         NEW f, Solved(s, n, f)
  PROVE  \A i \in 0 .. n : f[i] \in Seq(KeyNames)
<1> DEFINE Bad == {i \in 0 .. n : f[i] \notin Seq(KeyNames)}
<1>1. SUFFICES ASSUME Bad # {} PROVE FALSE
  OBVIOUS
<1>2. PICK m \in Bad : \A i \in Bad : m <= i
  <2> Bad \in SUBSET Nat
    OBVIOUS
  <2> HIDE DEF Bad
  <2>1. QED
    BY <1>1, LeastNumber
<1>3. CASE m = 0
  <2>1. f[0] = <<>>
    BY DEF Solved
  <2>2. QED
    BY <1>2, <1>3, <2>1, EmptySeq
<1>4. CASE m # 0
  <2>1. m \in 1 .. n /\ m - 1 \in 0 .. n /\ m - 1 \notin Bad
    BY <1>2, <1>4
  <2>2. f[m] = f[m - 1] \o Given(s[m])
    BY <1>4, <2>1 DEF Solved
  <2>3. s[m] \in Entry
    BY <2>1, ElementOfSeq, LenProperties
  <2>4. Given(s[m]) \in Seq(KeyNames) /\ f[m - 1] \in Seq(KeyNames)
    BY <2>1, <2>3, GivenType
  <2>5. f[m - 1] \o Given(s[m]) \in Seq(KeyNames)
    <3> HIDE DEF Bad
    <3>1. QED
      BY <2>4, ConcatProperties
  <2>6. QED
    BY <1>2, <2>2, <2>5
<1>5. QED
  BY <1>3, <1>4

\* The keys among entries are keys.
LEMMA KeysType ==
  ASSUME NEW s \in Seq(Entry) PROVE KeysOf(s) \in Seq(KeyNames)
<1>1. Len(s) \in Nat
  BY LenProperties
<1>2. PICK f : Solved(s, Len(s), f) /\ KeysOf(s) = f[Len(s)]
  BY <1>1, KeysSolved
<1>3. QED
  BY <1>1, <1>2, SolvedType

\* An entry that is queued adds its key at the end.
LEMMA KeysAppend ==
  ASSUME NEW s \in Seq(Entry), NEW e \in Entry
  PROVE  KeysOf(Append(s, e)) = KeysOf(s) \o Given(e)
<1> DEFINE t == Append(s, e)
           n == Len(s)
<1>1. /\ n \in Nat /\ Len(t) = n + 1 /\ t \in Seq(Entry)
      /\ \A i \in 1 .. n : s[i] = t[i]
      /\ t[n + 1] = e
  BY AppendProperties, LenProperties
<1> HIDE DEF t, n
<1>2. PICK f : Solved(s, n, f) /\ KeysOf(s) = f[n]
  BY <1>1, KeysSolved DEF n
<1>3. PICK g : Solved(t, n + 1, g) /\ KeysOf(t) = g[n + 1]
  BY <1>1, KeysSolved
<1>4. f[n] = g[n]
  <2>1. Steps(s, n, f)
    BY <1>1, <1>2, SolvedStep DEF Steps
  <2>2. Steps(t, n, g)
    <3>1. n + 1 \in Nat /\ \A i \in 1 .. n : i \in 1 .. n + 1
      BY <1>1
    <3>2. Steps(t, n + 1, g)
      BY <1>3, <3>1, SolvedStep DEF Steps
    <3>3. QED
      BY <3>1, <3>2 DEF Steps
  <2>3. QED
    BY <1>1, <2>1, <2>2, SolvedAlike
<1>5. g[n + 1] = g[n] \o Given(e)
  <2>1. n + 1 \in Nat /\ n + 1 \in 1 .. n + 1 /\ (n + 1) - 1 = n
    BY <1>1
  <2>2. g[n + 1] = g[(n + 1) - 1] \o Given(t[n + 1])
    BY <1>3, <2>1, SolvedStep DEF Steps
  <2>3. QED
    BY <1>1, <2>1, <2>2
<1>6. QED
  BY <1>2, <1>3, <1>4, <1>5 DEF t

\* The keys of a queue are those of its head, then those of the rest.
LEMMA KeysHead ==
  ASSUME NEW s \in Seq(Entry), s # <<>>
  PROVE  /\ Head(s) \in Entry /\ Tail(s) \in Seq(Entry)
         /\ KeysOf(s) = Given(Head(s)) \o KeysOf(Tail(s))
<1> DEFINE t == Tail(s)
           n == Len(t)
           G == Given(Head(s))
<1>1. /\ n \in Nat /\ Len(s) = n + 1 /\ t \in Seq(Entry) /\ Head(s) \in Entry
      /\ \A i \in 1 .. n : t[i] = s[i + 1]
      /\ s[1] = Head(s)
  BY HeadTailProperties, LenProperties, EmptySeq
<1>2. G \in Seq(KeyNames)
  BY <1>1, GivenType
<1> HIDE DEF t, n, G
<1>3. PICK f : Solved(s, n + 1, f) /\ KeysOf(s) = f[n + 1]
  BY <1>1, KeysSolved
<1>4. PICK g : Solved(t, n, g) /\ KeysOf(t) = g[n]
  BY <1>1, KeysSolved DEF n
<1>5. \A i \in 0 .. n : g[i] \in Seq(KeyNames)
  BY <1>1, <1>4, SolvedType DEF n
<1> DEFINE Bad == {i \in 0 .. n : f[i + 1] # G \o g[i]}
<1>6. ASSUME Bad # {} PROVE FALSE
  <2>1. PICK m \in Bad : \A i \in Bad : m <= i
    <3> Bad \in SUBSET Nat
      BY <1>1
    <3> HIDE DEF Bad
    <3>1. QED
      BY <1>6, LeastNumber
  <2>2. CASE m = 0
    <3>1. f[0] = <<>> /\ f[1] = f[0] \o Given(s[1]) /\ g[0] = <<>>
      <4>1. 1 \in 1 .. n + 1 /\ 1 - 1 = 0 /\ n + 1 \in Nat
        BY <1>1
      <4>2. f[0] = <<>> /\ f[1] = f[1 - 1] \o Given(s[1])
        BY <1>3, <4>1, SolvedStep DEF Steps
      <4>3. g[0] = <<>>
        BY <1>1, <1>4, SolvedStep DEF Steps
      <4>4. QED
        BY <4>1, <4>2, <4>3
    <3>2. f[1] = G /\ G \o g[0] = G
      BY <1>1, <1>2, <3>1, ConcatEmptySeq DEF G
    <3>3. QED
      BY <2>1, <2>2, <3>2
  <2>3. CASE m # 0
    <3>1. m \in 1 .. n /\ m - 1 \in 0 .. n /\ m - 1 \notin Bad /\ (m - 1) + 1 = m
      BY <1>1, <2>1, <2>3
    <3>2. f[m] = G \o g[m - 1]
      BY <3>1
    <3>3. f[m + 1] = f[m] \o Given(s[m + 1])
      <4>1. m + 1 \in 1 .. n + 1 /\ (m + 1) - 1 = m /\ n + 1 \in Nat
        BY <1>1, <3>1
      <4>2. f[m + 1] = f[(m + 1) - 1] \o Given(s[m + 1])
        BY <1>3, <4>1, SolvedStep DEF Steps
      <4>3. QED
        BY <4>1, <4>2
    <3>4. g[m] = g[m - 1] \o Given(t[m])
      BY <1>1, <1>4, <3>1, SolvedStep DEF Steps
    <3>5. t[m] = s[m + 1] /\ t[m] \in Entry
      BY <1>1, <3>1, ElementOfSeq DEF n
    <3>6. Given(t[m]) \in Seq(KeyNames)
      BY <3>5, GivenType
    <3>7. (G \o g[m - 1]) \o Given(t[m]) = G \o (g[m - 1] \o Given(t[m]))
      <4>1. g[m - 1] \in Seq(KeyNames)
        BY <1>5, <3>1
      <4> HIDE DEF Bad
      <4>2. QED
        BY <1>2, <3>6, <4>1, Regroup, Zenon
    <3>8. f[m + 1] = G \o g[m]
      BY <3>2, <3>3, <3>4, <3>5, <3>7
    <3>9. QED
      BY <2>1, <3>8
  <2>4. QED
    BY <2>2, <2>3
<1>7. f[n + 1] = G \o g[n]
  BY <1>1, <1>6, SMTT(60)
<1>8. QED
  BY <1>1, <1>3, <1>4, <1>7 DEF t, G

---------------------------------------------------------------------------
(* The guest's handlers and the lines in service.                          *)

\* Is the innermost handler one of this line that has not ended it yet?
Serving(irq) == InHandler /\ Running.irq = irq /\ Running.stage # "done"

HandlerTypes ==
  /\ frames \in Seq(Frame) /\ pic \in PICPair
  /\ ifFlag \in BOOLEAN /\ callerIF \in BOOLEAN

\* Only a timer handler that has ended its line can be interrupted: the
\* others run with IF clear.
Nested ==
  /\ \A i \in 1 .. Len(frames) : frames[i].irq = Timer => frames[i].stage # "read"
  /\ \A i \in 1 .. Len(frames) - 1 :
       frames[i].irq = Timer /\ frames[i].stage = "done"
  /\ InHandler /\ (Running.irq = Keyboard \/ Running.stage # "done") => ~ifFlag

\* A line is in service exactly while its handler has to end it.
InService ==
  /\ pic.slave.irr = {} /\ pic.master.ims \subseteq {Timer, Keyboard}
  /\ Timer \in pic.master.ims <=> Serving(Timer)
  /\ Keyboard \in pic.master.ims <=> Serving(Keyboard)

\* The inductive invariant behind OneKeyboardHandler.
Handlers == HandlerTypes /\ Nested /\ InService

\* The two lines are lines of the master, below the cascade's.
LEMMA DirectLines ==
  /\ Timer \in Lines /\ Keyboard \in Lines
  /\ Timer \in IRQs /\ Keyboard \in IRQs
  /\ Timer < Width /\ Keyboard < Width
BY WiringAssumption, PICAssumption DEF Timer, Keyboard, Lines, IRQs

\* What the calls for one of the two lines do to the registers.
LEMMA LineCalls ==
  ASSUME NEW p \in PICPair, NEW l \in {Timer, Keyboard}
  PROVE  /\ RaiseIRQ(p, l) \in PICPair
         /\ RaiseIRQ(p, l).master.ims = p.master.ims
         /\ RaiseIRQ(p, l).slave.irr = p.slave.irr
         /\ Claimed(p, l) \in PICPair
         /\ Claimed(p, l).master.ims = p.master.ims \cup {l}
         /\ Claimed(p, l).slave.irr = p.slave.irr
         /\ SendEOI(p, l) \in PICPair
         /\ SendEOI(p, l).master.ims = p.master.ims \ {l}
         /\ SendEOI(p, l).slave.irr = p.slave.irr
<1>1. l \in IRQs /\ l < Width
  BY DirectLines
<1>2. /\ RaiseIRQ(p, l) \in PICPair /\ Claimed(p, l) \in PICPair
      /\ SendEOI(p, l) \in PICPair
  BY <1>1, PairCalls
<1>3. /\ RaiseIRQ(p, l).master.ims = p.master.ims
      /\ RaiseIRQ(p, l).slave.irr = p.slave.irr
  BY <1>1 DEF RaiseIRQ, PICPair, Chip
<1>4. /\ Claimed(p, l).master.ims = p.master.ims \cup {l}
      /\ Claimed(p, l).slave.irr = p.slave.irr
  BY <1>1 DEF Claimed, PICPair, Chip
<1>5. /\ SendEOI(p, l).master.ims = p.master.ims \ {l}
      /\ SendEOI(p, l).slave.irr = p.slave.irr
  BY <1>1 DEF SendEOI, EndLine, PICPair, Chip
<1>6. QED
  BY <1>2, <1>3, <1>4, <1>5

\* The command word ends the one line in service.
LEMMA EndsTheLine ==
  ASSUME NEW p \in PICPair, NEW l \in {Timer, Keyboard}, p.master.ims = {l}
  PROVE  /\ [p EXCEPT !.master = EndLowest(p.master)] \in PICPair
         /\ [p EXCEPT !.master = EndLowest(p.master)].master.ims = {}
         /\ [p EXCEPT !.master = EndLowest(p.master)].slave.irr = p.slave.irr
<1>1. p.master \in Chip /\ EndLowest(p.master) \in Chip
  BY ChipWrites DEF PICPair
<1>2. LowestOf({l}) = {l}
  BY DEF LowestOf, Timer, Keyboard
<1>3. EndLowest(p.master).ims = {}
  BY <1>1, <1>2 DEF EndLowest, Chip
<1>4. QED
  BY <1>1, <1>3 DEF PICPair

\* The innermost handler goes on to another stage.
LEMMA MovedFrame ==
  ASSUME frames \in Seq(Frame), InHandler,
         NEW stage \in {"start", "read", "done"}, MoveTo(stage)
  PROVE  /\ frames' \in Seq(Frame) /\ Len(frames') = Len(frames)
         /\ Len(frames) \in Nat \ {0} /\ InHandler'
         /\ Running' = [Running EXCEPT !.stage = stage]
         /\ \A i \in 1 .. Len(frames) - 1 : frames'[i] = frames[i]
<1>1. Len(frames) \in Nat \ {0} /\ Len(frames) \in 1 .. Len(frames)
  BY EmptySeq, LenProperties DEF InHandler
<1>2. Running \in Frame
  BY <1>1, ElementOfSeq DEF Running
<1>3. [Running EXCEPT !.stage = stage] \in Frame
  BY <1>2 DEF Frame
<1>4. frames' = [frames EXCEPT ![Len(frames)] = [Running EXCEPT !.stage = stage]]
  BY DEF MoveTo, Running
<1>5. /\ frames' \in Seq(Frame) /\ Len(frames') = Len(frames)
      /\ \A i \in 1 .. Len(frames) : frames'[i] =
           IF i = Len(frames) THEN [Running EXCEPT !.stage = stage] ELSE frames[i]
  BY <1>1, <1>3, <1>4, ExceptSeq
<1>6. frames' # <<>>
  BY <1>1, <1>5
<1>7. QED
  BY <1>1, <1>5, <1>6 DEF InHandler, Running

\* A handler is entered.
LEMMA PushedFrame ==
  ASSUME frames \in Seq(Frame), ifFlag \in BOOLEAN,
         NEW irq \in {Timer, Keyboard}, Enter(irq)
  PROVE  /\ frames' \in Seq(Frame) /\ Len(frames') = Len(frames) + 1
         /\ Len(frames) \in Nat /\ InHandler' /\ ifFlag' = FALSE
         /\ Running' = [irq |-> irq, stage |-> "start", savedIF |-> ifFlag]
         /\ \A i \in 1 .. Len(frames) : frames'[i] = frames[i]
<1> DEFINE f == [irq |-> irq, stage |-> "start", savedIF |-> ifFlag]
<1>1. f \in Frame /\ frames' = Append(frames, f) /\ ifFlag' = FALSE
  BY DEF Enter, Frame
<1> HIDE DEF f
<1>2. /\ frames' \in Seq(Frame) /\ Len(frames') = Len(frames) + 1
      /\ frames' # <<>> /\ frames'[Len(frames) + 1] = f
      /\ \A i \in 1 .. Len(frames) : frames'[i] = frames[i]
  BY <1>1, AppendProperties
<1>3. Len(frames) \in Nat
  BY LenProperties
<1>4. QED
  BY <1>1, <1>2, <1>3 DEF InHandler, Running, f

\* A handler returns.
LEMMA PoppedFrame ==
  ASSUME frames \in Seq(Frame), InHandler,
         frames' = SubSeq(frames, 1, Len(frames) - 1)
  PROVE  /\ frames' \in Seq(Frame) /\ Len(frames') = Len(frames) - 1
         /\ Len(frames) \in Nat \ {0}
         /\ InHandler' <=> Len(frames) > 1
         /\ \A i \in 1 .. Len(frames) - 1 : frames'[i] = frames[i]
<1>1. Len(frames) \in Nat \ {0}
  BY EmptySeq, LenProperties DEF InHandler
<1>2. \A i \in 1 .. Len(frames) - 1 : frames[i] \in Frame
  BY <1>1, ElementOfSeq
<1>3. /\ frames' \in Seq(Frame)
      /\ Len(frames') = IF 1 <= Len(frames) - 1 THEN (Len(frames) - 1) - 1 + 1 ELSE 0
      /\ \A i \in 1 .. (Len(frames) - 1) - 1 + 1 : frames'[i] = frames[1 + i - 1]
  BY <1>1, <1>2, SubSeqProperties
<1>4. Len(frames') = Len(frames) - 1
  <2> DEFINE n == Len(frames)
             k == Len(frames')
  <2>1. n \in Nat \ {0} /\ k = IF 1 <= n - 1 THEN (n - 1) - 1 + 1 ELSE 0
    BY <1>1, <1>3
  <2> HIDE DEF n, k
  <2>2. k = n - 1
    BY <2>1
  <2>3. QED
    BY <2>2 DEF n, k
<1>5. \A i \in 1 .. Len(frames) - 1 : frames'[i] = frames[i]
  BY <1>1, <1>3
<1>6. InHandler' <=> Len(frames') # 0
  BY <1>3, EmptySeq DEF InHandler
<1>7. QED
  BY <1>1, <1>3, <1>4, <1>5, <1>6

\* Steps that leave the handlers and the lines in service as they are, and
\* IF unless it may be set.
LEMMA HandlersQuiet ==
  ASSUME Handlers, frames' = frames, pic' \in PICPair,
         pic'.master.ims = pic.master.ims, pic'.slave.irr = pic.slave.irr,
         ifFlag' \in BOOLEAN, callerIF' \in BOOLEAN,
         \/ ifFlag' = ifFlag \/ ~InHandler
         \/ Running.irq = Timer /\ Running.stage = "done"
  PROVE  Handlers'
<1>1. HandlerTypes'
  BY DEF Handlers, HandlerTypes
<1>2. Running' = Running /\ (InHandler' <=> InHandler)
  BY DEF Running, InHandler
<1>3. Nested'
  BY <1>2 DEF Handlers, Nested, Timer, Keyboard
<1>4. InService'
  BY <1>2 DEF Handlers, InService, Serving
<1>5. QED
  BY <1>1, <1>3, <1>4 DEF Handlers

\* While a handler has its line to end, it is the only line in service.
LEMMA OneLine ==
  ASSUME Handlers, NEW irq \in {Timer, Keyboard}, Serving(irq)
  PROVE  pic.master.ims = {irq} /\ ~ifFlag
<1>1. \A l \in {Timer, Keyboard} : Serving(l) => l = irq
  BY DEF Serving
<1>2. QED
  BY <1>1 DEF Handlers, InService, Nested, Serving, Timer, Keyboard

\* A handler that goes on without ending its line.
LEMMA HandlersMove ==
  ASSUME Handlers, Serving(Keyboard), MoveTo("read"), pic' = pic,
         ifFlag' = ifFlag, callerIF' = callerIF
  PROVE  Handlers'
<1>0. frames \in Seq(Frame) /\ InHandler /\ Running.irq = Keyboard
  BY DEF Handlers, HandlerTypes, Serving
<1>1. /\ frames' \in Seq(Frame) /\ Len(frames') = Len(frames)
      /\ Len(frames) \in Nat \ {0} /\ InHandler'
      /\ Running' = [Running EXCEPT !.stage = "read"]
      /\ \A i \in 1 .. Len(frames) - 1 : frames'[i] = frames[i]
  BY <1>0, MovedFrame
<1>2. Running \in Frame
  BY <1>0, <1>1, ElementOfSeq DEF Running
<1>3. Running'.irq = Keyboard /\ Running'.stage = "read"
  BY <1>0, <1>1, <1>2 DEF Frame
<1>4. HandlerTypes'
  BY <1>1 DEF Handlers, HandlerTypes
<1>5. Nested'
  <2>1. \A i \in 1 .. Len(frames') - 1 :
          frames'[i].irq = Timer /\ frames'[i].stage = "done"
    BY <1>1 DEF Handlers, Nested
  <2>2. \A i \in 1 .. Len(frames') : frames'[i].irq = Timer => frames'[i].stage # "read"
    <3>1. ASSUME NEW i \in 1 .. Len(frames') PROVE i \in 1 .. Len(frames') - 1 \/ i = Len(frames')
      BY <1>1
    <3>2. frames'[Len(frames')].irq # Timer
      BY <1>3 DEF Running, Timer, Keyboard
    <3>3. QED
      BY <2>1, <3>1, <3>2
  <2>3. ~ifFlag'
    BY OneLine
  <2>4. QED
    BY <2>1, <2>2, <2>3 DEF Nested
<1>6. InService'
  BY <1>0, <1>1, <1>3 DEF Handlers, InService, Serving, Timer, Keyboard
<1>7. QED
  BY <1>4, <1>5, <1>6 DEF Handlers

\* A handler that ends its line.
LEMMA HandlersEnd ==
  ASSUME Handlers, NEW irq \in {Timer, Keyboard}, Serving(irq), MoveTo("done"),
         pic' \in PICPair, pic'.master.ims = {}, pic'.slave.irr = pic.slave.irr,
         ifFlag' = ifFlag, callerIF' = callerIF
  PROVE  Handlers'
<1>0. frames \in Seq(Frame) /\ InHandler /\ Running.irq = irq
  BY DEF Handlers, HandlerTypes, Serving
<1>1. /\ frames' \in Seq(Frame) /\ Len(frames') = Len(frames)
      /\ Len(frames) \in Nat \ {0} /\ InHandler'
      /\ Running' = [Running EXCEPT !.stage = "done"]
      /\ \A i \in 1 .. Len(frames) - 1 : frames'[i] = frames[i]
  BY <1>0, MovedFrame
<1>2. Running \in Frame
  BY <1>0, <1>1, ElementOfSeq DEF Running
<1>3. Running'.irq = irq /\ Running'.stage = "done"
  BY <1>0, <1>1, <1>2 DEF Frame
<1>4. HandlerTypes'
  BY <1>1 DEF Handlers, HandlerTypes
<1>5. Nested'
  <2>1. \A i \in 1 .. Len(frames') - 1 :
          frames'[i].irq = Timer /\ frames'[i].stage = "done"
    BY <1>1 DEF Handlers, Nested
  <2>2. \A i \in 1 .. Len(frames') : frames'[i].irq = Timer => frames'[i].stage # "read"
    <3>1. ASSUME NEW i \in 1 .. Len(frames') PROVE i \in 1 .. Len(frames') - 1 \/ i = Len(frames')
      BY <1>1
    <3>2. frames'[Len(frames')].stage # "read"
      BY <1>3 DEF Running
    <3>3. QED
      BY <2>1, <3>1, <3>2
  <2>3. ~ifFlag'
    BY OneLine
  <2>4. QED
    BY <2>1, <2>2, <2>3 DEF Nested
<1>6. InService'
  BY <1>3 DEF Handlers, InService, Serving
<1>7. QED
  BY <1>4, <1>5, <1>6 DEF Handlers

\* A handler that is entered: no other has a line to end.
LEMMA HandlersEnter ==
  ASSUME Handlers, ifFlag, NEW irq \in {Timer, Keyboard}, Enter(irq),
         pic' = Claimed(pic, irq), callerIF' = callerIF
  PROVE  Handlers'
<1>0. frames \in Seq(Frame) /\ ifFlag \in BOOLEAN /\ pic \in PICPair
  BY DEF Handlers, HandlerTypes
<1>1. /\ frames' \in Seq(Frame) /\ Len(frames') = Len(frames) + 1
      /\ Len(frames) \in Nat /\ InHandler' /\ ifFlag' = FALSE
      /\ Running' = [irq |-> irq, stage |-> "start", savedIF |-> ifFlag]
      /\ \A i \in 1 .. Len(frames) : frames'[i] = frames[i]
  BY <1>0, PushedFrame
<1>2. /\ pic' \in PICPair /\ pic'.slave.irr = pic.slave.irr
      /\ pic'.master.ims = pic.master.ims \cup {irq}
  BY <1>0, LineCalls
<1>3. HandlerTypes'
  BY <1>1, <1>2 DEF Handlers, HandlerTypes
<1>4. InHandler => Running.irq = Timer /\ Running.stage = "done"
  <2>1. ASSUME InHandler PROVE Running.irq \in {Timer, Keyboard}
    <3>1. Len(frames) \in 1 .. Len(frames)
      BY <1>0, <1>1, <2>1, EmptySeq DEF InHandler
    <3>2. Running \in Frame
      BY <1>0, <3>1, ElementOfSeq DEF Running
    <3>3. QED
      BY <3>2 DEF Frame
  <2>2. QED
    BY <2>1 DEF Handlers, Nested
<1>5. pic.master.ims = {}
  BY <1>4 DEF Handlers, InService, Serving, Timer, Keyboard
<1>6. Nested'
  <2>1. ASSUME NEW i \in 1 .. Len(frames)
        PROVE  frames'[i].irq = Timer /\ frames'[i].stage = "done"
    <3>1. CASE i = Len(frames)
      <4>1. InHandler
        BY <1>0, <3>1, <1>1 DEF InHandler
      <4>2. QED
        BY <1>1, <1>4, <3>1, <4>1 DEF Running
    <3>2. CASE i # Len(frames)
      <4>1. i \in 1 .. Len(frames) - 1
        BY <1>1, <3>2
      <4>2. QED
        BY <1>1, <4>1 DEF Handlers, Nested
    <3>3. QED
      BY <3>1, <3>2
  <2>2. ASSUME NEW i \in 1 .. Len(frames') PROVE i \in 1 .. Len(frames) \/ i = Len(frames')
    BY <1>1
  <2>3. frames'[Len(frames')].stage # "read"
    BY <1>1 DEF Running
  <2>4. \A i \in 1 .. Len(frames') : frames'[i].irq = Timer => frames'[i].stage # "read"
    BY <2>1, <2>2, <2>3
  <2>5. Len(frames') - 1 = Len(frames)
    BY <1>1
  <2>6. QED
    BY <1>1, <2>1, <2>4, <2>5 DEF Nested
<1>7. InService'
  BY <1>1, <1>2, <1>5 DEF Handlers, InService, Serving, Timer, Keyboard
<1>8. QED
  BY <1>3, <1>6, <1>7 DEF Handlers

\* A handler that returns: what it interrupted had ended its line.
LEMMA HandlersReturn ==
  ASSUME Handlers, HandlerReturns
  PROVE  Handlers' /\ (InHandler' => Running'.irq = Timer /\ Running'.stage = "done")
<1>0. frames \in Seq(Frame) /\ InHandler /\ Running.stage = "done"
  BY DEF Handlers, HandlerTypes, HandlerReturns, Serves
<1>1. frames' = SubSeq(frames, 1, Len(frames) - 1)
  BY DEF HandlerReturns
<1>2. /\ frames' \in Seq(Frame) /\ Len(frames') = Len(frames) - 1
      /\ Len(frames) \in Nat \ {0}
      /\ InHandler' <=> Len(frames) > 1
      /\ \A i \in 1 .. Len(frames) - 1 : frames'[i] = frames[i]
  BY <1>0, <1>1, PoppedFrame
<1>3. pic' = pic /\ callerIF' = callerIF /\ ifFlag' = Running.savedIF
  BY DEF HandlerReturns, SameFrameVars
<1>4. Running \in Frame
  BY <1>0, <1>2, ElementOfSeq DEF Running
<1>5. HandlerTypes'
  BY <1>2, <1>3, <1>4 DEF Handlers, HandlerTypes, Frame
<1>6. \A i \in 1 .. Len(frames') : frames'[i].irq = Timer /\ frames'[i].stage = "done"
  BY <1>2 DEF Handlers, Nested
<1>7. InHandler' => Running'.irq = Timer /\ Running'.stage = "done"
  <2>1. ASSUME InHandler' PROVE Len(frames') \in 1 .. Len(frames')
    BY <1>2, <2>1
  <2>2. QED
    BY <1>6, <2>1 DEF Running
<1>8. Nested'
  <2>1. \A i \in 1 .. Len(frames') - 1 : i \in 1 .. Len(frames')
    BY <1>2
  <2>2. QED
    BY <1>6, <1>7, <2>1 DEF Nested, Timer, Keyboard
<1>9. pic.master.ims = {}
  BY <1>0 DEF Handlers, InService, Serving
<1>10. InService'
  BY <1>3, <1>7, <1>9 DEF Handlers, InService, Serving
<1>11. QED
  BY <1>5, <1>7, <1>8, <1>10 DEF Handlers

\* A line the BIOS serves is claimed and ended in one step.
LEMMA BiosServes ==
  ASSUME Handlers, ifFlag, NEW irq \in {Timer, Keyboard},
         pic' = SendEOI(Claimed(pic, irq), irq),
         frames' = frames, ifFlag' = ifFlag, callerIF' = callerIF
  PROVE  Handlers'
<1>0. pic \in PICPair /\ ifFlag \in BOOLEAN /\ callerIF \in BOOLEAN
  BY DEF Handlers, HandlerTypes
<1> DEFINE q == Claimed(pic, irq)
<1>1. /\ q \in PICPair /\ q.master.ims = pic.master.ims \cup {irq}
      /\ q.slave.irr = pic.slave.irr
  BY <1>0, LineCalls
<1> HIDE DEF q
<1>2. /\ pic' \in PICPair /\ pic'.master.ims = q.master.ims \ {irq}
      /\ pic'.slave.irr = q.slave.irr
  BY <1>1, LineCalls DEF q
<1>3. ~ Serving(irq)
  BY OneLine
<1>4. irq \notin pic.master.ims
  BY <1>3 DEF Handlers, InService
<1>5. pic'.master.ims = pic.master.ims
  BY <1>1, <1>2, <1>4
<1>6. QED
  BY <1>0, <1>1, <1>2, <1>5, HandlersQuiet

\* A step of the executing guest keeps the handlers and lines in order.
LEMMA ExecHandlers ==
  ASSUME Handlers, Exec PROVE Handlers'
<1>0. /\ frames \in Seq(Frame) /\ pic \in PICPair
      /\ ifFlag \in BOOLEAN /\ callerIF \in BOOLEAN
  BY DEF Handlers, HandlerTypes
<1>1. CASE ReadKey
  <2>1. frames' = frames /\ pic' = pic /\ callerIF' = callerIF /\ ~InHandler
    BY <1>1 DEF ReadKey
  <2>2. ifFlag' \in BOOLEAN
    BY <1>0, <1>1, Zenon DEF ReadKey
  <2>3. QED
    BY <1>0, <2>1, <2>2, HandlersQuiet
<1>2. CASE ReadWaits
  <2>1. frames' = frames /\ pic' = pic /\ ifFlag' = TRUE /\ ~InHandler
    BY <1>2 DEF ReadWaits
  <2>2. callerIF' \in BOOLEAN
    BY <1>0, <1>2, Zenon DEF ReadWaits
  <2>3. QED
    BY <1>0, <2>1, <2>2, HandlersQuiet
<1>3. CASE PollKey \/ HandlerPolls
  <2>1. frames' = frames /\ pic' = pic /\ ifFlag' = ifFlag /\ callerIF' = callerIF
    BY <1>3 DEF PollKey, HandlerPolls, Polls, guest
  <2>2. QED
    BY <1>0, <2>1, HandlersQuiet
<1>4. CASE SetIF
  <2>1. frames' = frames /\ pic' = pic /\ callerIF' = callerIF /\ ~InHandler
    BY <1>4 DEF SetIF, InMain, guest
  <2>2. ifFlag' \in BOOLEAN
    BY <1>0, <1>4, Zenon DEF SetIF
  <2>3. QED
    BY <1>0, <2>1, <2>2, HandlersQuiet
<1>5. CASE SetVector \/ IdleCall
  <2>1. frames' = frames /\ pic' = pic /\ ifFlag' = ifFlag /\ callerIF' = callerIF
    BY <1>5 DEF SetVector, IdleCall
  <2>2. QED
    BY <1>0, <2>1, HandlersQuiet
<1>6. CASE HandlerEoi
  <2>1. PICK irq \in {Timer, Keyboard} : Serving(irq)
    BY <1>6 DEF HandlerEoi, Serves, Serving
  <2>2. pic.master.ims = {irq}
    BY <2>1, OneLine
  <2>3. /\ pic' = [pic EXCEPT !.master = EndLowest(pic.master)] /\ MoveTo("done")
        /\ ifFlag' = ifFlag /\ callerIF' = callerIF
    BY <1>6 DEF HandlerEoi, SameFrameVars
  <2>4. pic' \in PICPair /\ pic'.master.ims = {} /\ pic'.slave.irr = pic.slave.irr
    BY <1>0, <2>2, <2>3, EndsTheLine
  <2>5. QED
    BY <2>1, <2>3, <2>4, HandlersEnd
<1>7. CASE TimerSti
  <2>1. /\ frames' = frames /\ pic' = pic /\ callerIF' = callerIF /\ ifFlag' = TRUE
        /\ Running.irq = Timer /\ Running.stage = "done"
    BY <1>7 DEF TimerSti, SameFrameVars, Serves
  <2>2. QED
    BY <1>0, <2>1, HandlersQuiet
<1>8. CASE HandlerReadsPort
  <2>1. /\ Serving(Keyboard) /\ MoveTo("read") /\ pic' = pic
        /\ ifFlag' = ifFlag /\ callerIF' = callerIF
    BY <1>8 DEF HandlerReadsPort, Serves, Serving, SameFrameVars
  <2>2. QED
    BY <2>1, HandlersMove
<1>9. CASE HandlerChains
  <2>1. /\ Serving(Keyboard) /\ MoveTo("done") /\ pic' = SendEOI(pic, Keyboard)
        /\ ifFlag' = ifFlag /\ callerIF' = callerIF
    BY <1>9 DEF HandlerChains, BiosKeyboard, Serves, Serving, SameFrameVars
  <2>2. pic.master.ims = {Keyboard}
    BY <2>1, OneLine
  <2>3. pic' \in PICPair /\ pic'.master.ims = {} /\ pic'.slave.irr = pic.slave.irr
    BY <1>0, <2>1, <2>2, LineCalls
  <2>4. QED
    BY <2>1, <2>3, HandlersEnd
<1>10. CASE HandlerReturns
  BY <1>10, HandlersReturn
<1>11. QED
  BY <1>1, <1>2, <1>3, <1>4, <1>5, <1>6, <1>7, <1>8, <1>9, <1>10 DEF Exec

\* So does the loop: it enters a handler only where no other has a line to
\* end, and a line the BIOS serves is ended before the guest runs again.
LEMMA LoopHandlers ==
  ASSUME Handlers, Tick \/ Dispatch \/ Host \/ FrameElapses \/ Schedule
  PROVE  Handlers'
<1>0. /\ frames \in Seq(Frame) /\ pic \in PICPair
      /\ ifFlag \in BOOLEAN /\ callerIF \in BOOLEAN
  BY DEF Handlers, HandlerTypes
<1>1. CASE Tick
  <2>1. /\ frames' = frames /\ ifFlag' = ifFlag /\ callerIF' = callerIF
        /\ pic' = RaiseIRQ(pic, Timer)
    BY <1>1 DEF Tick, Outside
  <2>2. QED
    BY <1>0, <2>1, LineCalls, HandlersQuiet
<1>2. CASE DispatchTimer
  <2>1. ifFlag /\ callerIF' = callerIF
    BY <1>2 DEF DispatchTimer, Outside
  <2>2. CASE timerHooked
    BY <1>2, <2>1, <2>2, HandlersEnter DEF DispatchTimer
  <2>3. CASE ~timerHooked
    <3>1. /\ pic' = SendEOI(Claimed(pic, Timer), Timer)
          /\ frames' = frames /\ ifFlag' = ifFlag
      BY <1>2, <2>3 DEF DispatchTimer
    <3>2. QED
      BY <1>0, <2>1, <3>1, BiosServes
  <2>4. QED
    BY <2>2, <2>3
<1>3. CASE DispatchKeyboard
  <2>1. ifFlag /\ callerIF' = callerIF
    BY <1>3 DEF DispatchKeyboard, Outside
  <2>2. CASE hook # "bios"
    BY <1>3, <2>1, <2>2, HandlersEnter DEF DispatchKeyboard
  <2>3. CASE hook = "bios"
    <3>1. /\ pic' = SendEOI(Claimed(pic, Keyboard), Keyboard)
          /\ frames' = frames /\ ifFlag' = ifFlag
      BY <1>3, <2>3 DEF DispatchKeyboard, BiosKeyboard
    <3>2. QED
      BY <1>0, <2>1, <3>1, BiosServes
  <2>4. QED
    BY <2>2, <2>3
<1>4. CASE NoDispatch \/ Host \/ FrameElapses
  <2>1. frames' = frames /\ pic' = pic /\ ifFlag' = ifFlag /\ callerIF' = callerIF
    BY <1>4 DEF NoDispatch, Host, HostTypes, HostEof, HostDone, FrameElapses,
                Outside, guest
  <2>2. QED
    BY <1>0, <2>1, HandlersQuiet
<1>5. CASE Schedule
  <2>1. frames' = frames /\ ifFlag' = ifFlag /\ callerIF' = callerIF
    BY <1>5 DEF Schedule, Outside
  <2>2. pic' = pic \/ pic' = RaiseIRQ(pic, Keyboard)
    BY <1>5 DEF Schedule
  <2>3. QED
    BY <1>0, <2>1, <2>2, LineCalls, HandlersQuiet
<1>6. QED
  BY <1>1, <1>2, <1>3, <1>4, <1>5 DEF Dispatch

\* The guest starts outside handlers, with nothing in service.
LEMMA InitHandlers == Init => Handlers
<1> SUFFICES ASSUME Init PROVE Handlers
  OBVIOUS
<1>1. PICK b \in Bases : pic = [master |-> PowerOnChip(b), slave |-> PowerOnChip(b)]
  BY DEF Init
<1>2. pic \in PICPair /\ pic.master.ims = {} /\ pic.slave.irr = {}
  BY <1>1, PowerOnType DEF PICPair, PowerOnChip
<1>3. frames = <<>> /\ ifFlag = TRUE /\ callerIF = FALSE /\ ~InHandler
  BY DEF Init, InHandler
<1>4. HandlerTypes
  BY <1>2, <1>3, EmptySeq DEF HandlerTypes
<1>5. Nested /\ InService
  BY <1>2, <1>3 DEF Nested, InService, Serving
<1>6. QED
  BY <1>4, <1>5 DEF Handlers

\* Every step of the system keeps the handlers and lines in order.
LEMMA HandlersKept == Handlers /\ [Next]_vars => Handlers'
<1> SUFFICES ASSUME Handlers, [Next]_vars PROVE Handlers'
  OBVIOUS
<1>1. CASE UNCHANGED vars
  <2>1. frames' = frames /\ pic' = pic /\ ifFlag' = ifFlag /\ callerIF' = callerIF
    BY <1>1 DEF vars, guest
  <2>2. QED
    BY <2>1, HandlersQuiet DEF Handlers, HandlerTypes
<1>2. CASE Ended
  BY <1>1, <1>2 DEF Ended
<1>3. QED
  BY <1>1, <1>2, ExecHandlers, LoopHandlers DEF Next

\* The handlers in order are what OneKeyboardHandler says.
LEMMA OneOfThem == Handlers => OneKeyboardHandler
<1> SUFFICES ASSUME Handlers PROVE OneKeyboardHandler
  OBVIOUS
<1>1. frames \in Seq(Frame) /\ Len(frames) \in Nat /\ DOMAIN frames = 1 .. Len(frames)
  BY LenProperties DEF Handlers, HandlerTypes
<1>2. ASSUME NEW i \in DOMAIN frames, frames[i].irq = Keyboard
      PROVE  i = Len(frames)
  <2>1. CASE i \in 1 .. Len(frames) - 1
    BY <1>2, <2>1 DEF Handlers, Nested, Timer, Keyboard
  <2>2. QED
    BY <1>1, <2>1
<1>3. (\E i \in DOMAIN frames :
         frames[i].irq = Keyboard /\ frames[i].stage # "done") <=> Serving(Keyboard)
  <2>1. ASSUME NEW i \in DOMAIN frames,
               frames[i].irq = Keyboard, frames[i].stage # "done"
        PROVE  Serving(Keyboard)
    <3>1. i = Len(frames) /\ frames # <<>>
      BY <1>1, <1>2, <2>1
    <3>2. QED
      BY <2>1, <3>1 DEF Serving, Running, InHandler
  <2>2. ASSUME Serving(Keyboard)
        PROVE  \E i \in DOMAIN frames :
                 frames[i].irq = Keyboard /\ frames[i].stage # "done"
    <3>1. Len(frames) \in DOMAIN frames
      BY <1>1, <2>2, EmptySeq DEF Serving, InHandler
    <3>2. QED
      BY <2>2, <3>1 DEF Serving, Running
  <2>3. QED
    BY <2>1, <2>2
<1>4. QED
  BY <1>2, <1>3 DEF OneKeyboardHandler, Handlers, InService

\* IRQ 1 has one handler at a time, and it is in service exactly as long as
\* that handler has its line to end: for any guest that hooks INT 08h and 09h,
\* chains or not, polls, and lets timer interrupts nest to any depth.
THEOREM OneHandler == FairSpec => []OneKeyboardHandler
<1>1. Spec => []Handlers
  BY InitHandlers, HandlersKept, PTL DEF Spec
<1>2. QED
  BY <1>1, OneOfThem, PTL DEF FairSpec

---------------------------------------------------------------------------
(* The controller's operations.                                            *)

\* A modifier key that is pressed or released leaves a modifier state.
LEMMA ModifiersType ==
  ASSUME NEW m \in Modifiers, NEW code, NEW ext \in BOOLEAN
  PROVE  ModifierMake(m, code, ext) \in Modifiers
           /\ ModifierBreak(m, code, ext) \in Modifiers
<1>1. ModifierBreak(m, code, ext) \in Modifiers
  BY DEF Modifiers, ModifierBreak
<1>2. CASE code \in LockCodes
  BY <1>1, <1>2 DEF Modifiers, ModifierMake
<1>3. CASE code \notin LockCodes
  BY <1>1, <1>3 DEF Modifiers, ModifierMake
<1>4. QED
  BY <1>2, <1>3

\* The host queues an entry, with the modifiers as they are by then.
EntryOf(src, key, m) == [src |-> src, key |-> key, mods |-> m]
Injected(k, src, key, m) ==
  [QueueOutput([k EXCEPT !.mods = m], src, key) EXCEPT !.irqPending = TRUE]

\* An entry that is queued goes last and moves no other.
LEMMA QueueKeeps ==
  ASSUME NEW k \in Controller, NEW src \in {"host", "make", "other"},
         NEW key \in KeyNames, NEW m \in Modifiers
  PROVE  /\ EntryOf(src, key, m) \in Entry
         /\ Injected(k, src, key, m) \in Controller
         /\ Injected(k, src, key, m).queue = Append(k.queue, EntryOf(src, key, m))
         /\ Injected(k, src, key, m).irqEvent = k.irqEvent
<1> DEFINE e == EntryOf(src, key, m)
<1>1. e \in Entry
  BY DEF Entry, EntryOf
<1>2. k.queue \in Seq(Entry) /\ Append(k.queue, e) \in Seq(Entry)
  BY <1>1, AppendProperties DEF Controller
<1>3. QED
  BY <1>1, <1>2 DEF QueueOutput, Controller, Injected, EntryOf

\* A read takes the head of the queue, if there is one, and gives it.
LEMMA ReadTakesHead ==
  ASSUME NEW k \in Controller
  PROVE  /\ ReadEvent(k) \in Controller /\ ReadEventValue(k) \in Event
         /\ ReadEventValue(k).src # "void"
         /\ ReadEvent(k).irqEvent = k.irqEvent
         /\ ReadEvent(k).queue = IF k.queue = <<>> THEN <<>> ELSE Tail(k.queue)
         /\ KeysOf(k.queue) = Given(ReadEventValue(k)) \o KeysOf(ReadEvent(k).queue)
<1>1. k.queue \in Seq(Entry)
  BY DEF Controller
<1>2. CASE k.queue = <<>>
  <2>1. /\ ReadEventValue(k) \in Event /\ ReadEventValue(k).src = "none"
    BY <1>2 DEF ReadEventValue, EmptyEvent, Event, Controller
  <2>2. /\ ReadEvent(k) \in Controller /\ ReadEvent(k).queue = <<>>
        /\ ReadEvent(k).irqEvent = k.irqEvent
    BY <1>1, <1>2 DEF ReadEvent, ServiceInput, Exposes, Controller
  <2>3. Given(ReadEventValue(k)) = <<>>
    BY <2>1, GivenType
  <2>4. <<>> \o <<>> = <<>>
    OBVIOUS
  <2>5. QED
    BY <1>2, <2>1, <2>2, <2>3, <2>4, KeysEmpty
<1>3. CASE k.queue # <<>>
  <2>1. /\ Head(k.queue) \in Entry /\ Tail(k.queue) \in Seq(Entry)
        /\ KeysOf(k.queue) = Given(Head(k.queue)) \o KeysOf(Tail(k.queue))
    BY <1>1, <1>3, KeysHead
  <2>2. ReadEventValue(k) = Head(k.queue)
    BY <1>3 DEF ReadEventValue
  <2>3. ReadEventValue(k) \in Event /\ ReadEventValue(k).src # "void"
    BY <2>1, <2>2, GivenType DEF Entry
  <2>4. /\ ServiceInput(k, TRUE) \in Controller
        /\ ServiceInput(k, TRUE).queue = k.queue
        /\ ServiceInput(k, TRUE).irqEvent = k.irqEvent
    BY DEF ServiceInput, Controller
  <2> DEFINE s == ServiceInput(k, TRUE)
  <2> HIDE DEF s
  <2>5. /\ ReadEvent(k) \in Controller /\ ReadEvent(k).queue = Tail(k.queue)
        /\ ReadEvent(k).irqEvent = k.irqEvent
    BY <1>3, <2>1, <2>4 DEF ReadEvent, Controller, s
  <2>6. QED
    BY <1>3, <2>1, <2>2, <2>3, <2>5
<1>4. QED
  BY <1>2, <1>3

\* The other operations of the loop: none adds an entry.
LEMMA ControllerKeeps ==
  ASSUME NEW k \in Controller
  PROVE  /\ ReadAll(k) \in Controller /\ ReadAll(k).queue = <<>>
         /\ ReadAll(k).irqEvent = k.irqEvent
         /\ BeginIRQ(k) \in Controller /\ BeginIRQ(k).queue = k.queue
         /\ BeginIRQ(k).irqEvent = NoEvent
         /\ \A force \in BOOLEAN : /\ ServiceInput(k, force) \in Controller
                                   /\ ServiceInput(k, force).queue = k.queue
                                   /\ ServiceInput(k, force).irqEvent = k.irqEvent
<1>1. <<>> \in Seq(Entry) /\ NoEvent \in Event
  <2>1. NoModifiers \in Modifiers
    BY DEF NoModifiers, Modifiers
  <2>2. QED
    BY <2>1, EmptySeq DEF NoEvent, Event
<1>2. /\ ReadAll(k) \in Controller /\ ReadAll(k).queue = <<>>
      /\ ReadAll(k).irqEvent = k.irqEvent
  BY <1>1 DEF ReadAll, Controller
<1>3. /\ BeginIRQ(k) \in Controller /\ BeginIRQ(k).queue = k.queue
      /\ BeginIRQ(k).irqEvent = NoEvent
  BY <1>1 DEF BeginIRQ, Controller
<1>4. ASSUME NEW force \in BOOLEAN
      PROVE  /\ ServiceInput(k, force) \in Controller
             /\ ServiceInput(k, force).queue = k.queue
             /\ ServiceInput(k, force).irqEvent = k.irqEvent
  BY DEF ServiceInput, Controller
<1>5. QED
  BY <1>2, <1>3, <1>4

---------------------------------------------------------------------------
(* The keys on their way.                                                  *)

\* A keyboard driver of the guest's own runs in a window into which nobody
\* pastes: a ready-made key would go to the BIOS's buffer and pass the ring.
Orderly == \A m \in Modes : m.driver => m.gtk /\ ~m.paste

KeyTypes ==
  /\ mode \in Modes /\ kbd \in Controller
  /\ buffer \in Seq(KeyNames) /\ ring \in Seq(KeyNames)
  /\ hook \in {"bios", "chain", "driver"}

\* The event a keyboard handler of the guest has read stays for the BIOS it
\* chains to, and before it reads there is none.
Handed ==
  InHandler /\ Running.irq = Keyboard =>
    /\ hook # "bios"
    /\ Running.stage = "start" => kbd.irqEvent = NoEvent
    /\ Running.stage = "read" => kbd.irqEvent.src # "void"

\* The ring is the driver's, and the driver's keys all are scan codes.
Driven ==
  /\ hook = "driver" => mode.driver
  /\ hook = "chain" => ~mode.driver
  /\ ring # <<>> => hook = "driver"
  /\ mode.driver => \A i \in 1 .. Len(kbd.queue) : Physical(kbd.queue[i])

\* The inductive invariant behind KeysInOrder, with Handlers.
Paths == KeyTypes /\ Handed /\ Driven

\* The key in the hands of the innermost handler.
Hand == IF hook = "chain" /\ Serving(Keyboard) /\ Running.stage = "read"
        THEN Given(kbd.irqEvent) ELSE <<>>

\* No other handler can have one.
LEMMA HandOnTop == Handlers /\ KeyTypes => InHand = Hand /\ InHand \in Seq(KeyNames)
<1> SUFFICES ASSUME Handlers, KeyTypes
             PROVE  InHand = Hand /\ InHand \in Seq(KeyNames)
  OBVIOUS
<1>1. frames \in Seq(Frame) /\ Len(frames) \in Nat /\ DOMAIN frames = 1 .. Len(frames)
  BY LenProperties DEF Handlers, HandlerTypes
<1>2. (\E i \in DOMAIN frames : frames[i].irq = Keyboard /\ frames[i].stage = "read")
        <=> Serving(Keyboard) /\ Running.stage = "read"
  <2>1. ASSUME NEW i \in DOMAIN frames,
               frames[i].irq = Keyboard, frames[i].stage = "read"
        PROVE  Serving(Keyboard) /\ Running.stage = "read"
    <3>1. i \notin 1 .. Len(frames) - 1
      BY <2>1 DEF Handlers, Nested, Timer, Keyboard
    <3>2. i = Len(frames) /\ frames # <<>>
      BY <1>1, <3>1
    <3>3. QED
      BY <2>1, <3>2 DEF Serving, Running, InHandler
  <2>2. ASSUME Serving(Keyboard), Running.stage = "read"
        PROVE  \E i \in DOMAIN frames :
                 frames[i].irq = Keyboard /\ frames[i].stage = "read"
    <3>1. Len(frames) \in DOMAIN frames
      BY <1>1, <2>2, EmptySeq DEF Serving, InHandler
    <3>2. QED
      BY <2>2, <3>1 DEF Serving, Running
  <2>3. QED
    BY <2>1, <2>2
<1>3. kbd.irqEvent \in Event
  BY DEF KeyTypes, Controller
<1>4. KeysOf(<<kbd.irqEvent>>) = Given(kbd.irqEvent) /\ Given(kbd.irqEvent) \in Seq(KeyNames)
  BY <1>3, KeysOne, GivenType
<1>5. InHand = Hand
  BY <1>2, <1>4 DEF InHand, Hand
<1>6. <<>> \in Seq(KeyNames)
  BY EmptySeq
<1>7. QED
  BY <1>4, <1>5, <1>6 DEF Hand

\* The places in their order, as sequences of keys.
InOrder ==
  /\ OnTheWay = ((buffer \o ring) \o Hand) \o KeysOf(kbd.queue)
  /\ buffer \in Seq(KeyNames) /\ ring \in Seq(KeyNames)
  /\ Hand \in Seq(KeyNames) /\ KeysOf(kbd.queue) \in Seq(KeyNames)
  /\ kbd.queue \in Seq(Entry)

\* The keys on their way are those of the places, in that order.
LEMMA WayInOrder == Handlers /\ KeyTypes => InOrder
<1> SUFFICES ASSUME Handlers, KeyTypes PROVE InOrder
  OBVIOUS
<1>1. kbd.queue \in Seq(Entry)
  BY DEF KeyTypes, Controller
<1>2. KeysOf(kbd.queue) \in Seq(KeyNames)
  BY <1>1, KeysType
<1>3. QED
  BY <1>1, <1>2, HandOnTop DEF KeyTypes, OnTheWay, InOrder

\* Handing keys over to the buffer changes no order ...
LEMMA HandToBuffer ==
  ASSUME NEW B \in Seq(KeyNames), NEW G \in Seq(KeyNames), NEW Q \in Seq(KeyNames)
  PROVE  /\ ((B \o <<>>) \o <<>>) \o (G \o Q) = (((B \o G) \o <<>>) \o <<>>) \o Q
         /\ ((B \o <<>>) \o G) \o Q = (((B \o G) \o <<>>) \o <<>>) \o Q
<1>1. \A s \in Seq(KeyNames) : s \o <<>> = s
  BY ConcatEmptySeq
<1>2. B \o G \in Seq(KeyNames)
  BY ConcatProperties
<1>3. B \o (G \o Q) = (B \o G) \o Q
  BY Regroup
<1>4. QED
  BY <1>1, <1>2, <1>3

\* ... nor does handing them over to a handler ...
LEMMA HandToHandler ==
  \A B, R, G, Q \in Seq(KeyNames) :
    ((B \o R) \o <<>>) \o (G \o Q) = ((B \o R) \o G) \o Q
<1> SUFFICES ASSUME NEW B \in Seq(KeyNames), NEW R \in Seq(KeyNames),
                    NEW G \in Seq(KeyNames), NEW Q \in Seq(KeyNames)
             PROVE  ((B \o R) \o <<>>) \o (G \o Q) = ((B \o R) \o G) \o Q
  OBVIOUS
<1>1. \A s \in Seq(KeyNames) : s \o <<>> = s
  BY ConcatEmptySeq
<1>2. B \o R \in Seq(KeyNames)
  BY ConcatProperties
<1>3. (B \o R) \o (G \o Q) = ((B \o R) \o G) \o Q
  BY <1>2, Regroup
<1>4. QED
  BY <1>1, <1>2, <1>3

\* ... or to the ring.
LEMMA HandToRing ==
  \A B, R, G, Q \in Seq(KeyNames) :
    ((B \o R) \o <<>>) \o (G \o Q) = ((B \o (R \o G)) \o <<>>) \o Q
<1> SUFFICES ASSUME NEW B \in Seq(KeyNames), NEW R \in Seq(KeyNames),
                    NEW G \in Seq(KeyNames), NEW Q \in Seq(KeyNames)
             PROVE  ((B \o R) \o <<>>) \o (G \o Q) = ((B \o (R \o G)) \o <<>>) \o Q
  OBVIOUS
<1>1. \A s \in Seq(KeyNames) : s \o <<>> = s
  BY ConcatEmptySeq
<1>2. B \o R \in Seq(KeyNames)
  BY ConcatProperties
<1>3. (B \o R) \o (G \o Q) = ((B \o R) \o G) \o Q
  BY <1>2, Regroup
<1>4. B \o (R \o G) = (B \o R) \o G /\ (B \o R) \o G \in Seq(KeyNames)
  BY <1>2, Regroup, ConcatProperties
<1>5. QED
  BY <1>1, <1>2, <1>3, <1>4

\* The same, after a step.
LEMMA WayInOrderNext == Handlers' /\ KeyTypes' => InOrder'
BY WayInOrder, PTL

\* What a step of the promise to the program is, or none.
Carried == Promise!Next \/ UNCHANGED <<OnTheWay, seen, got>>

\* Steps that move no key, nor change what the moving goes by.
LEMMA PathsQuiet ==
  ASSUME Handlers, Handlers', Paths, mode' = mode, hook' = hook,
         buffer' = buffer, ring' = ring, kbd' \in Controller,
         kbd'.queue = kbd.queue, Handed', Hand' = Hand,
         seen' = seen, got' = got
  PROVE  Paths' /\ Carried
<1>1. KeyTypes' /\ Driven'
  BY DEF Paths, KeyTypes, Driven
<1>2. OnTheWay' = OnTheWay
  BY <1>1, WayInOrder, WayInOrderNext DEF Paths, InOrder
<1>3. QED
  BY <1>1, <1>2 DEF Paths, Carried

\* Among them those that leave the handlers and what they hold alone.
LEMMA PathsStay ==
  ASSUME Handlers, Handlers', Paths, mode' = mode, hook' = hook,
         frames' = frames, buffer' = buffer, ring' = ring,
         kbd' \in Controller, kbd'.queue = kbd.queue,
         kbd'.irqEvent = kbd.irqEvent, seen' = seen, got' = got
  PROVE  Paths' /\ Carried
<1>1. Running' = Running /\ (InHandler' <=> InHandler)
      /\ (Serving(Keyboard)' <=> Serving(Keyboard))
  BY DEF Running, InHandler, Serving
<1>2. Hand' = Hand
  BY <1>1 DEF Hand
<1>3. Handed'
  BY <1>1 DEF Handed, Paths
<1>4. QED
  BY <1>2, <1>3, PathsQuiet

\* And those after which the innermost handler holds no key, as before.
LEMMA PathsFrames ==
  ASSUME Handlers, Handlers', Paths, mode' = mode, hook' = hook,
         buffer' = buffer, ring' = ring, kbd' \in Controller,
         kbd'.queue = kbd.queue, Hand = <<>>, Hand' = <<>>, Handed',
         seen' = seen, got' = got
  PROVE  Paths' /\ Carried
BY PathsQuiet

\* A call that empties the controller finds the ring empty: with a driver
\* the queue holds a physical keyboard's bytes, which it leaves there.
LEMMA DrainsPastNoRing ==
  ASSUME KeyTypes, Driven, Drains PROVE ring = <<>>
<1>1. SUFFICES ASSUME ring # <<>> PROVE FALSE
  OBVIOUS
<1>2. hook = "driver" /\ mode.driver /\ kbd.queue # <<>>
  BY <1>1 DEF Driven, Drains, HasData
<1>3. kbd.queue \in Seq(Entry)
  BY DEF KeyTypes, Controller
<1>4. 1 \in 1 .. Len(kbd.queue)
  BY <1>2, <1>3, EmptySeq
<1>5. HasPhysicalData(kbd)
  BY <1>2, <1>4 DEF Driven, HasPhysicalData
<1>6. QED
  BY <1>2, <1>5 DEF Drains

\* INT 16h between handlers: what it finds in the buffer, with the drained
\* keys, is the head of what is on its way.
LEMMA DrainedFirst ==
  ASSUME Handlers, Paths, Hand = <<>>
  PROVE  /\ Drained \in Seq(KeyNames) /\ Emptied \in Controller
         /\ KeysOf(Emptied.queue) \in Seq(KeyNames)
         /\ Emptied.irqEvent = kbd.irqEvent
         /\ Emptied.queue = <<>> \/ Emptied.queue = kbd.queue
         /\ OnTheWay = (Drained \o ring) \o KeysOf(Emptied.queue)
<1>0. /\ OnTheWay = ((buffer \o ring) \o <<>>) \o KeysOf(kbd.queue)
      /\ buffer \in Seq(KeyNames) /\ ring \in Seq(KeyNames)
      /\ KeysOf(kbd.queue) \in Seq(KeyNames)
      /\ kbd \in Controller
  BY WayInOrder DEF Paths, KeyTypes, InOrder
<1>1. buffer \o ring \in Seq(KeyNames)
  BY <1>0, ConcatProperties
<1>2. OnTheWay = (buffer \o ring) \o KeysOf(kbd.queue)
  BY <1>0, <1>1, ConcatEmptySeq
<1>3. CASE Drains
  <2>1. ring = <<>>
    BY <1>3, DrainsPastNoRing DEF Paths
  <2>2. Drained = buffer \o KeysOf(kbd.queue) /\ Drained \in Seq(KeyNames)
    BY <1>0, <1>3, ConcatProperties DEF Drained
  <2>3. /\ Emptied \in Controller /\ Emptied.queue = <<>>
        /\ Emptied.irqEvent = kbd.irqEvent
    BY <1>0, <1>3, ControllerKeeps DEF Emptied
  <2>4. OnTheWay = Drained
    BY <1>0, <1>2, <2>1, <2>2, ConcatEmptySeq
  <2>5. (Drained \o ring) \o KeysOf(Emptied.queue) = Drained
    BY <2>1, <2>2, <2>3, KeysEmpty, ConcatEmptySeq
  <2>6. KeysOf(Emptied.queue) \in Seq(KeyNames)
    BY <2>3, KeysEmpty, EmptySeq
  <2>7. QED
    BY <2>2, <2>3, <2>4, <2>5, <2>6
<1>4. CASE ~Drains
  <2>1. Drained = buffer /\ Emptied = kbd
    BY <1>4 DEF Drained, Emptied
  <2>2. QED
    BY <1>0, <1>2, <2>1
<1>5. QED
  BY <1>3, <1>4

\* Outside handlers, and in one that is done with its byte, no key is held.
LEMMA NothingHeld ==
  ~InHandler \/ Running.stage # "read" \/ Running.irq # Keyboard \/ hook # "chain"
    => Hand = <<>>
BY DEF Hand, Serving

\* The first key of a place that has one is the first of what follows it too.
LEMMA FrontOf ==
  ASSUME NEW s \in Seq(KeyNames), NEW t \in Seq(KeyNames), s # <<>>
  PROVE  /\ s \o t \in Seq(KeyNames) /\ s \o t # <<>>
         /\ Head(s \o t) = Head(s) /\ Tail(s \o t) = Tail(s) \o t
         /\ Head(s) \in KeyNames /\ Tail(s) \in Seq(KeyNames)
<1>1. /\ s \o t \in Seq(KeyNames) /\ Len(s \o t) = Len(s) + Len(t)
      /\ \A i \in 1 .. Len(s) + Len(t) :
           (s \o t)[i] = IF i <= Len(s) THEN s[i] ELSE t[i - Len(s)]
  BY ConcatProperties
<1>2. /\ Head(s) \in KeyNames /\ Tail(s) \in Seq(KeyNames)
      /\ Len(Tail(s)) = Len(s) - 1
      /\ \A i \in 1 .. Len(Tail(s)) : Tail(s)[i] = s[i + 1]
  BY HeadTailProperties
<1>3. Len(s) \in Nat \ {0} /\ Len(t) \in Nat
  BY EmptySeq, LenProperties
<1>4. s \o t # <<>>
  BY <1>1, <1>3
<1>5. Head(s \o t) = Head(s)
  <2>1. 1 \in 1 .. Len(s) + Len(t) /\ 1 <= Len(s)
    BY <1>3
  <2>2. (s \o t)[1] = s[1]
    BY <1>1, <2>1
  <2>3. QED
    BY <1>1, <2>2
<1>6. Tail(s \o t) = Tail(s) \o t
  <2> DEFINE u == Tail(s \o t)
             v == Tail(s) \o t
  <2>1. /\ u \in Seq(KeyNames) /\ Len(u) = Len(s \o t) - 1
        /\ \A i \in 1 .. Len(u) : u[i] = (s \o t)[i + 1]
    BY <1>1, <1>4, HeadTailProperties
  <2>2. /\ v \in Seq(KeyNames) /\ Len(v) = Len(Tail(s)) + Len(t)
        /\ \A i \in 1 .. Len(Tail(s)) + Len(t) :
             v[i] = IF i <= Len(Tail(s)) THEN Tail(s)[i] ELSE t[i - Len(Tail(s))]
    BY <1>2, ConcatProperties
  <2> HIDE DEF u, v
  <2>3. Len(u) = Len(v) /\ Len(u) = Len(s) - 1 + Len(t)
    BY <1>1, <1>2, <1>3, <2>1, <2>2
  <2>4. ASSUME NEW i \in 1 .. Len(u) PROVE u[i] = v[i]
    <3>1. u[i] = (s \o t)[i + 1] /\ i + 1 \in 1 .. Len(s) + Len(t) /\ i \in Nat \ {0}
      BY <1>3, <2>1, <2>3
    <3>2. CASE i + 1 <= Len(s)
      <4>1. i <= Len(Tail(s)) /\ i \in 1 .. Len(Tail(s)) /\ i \in 1 .. Len(Tail(s)) + Len(t)
        BY <1>2, <1>3, <3>1, <3>2
      <4>2. u[i] = s[i + 1]
        BY <1>1, <3>1, <3>2
      <4>3. v[i] = Tail(s)[i] /\ Tail(s)[i] = s[i + 1]
        BY <1>2, <2>2, <4>1
      <4>4. QED
        BY <4>2, <4>3
    <3>3. CASE ~ (i + 1 <= Len(s))
      <4>1. /\ ~ (i <= Len(Tail(s))) /\ i \in 1 .. Len(Tail(s)) + Len(t)
            /\ (i + 1) - Len(s) = i - Len(Tail(s))
        BY <1>2, <1>3, <3>1, <3>3
      <4>2. u[i] = t[(i + 1) - Len(s)]
        BY <1>1, <3>1, <3>3
      <4>3. v[i] = t[i - Len(Tail(s))]
        BY <2>2, <4>1
      <4>4. QED
        BY <4>1, <4>2, <4>3
    <3>4. QED
      BY <3>2, <3>3
  <2>5. u = v
    BY <2>1, <2>2, <2>3, <2>4, SeqEqual
  <2>6. QED
    BY <2>5 DEF u, v
<1>7. QED
  BY <1>1, <1>2, <1>4, <1>5, <1>6

\* What INT 16h leaves behind, whatever it has taken from buffer and ring.
LEMMA Fetches ==
  ASSUME Handlers, Handlers', Paths, Hand = <<>>, kbd' = Emptied,
         frames' = frames, hook' = hook, mode' = mode,
         buffer' \in Seq(KeyNames), ring' \in Seq(KeyNames),
         ring' # <<>> => ring # <<>>
  PROVE  Paths' /\ OnTheWay' = (buffer' \o ring') \o KeysOf(Emptied.queue)
<1>1. /\ Emptied \in Controller /\ Emptied.irqEvent = kbd.irqEvent
      /\ Emptied.queue = <<>> \/ Emptied.queue = kbd.queue
      /\ KeysOf(Emptied.queue) \in Seq(KeyNames)
  BY DrainedFirst
<1>2. KeyTypes'
  BY <1>1 DEF Paths, KeyTypes
<1>3. Running' = Running /\ (InHandler' <=> InHandler)
      /\ (Serving(Keyboard)' <=> Serving(Keyboard))
  BY DEF Running, InHandler, Serving
<1>4. Hand' = <<>>
  BY <1>1, <1>3 DEF Hand
<1>5. Handed'
  BY <1>1, <1>3 DEF Handed, Paths
<1>6. Driven'
  <2>1. mode.driver => \A i \in 1 .. Len(kbd'.queue) : Physical(kbd'.queue[i])
    BY <1>1 DEF Paths, Driven
  <2>2. QED
    BY <2>1 DEF Paths, Driven
<1>7. buffer' \o ring' \in Seq(KeyNames)
  BY ConcatProperties
<1>8. OnTheWay' = ((buffer' \o ring') \o <<>>) \o KeysOf(Emptied.queue)
  BY <1>2, <1>4, WayInOrderNext DEF InOrder
<1>9. QED
  BY <1>2, <1>5, <1>6, <1>7, <1>8, ConcatEmptySeq DEF Paths

\* INT 16h AH=00h with a key takes the one that was typed first.
LEMMA ReadKeyCarried ==
  ASSUME Handlers, Handlers', Paths, ReadKey PROVE Paths' /\ Carried
<1> DEFINE T == KeysOf(Emptied.queue)
<1>1. /\ ~InHandler /\ kbd' = Emptied /\ frames' = frames /\ hook' = hook
      /\ mode' = mode /\ seen' = NoKey
  BY DEF ReadKey
<1>2. ~InHandler' /\ Hand = <<>> /\ Hand' = <<>>
  BY <1>1 DEF Hand, InHandler, Serving
<1>3. /\ Drained \in Seq(KeyNames) /\ Emptied \in Controller
      /\ T \in Seq(KeyNames)
      /\ OnTheWay = (Drained \o ring) \o T
  BY <1>2, DrainedFirst
<1>4. ring \in Seq(KeyNames) /\ mode \in Modes
  BY DEF Paths, KeyTypes
<1> HIDE DEF T
<1>5. ASSUME buffer' \in Seq(KeyNames), ring' \in Seq(KeyNames),
             ring' # <<>> => ring # <<>>
      PROVE  Paths' /\ OnTheWay' = (buffer' \o ring') \o T
  BY <1>1, <1>2, <1>5, Fetches DEF T
<1>6. CASE Drained # <<>> /\ got' = Head(Drained) /\ buffer' = Tail(Drained) /\ ring' = ring
  <2>1. /\ Drained \o ring \in Seq(KeyNames) /\ Drained \o ring # <<>>
        /\ Head(Drained \o ring) = Head(Drained)
        /\ Tail(Drained \o ring) = buffer' \o ring'
        /\ buffer' \in Seq(KeyNames)
    BY <1>3, <1>4, <1>6, FrontOf
  <2>2. /\ OnTheWay # <<>> /\ Head(OnTheWay) = Head(Drained)
        /\ Tail(OnTheWay) = (buffer' \o ring') \o T
    <3> DEFINE D == Drained \o ring
    <3>1. D \in Seq(KeyNames) /\ D # <<>> /\ T \in Seq(KeyNames)
      BY <1>3, <2>1
    <3> HIDE DEF D
    <3>2. D \o T # <<>> /\ Head(D \o T) = Head(D) /\ Tail(D \o T) = Tail(D) \o T
      BY <3>1, FrontOf
    <3>3. OnTheWay = D \o T /\ Head(D) = Head(Drained) /\ Tail(D) = buffer' \o ring'
      BY <1>3, <2>1 DEF D
    <3>4. QED
      BY <3>2, <3>3, Zenon
  <2>3. Paths' /\ OnTheWay' = (buffer' \o ring') \o T
    BY <1>4, <1>5, <1>6, <2>1
  <2>4. Promise!Read
    BY <1>1, <1>6, <2>2, <2>3 DEF Promise!Read
  <2>5. QED
    BY <2>3, <2>4 DEF Carried, Promise!Next
<1>7. CASE Drained = <<>> /\ ring # <<>> /\ got' = Head(ring) /\ ring' = Tail(ring) /\ buffer' = <<>>
  <2>1. OnTheWay = ring \o T
    BY <1>3, <1>4, <1>7, ConcatEmptySeq
  <2>2. /\ OnTheWay # <<>> /\ Head(OnTheWay) = Head(ring)
        /\ Tail(OnTheWay) = ring' \o T /\ ring' \in Seq(KeyNames)
    BY <1>3, <1>4, <1>7, <2>1, FrontOf
  <2>3. buffer' \in Seq(KeyNames) /\ buffer' \o ring' = ring'
    BY <1>7, <2>2, ConcatEmptySeq, EmptySeq
  <2>4. Paths' /\ OnTheWay' = (buffer' \o ring') \o T
    BY <1>5, <1>7, <2>2, <2>3
  <2>5. Promise!Read
    BY <1>1, <1>7, <2>2, <2>3, <2>4 DEF Promise!Read
  <2>6. QED
    BY <2>4, <2>5 DEF Carried, Promise!Next
<1>8. QED
  BY <1>6, <1>7 DEF ReadKey

\* INT 16h AH=00h without a key moves none.
LEMMA ReadWaitsCarried ==
  ASSUME Handlers, Handlers', Paths, ReadWaits PROVE Paths' /\ Carried
<1> DEFINE T == KeysOf(Emptied.queue)
<1>1. /\ ~InHandler /\ kbd' = Emptied /\ frames' = frames /\ hook' = hook
      /\ mode' = mode /\ seen' = seen /\ got' = got
      /\ Drained = <<>> /\ ring = <<>> /\ buffer' = <<>> /\ ring' = <<>>
  BY DEF ReadWaits
<1>2. Hand = <<>>
  BY <1>1, NothingHeld
<1>3. OnTheWay = (<<>> \o <<>>) \o T
  BY <1>1, <1>2, DrainedFirst
<1> HIDE DEF T
<1>4. <<>> \in Seq(KeyNames)
  BY EmptySeq
<1>5. Paths' /\ OnTheWay' = (<<>> \o <<>>) \o T
  BY <1>1, <1>2, <1>4, Fetches DEF T
<1>6. QED
  BY <1>1, <1>3, <1>5 DEF Carried

\* INT 16h AH=01h shows the key that was typed first, or none.
LEMMA PollsCarried ==
  ASSUME Handlers, Handlers', Paths, PollKey \/ HandlerPolls PROVE Paths' /\ Carried
<1> DEFINE T == KeysOf(Emptied.queue)
<1>1. /\ ~InHandler \/ Running.stage = "done"
      /\ kbd' = Emptied /\ frames' = frames /\ hook' = hook
      /\ mode' = mode /\ got' = got /\ buffer' = Drained /\ ring' = ring
      /\ seen' = IF Drained # <<>> THEN Head(Drained)
                 ELSE IF ring # <<>> THEN Head(ring) ELSE NoKey
  BY DEF PollKey, HandlerPolls, Polls, InMain, guest
<1>2. Hand = <<>>
  BY <1>1, NothingHeld
<1>3. /\ Drained \in Seq(KeyNames) /\ T \in Seq(KeyNames)
      /\ OnTheWay = (Drained \o ring) \o T
  BY <1>2, DrainedFirst
<1>4. ring \in Seq(KeyNames)
  BY DEF Paths, KeyTypes
<1> HIDE DEF T
<1>5. Paths' /\ OnTheWay' = OnTheWay
  BY <1>1, <1>2, <1>3, <1>4, Fetches DEF T
<1>6. CASE Drained # <<>>
  <2> DEFINE D == Drained \o ring
  <2>1. D \in Seq(KeyNames) /\ D # <<>> /\ Head(D) = Head(Drained)
    BY <1>3, <1>4, <1>6, FrontOf
  <2>2. OnTheWay = D \o T
    BY <1>3
  <2> HIDE DEF D
  <2>3. OnTheWay # <<>> /\ Head(OnTheWay) = Head(Drained)
    BY <1>3, <2>1, <2>2, FrontOf
  <2>4. Promise!Look
    BY <1>1, <1>5, <1>6, <2>3 DEF Promise!Look
  <2>5. QED
    BY <1>5, <2>4 DEF Carried, Promise!Next
<1>7. CASE Drained = <<>> /\ ring # <<>>
  <2>1. OnTheWay = ring \o T
    BY <1>3, <1>4, <1>7, ConcatEmptySeq
  <2>2. OnTheWay # <<>> /\ Head(OnTheWay) = Head(ring)
    BY <1>3, <1>4, <1>7, <2>1, FrontOf
  <2>3. Promise!Look
    BY <1>1, <1>5, <1>7, <2>2 DEF Promise!Look
  <2>4. QED
    BY <1>5, <2>3 DEF Carried, Promise!Next
<1>8. CASE Drained = <<>> /\ ring = <<>>
  <2>1. seen' = NoKey
    BY <1>1, <1>8
  <2>2. Promise!Look
    BY <1>1, <1>5, <2>1 DEF Promise!Look
  <2>3. QED
    BY <1>5, <2>2 DEF Carried, Promise!Next
<1>9. QED
  BY <1>6, <1>7, <1>8

\* A driver may go to work and a program hook or unhook between handlers.
LEMMA SetVectorCarried ==
  ASSUME Handlers, Handlers', Paths, SetVector PROVE Paths' /\ Carried
<1>1. /\ ~InHandler /\ frames' = frames /\ kbd' = kbd /\ buffer' = buffer
      /\ ring' = ring /\ mode' = mode /\ seen' = seen /\ got' = got
  BY DEF SetVector, InMain, keys
<1>2. /\ ~InHandler' /\ Hand = <<>> /\ Hand' = <<>>
  BY <1>1 DEF Hand, InHandler, Serving
<1>v. hook' = hook \/ hook' = (IF mode.driver THEN "driver"
                               ELSE IF hook = "bios" THEN "chain" ELSE "bios")
  BY DEF SetVector
<1>3. KeyTypes' /\ Handed'
  <2>1. hook' \in {"bios", "chain", "driver"}
    BY <1>v DEF Paths, KeyTypes
  <2>2. QED
    BY <1>1, <1>2, <2>1 DEF Paths, KeyTypes, Handed
<1>4. Driven'
  <2>2. CASE hook' = hook
    BY <1>1, <2>2 DEF Paths, Driven
  <2>3. CASE mode.driver /\ hook' = "driver"
    BY <1>1, <2>3 DEF Paths, Driven
  <2>4. CASE ~mode.driver /\ hook' \in {"chain", "bios"}
    BY <1>1, <2>4 DEF Paths, Driven
  <2>5. QED
    BY <1>v, <2>2, <2>3, <2>4
<1>5. OnTheWay' = OnTheWay
  BY <1>1, <1>2, <1>3, WayInOrder, WayInOrderNext DEF InOrder, Paths
<1>6. QED
  BY <1>1, <1>3, <1>4, <1>5 DEF Paths, Carried

\* What is left of a physical keyboard's bytes after a read is just that.
LEMMA RestPhysical ==
  ASSUME NEW k \in Controller, \A i \in 1 .. Len(k.queue) : Physical(k.queue[i])
  PROVE  \A i \in 1 .. Len(ReadEvent(k).queue) : Physical(ReadEvent(k).queue[i])
<1>1. k.queue \in Seq(Entry)
  BY DEF Controller
<1>2. CASE k.queue = <<>>
  BY <1>2, ReadTakesHead
<1>3. CASE k.queue # <<>>
  <2>1. /\ Len(Tail(k.queue)) = Len(k.queue) - 1 /\ Len(k.queue) \in Nat
        /\ \A i \in 1 .. Len(Tail(k.queue)) : Tail(k.queue)[i] = k.queue[i + 1]
    BY <1>1, <1>3, HeadTailProperties, LenProperties
  <2>2. \A i \in 1 .. Len(Tail(k.queue)) : i + 1 \in 1 .. Len(k.queue)
    BY <2>1
  <2>3. \A i \in 1 .. Len(Tail(k.queue)) : Physical(Tail(k.queue)[i])
    BY <2>1, <2>2
  <2>4. QED
    BY <1>3, <2>3, ReadTakesHead
<1>4. QED
  BY <1>2, <1>3

\* With no event kept, the BIOS asks the controller.
LEMMA BiosReads ==
  ASSUME NEW k, k.irqEvent = NoEvent
  PROVE  BiosEventValue(k, TRUE) = ReadEventValue(k)
           /\ ReadBiosEvent(k, TRUE) = ReadEvent(k)
BY DEF BiosEventValue, ReadBiosEvent, Replays

\* The BIOS handler takes a byte from the controller to its buffer.
LEMMA ByteToBuffer ==
  ASSUME Handlers, Handlers', Paths, NEW k \in Controller, k.queue = kbd.queue,
         mode' = mode, hook' = hook, ring = <<>>, ring' = ring,
         Hand = <<>>, Hand' = <<>>, Handed', kbd' = ReadEvent(k),
         buffer' = buffer \o KeysOf(<<ReadEventValue(k)>>),
         seen' = seen, got' = got
  PROVE  Paths' /\ Carried
<1> DEFINE G == Given(ReadEventValue(k))
           Q == KeysOf(kbd'.queue)
<1>1. /\ kbd' \in Controller /\ ReadEventValue(k) \in Event
      /\ KeysOf(kbd.queue) = G \o Q
  BY ReadTakesHead
<1>2. G \in Seq(KeyNames) /\ buffer' = buffer \o G
  BY <1>1, GivenType, KeysOne
<1>3. buffer \in Seq(KeyNames) /\ buffer' \in Seq(KeyNames)
  BY <1>2, ConcatProperties DEF Paths, KeyTypes
<1>4. KeyTypes'
  BY <1>1, <1>3 DEF Paths, KeyTypes
<1>5. Driven'
  <2>1. mode.driver => \A i \in 1 .. Len(kbd'.queue) : Physical(kbd'.queue[i])
    BY RestPhysical DEF Paths, Driven
  <2>2. QED
    BY <2>1 DEF Paths, Driven
<1>6. Q \in Seq(KeyNames) /\ OnTheWay' = ((buffer' \o <<>>) \o <<>>) \o Q
  BY <1>4, WayInOrderNext DEF InOrder
<1>7. OnTheWay = ((buffer \o <<>>) \o <<>>) \o (G \o Q)
  BY <1>1, WayInOrder DEF InOrder, Paths
<1> HIDE DEF G, Q
<1>8. OnTheWay' = OnTheWay
  <2>1. ((buffer \o <<>>) \o <<>>) \o (G \o Q)
          = (((buffer \o G) \o <<>>) \o <<>>) \o Q
    BY <1>2, <1>3, <1>6, HandToBuffer
  <2>2. QED
    BY <1>2, <1>6, <1>7, <2>1, Zenon
<1>9. QED
  BY <1>4, <1>5, <1>8 DEF Paths, Carried

\* A handler of the guest takes a byte: a driver to its ring, a chaining
\* handler into its hands.
LEMMA HandlerReadsPortCarried ==
  ASSUME Handlers, Handlers', Paths, HandlerReadsPort PROVE Paths' /\ Carried
<1> DEFINE v == ReadEventValue(kbd)
           G == Given(v)
           Q == KeysOf(kbd'.queue)
<1>1. /\ InHandler /\ Running.irq = Keyboard /\ Running.stage = "start"
      /\ kbd' = [ReadEvent(kbd) EXCEPT !.irqEvent = v] /\ MoveTo("read")
      /\ ring' = IF hook = "driver" THEN ring \o KeysOf(<<v>>) ELSE ring
      /\ buffer' = buffer /\ mode' = mode /\ hook' = hook /\ seen' = seen /\ got' = got
  BY DEF HandlerReadsPort, ReadPortData, Serves, SameFrameVars
<1>2. /\ InHandler' /\ Running' = [Running EXCEPT !.stage = "read"]
      /\ Len(frames) \in Nat \ {0}
  BY <1>1, MovedFrame DEF Handlers, HandlerTypes
<1>3. Running \in Frame
  BY <1>2, ElementOfSeq DEF Running, Handlers, HandlerTypes
<1>4. Running'.irq = Keyboard /\ Running'.stage = "read"
  BY <1>1, <1>2, <1>3 DEF Frame
<1>5. kbd \in Controller /\ buffer \in Seq(KeyNames) /\ ring \in Seq(KeyNames)
  BY DEF Paths, KeyTypes
<1>6. /\ ReadEvent(kbd) \in Controller /\ v \in Event /\ v.src # "void"
      /\ KeysOf(kbd.queue) = G \o KeysOf(ReadEvent(kbd).queue)
  BY <1>5, ReadTakesHead
<1>7. /\ kbd' \in Controller /\ kbd'.queue = ReadEvent(kbd).queue
      /\ kbd'.irqEvent = v
  BY <1>1, <1>6 DEF Controller
<1>8. G \in Seq(KeyNames) /\ KeysOf(<<v>>) = G
  BY <1>6, GivenType, KeysOne
<1>9. KeysOf(kbd.queue) = G \o Q
  BY <1>6, <1>7
<1>10. Handed'
  BY <1>1, <1>4, <1>6, <1>7 DEF Handed, Paths
<1>11. Hand = <<>> /\ Hand' = IF hook = "chain" THEN G ELSE <<>>
  BY <1>1, <1>2, <1>4, <1>7 DEF Hand, Serving
<1> HIDE DEF v, G, Q
<1>12. KeyTypes'
  <2>1. ring' \in Seq(KeyNames)
    BY <1>1, <1>5, <1>8, ConcatProperties
  <2>2. QED
    BY <1>1, <1>7, <2>1 DEF Paths, KeyTypes
<1>13. Driven'
  <2>1. mode.driver => \A i \in 1 .. Len(kbd'.queue) : Physical(kbd'.queue[i])
    BY <1>5, <1>7, RestPhysical DEF Paths, Driven
  <2>2. QED
    BY <1>1, <2>1 DEF Paths, Driven
<1>14. Q \in Seq(KeyNames) /\ OnTheWay' = ((buffer \o ring') \o Hand') \o Q
  BY <1>1, <1>12, WayInOrderNext DEF InOrder, Q
<1>15. OnTheWay = ((buffer \o ring) \o <<>>) \o (G \o Q)
  BY <1>9, <1>11, WayInOrder DEF InOrder, Paths
<1>16. CASE hook = "driver"
  <2>1. Hand' = <<>> /\ ring' = ring \o G
    BY <1>1, <1>8, <1>11, <1>16
  <2>e. ((buffer \o ring) \o <<>>) \o (G \o Q)
          = ((buffer \o (ring \o G)) \o <<>>) \o Q
    <3>1. buffer \in Seq(KeyNames) /\ ring \in Seq(KeyNames)
      BY <1>5
    <3>2. G \in Seq(KeyNames)
      BY <1>8
    <3>3. Q \in Seq(KeyNames)
      BY <1>14
    <3>4. QED
      BY <3>1, <3>2, <3>3, HandToRing, SMTT(60)
  <2>2. OnTheWay' = OnTheWay
    BY <1>14, <1>15, <2>1, <2>e, Zenon
  <2>3. QED
    BY <1>1, <1>10, <1>12, <1>13, <2>2 DEF Paths, Carried
<1>17. CASE hook = "chain"
  <2>1. Hand' = G /\ ring' = ring
    BY <1>1, <1>11, <1>17
  <2>e. ((buffer \o ring) \o <<>>) \o (G \o Q) = ((buffer \o ring) \o G) \o Q
    <3>1. buffer \in Seq(KeyNames) /\ ring \in Seq(KeyNames)
      BY <1>5
    <3>2. G \in Seq(KeyNames)
      BY <1>8
    <3>3. Q \in Seq(KeyNames)
      BY <1>14
    <3>4. QED
      BY <3>1, <3>2, <3>3, HandToHandler, SMTT(60)
  <2>2. OnTheWay' = OnTheWay
    BY <1>14, <1>15, <2>1, <2>e, Zenon
  <2>3. QED
    BY <1>1, <1>10, <1>12, <1>13, <2>2 DEF Paths, Carried
<1>18. hook # "bios"
  BY <1>1 DEF Handed, Paths
<1>19. QED
  BY <1>16, <1>17, <1>18 DEF Paths, KeyTypes

\* What a handler becomes that goes on to another stage.
LEMMA StageMoves ==
  ASSUME Handlers, InHandler, NEW stage \in {"start", "read", "done"}, MoveTo(stage)
  PROVE  InHandler' /\ Running'.irq = Running.irq /\ Running'.stage = stage
<1>1. /\ InHandler' /\ Running' = [Running EXCEPT !.stage = stage]
      /\ Len(frames) \in Nat \ {0}
  BY MovedFrame DEF Handlers, HandlerTypes
<1>2. Running \in Frame
  BY <1>1, ElementOfSeq DEF Running, Handlers, HandlerTypes
<1>3. QED
  BY <1>1, <1>2 DEF Frame

\* A chaining handler hands the BIOS the event it has read, or leaves it to
\* the BIOS to read one.
LEMMA HandlerChainsCarried ==
  ASSUME Handlers, Handlers', Paths, HandlerChains PROVE Paths' /\ Carried
<1>1. /\ InHandler /\ Running.irq = Keyboard /\ Running.stage \in {"start", "read"}
      /\ hook = "chain" /\ MoveTo("done")
      /\ kbd' = ReadBiosEvent(kbd, TRUE)
      /\ buffer' = buffer \o KeysOf(<<BiosEventValue(kbd, TRUE)>>)
      /\ ring' = ring /\ mode' = mode /\ hook' = hook /\ seen' = seen /\ got' = got
  BY DEF HandlerChains, BiosKeyboard, Serves, SameFrameVars
<1>2. InHandler' /\ Running'.irq = Keyboard /\ Running'.stage = "done"
  BY <1>1, StageMoves
<1>3. Hand' = <<>> /\ Handed'
  BY <1>1, <1>2 DEF Hand, Handed, Serving
<1>4. ring = <<>> /\ ~mode.driver
  BY <1>1 DEF Paths, Driven
<1>5. kbd \in Controller /\ buffer \in Seq(KeyNames)
  BY DEF Paths, KeyTypes
<1>6. CASE Running.stage = "start"
  <2>1. Hand = <<>>
    BY <1>6, NothingHeld
  <2>2. kbd.irqEvent = NoEvent
    BY <1>1, <1>6 DEF Paths, Handed
  <2>3. /\ kbd' = ReadEvent(kbd)
        /\ buffer' = buffer \o KeysOf(<<ReadEventValue(kbd)>>)
    BY <1>1, <2>2, BiosReads
  <2>4. QED
    BY <1>1, <1>3, <1>4, <1>5, <2>1, <2>3, ByteToBuffer
<1>7. CASE Running.stage = "read"
  <2> DEFINE G == Given(kbd.irqEvent)
             Q == KeysOf(kbd.queue)
  <2>1. kbd.irqEvent # NoEvent /\ kbd.irqEvent \in Event
    BY <1>1, <1>5, <1>7 DEF Paths, Handed, NoEvent, Controller
  <2>2. kbd' = BeginIRQ(kbd) /\ BiosEventValue(kbd, TRUE) = kbd.irqEvent
    BY <1>1, <2>1 DEF ReadBiosEvent, BiosEventValue, Replays, BeginIRQ
  <2>3. kbd' \in Controller /\ kbd'.queue = kbd.queue
    BY <1>5, <2>2, ControllerKeeps
  <2>4. buffer' = buffer \o G /\ G \in Seq(KeyNames)
    BY <1>1, <2>1, <2>2, KeysOne, GivenType
  <2>5. Hand = G
    BY <1>1, <1>7 DEF Hand, Serving
  <2>6. buffer' \in Seq(KeyNames)
    BY <1>5, <2>4, ConcatProperties
  <2>7. KeyTypes'
    BY <1>1, <2>3, <2>6 DEF Paths, KeyTypes
  <2>8. Driven'
    BY <1>1, <1>4 DEF Paths, Driven
  <2>9. Q \in Seq(KeyNames) /\ OnTheWay = ((buffer \o <<>>) \o G) \o Q
    BY <1>4, <2>5, WayInOrder DEF InOrder, Paths
  <2>10. OnTheWay' = ((buffer' \o <<>>) \o <<>>) \o Q
    BY <1>1, <1>3, <1>4, <2>3, <2>7, WayInOrderNext DEF InOrder
  <2> HIDE DEF G, Q
  <2>11. ((buffer \o <<>>) \o G) \o Q = (((buffer \o G) \o <<>>) \o <<>>) \o Q
    <3>1. buffer \in Seq(KeyNames)
      BY <1>5
    <3>2. G \in Seq(KeyNames)
      BY <2>4
    <3>3. Q \in Seq(KeyNames)
      BY <2>9
    <3>4. QED
      BY <3>1, <3>2, <3>3, HandToBuffer
  <2>12. OnTheWay' = OnTheWay
    BY <2>4, <2>9, <2>10, <2>11, Zenon
  <2>13. QED
    BY <1>1, <1>3, <2>7, <2>8, <2>12 DEF Paths, Carried
<1>8. QED
  BY <1>1, <1>6, <1>7

\* The ends of lines and the returns of handlers move no key: a driver has
\* stored its own, a chaining handler is past its chaining.
LEMMA HandlerEndsCarried ==
  ASSUME Handlers, Handlers', Paths, HandlerEoi \/ HandlerReturns
  PROVE  Paths' /\ Carried
<1>1. /\ kbd' = kbd /\ buffer' = buffer /\ ring' = ring /\ mode' = mode
      /\ hook' = hook /\ seen' = seen /\ got' = got
  BY DEF HandlerEoi, HandlerReturns, SameFrameVars, keys
<1>2. kbd \in Controller
  BY DEF Paths, KeyTypes
<1>3. CASE HandlerEoi
  <2>1. /\ InHandler /\ MoveTo("done")
        /\ Running.irq = Timer \/ hook = "driver"
    BY <1>3 DEF HandlerEoi, Serves
  <2>2. InHandler' /\ Running'.irq = Running.irq /\ Running'.stage = "done"
    BY <2>1, StageMoves
  <2>3. Hand = <<>> /\ Hand' = <<>>
    BY <2>1, <2>2 DEF Hand, Serving, Timer, Keyboard
  <2>4. Handed'
    BY <1>1, <2>1, <2>2 DEF Handed, Paths
  <2>5. QED
    BY <1>1, <1>2, <2>3, <2>4, PathsFrames
<1>4. CASE HandlerReturns
  <2>1. InHandler' => Running'.irq = Timer /\ Running'.stage = "done"
    BY <1>4, HandlersReturn
  <2>2. Running.stage = "done"
    BY <1>4 DEF HandlerReturns, Serves
  <2>3. Hand = <<>> /\ Hand' = <<>>
    BY <2>1, <2>2 DEF Hand, Serving
  <2>4. Handed'
    BY <2>1 DEF Handed, Timer, Keyboard
  <2>5. QED
    BY <1>1, <1>2, <2>3, <2>4, PathsFrames
<1>5. QED
  BY <1>3, <1>4

\* With IF set no keyboard handler runs, and no key is in one's hands.
LEMMA OpenHands ==
  ASSUME Handlers, ifFlag
  PROVE  Hand = <<>> /\ ~ (InHandler /\ Running.irq = Keyboard)
BY DEF Handlers, Nested, Hand, Serving

\* A timer interrupt moves no key.
LEMMA DispatchTimerCarried ==
  ASSUME Handlers, Handlers', Paths, DispatchTimer PROVE Paths' /\ Carried
<1>1. /\ kbd' = kbd /\ buffer' = buffer /\ ring' = ring /\ mode' = mode
      /\ hook' = hook /\ seen' = seen /\ got' = got /\ ifFlag
  BY DEF DispatchTimer, Outside, keys
<1>2. kbd \in Controller
  BY DEF Paths, KeyTypes
<1>3. CASE timerHooked
  <2>1. Enter(Timer)
    BY <1>3 DEF DispatchTimer
  <2>2. Running' = [irq |-> Timer, stage |-> "start", savedIF |-> ifFlag]
    BY <2>1, PushedFrame DEF Handlers, HandlerTypes
  <2>3. Hand' = <<>> /\ Handed'
    BY <2>2 DEF Hand, Handed, Serving, Timer, Keyboard
  <2>4. QED
    BY <1>1, <1>2, <2>3, OpenHands, PathsFrames
<1>4. CASE ~timerHooked
  <2>1. frames' = frames
    BY <1>4 DEF DispatchTimer
  <2>2. QED
    BY <1>1, <1>2, <2>1, PathsStay
<1>5. QED
  BY <1>3, <1>4

\* IRQ 1: the BIOS takes its byte to the buffer, or a handler of the guest is
\* entered with no event kept from before.
LEMMA DispatchKeyboardCarried ==
  ASSUME Handlers, Handlers', Paths, DispatchKeyboard PROVE Paths' /\ Carried
<1>1. /\ ring' = ring /\ mode' = mode /\ hook' = hook /\ seen' = seen
      /\ got' = got /\ ifFlag
  BY DEF DispatchKeyboard, Outside
<1>2. /\ BeginIRQ(kbd) \in Controller /\ BeginIRQ(kbd).queue = kbd.queue
      /\ BeginIRQ(kbd).irqEvent = NoEvent
  BY ControllerKeeps DEF Paths, KeyTypes
<1>3. CASE hook # "bios"
  <2>1. kbd' = BeginIRQ(kbd) /\ Enter(Keyboard) /\ buffer' = buffer
    BY <1>3 DEF DispatchKeyboard
  <2>2. Running' = [irq |-> Keyboard, stage |-> "start", savedIF |-> ifFlag]
    BY <2>1, PushedFrame DEF Handlers, HandlerTypes
  <2>3. Hand' = <<>> /\ Handed'
    BY <1>1, <1>2, <1>3, <2>1, <2>2 DEF Hand, Handed
  <2>4. QED
    BY <1>1, <1>2, <2>1, <2>3, OpenHands, PathsFrames
<1>4. CASE hook = "bios"
  <2>1. /\ kbd' = ReadBiosEvent(BeginIRQ(kbd), TRUE) /\ frames' = frames
        /\ buffer' = buffer \o KeysOf(<<BiosEventValue(BeginIRQ(kbd), TRUE)>>)
    BY <1>4 DEF DispatchKeyboard, BiosKeyboard
  <2>2. /\ kbd' = ReadEvent(BeginIRQ(kbd))
        /\ buffer' = buffer \o KeysOf(<<ReadEventValue(BeginIRQ(kbd))>>)
    BY <1>2, <2>1, BiosReads
  <2>3. ring = <<>>
    BY <1>4 DEF Paths, Driven
  <2>4. Hand' = <<>> /\ Hand = <<>>
    BY <1>1, <1>4 DEF Hand
  <2>5. Handed'
    <3>1. ~ (InHandler /\ Running.irq = Keyboard)
      BY <1>1, OpenHands
    <3>2. Running' = Running /\ (InHandler' <=> InHandler)
      BY <2>1 DEF Running, InHandler
    <3>3. QED
      BY <3>1, <3>2 DEF Handed
  <2>6. QED
    BY <1>1, <1>2, <2>2, <2>3, <2>4, <2>5, ByteToBuffer
<1>5. QED
  BY <1>3, <1>4

\* What the host queues is a key typed, or none.
LEMMA Queued ==
  ASSUME Handlers, Handlers', Paths, NEW e \in Entry, kbd' \in Controller,
         kbd'.queue = Append(kbd.queue, e), kbd'.irqEvent = kbd.irqEvent,
         mode.driver => Physical(e),
         mode' = mode, hook' = hook, frames' = frames, buffer' = buffer,
         ring' = ring, seen' = seen, got' = got
  PROVE  Paths' /\ Carried
<1> DEFINE Q == KeysOf(kbd.queue)
           G == Given(e)
           W == (buffer \o ring) \o Hand
<1>1. KeyTypes'
  BY DEF Paths, KeyTypes
<1>2. Running' = Running /\ (InHandler' <=> InHandler)
      /\ (Serving(Keyboard)' <=> Serving(Keyboard))
  BY DEF Running, InHandler, Serving
<1>3. Handed' /\ Hand' = Hand
  BY <1>2 DEF Handed, Paths, Hand
<1>4. kbd.queue \in Seq(Entry)
  BY DEF Paths, KeyTypes, Controller
<1>5. Driven'
  <2>1. ASSUME mode.driver, NEW i \in 1 .. Len(kbd'.queue)
        PROVE  Physical(kbd'.queue[i])
    <3>1. /\ Len(kbd'.queue) = Len(kbd.queue) + 1 /\ Len(kbd.queue) \in Nat
          /\ \A j \in 1 .. Len(kbd.queue) : kbd'.queue[j] = kbd.queue[j]
          /\ kbd'.queue[Len(kbd.queue) + 1] = e
      BY <1>4, AppendProperties, LenProperties
    <3>2. i \in 1 .. Len(kbd.queue) \/ i = Len(kbd.queue) + 1
      BY <3>1
    <3>3. QED
      BY <2>1, <3>1, <3>2 DEF Paths, Driven
  <2>2. QED
    BY <2>1 DEF Paths, Driven
<1>6. KeysOf(kbd'.queue) = Q \o G
  BY <1>4, KeysAppend
<1>7. /\ buffer \in Seq(KeyNames) /\ ring \in Seq(KeyNames)
      /\ Hand \in Seq(KeyNames) /\ Q \in Seq(KeyNames)
      /\ OnTheWay = W \o Q
  BY WayInOrder DEF Paths, InOrder
<1>8. OnTheWay' = W \o (Q \o G)
  BY <1>1, <1>3, <1>6, WayInOrderNext DEF InOrder
<1>9. buffer \o ring \in Seq(KeyNames)
  BY <1>7, ConcatProperties
<1>10. W \in Seq(KeyNames)
  BY <1>7, <1>9, ConcatProperties
<1>11. G \in Seq(KeyNames)
  BY GivenType
<1>12. G = <<>> \/ (G = <<e.key>> /\ e.key \in KeyNames)
  BY DEF Given, Entry
<1> HIDE DEF Q, G, W
<1>13. OnTheWay' = OnTheWay \o G /\ OnTheWay \in Seq(KeyNames)
  <2>1. (W \o Q) \o G = W \o (Q \o G)
    BY <1>7, <1>10, <1>11, Regroup, ZenonT(60)
  <2>2. W \o Q \in Seq(KeyNames)
    BY <1>7, <1>10, ConcatProperties
  <2>3. QED
    BY <1>7, <1>8, <2>1, <2>2
<1>14. CASE G = <<>>
  <2>1. OnTheWay' = OnTheWay
    BY <1>13, <1>14, ConcatEmptySeq
  <2>2. QED
    BY <1>1, <1>3, <1>5, <2>1 DEF Paths, Carried
<1>15. CASE G = <<e.key>> /\ e.key \in KeyNames
  <2>1. OnTheWay' = Append(OnTheWay, e.key)
    BY <1>13, <1>15, AppendIsConcat
  <2>2. Promise!Type(e.key)
    BY <2>1 DEF Promise!Type
  <2>3. QED
    BY <1>1, <1>3, <1>5, <1>15, <2>2 DEF Paths, Carried, Promise!Next
<1>16. QED
  BY <1>12, <1>14, <1>15

\* The host types: a ready-made key only where no driver is.
LEMMA HostTypesCarried ==
  ASSUME Orderly, Handlers, Handlers', Paths, HostTypes PROVE Paths' /\ Carried
<1>1. /\ mode' = mode /\ hook' = hook /\ frames' = frames /\ buffer' = buffer
      /\ ring' = ring /\ seen' = seen /\ got' = got
  BY DEF HostTypes, Outside
<1>2. kbd \in Controller /\ kbd.mods \in Modifiers
  BY DEF Paths, KeyTypes, Controller
<1>3. ASSUME ~mode.gtk \/ mode.paste, NEW key \in HostKeys, kbd' = InjectKey(kbd, key)
      PROVE  Paths' /\ Carried
  <2> DEFINE e == EntryOf("host", key, kbd.mods)
  <2>1. ~mode.driver
    BY <1>3 DEF Orderly, Paths, KeyTypes
  <2>2. kbd' = Injected(kbd, "host", key, kbd.mods)
    <3>1. [kbd EXCEPT !.mods = kbd.mods] = kbd
      BY <1>2 DEF Controller
    <3>2. QED
      BY <1>3, <3>1 DEF InjectKey, Injected
  <2>3. key \in KeyNames
    BY DEF KeyNames
  <2>4. /\ e \in Entry /\ kbd' \in Controller
        /\ kbd'.queue = Append(kbd.queue, e) /\ kbd'.irqEvent = kbd.irqEvent
    BY <1>2, <2>2, <2>3, QueueKeeps
  <2> HIDE DEF e
  <2>5. QED
    BY <1>1, <2>1, <2>4, Queued
<1>4. ASSUME NEW code \in PlainCodes, NEW break \in BOOLEAN,
             kbd' = InjectScanCode(kbd, code, break)
      PROVE  Paths' /\ Carried
  <2> DEFINE ext == kbd.mods.prefix
             m == [kbd.mods EXCEPT !.prefix = FALSE]
             after == IF break THEN ModifierBreak(m, code, ext) ELSE m
             from == IF break THEN "other" ELSE "make"
             e == EntryOf(from, code, after)
  <2>1. code \in KeyNames /\ code \notin ModCodes
    BY I8042Assumption DEF KeyNames
  <2>2. m \in Modifiers /\ ext \in BOOLEAN
    BY <1>2 DEF Modifiers
  <2>3. after \in Modifiers
    BY <2>2, ModifiersType
  <2>4. kbd' = Injected(kbd, from, code, after)
    BY <1>4, <2>1 DEF InjectScanCode, WithMods, Injected
  <2>5. from \in {"host", "make", "other"} /\ from \in {"make", "other"}
    OBVIOUS
  <2>6. Physical(e)
    BY <2>5 DEF Physical, EntryOf
  <2> HIDE DEF after, from, m, ext
  <2>7. /\ e \in Entry /\ kbd' \in Controller
        /\ kbd'.queue = Append(kbd.queue, e) /\ kbd'.irqEvent = kbd.irqEvent
    BY <1>2, <2>1, <2>3, <2>4, <2>5, QueueKeeps, ZenonT(60)
  <2> HIDE DEF e
  <2>8. QED
    BY <1>1, <2>6, <2>7, Queued
<1>5. QED
  BY <1>3, <1>4 DEF HostTypes

\* Every step keeps the paths in order and is a step of the promise or none.
LEMMA PathsKept ==
  ASSUME Orderly, Handlers, Handlers', Paths, [Next]_vars PROVE Paths' /\ Carried
<1>0. kbd \in Controller
  BY DEF Paths, KeyTypes
<1>1. CASE SetIF \/ IdleCall \/ TimerSti \/ Tick \/ NoDispatch \/ HostEof
             \/ HostDone \/ UNCHANGED vars
  <2>1. /\ kbd' = kbd /\ buffer' = buffer /\ ring' = ring /\ mode' = mode
        /\ hook' = hook /\ frames' = frames /\ seen' = seen /\ got' = got
    BY <1>1 DEF SetIF, IdleCall, TimerSti, Tick, NoDispatch, HostEof, HostDone,
                vars, guest, keys, Outside, SameFrameVars
  <2>2. QED
    BY <1>0, <2>1, PathsStay
<1>2. CASE FrameElapses \/ Schedule
  <2>1. /\ buffer' = buffer /\ ring' = ring /\ mode' = mode
        /\ hook' = hook /\ frames' = frames /\ seen' = seen /\ got' = got
    BY <1>2 DEF FrameElapses, Schedule, Outside
  <2>2. /\ kbd' \in Controller /\ kbd'.queue = kbd.queue
        /\ kbd'.irqEvent = kbd.irqEvent
    <3>1. CASE FrameElapses
      BY <1>0, <3>1 DEF FrameElapses, Controller
    <3>2. CASE Schedule
      <4> DEFINE k == ServiceInput(kbd, FALSE)
      <4>1. k \in Controller /\ k.queue = kbd.queue /\ k.irqEvent = kbd.irqEvent
        BY <1>0, ControllerKeeps
      <4>2. kbd' = kbd \/ kbd' = k \/ kbd' = [k EXCEPT !.irqPending = TRUE]
        BY <3>2 DEF Schedule
      <4> HIDE DEF k
      <4>3. QED
        BY <1>0, <4>1, <4>2 DEF Controller
    <3>3. QED
      BY <1>2, <3>1, <3>2
  <2>3. QED
    BY <2>1, <2>2, PathsStay
<1>3. CASE Ended
  BY <1>1, <1>3 DEF Ended
<1>4. QED
  BY <1>1, <1>2, <1>3, ReadKeyCarried, ReadWaitsCarried, PollsCarried,
     SetVectorCarried, HandlerReadsPortCarried, HandlerChainsCarried,
     HandlerEndsCarried, DispatchTimerCarried, DispatchKeyboardCarried,
     HostTypesCarried
     DEF Next, Exec, Dispatch, Host

\* Nothing has been typed, and the places are empty.
LEMMA InitPaths == Init => Paths /\ Promise!Init
<1> SUFFICES ASSUME Init PROVE Paths /\ Promise!Init
  OBVIOUS
<1>1. Handlers
  BY InitHandlers
<1>2. PowerOnKbd({}) \in Controller /\ PowerOnKbd({}).queue = <<>>
  <2>1. NoModifiers \in Modifiers /\ [NoModifiers EXCEPT !.locks = {}] \in Modifiers
    BY DEF NoModifiers, Modifiers
  <2>2. NoEvent \in Event /\ <<>> \in Seq(Entry) /\ "01" \in OutputPort
    BY <2>1, EmptySeq DEF NoEvent, Event, OutputPort
  <2>3. QED
    BY <2>1, <2>2 DEF PowerOnKbd, Controller
<1>3. <<>> \in Seq(KeyNames)
  BY EmptySeq
<1>4. /\ kbd \in Controller /\ kbd.queue = <<>> /\ mode \in Modes /\ hook = "bios"
      /\ buffer = <<>> /\ ring = <<>> /\ frames = <<>> /\ seen = NoKey /\ got = NoKey
  BY <1>2 DEF Init
<1>5. KeyTypes /\ Handed
  BY <1>3, <1>4 DEF KeyTypes, Handed, InHandler
<1>6. Driven
  <2>1. Len(kbd.queue) = 0
    BY <1>4
  <2>2. QED
    BY <1>4, <2>1 DEF Driven
<1>7. Hand = <<>>
  BY <1>4, NothingHeld
<1>8. OnTheWay = ((<<>> \o <<>>) \o <<>>) \o <<>>
  BY <1>1, <1>4, <1>5, <1>7, WayInOrder, KeysEmpty DEF InOrder
<1>9. OnTheWay = <<>>
  BY <1>3, <1>8, ConcatEmptySeq
<1>10. QED
  BY <1>4, <1>5, <1>6, <1>9 DEF Paths, Promise!Init

\* The keys typed reach the program's reads once each and in order, and a
\* look shows the key the next read returns: every step of the loop, of the
\* two controllers, of the BIOS and of the guest's handlers is a step of
\* TypeAhead's specification, or none of its.
THEOREM KeysArriveInOrder == ASSUME Orderly PROVE FairSpec => KeysInOrder
<1>1. Spec => []Handlers
  BY InitHandlers, HandlersKept, PTL DEF Spec
<1>2. Handlers /\ Handlers' /\ Paths /\ [Next]_vars
        => Paths' /\ [Promise!Next]_<<OnTheWay, seen, got>>
  BY PathsKept DEF Carried
<1>3. Spec => Promise!Init /\ [][Promise!Next]_<<OnTheWay, seen, got>>
  BY <1>1, <1>2, InitPaths, PTL DEF Spec
<1>4. QED
  BY <1>3, PTL DEF FairSpec, KeysInOrder, Promise!Spec
=============================================================================
