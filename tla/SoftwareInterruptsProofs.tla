---------------------- MODULE SoftwareInterruptsProofs ----------------------
(***************************************************************************)
(* Proofs about SoftwareInterrupts.tla, for guests that take over any      *)
(* vectors, stacks of any depth, any number of keys and resets. What they  *)
(* say of waits holds as long as no interrupt handler waits for a key      *)
(* itself and no bridged call is cut short while it waits: the case the    *)
(* emulator's single record is made for. What they say of the answers of   *)
(* ROM stubs holds for every guest.                                        *)
(***************************************************************************)
EXTENDS SoftwareInterrupts, SequenceTheorems, TLAPS

Stubs == {"read", "key", "putc"}
Codes == {Program, Client} \cup {Handler(n) : n \in Vectors} \cup {Stub(n) : n \in Stubs}
Flags == [iff : BOOLEAN, tf : BOOLEAN, res : BOOLEAN]
Nexts == {"any", "iret"} \cup Stubs
CPU == [pm : BOOLEAN, code : Codes, next : Nexts, latch : BOOLEAN, flags : Flags]
FrameSet == [code : Codes, next : Nexts, flags : Flags]
Records == [n : {"read"}, code : Codes, flags : Flags]
Keys == [line : Nat, serving : BOOLEAN, buf : Nat]
Clients == {c \in CPU : c.code = Client /\ c.next = "any"}
Bridges == [open : {TRUE}, since : Nat, cpu : Clients, stack : {<<>>}]
Begins == [code : Codes, flags : Flags]
Debts == [stub : Vectors, res : BOOLEAN]

Machines ==
  [cpu : CPU, stack : Seq(FrameSet), retry : Records \cup {NoWait},
   bridge : Bridges \cup {NoBridge}, hooked : SUBSET Vectors, keys : Keys,
   ghost : [reads : SUBSET Begins, owed : SUBSET Debts]]

\* What reads the keyboard, and what waits while DOS does.
Readers == {Program, Client, Handler("dos"), Stub("read")}

\* The read that is repeated is what runs, or what handlers that read nothing
\* have interrupted.
Repeating(m) == m.retry.code = m.cpu.code /\ m.cpu.next = "read"
Beneath(m) ==
  \E k \in 1 .. Len(m.stack) :
    /\ m.stack[k].code = m.retry.code /\ m.stack[k].next = "read"
    /\ m.cpu.code \notin Readers
    /\ \A j \in 1 .. k - 1 : m.stack[j].code \notin Readers

\* Only what reads waits, and the one record is that of the one wait.
Guarded(m) ==
  /\ m \in Machines
  /\ m.cpu.next = "read" => m.cpu.code \in Readers
  /\ \A i \in 1 .. Len(m.stack) : m.stack[i].next = "read" => m.stack[i].code \in Readers
  /\ m.cpu.pm => m.cpu \in Clients /\ m.stack = <<>> /\ m.retry = NoWait
  /\ m.retry = NoWait \/ Repeating(m) \/ Beneath(m)
  /\ m.ghost.reads = IF m.retry = NoWait THEN {}
                     ELSE {[code |-> m.retry.code, flags |-> m.retry.flags]}

\* Two machines that differ at most in flags, keys, vectors and debts.
Alike(m, w) ==
  /\ w.cpu.code = m.cpu.code /\ w.cpu.next = m.cpu.next /\ w.cpu.pm = m.cpu.pm
  /\ w.retry = m.retry /\ w.bridge = m.bridge /\ w.ghost.reads = m.ghost.reads
  /\ Len(w.stack) = Len(m.stack)
  /\ \A i \in 1 .. Len(m.stack) :
       w.stack[i].code = m.stack[i].code /\ w.stack[i].next = m.stack[i].next

---------------------------------------------------------------------------
(* Codes and types.                                                        *)

\* The codes that exist, and which of them read the keyboard.
LEMMA CodesApart ==
  /\ Program \in Codes /\ Client \in Codes
  /\ \A n \in Vectors : Handler(n) \in Codes
  /\ \A n \in Stubs : Stub(n) \in Codes
  /\ \A n \in Vectors \ {"dos"} : Handler(n) \notin Readers
  /\ \A n \in Stubs \ {"read"} : Stub(n) \notin Readers
  /\ \A n, k \in Vectors : Handler(n) # Stub(k) /\ Handler(n) # Program /\ Stub(k) # Program
  /\ \A n, k \in Vectors : Stub(n) = Stub(k) => n = k
  /\ Readers \subseteq Codes /\ Program # Client
BY DEF Program, Client, Handler, Stub, Codes, Stubs, Vectors, Readers

\* The record of no wait is none of a wait.
LEMMA NoWaitApart == NoWait \notin Records /\ NoWait.n = "none"
BY DEF NoWait, Records

\* The frame of an interrupt has its type.
LEMMA FrameType ==
  ASSUME NEW m \in Machines
  PROVE  /\ Frame(m) \in FrameSet /\ Frame(m).code = m.cpu.code
         /\ Frame(m).next = m.cpu.next /\ Frame(m).flags = m.cpu.flags
BY DEF Frame, FrameSet, Machines, CPU

\* Flags survive a merge, but for the result.
LEMMA MergeType ==
  ASSUME NEW s \in Flags, NEW l \in Flags
  PROVE  /\ Merge(s, l) \in Flags /\ Merge(s, l).res = l.res
         /\ Merge(s, l).iff = s.iff /\ Merge(s, l).tf = s.tf
BY DEF Merge, Flags

\* Pushing and popping a frame.
LEMMA PushFrame ==
  ASSUME NEW f \in FrameSet, NEW s \in Seq(FrameSet)
  PROVE  /\ <<f>> \o s \in Seq(FrameSet) /\ Len(<<f>> \o s) = Len(s) + 1
         /\ (<<f>> \o s)[1] = f /\ \A i \in 1 .. Len(s) : (<<f>> \o s)[i + 1] = s[i]
         /\ Head(<<f>> \o s) = f /\ Tail(<<f>> \o s) = s
OBVIOUS

\* Taking the innermost frame off.
LEMMA PopFrame ==
  ASSUME NEW s \in Seq(FrameSet), s # <<>>
  PROVE  /\ Tail(s) \in Seq(FrameSet) /\ Len(Tail(s)) = Len(s) - 1 /\ Len(s) \in Nat \ {0}
         /\ Head(s) = s[1] /\ s[1] \in FrameSet
         /\ \A i \in 1 .. Len(Tail(s)) : Tail(s)[i] = s[i + 1]
OBVIOUS

---------------------------------------------------------------------------
(* Where a wait is, as frames come and go.                                 *)

\* What changes neither codes nor records keeps the order of things.
LEMMA AlikeGuarded ==
  ASSUME NEW m, NEW w \in Machines, Guarded(m), Alike(m, w)
  PROVE  Guarded(w)
<1>1. m \in Machines /\ m.stack \in Seq(FrameSet) /\ w.stack \in Seq(FrameSet)
  BY DEF Guarded, Machines
<1>2. ASSUME Beneath(m) PROVE Beneath(w)
  BY <1>1, <1>2 DEF Beneath, Alike
<1>3. w.stack = <<>> <=> m.stack = <<>>
  BY <1>1, EmptySeq DEF Alike
<1>4. \A i \in 1 .. Len(w.stack) : w.stack[i].next = "read" => w.stack[i].code \in Readers
  BY DEF Guarded, Alike
<1>5. w.cpu.pm => w.cpu \in Clients /\ w.stack = <<>> /\ w.retry = NoWait
  BY <1>3 DEF Guarded, Alike, Clients, Machines
<1>6. QED
  BY <1>2, <1>3, <1>4, <1>5 DEF Guarded, Alike, Repeating

\* What does not repeat a read does not wait, or reads nothing.
LEMMA NotRepeating ==
  ASSUME NEW m, Guarded(m), m.cpu.next # "read" \/ m.retry.code # m.cpu.code
  PROVE  m.retry = NoWait \/ m.cpu.code \notin Readers
BY DEF Guarded, Repeating, Beneath

\* A handler on top of a wait leaves it beneath, if it reads nothing.
LEMMA PushedGuarded ==
  ASSUME NEW m, NEW w \in Machines, Guarded(m), ~ m.cpu.pm,
         w.stack = <<Frame(m)>> \o m.stack, w.cpu.pm = m.cpu.pm,
         w.retry = m.retry, w.ghost.reads = m.ghost.reads,
         w.cpu.next = "read" => w.cpu.code \in Readers,
         w.retry = NoWait \/ w.cpu.code \notin Readers
  PROVE  Guarded(w)
<1> DEFINE f == Frame(m)
           n == Len(m.stack)
<1>1. /\ m \in Machines /\ m.stack \in Seq(FrameSet) /\ n \in Nat
      /\ f \in FrameSet /\ f.code = m.cpu.code /\ f.next = m.cpu.next
  BY FrameType DEF Guarded, Machines
<1> HIDE DEF f
<1>2. /\ Len(w.stack) = n + 1 /\ w.stack[1] = f
      /\ \A i \in 1 .. n : w.stack[i + 1] = m.stack[i]
  BY <1>1, PushFrame DEF f
<1> HIDE DEF n
<1>3. \A i \in 1 .. Len(w.stack) : w.stack[i].next = "read" => w.stack[i].code \in Readers
  <2> SUFFICES ASSUME NEW i \in 1 .. n + 1, w.stack[i].next = "read"
               PROVE  w.stack[i].code \in Readers
    BY <1>2
  <2>1. CASE i = 1
    BY <1>1, <1>2, <2>1 DEF Guarded
  <2>2. CASE i # 1
    <3>1. i - 1 \in 1 .. n /\ w.stack[(i - 1) + 1] = m.stack[i - 1] /\ (i - 1) + 1 = i
      BY <1>1, <1>2, <2>2, SMTT(60)
    <3>2. QED
      BY <3>1 DEF Guarded, n
  <2>3. QED
    BY <2>1, <2>2
<1>4. ASSUME w.retry # NoWait PROVE Beneath(w)
  <2>1. CASE Repeating(m)
    BY <1>1, <1>2, <1>4, <2>1 DEF Repeating, Beneath
  <2>2. CASE Beneath(m)
    <3>1. PICK k \in 1 .. n :
            /\ m.stack[k].code = m.retry.code /\ m.stack[k].next = "read"
            /\ m.cpu.code \notin Readers
            /\ \A j \in 1 .. k - 1 : m.stack[j].code \notin Readers
      BY <2>2 DEF Beneath, n
    <3>2. /\ k + 1 \in 1 .. Len(w.stack) /\ w.stack[k + 1] = m.stack[k]
      BY <1>1, <1>2
    <3>3. ASSUME NEW j \in 1 .. (k + 1) - 1 PROVE w.stack[j].code \notin Readers
      <4>1. CASE j = 1
        BY <1>1, <1>2, <3>1, <4>1
      <4>2. CASE j # 1
        <5>1. j - 1 \in 1 .. k - 1 /\ j - 1 \in 1 .. n /\ (j - 1) + 1 = j
          BY <1>1, <4>2
        <5>2. w.stack[j] = m.stack[j - 1]
          BY <1>2, <5>1
        <5>3. QED
          BY <3>1, <5>1, <5>2
      <4>3. QED
        BY <4>1, <4>2
    <3>4. QED
      BY <1>4, <3>1, <3>2, <3>3 DEF Beneath
  <2>3. QED
    BY <1>4, <2>1, <2>2 DEF Guarded
<1>5. QED
  BY <1>3, <1>4 DEF Guarded

\* A return uncovers a wait no further than to its reader.
LEMMA PoppedGuarded ==
  ASSUME NEW m, NEW w \in Machines, Guarded(m), m.stack # <<>>, m.cpu.next # "read",
         w.stack = Tail(m.stack), w.cpu.pm = m.cpu.pm,
         w.cpu.code = Head(m.stack).code, w.cpu.next = Head(m.stack).next,
         w.retry = m.retry, w.ghost.reads = m.ghost.reads
  PROVE  Guarded(w)
<1> DEFINE n == Len(m.stack)
<1>1. m \in Machines /\ m.stack \in Seq(FrameSet)
  BY DEF Guarded, Machines
<1>2. /\ Len(w.stack) = n - 1 /\ n \in Nat \ {0} /\ Head(m.stack) = m.stack[1]
      /\ \A i \in 1 .. n - 1 : w.stack[i] = m.stack[i + 1]
  BY <1>1, PopFrame
<1> HIDE DEF n
<1>3. /\ w.cpu.next = "read" => w.cpu.code \in Readers
      /\ ~ w.cpu.pm
  BY <1>2 DEF Guarded, n
<1>4. ASSUME NEW i \in 1 .. Len(w.stack), w.stack[i].next = "read"
      PROVE  w.stack[i].code \in Readers
  <2>1. i + 1 \in 1 .. n /\ w.stack[i] = m.stack[i + 1]
    BY <1>2
  <2>2. QED
    BY <1>4, <2>1 DEF Guarded, n
<1>5. ASSUME w.retry # NoWait PROVE Repeating(w) \/ Beneath(w)
  <2>1. PICK k \in 1 .. n :
          /\ m.stack[k].code = m.retry.code /\ m.stack[k].next = "read"
          /\ \A j \in 1 .. k - 1 : m.stack[j].code \notin Readers
    BY <1>5 DEF Guarded, Repeating, Beneath, n
  <2>2. CASE k = 1
    BY <1>2, <2>1, <2>2 DEF Repeating
  <2>3. CASE k # 1
    <3>1. /\ k - 1 \in 1 .. Len(w.stack) /\ (k - 1) + 1 = k /\ k - 1 \in 1 .. n - 1
          /\ 1 \in 1 .. k - 1
      BY <1>2, <2>3
    <3>2. w.stack[k - 1] = m.stack[k] /\ w.cpu.code \notin Readers
      BY <1>2, <2>1, <3>1
    <3>3. ASSUME NEW j \in 1 .. (k - 1) - 1 PROVE w.stack[j].code \notin Readers
      <4>1. j \in 1 .. n - 1 /\ j + 1 \in 1 .. k - 1
        BY <1>2
      <4>2. QED
        BY <1>2, <2>1, <4>1
    <3>4. QED
      BY <2>1, <3>1, <3>2, <3>3 DEF Beneath
  <2>4. QED
    BY <2>2, <2>3
<1>6. QED
  BY <1>3, <1>4, <1>5 DEF Guarded

---------------------------------------------------------------------------
(* Entering a service, and returning from it.                              *)

\* What a machine is made of.
LEMMA Parts ==
  ASSUME NEW m \in Machines
  PROVE  /\ m.cpu \in CPU /\ m.stack \in Seq(FrameSet) /\ m.retry \in Records \cup {NoWait}
         /\ m.hooked \subseteq Vectors /\ m.keys \in Keys /\ m.cpu.flags \in Flags
         /\ m.cpu.code \in Codes /\ m.cpu.next \in Nexts /\ m.cpu.latch \in BOOLEAN
         /\ m.cpu.pm \in BOOLEAN
BY DEF Machines, CPU

\* What entering an interrupt does: a frame more, the trap latch clear, the rest as it was.
LEMMA EnterShape ==
  ASSUME NEW m \in Machines
  PROVE  LET e == Enter(m)
         IN  /\ e \in Machines /\ e.stack = <<Frame(m)>> \o m.stack
             /\ ~ e.cpu.latch /\ e.cpu.pm = m.cpu.pm /\ e.cpu.code = m.cpu.code
             /\ e.cpu.next = m.cpu.next /\ e.cpu.flags.res = m.cpu.flags.res
             /\ e.retry = m.retry /\ e.bridge = m.bridge /\ e.hooked = m.hooked
             /\ e.keys = m.keys /\ e.ghost = m.ghost
<1>1. <<Frame(m)>> \o m.stack \in Seq(FrameSet)
  BY FrameType, PushFrame, Parts
<1>2. QED
  BY <1>1, Parts, ZenonT(60) DEF Enter, Machines, CPU, Flags

\* What a service's return does: the frame's code goes on, with the flags merged.
LEMMA FinishShape ==
  ASSUME NEW s \in Machines, NEW f \in FrameSet, NEW rest \in Seq(FrameSet),
         s.stack = <<f>> \o rest, NEW saved \in Flags
  PROVE  LET d == FinishReturn(s, saved)
         IN  /\ d \in Machines /\ d.stack = rest
             /\ d.cpu.latch = s.cpu.latch /\ d.cpu.pm = s.cpu.pm
             /\ d.cpu.code = f.code /\ d.cpu.next = f.next
             /\ d.cpu.flags = Merge(saved, s.cpu.flags)
             /\ d.retry = s.retry /\ d.bridge = s.bridge /\ d.hooked = s.hooked
             /\ d.keys = s.keys /\ d.ghost = s.ghost
<1>1. Tail(s.stack) = rest /\ Head(s.stack) = f
  BY PushFrame
<1>2. Merge(saved, s.cpu.flags) \in Flags
  BY MergeType, Parts
<1>3. f.code \in Codes /\ f.next \in Nexts
  BY DEF FrameSet
<1>4. QED
  BY <1>1, <1>2, <1>3, Parts DEF FinishReturn, Machines, CPU

\* What going to a guest's handler does: other code, the latch set, the rest as it was.
LEMMA TransferShape ==
  ASSUME NEW m \in Machines, NEW c \in Codes
  PROVE  LET t == Transfer(m, c)
         IN  /\ t \in Machines /\ t.cpu.code = c /\ t.cpu.next = "any" /\ t.cpu.latch
             /\ t.cpu.pm = m.cpu.pm /\ t.cpu.flags = m.cpu.flags /\ t.stack = m.stack
             /\ t.retry = m.retry /\ t.bridge = m.bridge /\ t.ghost = m.ghost
             /\ t.hooked = m.hooked
BY Parts DEF Transfer, Machines, CPU, Nexts

\* The BIOS's keyboard interrupt.
LEMMA Irq1Shape ==
  ASSUME NEW m \in Machines
  PROVE  LET w == Irq1Keyboard(m)
         IN  /\ w \in Machines /\ w.cpu = m.cpu /\ w.stack = m.stack /\ w.retry = m.retry
             /\ w.bridge = m.bridge /\ w.hooked = m.hooked /\ w.ghost = m.ghost
<1> DEFINE k == m.keys
<1>1. k \in Keys
  BY DEF Machines
<1>2. [k EXCEPT !.serving = FALSE] \in Keys
  BY <1>1 DEF Keys
<1>3. CASE k.line = 0
  <2>1. Irq1Keyboard(m) = [m EXCEPT !.keys = [k EXCEPT !.serving = FALSE]]
    BY <1>3 DEF Irq1Keyboard
  <2>2. QED
    BY <1>2, <2>1 DEF Machines
<1>4. CASE k.line # 0
  <2> DEFINE q == [k EXCEPT !.line = @ - 1, !.buf = @ + 1, !.serving = FALSE]
  <2>1. Irq1Keyboard(m) = [m EXCEPT !.keys = q]
    BY <1>4 DEF Irq1Keyboard
  <2>2. k.line - 1 \in Nat /\ k.buf + 1 \in Nat
    BY <1>1, <1>4 DEF Keys
  <2>3. q \in Keys
    BY <1>1, <2>2 DEF Keys
  <2> HIDE DEF q
  <2>4. QED
    BY <2>1, <2>3 DEF Machines
<1>5. QED
  BY <1>3, <1>4

\* A service in Python that does not read a key.
LEMMA ServiceShape ==
  ASSUME NEW m \in Machines, NEW n \in Vectors \ {"read"}, NEW r \in BOOLEAN,
         ~ (n \in {"trap", "dos", "putc"} /\ n \in m.hooked)
  PROVE  LET w == HandleInterrupt(m, n, r)
         IN  /\ w \in Machines /\ w.stack = m.stack /\ w.retry = m.retry
             /\ w.bridge = m.bridge /\ w.hooked = m.hooked /\ w.ghost = m.ghost
             /\ w.cpu.latch = m.cpu.latch /\ w.cpu.pm = m.cpu.pm
             /\ w.cpu.code = m.cpu.code /\ w.cpu.next = m.cpu.next
<1>1. CASE n = "disk"
  <2>1. HandleInterrupt(m, n, r) = [m EXCEPT !.cpu.flags.res = r]
    BY <1>1 DEF HandleInterrupt
  <2>2. [m.cpu.flags EXCEPT !.res = r] \in Flags
    BY Parts DEF Flags
  <2>3. QED
    BY <2>1, <2>2, Parts, ZenonT(60) DEF Machines, CPU
<1>2. CASE n = "key"
  <2>1. HandleInterrupt(m, n, r) = Irq1Keyboard(m)
    BY <1>2 DEF HandleInterrupt
  <2>2. QED
    BY <2>1, Irq1Shape
<1>3. CASE n \notin {"disk", "key"}
  <2>1. HandleInterrupt(m, n, r) = m
    BY <1>3 DEF HandleInterrupt
  <2>2. QED
    BY <2>1
<1>4. QED
  BY <1>1, <1>2, <1>3

\* A read that finds a key.
LEMMA TakeKeyShape ==
  ASSUME NEW m \in Machines, ~ Blocks(m, "read")
  PROVE  LET w == TakeKey(m)
         IN  /\ w \in Machines /\ w.stack = m.stack /\ w.retry = m.retry
             /\ w.bridge = m.bridge /\ w.hooked = m.hooked /\ w.ghost = m.ghost
             /\ w.cpu.latch = m.cpu.latch /\ w.cpu.pm = m.cpu.pm
             /\ w.cpu.code = m.cpu.code /\ w.cpu.next = m.cpu.next
<1> DEFINE k == IF Drains(m) THEN [m.keys EXCEPT !.buf = @ + m.keys.line, !.line = 0] ELSE m.keys
<1>1. k \in Keys /\ k.buf > 0
  <2>1. m.keys \in Keys /\ m.keys.buf \in Nat /\ m.keys.line \in Nat
    BY Parts DEF Keys
  <2>2. CASE Drains(m)
    <3>1. m.keys.line > 0 /\ m.keys.buf + m.keys.line \in Nat /\ m.keys.buf + m.keys.line > 0
      BY <2>1, <2>2 DEF Drains
    <3>2. QED
      BY <2>1, <2>2, <3>1 DEF Keys
  <2>3. CASE ~ Drains(m)
    BY <2>1, <2>3 DEF Blocks
  <2>4. QED
    BY <2>2, <2>3
<1> HIDE DEF k
<1>2. [k EXCEPT !.buf = @ - 1] \in Keys
  <2>1. k.buf - 1 \in Nat
    BY <1>1 DEF Keys
  <2>2. QED
    BY <1>1, <2>1 DEF Keys
<1>3. TakeKey(m) = [m EXCEPT !.keys = [k EXCEPT !.buf = @ - 1], !.cpu.flags.res = FALSE]
  BY DEF TakeKey, k
<1>4. PICK q \in Keys : q = [k EXCEPT !.buf = @ - 1]
  BY <1>2
<1> DEFINE c == [m.cpu EXCEPT !.flags.res = FALSE]
<1>5. TakeKey(m) = [m EXCEPT !.keys = q, !.cpu = c]
  BY <1>3, <1>4
<1>6. /\ c \in CPU /\ c.latch = m.cpu.latch /\ c.pm = m.cpu.pm
      /\ c.code = m.cpu.code /\ c.next = m.cpu.next
  BY Parts DEF Flags, CPU
<1> HIDE DEF c
<1>7. QED
  BY <1>5, <1>6 DEF Machines

\* The answer a chained stub leaves in its caller's frame.
LEMMA MergeOuterShape ==
  ASSUME NEW m \in Machines
  PROVE  LET w == MergeOuterFrame(m)
         IN  /\ w \in Machines /\ Alike(m, w) /\ w.cpu = m.cpu /\ w.ghost = m.ghost
             /\ w.hooked = m.hooked
             /\ w.stack # <<>> => w.stack[1].flags.res = m.cpu.flags.res
             /\ \A i \in 2 .. Len(m.stack) : w.stack[i] = m.stack[i]
<1>1. CASE m.stack = <<>>
  BY <1>1 DEF MergeOuterFrame, Alike
<1>2. CASE m.stack # <<>>
  <2> DEFINE f == m.stack[1]
             g == [f EXCEPT !.flags = Merge(f.flags, m.cpu.flags)]
             s == [m.stack EXCEPT ![1] = g]
  <2>1. m.stack \in Seq(FrameSet) /\ f \in FrameSet /\ f.flags \in Flags
        /\ Len(m.stack) \in Nat \ {0}
    BY <1>2, Parts, PopFrame DEF FrameSet
  <2>2. /\ g \in FrameSet /\ g.code = f.code /\ g.next = f.next
        /\ g.flags.res = m.cpu.flags.res
    BY <2>1, MergeType, Parts DEF FrameSet
  <2>3. MergeOuterFrame(m) = [m EXCEPT !.stack = s]
    BY <1>2 DEF MergeOuterFrame
  <2> HIDE DEF g
  <2>4. /\ s \in Seq(FrameSet) /\ Len(s) = Len(m.stack)
        /\ \A i \in 1 .. Len(m.stack) : s[i] = IF i = 1 THEN g ELSE m.stack[i]
    BY <2>1, <2>2
  <2> HIDE DEF s
  <2>5. /\ [m EXCEPT !.stack = s] \in Machines
        /\ [m EXCEPT !.stack = s].stack = s /\ [m EXCEPT !.stack = s].cpu = m.cpu
        /\ [m EXCEPT !.stack = s].retry = m.retry /\ [m EXCEPT !.stack = s].bridge = m.bridge
        /\ [m EXCEPT !.stack = s].ghost = m.ghost /\ [m EXCEPT !.stack = s].hooked = m.hooked
    BY <2>4 DEF Machines
  <2>6. s[1].flags.res = m.cpu.flags.res /\ \A i \in 2 .. Len(m.stack) : s[i] = m.stack[i]
    BY <2>1, <2>2, <2>4
  <2>7. QED
    BY <2>2, <2>3, <2>4, <2>5, <2>6 DEF Alike
<1>3. QED
  BY <1>1, <1>2

---------------------------------------------------------------------------
(* INT n.                                                                  *)

\* The end of a service changes the history alone.
LEMMA FinishedShape ==
  ASSUME NEW m \in Machines, NEW n \in Vectors
  PROVE  LET w == Finished(m, n)
         IN  /\ w \in Machines /\ w.cpu = m.cpu /\ w.stack = m.stack /\ w.retry = m.retry
             /\ w.bridge = m.bridge /\ w.hooked = m.hooked
             /\ w.ghost.reads = IF n = "read" THEN {g \in m.ghost.reads : g.code # m.cpu.code}
                                ELSE m.ghost.reads
             /\ w.ghost.owed = IF AtStub(m, n)
                               THEN {g \in m.ghost.owed : g.stub # n}
                                      \cup {[stub |-> n, res |-> m.cpu.flags.res]}
                               ELSE m.ghost.owed
<1> DEFINE rs == IF n = "read" THEN {g \in m.ghost.reads : g.code # m.cpu.code}
                 ELSE m.ghost.reads
           os == IF AtStub(m, n)
                 THEN {g \in m.ghost.owed : g.stub # n} \cup {[stub |-> n, res |-> m.cpu.flags.res]}
                 ELSE m.ghost.owed
           h == [m.ghost EXCEPT !.reads = rs, !.owed = os]
<1>1. m.ghost \in [reads : SUBSET Begins, owed : SUBSET Debts]
  BY DEF Machines
<1>2. rs \subseteq Begins
  BY <1>1
<1>3. [stub |-> n, res |-> m.cpu.flags.res] \in Debts
  BY Parts DEF Debts, Flags
<1>4. os \subseteq Debts
  BY <1>1, <1>3
<1>5. Finished(m, n) = [m EXCEPT !.ghost.reads = rs, !.ghost.owed = os]
  BY DEF Finished
<1>6. /\ rs = IF n = "read" THEN {g \in m.ghost.reads : g.code # m.cpu.code}
           ELSE m.ghost.reads
      /\ os = IF AtStub(m, n)
              THEN {g \in m.ghost.owed : g.stub # n} \cup {[stub |-> n, res |-> m.cpu.flags.res]}
              ELSE m.ghost.owed
  OBVIOUS
<1> HIDE DEF rs, os
<1>7. h \in [reads : SUBSET Begins, owed : SUBSET Debts] /\ h.reads = rs /\ h.owed = os
  BY <1>1, <1>2, <1>4
<1>8. Finished(m, n) = [m EXCEPT !.ghost = h]
  BY <1>1, <1>5 DEF Machines
<1> HIDE DEF h
<1>9. QED
  BY <1>6, <1>7, <1>8 DEF Machines

\* The service of a vector a guest owns is its handler.
LEMMA TransferHandled ==
  ASSUME NEW m, NEW n \in {"trap", "dos", "putc"}, n \in m.hooked, NEW r
  PROVE  HandleInterrupt(m, n, r) = Transfer(m, Handler(n))
BY DEF HandleInterrupt

\* An INT that reads no key goes to a handler that reads nothing, or returns.
LEMMA InterruptGuarded ==
  ASSUME NEW m, NEW n \in Vectors \ {"read"}, NEW r \in BOOLEAN,
         Guarded(m), ~ m.cpu.pm, n = "dos" => m.retry = NoWait
  PROVE  LET w == HookedInterrupt(m, n, r)
         IN  /\ Guarded(w) /\ w.retry = m.retry /\ w.ghost.reads = m.ghost.reads
             /\ w.bridge = m.bridge /\ ~ w.cpu.pm
             /\ \/ w.cpu.code = m.cpu.code /\ w.cpu.flags.iff = m.cpu.flags.iff
                   /\ w.cpu.flags.tf = m.cpu.flags.tf
                \/ w.cpu.code = Handler(n) /\ Head(w.stack) = Frame(m)
<1> DEFINE e == Enter(m)
           s == HandleInterrupt(e, n, r)
           saved == SavedFlags(m, n)
           done == FinishReturn(s, saved)
           chained == IF AtStub(m, n) THEN MergeOuterFrame(done) ELSE done
           w == HookedInterrupt(m, n, r)
<1>1. m \in Machines
  BY DEF Guarded
<1>2. saved = m.cpu.flags /\ saved \in Flags
  BY <1>1, Parts DEF SavedFlags, Waiting, Records
<1>3. /\ e \in Machines /\ e.stack = <<Frame(m)>> \o m.stack /\ ~ e.cpu.latch
      /\ e.cpu.pm = m.cpu.pm /\ e.retry = m.retry /\ e.bridge = m.bridge
      /\ e.hooked = m.hooked /\ e.ghost = m.ghost
  BY <1>1, EnterShape
<1>4. Frame(m) \in FrameSet /\ m.stack \in Seq(FrameSet)
  BY <1>1, FrameType, Parts
<1>5. w = IF s.cpu.latch THEN s ELSE Finished(ForgetWait(chained, n), n)
  BY DEF HookedInterrupt, Blocks
<1> HIDE DEF e
<1>6. CASE n \in {"trap", "dos", "putc"} /\ n \in m.hooked
  <2>1. Handler(n) \in Codes /\ (n # "dos" => Handler(n) \notin Readers)
    BY CodesApart
  <2>2. s = Transfer(e, Handler(n))
    BY <1>3, <1>6, TransferHandled
  <2>3. /\ s \in Machines /\ s.cpu.code = Handler(n) /\ s.cpu.next = "any" /\ s.cpu.latch
        /\ s.cpu.pm = e.cpu.pm /\ s.stack = e.stack
        /\ s.retry = e.retry /\ s.bridge = e.bridge /\ s.ghost = e.ghost
    BY <1>3, <2>1, <2>2, TransferShape
  <2>4. w = s
    BY <1>5, <2>3
  <2>5. Guarded(w)
    <3> HIDE DEF w, s
    <3>1. w \in Machines /\ w.stack = <<Frame(m)>> \o m.stack /\ w.cpu.pm = m.cpu.pm
          /\ w.retry = m.retry /\ w.ghost.reads = m.ghost.reads
          /\ (w.cpu.next = "read" => w.cpu.code \in Readers)
          /\ (w.retry = NoWait \/ w.cpu.code \notin Readers)
      BY <1>3, <2>1, <2>3, <2>4
    <3>2. QED
      BY <3>1, PushedGuarded
  <2>6. Head(w.stack) = Frame(m)
    BY <1>3, <1>4, <2>3, <2>4, PushFrame
  <2>7. QED
    BY <1>3, <2>3, <2>4, <2>5, <2>6
<1>7. CASE ~ (n \in {"trap", "dos", "putc"} /\ n \in m.hooked)
  <2>1. /\ s \in Machines /\ s.stack = e.stack /\ s.retry = e.retry
        /\ s.bridge = e.bridge /\ s.ghost = e.ghost
        /\ s.cpu.latch = e.cpu.latch /\ s.cpu.pm = e.cpu.pm
    BY <1>3, <1>7, ServiceShape
  <2> HIDE DEF s
  <2> HIDE DEF saved
  <2>2. /\ done \in Machines /\ done.stack = m.stack
        /\ done.cpu.pm = s.cpu.pm
        /\ done.cpu.code = Frame(m).code /\ done.cpu.next = Frame(m).next
        /\ done.cpu.flags = Merge(saved, s.cpu.flags)
        /\ done.retry = s.retry /\ done.bridge = s.bridge /\ done.ghost = s.ghost
    <3>1. s \in Machines /\ s.stack = <<Frame(m)>> \o m.stack
      BY <1>3, <2>1
    <3>2. PICK f \in FrameSet : f = Frame(m)
      BY <1>4
    <3>3. QED
      BY <1>2, <1>4, <3>1, <3>2, FinishShape
  <2>3. /\ Alike(m, done) /\ done.cpu.code = m.cpu.code
        /\ done.cpu.flags.iff = m.cpu.flags.iff /\ done.cpu.flags.tf = m.cpu.flags.tf
    <3>1. s.cpu.flags \in Flags
      BY <2>1, Parts
    <3>2. QED
      BY <1>1, <1>2, <1>3, <2>1, <2>2, <3>1, FrameType, MergeType DEF Alike
  <2> HIDE DEF done
  <2>4. /\ chained \in Machines /\ Alike(m, chained) /\ chained.cpu = done.cpu
    BY <2>2, <2>3, MergeOuterShape DEF Alike
  <2>5. ForgetWait(chained, n) = chained
    BY <2>4, Parts DEF ForgetWait, Waiting, Records
  <2>6. w = Finished(chained, n)
    BY <1>3, <1>5, <2>1, <2>5
  <2> HIDE DEF w, chained
  <2>7. /\ w \in Machines /\ w.cpu = chained.cpu /\ w.stack = chained.stack
        /\ w.retry = chained.retry /\ w.bridge = chained.bridge
        /\ w.ghost.reads = chained.ghost.reads
    BY <2>4, <2>6, FinishedShape
  <2>8. Alike(m, w)
    BY <2>4, <2>7 DEF Alike
  <2>9. /\ Guarded(w) /\ w.retry = m.retry /\ w.ghost.reads = m.ghost.reads
        /\ w.bridge = m.bridge /\ ~ w.cpu.pm
    BY <2>7, <2>8, AlikeGuarded DEF Alike
  <2>10. QED
    BY <2>3, <2>4, <2>7, <2>9 DEF w
<1>8. QED
  BY <1>6, <1>7

---------------------------------------------------------------------------
(* INT 16h, the read.                                                      *)

\* A reader about to read: no wait, or its own.
Ready(m) ==
  /\ m \in Machines /\ ~ m.cpu.pm /\ m.cpu.code \in Readers /\ m.cpu.next # "read"
  /\ \A i \in 1 .. Len(m.stack) : m.stack[i].next = "read" => m.stack[i].code \in Readers
  /\ \/ m.retry = NoWait /\ m.ghost.reads = {}
     \/ /\ m.retry \in Records /\ m.retry.code = m.cpu.code
        /\ m.ghost.reads = {[code |-> m.retry.code, flags |-> m.retry.flags]}

\* The flags a read began with are those its record will keep.
LEMMA SavedBegan ==
  ASSUME NEW m, Ready(m)
  PROVE  /\ SavedFlags(m, "read") \in Flags
         /\ \A g \in m.ghost.reads : g.code = m.cpu.code /\ g.flags = SavedFlags(m, "read")
         /\ m.ghost.reads = {} <=> m.retry = NoWait
         /\ Waiting(m, "read") <=> m.retry # NoWait
<1>1. m \in Machines
  BY DEF Ready
<1>2. CASE m.retry = NoWait
  BY <1>1, <1>2, NoWaitApart, Parts DEF Ready, SavedFlags, Waiting
<1>3. CASE m.retry # NoWait
  <2>1. m.retry \in Records /\ m.retry.code = m.cpu.code /\ m.retry.n = "read" /\ m.retry.flags \in Flags
        /\ m.ghost.reads = {[code |-> m.retry.code, flags |-> m.retry.flags]}
    BY <1>3 DEF Ready, Records
  <2>2. Waiting(m, "read") /\ SavedFlags(m, "read") = m.retry.flags
    BY <1>3, <2>1 DEF SavedFlags, Waiting
  <2>3. PICK g \in Begins : g = [code |-> m.retry.code, flags |-> m.retry.flags]
    BY <2>1 DEF Records, Begins
  <2>4. m.ghost.reads = {g} /\ g.code = m.retry.code /\ g.flags = m.retry.flags
    BY <2>1, <2>3
  <2>5. QED
    BY <1>3, <2>1, <2>2, <2>4
<1>4. QED
  BY <1>2, <1>3

\* A read that begins to wait has begun with the flags its record keeps.
LEMMA BegunShape ==
  ASSUME NEW m, Ready(m)
  PROVE  LET b == Begun(m)
         IN  /\ b \in Machines /\ b.cpu = m.cpu /\ b.stack = m.stack /\ b.retry = m.retry
             /\ b.bridge = m.bridge /\ b.hooked = m.hooked /\ b.keys = m.keys
             /\ b.ghost.reads = {[code |-> m.cpu.code, flags |-> SavedFlags(m, "read")]}
<1> DEFINE g0 == [code |-> m.cpu.code, flags |-> m.cpu.flags]
           rs == IF \E g \in m.ghost.reads : g.code = m.cpu.code THEN m.ghost.reads
                 ELSE m.ghost.reads \cup {g0}
           h == [m.ghost EXCEPT !.reads = rs]
<1>1. m \in Machines /\ m.ghost \in [reads : SUBSET Begins, owed : SUBSET Debts]
  BY DEF Ready, Machines
<1>2. rs = {[code |-> m.cpu.code, flags |-> SavedFlags(m, "read")]}
  <2>1. CASE m.retry = NoWait
    <3>1. m.ghost.reads = {} /\ ~ Waiting(m, "read")
      BY <2>1, SavedBegan
    <3>2. QED
      BY <3>1 DEF SavedFlags
  <2>2. CASE m.retry # NoWait
    <3>1. /\ m.ghost.reads = {[code |-> m.retry.code, flags |-> m.retry.flags]}
          /\ m.retry.code = m.cpu.code /\ Waiting(m, "read")
      BY <2>2, SavedBegan DEF Ready
    <3>2. QED
      BY <3>1 DEF SavedFlags
  <2>3. QED
    BY <2>1, <2>2
<1>3. [code |-> m.cpu.code, flags |-> SavedFlags(m, "read")] \in Begins
  BY <1>1, SavedBegan, Parts DEF Begins
<1>4. Begun(m) = [m EXCEPT !.ghost.reads = rs]
  BY DEF Begun
<1> HIDE DEF rs, g0
<1>5. h \in [reads : SUBSET Begins, owed : SUBSET Debts] /\ h.reads = rs
  BY <1>1, <1>2, <1>3
<1>6. Begun(m) = [m EXCEPT !.ghost = h]
  BY <1>4
<1> HIDE DEF h
<1>7. QED
  BY <1>1, <1>2, <1>5, <1>6 DEF Machines

\* Without a key the read is recorded and repeated.
LEMMA ReadWaits ==
  ASSUME NEW m, Ready(m), Blocks(m, "read"), NEW r \in BOOLEAN
  PROVE  LET w == HookedInterrupt(Begun(m), "read", r)
         IN  /\ Guarded(w) /\ w.bridge = m.bridge /\ ~ w.cpu.pm
             /\ m.ghost.reads \subseteq w.ghost.reads
<1> DEFINE b == Begun(m)
           e == Enter(b)
           saved == SavedFlags(m, "read")
           done == FinishReturn(e, saved)
           w == HookedInterrupt(b, "read", r)
<1>1. /\ b \in Machines /\ b.cpu = m.cpu /\ b.stack = m.stack /\ b.retry = m.retry
      /\ b.bridge = m.bridge /\ b.hooked = m.hooked /\ b.keys = m.keys
      /\ b.ghost.reads = {[code |-> m.cpu.code, flags |-> saved]}
  BY BegunShape
<1>2. m \in Machines /\ saved \in Flags
  BY SavedBegan DEF Ready
<1>3. SavedFlags(b, "read") = saved
  BY <1>1 DEF SavedFlags, Waiting
<1>4. w = HookedInterrupt(b, "read", r)
  OBVIOUS
<1> HIDE DEF b, saved, w
<1>5. /\ e \in Machines /\ e.stack = <<Frame(b)>> \o b.stack /\ ~ e.cpu.latch
      /\ e.cpu.pm = b.cpu.pm /\ e.retry = b.retry /\ e.bridge = b.bridge
      /\ e.hooked = b.hooked /\ e.keys = b.keys /\ e.ghost = b.ghost
  BY <1>1, EnterShape
<1>6. Blocks(b, "read") /\ Blocks(e, "read")
  BY <1>1, <1>5 DEF Blocks, Drains
<1>7. HandleInterrupt(e, "read", r) = e
  BY <1>6 DEF HandleInterrupt
<1>8. w = Wait(done, "read", saved)
  BY <1>3, <1>4, <1>5, <1>6, <1>7 DEF HookedInterrupt
<1>9. PICK f \in FrameSet : f = Frame(b) /\ f.code = b.cpu.code /\ f.next = b.cpu.next
  BY <1>1, FrameType
<1> HIDE DEF e
<1>10. /\ done \in Machines /\ done.stack = b.stack
       /\ done.cpu.pm = e.cpu.pm /\ done.cpu.code = f.code
       /\ done.bridge = e.bridge /\ done.ghost = e.ghost
  <2>1. b.stack \in Seq(FrameSet) /\ e.stack = <<f>> \o b.stack
    BY <1>1, <1>5, <1>9, Parts
  <2>2. QED
    BY <1>2, <1>5, <2>1, FinishShape
<1> HIDE DEF done
<1>11. /\ w \in Machines /\ w.stack = done.stack /\ w.bridge = done.bridge /\ w.ghost = done.ghost
       /\ w.cpu.next = "read" /\ w.cpu.code = done.cpu.code /\ w.cpu.pm = done.cpu.pm
       /\ w.retry = [n |-> "read", code |-> done.cpu.code, flags |-> saved]
  <2>1. [n |-> "read", code |-> done.cpu.code, flags |-> saved] \in Records
    BY <1>2, <1>10, Parts DEF Records
  <2>2. PICK q \in Records : q = [n |-> "read", code |-> done.cpu.code, flags |-> saved]
    BY <2>1
  <2> DEFINE c == [done.cpu EXCEPT !.next = "read", !.flags.iff = TRUE]
  <2>3. w = [done EXCEPT !.retry = q, !.cpu = c]
    BY <1>8, <2>2, <1>10 DEF Wait, Machines, CPU
  <2>4. /\ c \in CPU /\ c.next = "read" /\ c.code = done.cpu.code /\ c.pm = done.cpu.pm
    BY <1>10, Parts DEF CPU, Flags, Nexts, Stubs
  <2> HIDE DEF c
  <2>5. QED
    BY <1>10, <2>2, <2>3, <2>4 DEF Machines
<1>12. w.cpu.code = m.cpu.code /\ w.stack = m.stack /\ ~ w.cpu.pm /\ w.bridge = m.bridge
       /\ w.ghost.reads = {[code |-> m.cpu.code, flags |-> saved]}
  BY <1>1, <1>5, <1>9, <1>10, <1>11 DEF Ready
<1>13. w.retry # NoWait /\ w.retry.code = m.cpu.code /\ w.retry.flags = saved
  BY <1>11, <1>12 DEF NoWait
<1>14. Guarded(w)
  BY <1>11, <1>12, <1>13 DEF Guarded, Repeating, Ready
<1>15. m.ghost.reads \subseteq w.ghost.reads
  <2>1. m.retry # NoWait => saved = m.retry.flags
    BY SavedBegan DEF SavedFlags, saved
  <2>2. QED
    BY <1>12, <2>1, SavedBegan DEF Ready
<1>16. QED
  BY <1>12, <1>14, <1>15 DEF w, b

\* With a key the record goes, and the flags are those the read began with.
LEMMA ReadTakes ==
  ASSUME NEW m, Ready(m), ~ Blocks(m, "read"), NEW r \in BOOLEAN
  PROVE  LET w == HookedInterrupt(m, "read", r)
         IN  /\ Guarded(w) /\ w.bridge = m.bridge /\ ~ w.cpu.pm
             /\ \A g \in m.ghost.reads :
                  /\ g.code = w.cpu.code
                  /\ w.cpu.flags.iff = g.flags.iff /\ w.cpu.flags.tf = g.flags.tf
<1> DEFINE e == Enter(m)
           s == TakeKey(e)
           saved == SavedFlags(m, "read")
           done == FinishReturn(s, saved)
           chained == IF AtStub(m, "read") THEN MergeOuterFrame(done) ELSE done
           free == ForgetWait(chained, "read")
           w == HookedInterrupt(m, "read", r)
<1>1. m \in Machines /\ saved \in Flags
  BY SavedBegan DEF Ready
<1>2. /\ e \in Machines /\ e.stack = <<Frame(m)>> \o m.stack /\ ~ e.cpu.latch
      /\ e.cpu.pm = m.cpu.pm /\ e.retry = m.retry /\ e.bridge = m.bridge
      /\ e.hooked = m.hooked /\ e.keys = m.keys /\ e.ghost = m.ghost
  BY <1>1, EnterShape
<1>3. ~ Blocks(e, "read")
  BY <1>2 DEF Blocks, Drains
<1>4. HandleInterrupt(e, "read", r) = s
  BY <1>3 DEF HandleInterrupt
<1>5. w = IF s.cpu.latch THEN s ELSE Finished(free, "read")
  BY <1>4 DEF HookedInterrupt
<1> HIDE DEF e, w
<1>6. /\ s \in Machines /\ s.stack = e.stack /\ s.retry = e.retry
      /\ s.bridge = e.bridge /\ s.ghost = e.ghost
      /\ s.cpu.latch = e.cpu.latch /\ s.cpu.pm = e.cpu.pm
  BY <1>2, <1>3, TakeKeyShape
<1>7. PICK f \in FrameSet : f = Frame(m) /\ f.code = m.cpu.code /\ f.next = m.cpu.next
  BY <1>1, FrameType
<1> HIDE DEF s, saved
<1>8. /\ done \in Machines /\ done.stack = m.stack
      /\ done.cpu.pm = s.cpu.pm /\ done.cpu.code = f.code /\ done.cpu.next = f.next
      /\ done.cpu.flags = Merge(saved, s.cpu.flags)
      /\ done.retry = s.retry /\ done.bridge = s.bridge /\ done.ghost = s.ghost
  <2>1. m.stack \in Seq(FrameSet)
    BY <1>1, Parts
  <2>2. s.stack = <<f>> \o m.stack
    BY <1>2, <1>6, <1>7
  <2>3. s \in Machines /\ saved \in Flags
    BY <1>1, <1>6
  <2>4. QED
    BY <2>1, <2>2, <2>3, FinishShape
<1>9. done.cpu.flags.iff = saved.iff /\ done.cpu.flags.tf = saved.tf
  BY <1>1, <1>6, <1>8, MergeType, Parts
<1> HIDE DEF done
<1>10. chained \in Machines /\ Alike(done, chained) /\ chained.cpu = done.cpu
  BY <1>8, MergeOuterShape DEF Alike
<1> HIDE DEF chained
<1>11. /\ free \in Machines /\ free.cpu = chained.cpu /\ free.stack = chained.stack
       /\ free.bridge = chained.bridge /\ free.ghost = chained.ghost /\ free.retry = NoWait
  <2>1. CASE m.retry = NoWait
    BY <1>2, <1>6, <1>8, <1>10, <2>1 DEF ForgetWait, Waiting, Alike
  <2>2. CASE m.retry # NoWait
    <3>1. Waiting(m, "read")
      BY <2>2, SavedBegan
    <3>2. chained.retry = m.retry /\ chained.cpu.code = m.cpu.code
      BY <1>2, <1>6, <1>7, <1>8, <1>10 DEF Alike
    <3>3. free = [chained EXCEPT !.retry = NoWait]
      BY <3>1, <3>2 DEF ForgetWait, Waiting
    <3>4. QED
      BY <1>10, <3>3 DEF Machines
  <2>3. QED
    BY <2>1, <2>2
<1> HIDE DEF free
<1>12. /\ w \in Machines /\ w.cpu = free.cpu /\ w.stack = free.stack /\ w.retry = NoWait
       /\ w.bridge = free.bridge
       /\ w.ghost.reads = {g \in free.ghost.reads : g.code # free.cpu.code}
  BY <1>2, <1>5, <1>6, <1>11, FinishedShape DEF Vectors
<1>13. free.ghost.reads = m.ghost.reads /\ free.cpu.code = m.cpu.code
  BY <1>2, <1>6, <1>7, <1>8, <1>10, <1>11 DEF Alike
<1>14. w.ghost.reads = {}
  BY <1>12, <1>13, SavedBegan
<1>15. /\ w.cpu.code = m.cpu.code /\ w.cpu.next = m.cpu.next /\ ~ w.cpu.pm
       /\ w.bridge = m.bridge
       /\ w.cpu.flags.iff = saved.iff /\ w.cpu.flags.tf = saved.tf
  BY <1>2, <1>6, <1>7, <1>8, <1>9, <1>10, <1>11, <1>12 DEF Ready, Alike
<1>16. \A i \in 1 .. Len(w.stack) : w.stack[i].next = "read" => w.stack[i].code \in Readers
  BY <1>8, <1>10, <1>11, <1>12 DEF Alike, Ready
<1>17. Guarded(w)
  BY <1>12, <1>14, <1>15, <1>16 DEF Guarded, Ready
<1>18. QED
  BY <1>15, <1>17, SavedBegan DEF w, saved

---------------------------------------------------------------------------
(* The single-step trap.                                                   *)

\* A trap after an instruction neither ends nor begins a wait.
LEMMA RetireGuarded ==
  ASSUME NEW m, Guarded(m), ~ m.cpu.pm, NEW tf
  PROVE  LET w == Retire(m, tf)
         IN  /\ Guarded(w) /\ w.retry = m.retry /\ w.ghost.reads = m.ghost.reads
             /\ w.bridge = m.bridge
             /\ \/ w.cpu.code = m.cpu.code /\ w.cpu.flags.iff = m.cpu.flags.iff
                   /\ w.cpu.flags.tf = m.cpu.flags.tf
                \/ w.cpu.code = Handler("trap") /\ Head(w.stack) = Frame(m)
<1>1. CASE tf /\ m.cpu.flags.tf /\ ~ m.cpu.latch
  <2>1. Retire(m, tf) = HookedInterrupt(m, "trap", FALSE)
    BY <1>1 DEF Retire
  <2>2. "trap" \in Vectors \ {"read"} /\ FALSE \in BOOLEAN /\ "trap" # "dos"
    BY DEF Vectors
  <2> DEFINE h == HookedInterrupt(m, "trap", FALSE)
  <2>3. /\ Guarded(h) /\ h.retry = m.retry /\ h.ghost.reads = m.ghost.reads
        /\ h.bridge = m.bridge
        /\ \/ h.cpu.code = m.cpu.code /\ h.cpu.flags.iff = m.cpu.flags.iff
              /\ h.cpu.flags.tf = m.cpu.flags.tf
           \/ h.cpu.code = Handler("trap") /\ Head(h.stack) = Frame(m)
    BY ONLY <2>2, Guarded(m), ~ m.cpu.pm, InterruptGuarded
  <2> HIDE DEF h
  <2>4. QED
    BY <2>1, <2>3 DEF h
<1>2. CASE ~ (tf /\ m.cpu.flags.tf /\ ~ m.cpu.latch)
  BY <1>2 DEF Retire
<1>3. QED
  BY <1>1, <1>2

---------------------------------------------------------------------------
(* The steps of a guest.                                                   *)

Kept == Guarded(machine) /\ resets \in Nat

\* Reads that a step ends give their flags back.
FlagsKept ==
  \A g \in ghost.reads \ ghost'.reads :
    /\ FlagsAfter(g.code).iff = g.flags.iff
    /\ FlagsAfter(g.code).tf = g.flags.tf

\* The state is the machine a step makes.
LEMMA Becoming ==
  ASSUME NEW w \in Machines, Become(w)
  PROVE  machine' = w
<1>1. /\ cpu' = w.cpu /\ stack' = w.stack /\ retry' = w.retry /\ bridge' = w.bridge
      /\ hooked' = w.hooked /\ keys' = w.keys /\ ghost' = w.ghost
  BY DEF Become
<1>2. machine' = [cpu |-> cpu', stack |-> stack', retry |-> retry', bridge |-> bridge',
                  hooked |-> hooked', keys |-> keys', ghost |-> ghost']
  BY DEF machine
<1>3. w = [cpu |-> w.cpu, stack |-> w.stack, retry |-> w.retry, bridge |-> w.bridge,
           hooked |-> w.hooked, keys |-> w.keys, ghost |-> w.ghost]
  BY DEF Machines
<1>4. QED
  BY <1>1, <1>2, <1>3

\* A step that ends no read, and perhaps a trap after it.
LEMMA RetiredStep ==
  ASSUME NEW m, Guarded(m), ~ m.cpu.pm, NEW tf, Become(Retire(m, tf)),
         m.ghost.reads = ghost.reads
  PROVE  Guarded(machine') /\ FlagsKept
<1>1. Guarded(Retire(m, tf)) /\ Retire(m, tf).ghost.reads = m.ghost.reads
  BY RetireGuarded
<1>2. Guarded(machine') /\ ghost'.reads = m.ghost.reads
  <2>1. Retire(m, tf) \in Machines
    BY <1>1 DEF Guarded
  <2>2. machine' = Retire(m, tf)
    BY <2>1, Becoming
  <2>3. ghost' = Retire(m, tf).ghost
    BY DEF Become
  <2>4. QED
    BY <1>1, <2>2, <2>3
<1>3. QED
  BY <1>2 DEF FlagsKept

\* What the variables are to the machine.
LEMMA MachineParts ==
  /\ machine.cpu = cpu /\ machine.stack = stack /\ machine.retry = retry
  /\ machine.bridge = bridge /\ machine.hooked = hooked /\ machine.keys = keys
  /\ machine.ghost = ghost
BY DEF machine

\* Only readers call the read, unless interrupt handlers wait too.
LEMMA CallersRead ==
  ASSUME ~ NestedWaits, NEW c \in Codes, "read" \in Calls(c)
  PROVE  c \in Readers
BY DEF Calls, Readers

\* Only the program calls DOS.
LEMMA CallersOfDos ==
  ASSUME ~ NestedWaits, NEW c \in Codes, "dos" \in Calls(c)
  PROVE  c = Program
BY DEF Calls

\* INT n keeps the order of things.
LEMMA IntGuarded ==
  ASSUME Kept, ~ NestedWaits, NEW n \in Vectors, IntN(n)
  PROVE  Guarded(machine') /\ FlagsKept
<1>1. PICK r \in IF n = "disk" THEN BOOLEAN ELSE {FALSE} :
        LET m == [machine EXCEPT !.cpu.next = IF AtStub(machine, n) THEN "iret" ELSE "any"]
            first == IF Blocks(m, n) THEN Begun(m) ELSE m
        IN  Become(Retire(HookedInterrupt(first, n, r), cpu.flags.tf))
  BY DEF IntN
<1>2. r \in BOOLEAN
  OBVIOUS
<1>3. /\ Guarded(machine) /\ machine \in Machines /\ ~ machine.cpu.pm
      /\ machine.cpu.code \in Codes
      /\ machine.cpu.next = n \/ (machine.cpu.next = "any" /\ n \in Calls(machine.cpu.code))
  BY MachineParts, Parts DEF Kept, Guarded, IntN, Running
<1> DEFINE x == IF AtStub(machine, n) THEN "iret" ELSE "any"
           m == [machine EXCEPT !.cpu.next = x]
<1>4. /\ m \in Machines /\ m.cpu.code = machine.cpu.code /\ m.cpu.next \in {"iret", "any"}
      /\ m.cpu.pm = machine.cpu.pm /\ m.stack = machine.stack /\ m.retry = machine.retry
      /\ m.bridge = machine.bridge /\ m.ghost = machine.ghost
  <2>1. x \in Nexts /\ x \in {"iret", "any"}
    BY DEF Nexts
  <2> HIDE DEF x
  <2>2. QED
    BY <1>3, <2>1, Parts DEF Machines, CPU
<1> HIDE DEF m
<1>5. CASE n = "read"
  <2>1. machine.cpu.code \in Readers
    BY <1>3, <1>5, CallersRead DEF Guarded
  <2>2. machine.retry = NoWait \/ machine.retry.code = machine.cpu.code
    BY <1>3, <2>1, NotRepeating
  <2>3. Ready(m)
    BY <1>3, <1>4, <2>1, <2>2, Parts DEF Ready, Guarded
  <2> DEFINE first == IF Blocks(m, "read") THEN Begun(m) ELSE m
             w == HookedInterrupt(first, "read", r)
             v == Retire(w, cpu.flags.tf)
  <2>4. /\ Guarded(w) /\ ~ w.cpu.pm
        /\ \A g \in m.ghost.reads \ w.ghost.reads :
             /\ g.code = w.cpu.code
             /\ w.cpu.flags.iff = g.flags.iff /\ w.cpu.flags.tf = g.flags.tf
    <3>1. CASE Blocks(m, "read")
      BY <1>2, <2>3, <3>1, ReadWaits
    <3>2. CASE ~ Blocks(m, "read")
      BY <1>2, <2>3, <3>2, ReadTakes
    <3>3. QED
      BY <3>1, <3>2
  <2>5. Become(v)
    BY <1>1, <1>5 DEF m
  <2> HIDE DEF w
  <2>6. /\ Guarded(v) /\ v.ghost.reads = w.ghost.reads
        /\ \/ v.cpu.code = w.cpu.code /\ v.cpu.flags.iff = w.cpu.flags.iff
              /\ v.cpu.flags.tf = w.cpu.flags.tf
           \/ v.cpu.code = Handler("trap") /\ Head(v.stack) = Frame(w)
    BY <2>4, RetireGuarded
  <2> HIDE DEF v
  <2>7. machine' = v /\ cpu' = v.cpu /\ stack' = v.stack /\ ghost' = v.ghost
    BY <2>5, <2>6, Becoming DEF Guarded, Become
  <2>8. ASSUME NEW g \in ghost.reads \ ghost'.reads
        PROVE  /\ FlagsAfter(g.code).iff = g.flags.iff
               /\ FlagsAfter(g.code).tf = g.flags.tf
    <3>1. /\ g \in m.ghost.reads /\ g.code = w.cpu.code /\ g.code = m.cpu.code
          /\ w.cpu.flags.iff = g.flags.iff /\ w.cpu.flags.tf = g.flags.tf
      BY <1>4, <2>3, <2>4, <2>6, <2>7, MachineParts, SavedBegan
    <3>2. CASE v.cpu.code = Handler("trap") /\ Head(v.stack) = Frame(w)
      <4>1. Handler("trap") # g.code
        BY <1>4, <2>1, <3>1, CodesApart DEF Vectors
      <4>2. Frame(w).flags = w.cpu.flags
        BY DEF Frame
      <4>3. QED
        BY <2>7, <3>1, <3>2, <4>1, <4>2 DEF FlagsAfter
    <3>3. CASE v.cpu.code = w.cpu.code /\ v.cpu.flags.iff = w.cpu.flags.iff
               /\ v.cpu.flags.tf = w.cpu.flags.tf
      BY <2>7, <3>1, <3>3 DEF FlagsAfter
    <3>4. QED
      BY <2>6, <3>2, <3>3
  <2>9. QED
    BY <2>6, <2>7, <2>8 DEF FlagsKept
<1>6. CASE n # "read"
  <2>1. n \in Vectors \ {"read"} /\ machine.cpu.next # "read"
    BY <1>3, <1>6
  <2>2. Guarded(m)
    BY <1>3, <1>4, <2>1 DEF Guarded, Repeating, Beneath
  <2>3. n = "dos" => m.retry = NoWait
    <3>1. SUFFICES ASSUME n = "dos" PROVE machine.retry = NoWait
      BY <1>4
    <3>2. machine.cpu.next # "dos"
      BY <1>3, Parts DEF Nexts, Stubs
    <3>3. machine.cpu.code = Program
      BY <1>3, <3>1, <3>2, CallersOfDos
    <3>4. QED
      BY <1>3, <2>1, <3>3, NotRepeating DEF Readers
  <2> DEFINE w == HookedInterrupt(m, n, r)
  <2>4. Guarded(w) /\ ~ w.cpu.pm /\ w.ghost.reads = m.ghost.reads
    BY <1>2, <1>3, <1>4, <2>1, <2>2, <2>3, InterruptGuarded
  <2>5. Become(Retire(w, cpu.flags.tf))
    BY <1>1, <1>6 DEF m, Blocks
  <2> HIDE DEF w
  <2>6. QED
    BY <1>4, <2>4, <2>5, MachineParts, RetiredStep
<1>7. QED
  BY <1>5, <1>6

\* What a guest's instruction finds.
LEMMA RunningParts ==
  ASSUME Kept, NEW c, Running(c)
  PROVE  /\ Guarded(machine) /\ machine \in Machines /\ ~ machine.cpu.pm
         /\ machine.cpu.code = c /\ c \in Codes
BY MachineParts, Parts DEF Kept, Guarded, Running

\* Only the program far-calls the stub of the read.
LEMMA ChainsToStubs ==
  ASSUME NEW c \in Codes, NEW n \in Chains(c)
  PROVE  /\ n \in Stubs /\ n \in Vectors /\ Stub(n) \in Codes
         /\ n = "read" => c = Program /\ Stub(n) \in Readers
         /\ n # "read" => Stub(n) \notin Readers
<1>1. n \in Stubs /\ n \in Vectors /\ (n = "read" => c = Program)
  BY DEF Chains, Handler, Program, Stubs, Vectors
<1>2. QED
  BY <1>1, CodesApart DEF Readers

\* A far call of a stub keeps the order of things.
LEMMA FarCallGuarded ==
  ASSUME Kept, NEW n \in Vectors, FarCall(n)
  PROVE  Guarded(machine') /\ FlagsKept
<1> DEFINE s == <<Frame(machine)>> \o machine.stack
           w == [machine EXCEPT !.stack = <<Frame(machine)>> \o @,
                                !.cpu.code = Stub(n), !.cpu.next = n]
<1>1. /\ Guarded(machine) /\ machine \in Machines /\ ~ machine.cpu.pm
      /\ machine.cpu.code = cpu.code /\ cpu.code \in Codes
      /\ machine.cpu.next = "any" /\ n \in Chains(cpu.code)
  BY RunningParts, MachineParts DEF FarCall
<1>2. /\ n \in Stubs /\ Stub(n) \in Codes
      /\ n = "read" => cpu.code = Program /\ Stub(n) \in Readers
      /\ n # "read" => Stub(n) \notin Readers
  BY <1>1, ChainsToStubs
<1>3. s \in Seq(FrameSet)
  BY <1>1, FrameType, PushFrame, Parts
<1>4. w = [machine EXCEPT !.stack = s, !.cpu.code = Stub(n), !.cpu.next = n]
  OBVIOUS
<1> HIDE DEF w, s
<1>5. /\ w \in Machines /\ w.stack = s /\ w.cpu.pm = machine.cpu.pm
      /\ w.cpu.code = Stub(n) /\ w.cpu.next = n
      /\ w.retry = machine.retry /\ w.ghost = machine.ghost
  <2>1. n \in Nexts
    BY <1>2 DEF Nexts
  <2>2. PICK c \in Codes, x \in Nexts : c = Stub(n) /\ x = n
    BY <1>2, <2>1
  <2>3. QED
    BY <1>1, <1>3, <1>4, <2>2, Parts DEF Machines, CPU
<1>6. w.retry = NoWait \/ w.cpu.code \notin Readers
  <2>1. CASE n = "read"
    <3>1. machine.cpu.code \in Readers /\ machine.cpu.next # "read"
      BY <1>1, <1>2, <2>1 DEF Readers
    <3>2. QED
      BY <1>1, <1>5, <3>1, NotRepeating
  <2>2. CASE n # "read"
    BY <1>2, <1>5, <2>2
  <2>3. QED
    BY <2>1, <2>2
<1>7. Guarded(w)
  BY <1>1, <1>2, <1>5, <1>6, PushedGuarded DEF s
<1>8. Become(Retire(w, cpu.flags.tf))
  BY DEF FarCall, w
<1>9. QED
  BY <1>1, <1>5, <1>7, <1>8, MachineParts, RetiredStep

\* An IRET keeps the order of things.
LEMMA IretGuarded ==
  ASSUME Kept, Iret
  PROVE  Guarded(machine') /\ FlagsKept
<1> DEFINE f == Head(machine.stack)
           t == Tail(machine.stack)
           os == {g \in machine.ghost.owed : Stub(g.stub) # cpu.code}
           w == [machine EXCEPT !.stack = t, !.cpu.code = f.code, !.cpu.next = f.next,
                                !.cpu.flags = f.flags, !.ghost.owed = os]
<1>1. /\ Guarded(machine) /\ machine \in Machines /\ ~ machine.cpu.pm
      /\ machine.cpu.next # "read" /\ machine.stack # <<>>
  BY RunningParts, MachineParts DEF Iret
<1>2. f \in FrameSet /\ t \in Seq(FrameSet) /\ f.code \in Codes /\ f.next \in Nexts
      /\ f.flags \in Flags
  BY <1>1, Parts, PopFrame DEF FrameSet
<1>3. Become(Retire(w, cpu.flags.tf))
  BY MachineParts DEF Iret
<1>4. os \subseteq Debts /\ machine.ghost \in [reads : SUBSET Begins, owed : SUBSET Debts]
  BY <1>1 DEF Machines
<1> DEFINE h == [machine.ghost EXCEPT !.owed = os]
           c == [machine.cpu EXCEPT !.code = f.code, !.next = f.next, !.flags = f.flags]
<1>5. w = [machine EXCEPT !.stack = t, !.cpu = c, !.ghost = h]
  OBVIOUS
<1>6. /\ h \in [reads : SUBSET Begins, owed : SUBSET Debts] /\ h.reads = machine.ghost.reads
      /\ c \in CPU /\ c.pm = machine.cpu.pm /\ c.code = f.code /\ c.next = f.next
  <2> HIDE DEF os
  <2>1. h \in [reads : SUBSET Begins, owed : SUBSET Debts] /\ h.reads = machine.ghost.reads
    BY <1>4
  <2> HIDE DEF h, f
  <2>2. c \in CPU /\ c.pm = machine.cpu.pm /\ c.code = f.code /\ c.next = f.next
    BY <1>1, <1>2, Parts DEF CPU
  <2>3. QED
    BY <2>1, <2>2
<1> HIDE DEF w, h, c, os
<1>7. /\ w \in Machines /\ w.stack = t /\ w.cpu.pm = machine.cpu.pm
      /\ w.cpu.code = f.code /\ w.cpu.next = f.next
      /\ w.retry = machine.retry /\ w.ghost.reads = machine.ghost.reads
  <2> HIDE DEF t, f
  <2>1. QED
    BY <1>1, <1>2, <1>5, <1>6 DEF Machines
<1>8. Guarded(w)
  BY <1>1, <1>7, PoppedGuarded
<1>9. QED
  BY <1>1, <1>3, <1>7, <1>8, MachineParts, RetiredStep

\* Flags, keys and vectors do not matter to it.
LEMMA SetIFGuarded ==
  ASSUME Kept, NEW on \in BOOLEAN, SetIF(on)
  PROVE  Guarded(machine') /\ FlagsKept
<1> DEFINE w == [machine EXCEPT !.cpu.flags.iff = on]
<1>1. Guarded(machine) /\ machine \in Machines /\ ~ machine.cpu.pm
  BY RunningParts DEF SetIF
<1>2. w \in Machines /\ Alike(machine, w) /\ w.ghost = machine.ghost /\ w.cpu.pm = machine.cpu.pm
  BY <1>1, Parts DEF Machines, CPU, Flags, Alike
<1>3. Become(Retire(w, cpu.flags.tf))
  BY DEF SetIF
<1> HIDE DEF w
<1>4. QED
  BY <1>1, <1>2, <1>3, AlikeGuarded, MachineParts, RetiredStep

\* A handler reads the keyboard port: it waits for nothing.
LEMMA ReadPortGuarded ==
  ASSUME Kept, ReadPort
  PROVE  Guarded(machine') /\ FlagsKept
<1> DEFINE line == IF machine.keys.line = 0 THEN 0 ELSE machine.keys.line - 1
           w == [machine EXCEPT !.keys.line = line, !.keys.serving = FALSE]
<1>1. Guarded(machine) /\ machine \in Machines /\ ~ machine.cpu.pm
  BY RunningParts DEF ReadPort
<1>2. line \in Nat
  BY <1>1, Parts DEF Keys
<1>3. Become(Retire(w, cpu.flags.tf))
  BY DEF ReadPort
<1> HIDE DEF line
<1>4. w \in Machines /\ Alike(machine, w) /\ w.ghost = machine.ghost /\ w.cpu.pm = machine.cpu.pm
  BY <1>1, <1>2, Parts DEF Machines, Keys, Alike
<1> HIDE DEF w
<1>5. QED
  BY <1>1, <1>3, <1>4, AlikeGuarded, MachineParts, RetiredStep

---------------------------------------------------------------------------
(* The steps of the world around the guest.                                *)

\* A debugger switches single-stepping on: nothing waits for the trap flag.
LEMMA TraceGuarded ==
  ASSUME Kept, Trace
  PROVE  Guarded(machine')
<1> DEFINE w == [machine EXCEPT !.cpu.flags.tf = TRUE]
<1>1. Guarded(machine) /\ machine \in Machines
  BY DEF Kept, Guarded
<1>2. w \in Machines /\ Alike(machine, w)
  BY <1>1, Parts DEF Machines, CPU, Flags, Alike
<1>3. Become(w)
  BY DEF Trace
<1> HIDE DEF w
<1>4. QED
  BY <1>1, <1>2, <1>3, AlikeGuarded, Becoming

\* The guest takes over other vectors: what waits stays what it is.
LEMMA SetVectorsGuarded ==
  ASSUME Kept, NEW set \in Installs, SetVectors(set)
  PROVE  Guarded(machine')
<1> DEFINE w == [machine EXCEPT !.hooked = set]
<1>1. Guarded(machine) /\ machine \in Machines /\ set \subseteq Vectors
  BY InstallsAssumption DEF Kept, Guarded, Vectors
<1>2. w \in Machines /\ Alike(machine, w)
  BY <1>1 DEF Machines, Alike
<1>3. Become(w)
  BY DEF SetVectors
<1> HIDE DEF w
<1>4. QED
  BY <1>1, <1>2, <1>3, AlikeGuarded, Becoming

\* The user types a key: nobody notices before an interrupt.
LEMMA TypeKeyGuarded ==
  ASSUME Kept, TypeKey
  PROVE  Guarded(machine')
<1> DEFINE w == [machine EXCEPT !.keys.line = @ + 1]
<1>1. Guarded(machine) /\ machine \in Machines
  BY DEF Kept, Guarded
<1>2. w \in Machines /\ Alike(machine, w)
  BY <1>1, Parts, SMTT(60) DEF Machines, Keys, Alike
<1>3. Become(w)
  BY DEF TypeKey
<1> HIDE DEF w
<1>4. QED
  BY <1>1, <1>2, <1>3, AlikeGuarded, Becoming

\* A hardware interrupt returns, or leaves a handler that reads nothing on top.
LEMMA CheckIrqGuarded ==
  ASSUME Kept, NEW irq \in {"timer", "key"}, CheckIrq(irq)
  PROVE  Guarded(machine')
<1> DEFINE e == Enter(machine)
           n == IF irq = "key" THEN "key" ELSE "tick"
           held == IF irq = "key" THEN [e EXCEPT !.keys.serving = TRUE] ELSE e
           d == DispatchHardware(e, irq)
           w == IF d.cpu.latch THEN d ELSE FinishReturn(d, cpu.flags)
<1>1. Guarded(machine) /\ machine \in Machines /\ ~ machine.cpu.pm
      /\ cpu.flags \in Flags
  BY MachineParts, Parts DEF Kept, Guarded, CheckIrq
<1>2. /\ e \in Machines /\ e.stack = <<Frame(machine)>> \o machine.stack /\ ~ e.cpu.latch
      /\ e.cpu.pm = machine.cpu.pm /\ e.retry = machine.retry /\ e.bridge = machine.bridge
      /\ e.ghost = machine.ghost
  BY <1>1, EnterShape
<1>3. Become(w)
  BY DEF CheckIrq
<1>4. d = IF n \in held.hooked THEN Transfer(held, Handler(n))
          ELSE IF irq = "key" THEN Irq1Keyboard(held) ELSE held
  <2>1. n \in e.hooked <=> n \in held.hooked
    BY <1>2 DEF Machines
  <2>2. QED
    BY <2>1 DEF DispatchHardware
<1> HIDE DEF e, d
<1>5. /\ held \in Machines /\ held.stack = e.stack /\ held.retry = e.retry
      /\ held.ghost = e.ghost /\ held.cpu = e.cpu
  BY <1>2, Parts DEF Machines, Keys
<1>6. n \in {"key", "tick"} /\ Handler(n) \in Codes /\ Handler(n) \notin Readers
  BY CodesApart DEF Vectors
<1>7. PICK f \in FrameSet :
        f = Frame(machine) /\ f.code = machine.cpu.code /\ f.next = machine.cpu.next
  BY <1>1, FrameType
<1> HIDE DEF held, n
<1>8. CASE n \in held.hooked
  <2>1. /\ d \in Machines /\ d.cpu.code = Handler(n) /\ d.cpu.next = "any" /\ d.cpu.latch
        /\ d.cpu.pm = held.cpu.pm /\ d.stack = held.stack /\ d.retry = held.retry
        /\ d.ghost = held.ghost
    BY <1>4, <1>5, <1>6, <1>8, TransferShape
  <2>2. Guarded(d)
    <3>1. /\ d.stack = <<Frame(machine)>> \o machine.stack /\ d.cpu.pm = machine.cpu.pm
          /\ d.retry = machine.retry /\ d.ghost.reads = machine.ghost.reads
          /\ d.cpu.next # "read" /\ d.cpu.code \notin Readers
      BY <1>2, <1>5, <1>6, <2>1
    <3>2. QED
      BY <1>1, <2>1, <3>1, PushedGuarded
  <2>3. QED
    BY <1>3, <2>1, <2>2, Becoming
<1>9. CASE n \notin held.hooked
  <2>1. d = IF irq = "key" THEN Irq1Keyboard(held) ELSE held
    BY <1>4, <1>9
  <2>2. /\ d \in Machines /\ d.cpu = held.cpu /\ d.stack = held.stack
        /\ d.retry = held.retry /\ d.ghost = held.ghost /\ d.bridge = held.bridge
    BY <1>5, <2>1, Irq1Shape
  <2>3. machine.stack \in Seq(FrameSet) /\ d.stack = <<f>> \o machine.stack /\ ~ d.cpu.latch
    BY <1>1, <1>2, <1>5, <1>7, <2>2, Parts
  <2> DEFINE x == FinishReturn(d, cpu.flags)
  <2>4. /\ x \in Machines /\ x.stack = machine.stack /\ x.cpu.pm = d.cpu.pm
        /\ x.cpu.code = f.code /\ x.cpu.next = f.next
        /\ x.retry = d.retry /\ x.bridge = d.bridge /\ x.ghost = d.ghost
    BY <1>1, <2>2, <2>3, FinishShape, ZenonT(60)
  <2>5. Become(x)
    BY <1>3, <2>3
  <2> HIDE DEF x
  <2>6. held.bridge = machine.bridge
    BY <1>2 DEF held, Machines
  <2>7. Alike(machine, x)
    BY <1>2, <1>5, <1>7, <2>2, <2>4, <2>6 DEF Alike
  <2>8. QED
    BY <1>1, <2>4, <2>5, <2>7, AlikeGuarded, Becoming
<1>10. QED
  BY <1>8, <1>9

\* A machine without a wait and with no reader suspended.
LEMMA FreshGuarded ==
  ASSUME NEW w \in Machines, w.retry = NoWait, w.ghost.reads = {}, w.cpu.next = "any",
         \A i \in 1 .. Len(w.stack) : w.stack[i].next = "read" => w.stack[i].code \in Readers,
         w.cpu.pm => w.cpu.code = Client /\ w.stack = <<>>
  PROVE  Guarded(w)
BY Parts DEF Guarded, Clients

\* The program enters protected mode: only with no frame and no wait pending.
LEMMA EnterProtectedGuarded ==
  ASSUME Kept, EnterProtected
  PROVE  Guarded(machine')
<1> DEFINE w == [machine EXCEPT !.cpu.pm = TRUE, !.cpu.code = Client,
                                !.cpu.flags.iff = FALSE, !.cpu.flags.tf = FALSE]
<1>1. /\ Guarded(machine) /\ machine \in Machines /\ machine.cpu.next = "any"
      /\ machine.cpu.code = Program /\ machine.stack = <<>>
  BY RunningParts, MachineParts DEF EnterProtected
<1>2. machine.retry = NoWait /\ machine.ghost.reads = {}
  BY <1>1, NotRepeating DEF Guarded, Readers
<1>3. /\ w \in Machines /\ w.retry = machine.retry /\ w.ghost = machine.ghost
      /\ w.stack = machine.stack /\ w.cpu.next = machine.cpu.next /\ w.cpu.code = Client
  BY <1>1, CodesApart, Parts, ZenonT(60) DEF Machines, CPU, Flags
<1>4. Become(w)
  BY DEF EnterProtected
<1> HIDE DEF w
<1>5. Guarded(w)
  <2>1. Len(w.stack) = 0
    BY <1>1, <1>3
  <2>2. QED
    BY <1>1, <1>2, <1>3, <2>1, FreshGuarded
<1>6. QED
  BY <1>3, <1>4, <1>5, Becoming

\* The client comes back to real mode: it had no frames, hence no wait.
LEMMA LeaveProtectedGuarded ==
  ASSUME Kept, LeaveProtected
  PROVE  Guarded(machine')
<1> DEFINE w == [machine EXCEPT !.cpu.pm = FALSE, !.cpu.code = Program]
<1>1. /\ Guarded(machine) /\ machine \in Machines /\ machine.cpu.next = "any"
      /\ machine.stack = <<>> /\ machine.retry = NoWait /\ machine.ghost.reads = {}
  BY MachineParts DEF LeaveProtected, Kept, Guarded, Clients
<1>2. /\ w \in Machines /\ w.retry = machine.retry /\ w.ghost = machine.ghost
      /\ w.stack = machine.stack /\ w.cpu.next = machine.cpu.next /\ ~ w.cpu.pm
  BY <1>1, CodesApart, Parts DEF Machines, CPU
<1>3. Become(w)
  BY DEF LeaveProtected
<1> HIDE DEF w
<1>4. Guarded(w)
  <2>1. Len(w.stack) = 0
    BY <1>1, <1>2
  <2>2. QED
    BY <1>1, <1>2, <2>1, FreshGuarded
<1>5. QED
  BY <1>2, <1>3, <1>4, Becoming

---------------------------------------------------------------------------
(* The bridge, and the resets.                                             *)

\* The machine that runs DOS for a client it will come back to.
Bridged(m, b, s) ==
  [m EXCEPT !.bridge = b, !.stack = s, !.cpu.pm = FALSE,
            !.cpu.code = Handler("dos"), !.cpu.next = "any",
            !.cpu.flags.iff = FALSE, !.cpu.flags.tf = FALSE]

\* What starting DOS for a client does: its code in real mode, one frame, the rest as it was.
LEMMA BridgeShape ==
  ASSUME NEW m \in Machines, NEW b \in Bridges, NEW s \in Seq(FrameSet)
  PROVE  LET w == Bridged(m, b, s)
         IN  /\ w \in Machines /\ w.retry = m.retry /\ w.ghost = m.ghost
             /\ w.stack = s /\ w.cpu.next = "any" /\ ~ w.cpu.pm
             /\ w.hooked = m.hooked /\ w.cpu.code = Handler("dos")
<1> DEFINE fl == [m.cpu.flags EXCEPT !.iff = FALSE, !.tf = FALSE]
           c == [m.cpu EXCEPT !.pm = FALSE, !.code = Handler("dos"), !.next = "any",
                              !.flags = fl]
           w == Bridged(m, b, s)
<1>1. m.cpu \in CPU /\ m.cpu.flags \in Flags
  BY Parts
<1>2. fl \in Flags
  BY <1>1 DEF Flags
<1>3. c = [m.cpu EXCEPT !.pm = FALSE, !.code = Handler("dos"), !.next = "any",
                        !.flags.iff = FALSE, !.flags.tf = FALSE]
  BY <1>1, ZenonT(60) DEF CPU
<1>4. w = [m EXCEPT !.bridge = b, !.stack = s, !.cpu = c]
  BY <1>1, <1>3, ZenonT(60) DEF Machines, CPU, Bridged
<1> HIDE DEF w, fl
<1>5. Handler("dos") \in Codes
  BY CodesApart DEF Vectors
<1>6. c \in CPU /\ c.next = "any" /\ ~ c.pm /\ c.code = Handler("dos")
  BY <1>1, <1>2, <1>5 DEF CPU, Nexts
<1> HIDE DEF c
<1>7. /\ w \in Machines /\ w.retry = m.retry /\ w.ghost = m.ghost
      /\ w.stack = s /\ w.cpu = c /\ w.hooked = m.hooked
  BY <1>4, <1>6 DEF Machines
<1>8. QED
  BY <1>6, <1>7 DEF w

\* DOS starts for a client that waits for no key.
LEMMA OpenBridgeGuarded ==
  ASSUME Kept, OpenBridge
  PROVE  Guarded(machine')
<1> DEFINE b == [open |-> TRUE, since |-> resets, cpu |-> cpu, stack |-> stack]
           s == <<Frame(machine)>>
           w == Bridged(machine, b, s)
<1>1. /\ Guarded(machine) /\ machine \in Machines /\ machine.cpu.next = "any"
      /\ machine.stack = <<>> /\ machine.retry = NoWait /\ machine.ghost.reads = {}
      /\ cpu = machine.cpu /\ stack = machine.stack
  BY MachineParts DEF OpenBridge, Kept, Guarded, Clients
<1>2. b \in Bridges
  BY <1>1, MachineParts DEF Bridges, Kept, Guarded, OpenBridge
<1>3. Frame(machine) \in FrameSet /\ Frame(machine).next = "any"
  BY <1>1, FrameType
<1>4. s \in Seq(FrameSet) /\ Len(s) = 1 /\ s[1] = Frame(machine)
  BY <1>3
<1>5. Become(w)
  BY DEF OpenBridge, Bridged
<1> HIDE DEF b, s
<1>6. /\ w \in Machines /\ w.retry = machine.retry /\ w.ghost = machine.ghost
      /\ w.stack = s /\ w.cpu.next = "any" /\ ~ w.cpu.pm
  BY <1>1, <1>2, <1>4, BridgeShape
<1> HIDE DEF w
<1>7. Guarded(w)
  BY <1>1, <1>3, <1>4, <1>6, FreshGuarded
<1>8. QED
  BY <1>5, <1>6, <1>7, Becoming

\* What the bridge saved is a client without frames.
LEMMA RestoredShape ==
  ASSUME NEW m \in Machines, m.bridge.open
  PROVE  LET w == Restored(m)
         IN  /\ w \in Machines /\ w.stack = <<>> /\ w.cpu.next = "any" /\ w.cpu.pm
             /\ w.cpu.code = Client /\ w.retry = m.retry /\ w.ghost = m.ghost
<1>1. m.bridge \in Bridges
  BY DEF Machines, NoBridge
<1>2. PICK b \in Bridges : b = m.bridge
  BY <1>1
<1>3. b.cpu.code = Client /\ b.cpu.next = "any" /\ b.stack = <<>> /\ <<>> \in Seq(FrameSet)
  BY DEF Bridges, Clients
<1> DEFINE c == [m.cpu EXCEPT !.pm = TRUE, !.code = b.cpu.code, !.next = b.cpu.next]
<1>4. Restored(m) = [m EXCEPT !.cpu = c, !.stack = b.stack, !.bridge = NoBridge]
  BY <1>2 DEF Restored, Machines
<1>5. c \in CPU /\ c.pm /\ c.next = "any" /\ c.code = Client
  BY <1>3, CodesApart, Parts DEF CPU, Nexts
<1> HIDE DEF c
<1>6. QED
  BY <1>3, <1>4, <1>5 DEF Machines

\* DOS returns to the client after every read it made has ended.
LEMMA BridgeReturnGuarded ==
  ASSUME Kept, BridgeReturn
  PROVE  Guarded(machine')
<1>1. /\ Guarded(machine) /\ machine \in Machines /\ machine.bridge.open
      /\ machine.cpu.next = "any" /\ machine.cpu.code \in Readers
  <2>1. machine \in Machines /\ machine.bridge.open
    BY MachineParts DEF BridgeReturn, Kept, Guarded
  <2>2. machine.bridge \in Bridges
    BY <2>1 DEF Machines, NoBridge
  <2>3. machine.cpu.code = Client
    BY <2>2, MachineParts DEF BridgeReturn, Bridges, Clients
  <2>4. QED
    BY <2>1, <2>3, MachineParts DEF BridgeReturn, Kept, Guarded, Readers
<1>2. machine.retry = NoWait /\ machine.ghost.reads = {}
  BY <1>1, NotRepeating DEF Guarded
<1> DEFINE w == Restored(machine)
<1>3. /\ w \in Machines /\ w.stack = <<>> /\ w.cpu.next = "any" /\ w.cpu.code = Client
      /\ w.retry = machine.retry /\ w.ghost = machine.ghost
  BY <1>1, RestoredShape
<1>4. Become(w)
  BY DEF BridgeReturn
<1> HIDE DEF w
<1>5. Guarded(w)
  <2>1. Len(w.stack) = 0
    BY <1>3
  <2>2. QED
    BY <1>2, <1>3, <2>1, FreshGuarded
<1>6. QED
  BY <1>3, <1>4, <1>5, Becoming

\* A bridge that runs out of steps, with no read being repeated.
LEMMA BridgeExhaustedGuarded ==
  ASSUME Kept, BridgeExhausted, ~ Interrupted
  PROVE  Guarded(machine')
<1> DEFINE x == Restored(machine)
           fl == [machine.bridge.cpu.flags EXCEPT !.res = TRUE]
           w == [x EXCEPT !.cpu.flags = fl]
<1>1. /\ Guarded(machine) /\ machine \in Machines /\ machine.bridge.open
      /\ machine.retry = NoWait /\ machine.ghost.reads = {}
  BY MachineParts DEF BridgeExhausted, Kept, Guarded
<1>2. machine.bridge \in Bridges
  BY <1>1 DEF Machines, NoBridge
<1>3. fl \in Flags
  <2>1. machine.bridge.cpu.flags \in Flags
    BY <1>2 DEF Bridges, Clients, CPU
  <2>2. QED
    BY <2>1 DEF Flags
<1>4. /\ x \in Machines /\ x.stack = <<>> /\ x.cpu.next = "any" /\ x.cpu.code = Client
      /\ x.retry = machine.retry /\ x.ghost = machine.ghost
  BY <1>1, RestoredShape
<1>5. Become(w)
  BY MachineParts DEF BridgeExhausted
<1> HIDE DEF x, fl
<1>6. /\ w \in Machines /\ w.stack = x.stack /\ w.cpu.next = "any" /\ w.cpu.code = Client
      /\ w.retry = x.retry /\ w.ghost = x.ghost
  BY <1>3, <1>4, Parts DEF Machines, CPU
<1> HIDE DEF w
<1>7. Guarded(w)
  <2>1. Len(w.stack) = 0
    BY <1>4, <1>6
  <2>2. QED
    BY <1>1, <1>4, <1>6, <2>1, FreshGuarded
<1>8. QED
  BY <1>5, <1>6, <1>7, Becoming

\* A reset of the processor ends every wait.
LEMMA ResetShape ==
  ASSUME NEW m \in Machines
  PROVE  LET w == RealModeReset(m)
         IN  /\ w \in Machines /\ w.retry = NoWait /\ w.ghost.reads = {} /\ ~ w.cpu.pm
             /\ w.stack = m.stack /\ w.cpu.next = m.cpu.next
<1> DEFINE fl == [iff |-> FALSE, tf |-> FALSE, res |-> FALSE]
           c == [m.cpu EXCEPT !.pm = FALSE, !.flags = fl, !.latch = FALSE]
           h == [reads |-> {}, owed |-> {}]
<1>1. RealModeReset(m) = [m EXCEPT !.cpu = c, !.retry = NoWait, !.ghost = h]
  BY DEF RealModeReset, Machines
<1>2. fl \in Flags
  BY DEF Flags
<1>3. c \in CPU /\ ~ c.pm /\ c.next = m.cpu.next
  BY <1>2, Parts DEF CPU
<1>4. h \in [reads : SUBSET Begins, owed : SUBSET Debts] /\ h.reads = {}
  OBVIOUS
<1> HIDE DEF c, h
<1>5. QED
  BY <1>1, <1>3, <1>4 DEF Machines

\* A start at the program, and what a cold reset clears besides.
LEMMA StartGuarded ==
  ASSUME NEW m \in Machines
  PROVE  /\ Guarded(AtStart(RealModeReset(m))) /\ Guarded(ColdReset(m))
<1> DEFINE x == RealModeReset(m)
           c == [x.cpu EXCEPT !.code = Program, !.next = "any"]
           w == AtStart(x)
           k == [w.keys EXCEPT !.line = 0, !.buf = 0, !.serving = FALSE]
           v == ColdReset(m)
<1>1. x \in Machines /\ x.retry = NoWait /\ x.ghost.reads = {} /\ ~ x.cpu.pm
  BY ResetShape
<1>2. v = [w EXCEPT !.hooked = {}, !.keys = k]
  BY DEF ColdReset
<1> HIDE DEF x, v
<1>3. w = [x EXCEPT !.cpu = c, !.stack = <<>>]
  BY <1>1 DEF AtStart, Machines
<1>4. c \in CPU /\ c.next = "any" /\ ~ c.pm
  BY <1>1, CodesApart, Parts DEF CPU, Nexts
<1> HIDE DEF c, w
<1>5. /\ w \in Machines /\ w.retry = NoWait /\ w.ghost.reads = {} /\ w.cpu.next = "any"
      /\ ~ w.cpu.pm /\ w.stack = <<>>
  <2>1. <<>> \in Seq(FrameSet)
    OBVIOUS
  <2>2. QED
    BY <1>1, <1>3, <1>4, <2>1 DEF Machines
<1>6. Guarded(w)
  <2>1. Len(w.stack) = 0
    BY <1>5
  <2>2. QED
    BY <1>5, <2>1, FreshGuarded
<1>7. k \in Keys
  BY <1>5, Parts DEF Keys
<1> HIDE DEF k
<1>8. v \in Machines /\ Alike(w, v)
  BY <1>2, <1>5, <1>7 DEF Machines, Alike
<1>9. QED
  BY <1>6, <1>8, AlikeGuarded DEF v, w, x

\* A warm reset: the record is gone with every wait, frames may be left on the stack.
LEMMA WarmResetGuarded ==
  ASSUME Kept, WarmReset
  PROVE  Guarded(machine')
<1>1. Guarded(machine) /\ machine \in Machines
  BY DEF Kept, Guarded
<1>2. CASE cpu.next = "any" /\ Become(AtStart(RealModeReset(machine)))
  <2>1. Guarded(AtStart(RealModeReset(machine)))
    BY <1>1, StartGuarded
  <2>2. QED
    BY <1>2, <2>1, Becoming DEF Guarded
<1>3. CASE ~ cpu.pm /\ cpu.next = "any" /\ Become(RealModeReset(machine))
  <2> DEFINE w == RealModeReset(machine)
  <2>1. /\ w \in Machines /\ w.retry = NoWait /\ w.ghost.reads = {} /\ ~ w.cpu.pm
        /\ w.stack = machine.stack /\ w.cpu.next = "any"
    BY <1>1, <1>3, ResetShape, MachineParts
  <2>2. Become(w)
    BY <1>3
  <2> HIDE DEF w
  <2>3. Guarded(w)
    BY <1>1, <2>1, FreshGuarded DEF Guarded
  <2>4. QED
    BY <2>1, <2>2, <2>3, Becoming
<1>4. QED
  BY <1>2, <1>3 DEF WarmReset

\* A cold reset, from a fault or from the window: nothing is left that could wait.
LEMMA ColdResetsGuarded ==
  ASSUME Kept, TripleFault \/ WindowReset
  PROVE  Guarded(machine')
<1>1. Guarded(AtStart(RealModeReset(machine))) /\ Guarded(ColdReset(machine))
  BY StartGuarded DEF Kept, Guarded
<1>2. Become(AtStart(RealModeReset(machine))) \/ Become(ColdReset(machine))
  BY DEF TripleFault, WindowReset
<1>3. QED
  BY <1>1, <1>2, Becoming DEF Guarded

---------------------------------------------------------------------------
(* Every behaviour.                                                        *)

\* A session starts without a wait.
LEMMA InitKept ==
  ASSUME Init
  PROVE  Kept
<1>1. machine = [cpu |-> cpu, stack |-> <<>>, retry |-> NoWait, bridge |-> NoBridge,
                 hooked |-> {}, keys |-> keys, ghost |-> ghost]
  BY DEF Init, machine
<1>2. cpu \in CPU /\ keys \in Keys /\ ghost \in [reads : SUBSET Begins, owed : SUBSET Debts]
  BY CodesApart DEF Init, CPU, Keys, Flags, Nexts
<1>3. machine \in Machines
  BY <1>1, <1>2 DEF Machines
<1>4. Guarded(machine)
  <2>1. Len(machine.stack) = 0 /\ machine.retry = NoWait /\ machine.ghost.reads = {}
        /\ machine.cpu.next = "any" /\ ~ machine.cpu.pm
    BY <1>1 DEF Init
  <2>2. QED
    BY <1>3, <2>1, FreshGuarded
<1>5. QED
  BY <1>4 DEF Init, Kept

\* A guest's instruction keeps the invariant and the flags of finished reads.
LEMMA ExecuteKept ==
  ASSUME Kept, ~ NestedWaits, Execute
  PROVE  Guarded(machine') /\ FlagsKept
BY IntGuarded, FarCallGuarded, IretGuarded, ReadPortGuarded, SetIFGuarded DEF Execute

\* No step but a reset changes the number of resets.
LEMMA ResetsCounted ==
  ASSUME Next
  PROVE  resets' = resets \/ resets' = resets + 1
<1>1. ASSUME Execute PROVE resets' = resets
  <2>1. ASSUME NEW n \in Vectors, IntN(n) PROVE resets' = resets
    BY <2>1 DEF IntN
  <2>2. ASSUME NEW n \in Vectors, FarCall(n) PROVE resets' = resets
    BY <2>2 DEF FarCall
  <2>3. ASSUME Iret PROVE resets' = resets
    BY <2>3 DEF Iret
  <2>4. ASSUME ReadPort PROVE resets' = resets
    BY <2>4 DEF ReadPort
  <2>5. ASSUME NEW on \in BOOLEAN, SetIF(on) PROVE resets' = resets
    BY <2>5 DEF SetIF
  <2>6. QED
    BY <1>1, <2>1, <2>2, <2>3, <2>4, <2>5 DEF Execute
<1>2. ASSUME NEW irq \in {"timer", "key"}, CheckIrq(irq) PROVE resets' = resets
  BY <1>2 DEF CheckIrq
<1>3. ASSUME Trace \/ TypeKey \/ \E set \in Installs : SetVectors(set) PROVE resets' = resets
  BY <1>3 DEF Trace, TypeKey, SetVectors
<1>4. ASSUME EnterProtected \/ LeaveProtected \/ OpenBridge PROVE resets' = resets
  BY <1>4 DEF EnterProtected, LeaveProtected, OpenBridge
<1>5. ASSUME BridgeReturn \/ BridgeExhausted \/ WindowReset PROVE resets' = resets
  BY <1>5 DEF BridgeReturn, BridgeExhausted, WindowReset
<1>6. ASSUME WarmReset \/ TripleFault PROVE resets' = resets + 1
  BY <1>6 DEF WarmReset, TripleFault
<1>7. QED
  BY <1>1, <1>2, <1>3, <1>4, <1>5, <1>6 DEF Next

\* Every step keeps the invariant.
LEMMA NextKept ==
  ASSUME Kept, ~ NestedWaits, ~ Interrupted, [Next]_vars
  PROVE  Kept'
<1>1. CASE UNCHANGED vars
  BY <1>1 DEF Kept, vars, machine
<1>2. CASE Next
  <2>1. Guarded(machine')
    BY <1>2, ExecuteKept, TraceGuarded, SetVectorsGuarded, TypeKeyGuarded, CheckIrqGuarded,
       EnterProtectedGuarded, LeaveProtectedGuarded, OpenBridgeGuarded, BridgeReturnGuarded,
       BridgeExhaustedGuarded, WarmResetGuarded, ColdResetsGuarded
    DEF Next
  <2>2. resets' \in Nat
    BY <1>2, ResetsCounted DEF Kept
  <2>3. QED
    BY <2>1, <2>2 DEF Kept
<1>3. QED
  BY <1>1, <1>2

\* If only programs and DOS read the keyboard, and no bridged call is cut short
\* in a wait, there is one wait at a time, and its record tells where it is.
THEOREM OneWait ==
  ASSUME ~ NestedWaits, ~ Interrupted
  PROVE  Spec => []Kept
<1>1. Init => Kept
  BY InitKept
<1>2. Kept /\ [Next]_vars => Kept'
  BY NextKept
<1>3. QED
  BY <1>1, <1>2, PTL DEF Spec

\* The record of a blocking read means that a program is on that very INT,
\* running or interrupted: whatever handlers, traps, chained stubs, bridges and
\* resets came in between.
THEOREM RecordStandsForAWait ==
  ASSUME ~ NestedWaits, ~ Interrupted
  PROVE  Spec => []RecordMeansWaiting
<1>1. Kept => RecordMeansWaiting
  <2> SUFFICES ASSUME Kept, retry # NoWait
               PROVE  \E f \in Frames \cup {Frame(machine)} :
                        f.code = retry.code /\ f.next = retry.n
    BY DEF RecordMeansWaiting
  <2>1. Guarded(machine) /\ machine \in Machines /\ retry \in Records /\ retry.n = "read"
    BY MachineParts, Parts DEF Kept, Guarded, Records
  <2>2. CASE Repeating(machine)
    <3>1. Frame(machine).code = retry.code /\ Frame(machine).next = retry.n
      BY <2>1, <2>2, FrameType, MachineParts DEF Repeating
    <3>2. QED
      BY <3>1
  <2>3. CASE Beneath(machine)
    BY <2>1, <2>3, MachineParts DEF Beneath, Frames
  <2>4. QED
    BY <2>1, <2>2, <2>3, MachineParts DEF Guarded
<1>2. QED
  BY <1>1, OneWait, PTL

\* A keyboard read that had to wait gives its caller back the interrupt and
\* trap flags it was called with, however often it was repeated with interrupts
\* open and whatever ran in between.
THEOREM WaitsKeepFlags ==
  ASSUME ~ NestedWaits, ~ Interrupted
  PROVE  Spec => WaitKeepsFlags
<1>1. Kept /\ [Next]_vars =>
        [Execute => \A g \in ghost.reads \ ghost'.reads :
           /\ FlagsAfter(g.code).iff = g.flags.iff
           /\ FlagsAfter(g.code).tf = g.flags.tf]_vars
  BY ExecuteKept DEF FlagsKept
<1>2. QED
  BY <1>1, OneWait, PTL DEF Spec, WaitKeepsFlags

---------------------------------------------------------------------------
(* What a stub owes its caller.                                            *)

\* A stub between its INT and its IRET.
Pending(x, n) == x.code = Stub(n) /\ x.next = "iret"

\* The innermost frame of that stub returns to a frame with the result.
Answered(s, g) ==
  \A k \in 1 .. Len(s) :
    /\ Pending(s[k], g.stub) /\ k < Len(s)
    /\ \A j \in 1 .. k - 1 : ~ Pending(s[j], g.stub)
    => s[k + 1].flags.res = g.res

\* A debt is paid in the frame the stub's IRET will pop, whether the stub
\* runs or is interrupted.
Due(m, g) ==
  IF Pending(m.cpu, g.stub) THEN m.stack # <<>> => m.stack[1].flags.res = g.res
                            ELSE Answered(m.stack, g)

\* The console filter is the code of the one vector that a guest owns and a
\* stub chains to as well; its stub answers nothing itself.
Filter == {Handler("putc"), Stub("putc")}
Installed(m) ==
  \/ "putc" \in m.hooked
  \/ m.cpu.code \notin Filter /\ \A i \in 1 .. Len(m.stack) : m.stack[i].code \notin Filter

\* Clients have no frames, and every debt is paid.
Settled(m) ==
  /\ m \in Machines
  /\ m.cpu.pm => m.cpu \in Clients /\ m.stack = <<>>
  /\ Installed(m)
  /\ \A g \in m.ghost.owed : g.stub # "putc" /\ Due(m, g)

\* A debt as the facts below take it apart.
LEMMA AnsweredAt ==
  ASSUME NEW s, NEW g, Answered(s, g), NEW k \in 1 .. Len(s), k < Len(s),
         Pending(s[k], g.stub), \A j \in 1 .. k - 1 : ~ Pending(s[j], g.stub)
  PROVE  s[k + 1].flags.res = g.res
BY DEF Answered

\* Suspending code keeps its debt, which moves onto the stack with it.
LEMMA AnsweredPush ==
  ASSUME NEW f \in FrameSet, NEW s \in Seq(FrameSet), NEW g,
         ~ Pending(f, g.stub) => Answered(s, g),
         Pending(f, g.stub) => s = <<>> \/ s[1].flags.res = g.res
  PROVE  Answered(<<f>> \o s, g)
<1> DEFINE t == <<f>> \o s
           n == Len(s)
<1>1. n \in Nat /\ Len(t) = n + 1 /\ t[1] = f /\ \A i \in 1 .. n : t[i + 1] = s[i]
  BY PushFrame
<1> HIDE DEF t, n
<1>2. SUFFICES ASSUME NEW k \in 1 .. n + 1, Pending(t[k], g.stub), k < n + 1,
                      \A j \in 1 .. k - 1 : ~ Pending(t[j], g.stub)
               PROVE  t[k + 1].flags.res = g.res
  BY <1>1 DEF Answered, t
<1>3. CASE k = 1
  <2>1. Pending(f, g.stub) /\ n # 0 /\ t[k + 1] = s[1]
    BY <1>1, <1>2, <1>3
  <2>2. s # <<>>
    BY <2>1 DEF n
  <2>3. QED
    BY <2>1, <2>2
<1>4. CASE k # 1
  <2>1. k - 1 \in 1 .. n /\ k \in 1 .. n /\ (k - 1) + 1 = k /\ 1 \in 1 .. k - 1
    BY <1>1, <1>2, <1>4
  <2>2. t[k] = s[k - 1] /\ t[k + 1] = s[k]
    BY <1>1, <2>1
  <2>3. ~ Pending(f, g.stub)
    BY <1>1, <1>2, <2>1
  <2>4. ASSUME NEW j \in 1 .. (k - 1) - 1 PROVE ~ Pending(s[j], g.stub)
    <3>1. j \in 1 .. n /\ j + 1 \in 1 .. k - 1
      BY <1>1, <2>1
    <3>2. t[j + 1] = s[j]
      BY <1>1, <3>1
    <3>3. QED
      BY <1>2, <3>1, <3>2
  <2>5. s[(k - 1) + 1].flags.res = g.res
    <3>1. k - 1 < Len(s)
      BY <1>1, <1>2 DEF n
    <3>2. PICK i \in 1 .. Len(s) : i = k - 1
      BY <2>1 DEF n
    <3>3. i < Len(s) /\ Pending(s[i], g.stub) /\ \A j \in 1 .. i - 1 : ~ Pending(s[j], g.stub)
      BY <1>2, <2>2, <2>4, <3>1, <3>2
    <3>4. s[i + 1].flags.res = g.res
      BY <2>3, <3>3, AnsweredAt
    <3>5. QED
      BY <3>2, <3>4
  <2>6. QED
    BY <2>1, <2>2, <2>5
<1>5. QED
  BY <1>3, <1>4

\* Returning to code makes its debt due.
LEMMA AnsweredPop ==
  ASSUME NEW s \in Seq(FrameSet), s # <<>>, NEW g, Answered(s, g)
  PROVE  IF Pending(s[1], g.stub) THEN Tail(s) # <<>> => Tail(s)[1].flags.res = g.res
                                  ELSE Answered(Tail(s), g)
<1> DEFINE t == Tail(s)
           n == Len(s)
<1>1. /\ n \in Nat \ {0} /\ Len(t) = n - 1 /\ t \in Seq(FrameSet)
      /\ \A i \in 1 .. n - 1 : t[i] = s[i + 1]
  BY PopFrame
<1>2. t # <<>> => n > 1
  BY <1>1
<1> HIDE DEF t, n
<1>3. ASSUME Pending(s[1], g.stub), t # <<>> PROVE t[1].flags.res = g.res
  <2>1. 1 \in 1 .. Len(s) /\ 1 < Len(s) /\ t[1] = s[1 + 1]
        /\ \A j \in 1 .. 1 - 1 : ~ Pending(s[j], g.stub)
    BY <1>1, <1>2, <1>3 DEF n
  <2>2. s[1 + 1].flags.res = g.res
    BY <1>3, <2>1, AnsweredAt
  <2>3. QED
    BY <2>1, <2>2
<1>4. ASSUME ~ Pending(s[1], g.stub) PROVE Answered(t, g)
  <2> SUFFICES ASSUME NEW k \in 1 .. Len(t), Pending(t[k], g.stub), k < Len(t),
                      \A j \in 1 .. k - 1 : ~ Pending(t[j], g.stub)
               PROVE  t[k + 1].flags.res = g.res
    BY DEF Answered
  <2>1. PICK i \in 1 .. n : i = k + 1
    BY <1>1
  <2>2. i < n /\ t[k] = s[i] /\ t[k + 1] = s[i + 1]
    BY <1>1, <2>1
  <2>3. ASSUME NEW j \in 1 .. i - 1 PROVE ~ Pending(s[j], g.stub)
    <3>1. CASE j = 1
      BY <1>4, <3>1
    <3>2. CASE j # 1
      <4>1. j - 1 \in 1 .. k - 1 /\ j - 1 \in 1 .. n - 1 /\ (j - 1) + 1 = j
        BY <1>1, <2>1, <3>2
      <4>2. t[j - 1] = s[j]
        BY <1>1, <4>1
      <4>3. QED
        BY <4>1, <4>2
    <3>3. QED
      BY <3>1, <3>2
  <2>4. s[i + 1].flags.res = g.res
    BY <2>2, <2>3, AnsweredAt DEF n
  <2>5. QED
    BY <2>2, <2>4
<1>5. QED
  BY <1>3, <1>4 DEF t

\* The flags of the innermost frame are nobody's result but the current stub's.
LEMMA AnsweredHead ==
  ASSUME NEW s \in Seq(FrameSet), NEW t \in Seq(FrameSet), Len(t) = Len(s),
         \A i \in 1 .. Len(s) : t[i].code = s[i].code /\ t[i].next = s[i].next,
         \A i \in 2 .. Len(s) : t[i] = s[i],
         NEW g, Answered(s, g)
  PROVE  Answered(t, g)
<1> SUFFICES ASSUME NEW k \in 1 .. Len(s), Pending(t[k], g.stub), k < Len(s),
                    \A j \in 1 .. k - 1 : ~ Pending(t[j], g.stub)
             PROVE  t[k + 1].flags.res = g.res
  BY DEF Answered
<1>1. k + 1 \in 2 .. Len(s)
  OBVIOUS
<1>2. Pending(s[k], g.stub) /\ \A j \in 1 .. k - 1 : ~ Pending(s[j], g.stub)
  BY DEF Pending
<1>3. s[k + 1].flags.res = g.res
  BY <1>2, AnsweredAt
<1>4. QED
  BY <1>1, <1>3

---------------------------------------------------------------------------
(* Debts, as frames come and go.                                           *)

\* A debt depends on the code, on what it does next and on the stack.
LEMMA DueAlike ==
  ASSUME NEW m, NEW w, NEW g, Due(m, g), w.stack = m.stack,
         w.cpu.code = m.cpu.code, w.cpu.next = m.cpu.next
  PROVE  Due(w, g)
BY DEF Due, Pending

\* Code that is no stub about to return owes what its stack does.
LEMMA DueBelow ==
  ASSUME NEW m, NEW g, ~ Pending(m.cpu, g.stub)
  PROVE  Due(m, g) <=> Answered(m.stack, g)
BY DEF Due

\* What changes neither code nor frames settles as before.
LEMMA SameSettled ==
  ASSUME NEW m, NEW w \in Machines, Settled(m),
         w.cpu.code = m.cpu.code, w.cpu.next = m.cpu.next, ~ w.cpu.pm,
         w.stack = m.stack, w.hooked = m.hooked, w.ghost.owed \subseteq m.ghost.owed
  PROVE  Settled(w)
<1>1. Installed(w)
  BY DEF Settled, Installed
<1>2. QED
  BY <1>1, DueAlike DEF Settled

\* The frame of what runs keeps its debts.
LEMMA DuePushed ==
  ASSUME NEW m \in Machines, NEW g, Due(m, g)
  PROVE  Answered(<<Frame(m)>> \o m.stack, g)
<1>1. PICK f \in FrameSet : f = Frame(m) /\ f.code = m.cpu.code /\ f.next = m.cpu.next
  BY FrameType
<1>2. PICK s \in Seq(FrameSet) : s = m.stack
  BY Parts
<1>3. Pending(f, g.stub) <=> Pending(m.cpu, g.stub)
  BY <1>1 DEF Pending
<1>4. ~ Pending(f, g.stub) => Answered(s, g)
  BY <1>2, <1>3 DEF Due
<1>5. Pending(f, g.stub) => s = <<>> \/ s[1].flags.res = g.res
  BY <1>2, <1>3 DEF Due
<1>6. Answered(<<f>> \o s, g)
  BY <1>4, <1>5, AnsweredPush
<1>7. QED
  BY <1>1, <1>2, <1>6

\* Codes of a stack with a frame more.
LEMMA InstalledPushed ==
  ASSUME NEW m \in Machines, NEW w, Installed(m),
         w.stack = <<Frame(m)>> \o m.stack, w.hooked = m.hooked,
         w.cpu.code \in Filter => "putc" \in m.hooked
  PROVE  Installed(w)
<1>1. CASE "putc" \in m.hooked
  BY <1>1 DEF Installed
<1>2. CASE "putc" \notin m.hooked
  <2>1. PICK f \in FrameSet : f = Frame(m) /\ f.code = m.cpu.code
    BY FrameType
  <2>2. /\ Len(w.stack) = Len(m.stack) + 1 /\ w.stack[1] = f
        /\ \A i \in 1 .. Len(m.stack) : w.stack[i + 1] = m.stack[i]
        /\ Len(m.stack) \in Nat
    BY <2>1, Parts, PushFrame
  <2>3. ASSUME NEW i \in 1 .. Len(w.stack) PROVE w.stack[i].code \notin Filter
    <3>1. CASE i = 1
      BY <1>2, <2>1, <2>2, <3>1 DEF Installed
    <3>2. CASE i # 1
      <4>1. i - 1 \in 1 .. Len(m.stack) /\ (i - 1) + 1 = i
        BY <2>2, <3>2
      <4>2. w.stack[i] = m.stack[i - 1]
        BY <2>2, <4>1
      <4>3. QED
        BY <1>2, <4>1, <4>2 DEF Installed
    <3>3. QED
      BY <3>1, <3>2
  <2>4. QED
    BY <1>2, <2>3 DEF Installed
<1>3. QED
  BY <1>1, <1>2

\* A handler or a stub on top of what ran.
LEMMA PushedSettled ==
  ASSUME NEW m, NEW w \in Machines, Settled(m),
         w.stack = <<Frame(m)>> \o m.stack, ~ w.cpu.pm, w.cpu.next # "iret",
         w.hooked = m.hooked, w.ghost.owed = m.ghost.owed,
         w.cpu.code \in Filter => "putc" \in m.hooked
  PROVE  Settled(w)
<1>1. m \in Machines
  BY DEF Settled
<1>2. Installed(w)
  BY <1>1, InstalledPushed DEF Settled
<1>3. ASSUME NEW g \in w.ghost.owed PROVE g.stub # "putc" /\ Due(w, g)
  <2>1. g.stub # "putc" /\ Due(m, g)
    BY <1>3 DEF Settled
  <2>2. Answered(w.stack, g)
    BY <1>1, <2>1, DuePushed
  <2>3. ~ Pending(w.cpu, g.stub)
    BY DEF Pending
  <2>4. QED
    BY <2>1, <2>2, <2>3, DueBelow
<1>4. QED
  BY <1>2, <1>3 DEF Settled

\* A return: what the returning stub owed is no debt any more.
LEMMA PoppedSettled ==
  ASSUME NEW m, NEW w \in Machines, Settled(m), m.stack # <<>>,
         w.stack = Tail(m.stack), ~ w.cpu.pm, w.hooked = m.hooked,
         w.cpu.code = Head(m.stack).code, w.cpu.next = Head(m.stack).next,
         w.ghost.owed = {g \in m.ghost.owed : Stub(g.stub) # m.cpu.code}
  PROVE  Settled(w)
<1>1. m \in Machines /\ m.stack \in Seq(FrameSet)
  BY Parts DEF Settled
<1>2. /\ Len(w.stack) = Len(m.stack) - 1 /\ Len(m.stack) \in Nat \ {0}
      /\ Head(m.stack) = m.stack[1]
      /\ \A i \in 1 .. Len(w.stack) : w.stack[i] = m.stack[i + 1]
  BY <1>1, PopFrame
<1>3. Installed(w)
  <2>1. \A i \in 1 .. Len(w.stack) : i + 1 \in 1 .. Len(m.stack)
    BY <1>2
  <2>2. 1 \in 1 .. Len(m.stack)
    BY <1>2
  <2>3. QED
    BY <1>2, <2>1, <2>2 DEF Installed, Settled
<1>4. ASSUME NEW g \in w.ghost.owed PROVE g.stub # "putc" /\ Due(w, g)
  <2>1. g \in m.ghost.owed /\ Stub(g.stub) # m.cpu.code
    BY <1>4
  <2>2. g.stub # "putc" /\ Answered(m.stack, g)
    BY <2>1 DEF Settled, Due, Pending
  <2>3. IF Pending(m.stack[1], g.stub) THEN w.stack # <<>> => w.stack[1].flags.res = g.res
                                       ELSE Answered(w.stack, g)
    BY <1>1, <2>2, AnsweredPop
  <2>4. Pending(w.cpu, g.stub) <=> Pending(m.stack[1], g.stub)
    BY <1>2 DEF Pending
  <2>5. QED
    BY <2>2, <2>3, <2>4 DEF Due
<1>5. QED
  BY <1>3, <1>4 DEF Settled

\* Code without frames owes nothing to anybody.
LEMMA EmptySettled ==
  ASSUME NEW w \in Machines, w.stack = <<>>, w.cpu.next = "any",
         w.cpu.pm => w.cpu.code = Client,
         "putc" \in w.hooked \/ w.cpu.code \notin Filter,
         \A g \in w.ghost.owed : g.stub # "putc"
  PROVE  Settled(w)
<1>1. Len(w.stack) = 0
  OBVIOUS
<1>2. Installed(w)
  BY <1>1 DEF Installed
<1>3. \A g \in w.ghost.owed : Due(w, g)
  BY <1>1 DEF Due, Pending, Answered
<1>4. QED
  BY <1>2, <1>3, Parts DEF Settled, Clients

---------------------------------------------------------------------------
(* INT n, and the debt of a stub.                                          *)

\* Code about to be served: a stub's own INT, or an interruption of any code.
Entering(m, n) ==
  /\ m \in Machines /\ ~ m.cpu.pm /\ Installed(m)
  /\ AtStub(m, n) => m.cpu.next = "iret"
  /\ n = "read" /\ ~ AtStub(m, n) => m.cpu.next # "iret"
  /\ \A g \in m.ghost.owed :
       g.stub # "putc" /\ IF AtStub(m, n) THEN Answered(m.stack, g) ELSE Due(m, g)

\* A service in Python that ends.
LEMMA ServedShape ==
  ASSUME NEW m \in Machines, NEW n \in Vectors, NEW r \in BOOLEAN,
         ~ (n \in {"trap", "dos", "putc"} /\ n \in m.hooked), ~ Blocks(m, n)
  PROVE  LET w == HandleInterrupt(m, n, r)
         IN  /\ w \in Machines /\ w.stack = m.stack
             /\ w.hooked = m.hooked /\ w.ghost = m.ghost
             /\ w.cpu.latch = m.cpu.latch /\ w.cpu.pm = m.cpu.pm
             /\ w.cpu.code = m.cpu.code /\ w.cpu.next = m.cpu.next
<1>1. CASE n = "read"
  <2>1. HandleInterrupt(m, n, r) = TakeKey(m)
    BY <1>1 DEF HandleInterrupt
  <2>2. QED
    BY <1>1, <2>1, TakeKeyShape
<1>2. CASE n # "read"
  BY <1>2, ServiceShape
<1>3. QED
  BY <1>1, <1>2

\* The flags an INT saves are flags.
LEMMA SavedType ==
  ASSUME NEW m \in Machines, NEW n
  PROVE  SavedFlags(m, n) \in Flags
<1>1. m.retry # NoWait => m.retry.flags \in Flags
  BY Parts DEF Records
<1>2. QED
  BY <1>1, Parts DEF SavedFlags, Waiting

\* A wait that ends changes the record alone.
LEMMA ForgetShape ==
  ASSUME NEW m \in Machines, NEW n
  PROVE  LET w == ForgetWait(m, n)
         IN  /\ w \in Machines /\ w.cpu = m.cpu /\ w.stack = m.stack
             /\ w.hooked = m.hooked /\ w.ghost = m.ghost
BY DEF ForgetWait, Machines

\* A wait that begins or goes on repeats the INT.
LEMMA WaitShape ==
  ASSUME NEW m \in Machines, NEW saved \in Flags
  PROVE  LET w == Wait(m, "read", saved)
         IN  /\ w \in Machines /\ w.cpu.code = m.cpu.code /\ w.cpu.next = "read"
             /\ w.cpu.pm = m.cpu.pm /\ w.stack = m.stack /\ w.hooked = m.hooked
             /\ w.ghost = m.ghost
<1>1. PICK q \in Records : q = [n |-> "read", code |-> m.cpu.code, flags |-> saved]
  BY Parts DEF Records
<1> DEFINE c == [m.cpu EXCEPT !.next = "read", !.flags.iff = TRUE]
<1>2. Wait(m, "read", saved) = [m EXCEPT !.retry = q, !.cpu = c]
  BY <1>1 DEF Wait, Machines, CPU
<1>3. c \in CPU /\ c.next = "read" /\ c.code = m.cpu.code /\ c.pm = m.cpu.pm
  BY Parts DEF CPU, Flags, Nexts, Stubs
<1> HIDE DEF c
<1>4. QED
  BY <1>1, <1>2, <1>3 DEF Machines

\* The stub of what a guest owns passes on what it is asked.
LEMMA TransferSettled ==
  ASSUME NEW m, NEW n \in {"trap", "dos", "putc"}, NEW r \in BOOLEAN, Entering(m, n), n \in m.hooked
  PROVE  LET w == HookedInterrupt(m, n, r)
         IN  /\ Settled(w) /\ w.ghost.owed = m.ghost.owed /\ ~ w.cpu.pm
             /\ w.cpu.code = Handler(n) /\ w.cpu.flags.res = m.cpu.flags.res
             /\ Head(w.stack) = Frame(m)
<1> DEFINE e == Enter(m)
           w == Transfer(e, Handler(n))
<1>1. m \in Machines /\ Handler(n) \in Codes /\ n \in Vectors
  BY CodesApart DEF Entering, Vectors
<1>2. /\ e \in Machines /\ e.stack = <<Frame(m)>> \o m.stack /\ e.cpu.pm = m.cpu.pm
      /\ e.hooked = m.hooked /\ e.ghost = m.ghost /\ e.cpu.flags.res = m.cpu.flags.res
  BY <1>1, EnterShape
<1> HIDE DEF e
<1>3. /\ w \in Machines /\ w.cpu.code = Handler(n) /\ w.cpu.next = "any" /\ w.cpu.latch
      /\ w.cpu.flags = e.cpu.flags
      /\ w.cpu.pm = e.cpu.pm /\ w.stack = e.stack /\ w.hooked = e.hooked /\ w.ghost = e.ghost
  BY <1>1, <1>2, TransferShape
<1>4. HookedInterrupt(m, n, r) = w
  <2>1. HandleInterrupt(e, n, r) = w
    BY <1>2, TransferHandled
  <2>2. QED
    BY <1>3, <2>1 DEF HookedInterrupt, e
<1> HIDE DEF w
<1>5. Installed(w)
  <2>1. w.cpu.code \in Filter => "putc" \in m.hooked
    BY <1>3 DEF Filter, Handler, Stub
  <2>2. QED
    BY <1>1, <1>2, <1>3, <2>1, InstalledPushed DEF Entering
<1>6. ASSUME NEW g \in w.ghost.owed PROVE g.stub # "putc" /\ Due(w, g)
  <2>1. g.stub # "putc" /\ IF AtStub(m, n) THEN Answered(m.stack, g) ELSE Due(m, g)
    BY <1>2, <1>3, <1>6 DEF Entering
  <2>2. AtStub(m, n) => ~ Pending(m.cpu, g.stub)
    <3>1. ASSUME AtStub(m, n) PROVE n = "putc"
      BY <1>1, <3>1, Parts DEF AtStub, Codes, Stub, Handler, Program, Client, Stubs
    <3>2. g \in Debts
      BY <1>1, <1>2, <1>3, <1>6 DEF Machines
    <3>3. AtStub(m, n) /\ Pending(m.cpu, g.stub) => g.stub = n
      BY <1>1, <3>2, CodesApart DEF AtStub, Pending, Debts
    <3>4. QED
      BY <2>1, <3>1, <3>3
  <2>3. Due(m, g)
    BY <2>1, <2>2, DueBelow
  <2>4. Answered(w.stack, g)
    BY <1>1, <1>2, <1>3, <2>3, DuePushed
  <2>5. ~ Pending(w.cpu, g.stub)
    BY <1>3 DEF Pending
  <2>6. QED
    BY <2>1, <2>4, <2>5, DueBelow
<1>7. ~ w.cpu.pm
  BY <1>2, <1>3 DEF Entering
<1>8. Head(w.stack) = Frame(m)
  BY <1>1, <1>2, <1>3, FrameType, PushFrame, Parts
<1>9. Settled(w)
  BY <1>3, <1>5, <1>6, <1>7 DEF Settled
<1>10. QED
  BY <1>2, <1>3, <1>4, <1>7, <1>8, <1>9

\* A read that waits owes nothing yet.
LEMMA WaitSettled ==
  ASSUME NEW m, NEW r \in BOOLEAN, Entering(m, "read"), Blocks(m, "read")
  PROVE  LET w == HookedInterrupt(m, "read", r)
         IN  Settled(w) /\ ~ w.cpu.pm
<1> DEFINE e == Enter(m)
           saved == SavedFlags(m, "read")
           d == FinishReturn(e, saved)
           w == Wait(d, "read", saved)
<1>1. m \in Machines /\ saved \in Flags
  BY SavedType DEF Entering
<1>2. /\ e \in Machines /\ e.stack = <<Frame(m)>> \o m.stack /\ ~ e.cpu.latch
      /\ e.cpu.pm = m.cpu.pm /\ e.hooked = m.hooked /\ e.ghost = m.ghost /\ e.keys = m.keys
  BY <1>1, EnterShape
<1>3. HandleInterrupt(e, "read", r) = e /\ Blocks(e, "read")
  <2>1. Blocks(e, "read")
    BY <1>2 DEF Blocks, Drains
  <2>2. QED
    BY <2>1 DEF HandleInterrupt
<1>4. HookedInterrupt(m, "read", r) = w
  BY <1>2, <1>3 DEF HookedInterrupt
<1> HIDE DEF e, saved, w
<1>5. PICK f \in FrameSet : f = Frame(m) /\ f.code = m.cpu.code /\ f.next = m.cpu.next
  BY <1>1, FrameType
<1>6. /\ d \in Machines /\ d.stack = m.stack /\ d.cpu.pm = e.cpu.pm
      /\ d.cpu.code = f.code /\ d.hooked = e.hooked /\ d.ghost = e.ghost
  <2>1. m.stack \in Seq(FrameSet) /\ e.stack = <<f>> \o m.stack
    BY <1>1, <1>2, <1>5, Parts
  <2>2. QED
    BY <1>1, <1>2, <2>1, FinishShape
<1> HIDE DEF d
<1>7. /\ w \in Machines /\ w.cpu.code = d.cpu.code /\ w.cpu.next = "read"
      /\ w.cpu.pm = d.cpu.pm /\ w.stack = d.stack /\ w.hooked = d.hooked /\ w.ghost = d.ghost
  BY <1>1, <1>6, WaitShape DEF w
<1>8. Installed(w)
  BY <1>2, <1>5, <1>6, <1>7 DEF Entering, Installed
<1>9. ASSUME NEW g \in w.ghost.owed PROVE g.stub # "putc" /\ Due(w, g)
  <2>1. g.stub # "putc" /\ IF AtStub(m, "read") THEN Answered(m.stack, g) ELSE Due(m, g)
    BY <1>2, <1>6, <1>7, <1>9 DEF Entering
  <2>2. ~ AtStub(m, "read") => ~ Pending(m.cpu, g.stub)
    BY DEF Entering, Pending
  <2>3. Answered(m.stack, g)
    BY <2>1, <2>2, DueBelow
  <2>4. ~ Pending(w.cpu, g.stub)
    BY <1>7 DEF Pending
  <2>5. QED
    BY <1>6, <1>7, <2>1, <2>3, <2>4, DueBelow
<1>10. ~ w.cpu.pm
  BY <1>2, <1>6, <1>7 DEF Entering
<1>11. QED
  BY <1>4, <1>7, <1>8, <1>9, <1>10 DEF Settled

\* A service that ends pays its stub's debt into the caller's frame, and
\* touches no other.
LEMMA ServedSettled ==
  ASSUME NEW m, NEW n \in Vectors, NEW r \in BOOLEAN, Entering(m, n),
         ~ (n \in {"trap", "dos", "putc"} /\ n \in m.hooked), ~ Blocks(m, n)
  PROVE  LET w == HookedInterrupt(m, n, r)
         IN  /\ Settled(w) /\ ~ w.cpu.pm /\ w.cpu.code = m.cpu.code
             /\ ~ AtStub(m, n) => w.ghost.owed = m.ghost.owed
             /\ n = "trap" => w.cpu.flags.res = m.cpu.flags.res
<1> DEFINE e == Enter(m)
           s == HandleInterrupt(e, n, r)
           saved == SavedFlags(m, n)
           d == FinishReturn(s, saved)
           c == IF AtStub(m, n) THEN MergeOuterFrame(d) ELSE d
           v == ForgetWait(c, n)
           w == HookedInterrupt(m, n, r)
<1>1. m \in Machines /\ saved \in Flags
  BY SavedType DEF Entering
<1>2. /\ e \in Machines /\ e.stack = <<Frame(m)>> \o m.stack /\ ~ e.cpu.latch
      /\ e.cpu.pm = m.cpu.pm /\ e.hooked = m.hooked /\ e.ghost = m.ghost /\ e.keys = m.keys
      /\ e.cpu.flags.res = m.cpu.flags.res
  BY <1>1, EnterShape
<1>3. ~ Blocks(e, n)
  BY <1>2 DEF Blocks, Drains
<1>4. w = IF s.cpu.latch THEN s ELSE IF Blocks(m, n) THEN Wait(d, n, saved) ELSE Finished(v, n)
  BY DEF HookedInterrupt
<1> HIDE DEF e, saved, w
<1>5. n = "trap" => s = e
  BY <1>2 DEF HandleInterrupt
<1>6. /\ s \in Machines /\ s.stack = e.stack /\ s.hooked = e.hooked /\ s.ghost = e.ghost
      /\ s.cpu.latch = e.cpu.latch /\ s.cpu.pm = e.cpu.pm
  BY <1>2, <1>3, ServedShape
<1> HIDE DEF s
<1>7. PICK f \in FrameSet : f = Frame(m) /\ f.code = m.cpu.code /\ f.next = m.cpu.next
  BY <1>1, FrameType
<1>8. /\ d \in Machines /\ d.stack = m.stack /\ d.cpu.pm = s.cpu.pm /\ d.cpu.code = f.code
      /\ d.cpu.next = f.next /\ d.hooked = s.hooked /\ d.ghost = s.ghost
      /\ d.cpu.flags = Merge(saved, s.cpu.flags)
  <2>1. m.stack \in Seq(FrameSet)
    BY <1>1, Parts
  <2>2. s.stack = <<f>> \o m.stack
    BY <1>2, <1>6, <1>7
  <2>3. s \in Machines /\ saved \in Flags
    BY <1>1, <1>6
  <2>4. QED
    BY <2>1, <2>2, <2>3, FinishShape
<1>9. d.cpu.flags.res = s.cpu.flags.res
  BY <1>1, <1>6, <1>8, MergeType, Parts
<1> HIDE DEF d
<1>10. /\ c \in Machines /\ c.cpu = d.cpu /\ c.hooked = d.hooked /\ c.ghost = d.ghost
       /\ Alike(d, c)
       /\ AtStub(m, n) /\ c.stack # <<>> => c.stack[1].flags.res = d.cpu.flags.res
       /\ \A i \in 2 .. Len(m.stack) : c.stack[i] = m.stack[i]
       /\ ~ AtStub(m, n) => c.stack = m.stack
  BY <1>8, MergeOuterShape DEF Alike
<1> HIDE DEF c
<1>11. /\ v \in Machines /\ v.cpu = c.cpu /\ v.stack = c.stack
       /\ v.hooked = c.hooked /\ v.ghost = c.ghost
  BY <1>10, ForgetShape
<1> HIDE DEF v
<1>12. /\ w \in Machines /\ w.cpu = v.cpu /\ w.stack = v.stack /\ w.hooked = v.hooked
       /\ w.ghost.owed = IF AtStub(v, n)
                         THEN {g \in v.ghost.owed : g.stub # n}
                                \cup {[stub |-> n, res |-> v.cpu.flags.res]}
                         ELSE v.ghost.owed
  BY <1>2, <1>4, <1>6, <1>11, FinishedShape
<1>13. /\ w.cpu.code = m.cpu.code /\ w.cpu.next = m.cpu.next /\ ~ w.cpu.pm
       /\ w.hooked = m.hooked /\ v.ghost = m.ghost
       /\ w.stack = c.stack /\ w.cpu.flags.res = s.cpu.flags.res
  BY <1>2, <1>6, <1>7, <1>8, <1>9, <1>10, <1>11, <1>12 DEF Entering
<1>14. AtStub(v, n) <=> AtStub(m, n)
  BY <1>7, <1>8, <1>10, <1>11 DEF AtStub
<1>15. /\ c.stack \in Seq(FrameSet) /\ m.stack \in Seq(FrameSet)
       /\ Len(c.stack) = Len(m.stack)
       /\ \A i \in 1 .. Len(m.stack) :
            c.stack[i].code = m.stack[i].code /\ c.stack[i].next = m.stack[i].next
  BY <1>1, <1>8, <1>10, Parts DEF Alike
<1>16. Installed(w)
  BY <1>13, <1>15 DEF Entering, Installed
<1>17. ASSUME NEW g \in m.ghost.owed, AtStub(m, n) => g.stub # n
       PROVE  g.stub # "putc" /\ Due(w, g)
  <2>1. g.stub # "putc" /\ IF AtStub(m, n) THEN Answered(m.stack, g) ELSE Due(m, g)
    BY <1>17 DEF Entering
  <2>2. CASE AtStub(m, n)
    <3>1. g \in Debts
      BY <1>1, <1>17 DEF Machines
    <3>2. ~ Pending(w.cpu, g.stub)
      BY <1>13, <1>17, <2>2, <3>1, CodesApart DEF AtStub, Pending, Debts
    <3>3. Answered(c.stack, g)
      BY <1>10, <1>15, <2>1, <2>2, AnsweredHead
    <3>4. QED
      BY <1>13, <2>1, <3>2, <3>3, DueBelow
  <2>3. CASE ~ AtStub(m, n)
    BY <1>10, <1>13, <2>1, <2>3, DueAlike
  <2>4. QED
    BY <2>2, <2>3
<1>18. ASSUME AtStub(m, n), NEW g, g = [stub |-> n, res |-> v.cpu.flags.res]
       PROVE  g.stub # "putc" /\ Due(w, g)
  <2>1. g.stub = n /\ g.res = v.cpu.flags.res
    BY <1>18
  <2>2. n # "putc"
    BY <1>18 DEF Entering, Installed, AtStub, Filter
  <2>3. Pending(w.cpu, g.stub)
    BY <1>13, <1>18, <2>1 DEF Pending, AtStub, Entering
  <2>4. w.stack # <<>> => w.stack[1].flags.res = g.res
    BY <1>10, <1>11, <1>13, <1>18, <2>1
  <2>5. QED
    BY <2>1, <2>2, <2>3, <2>4 DEF Due
<1>19. \A g \in w.ghost.owed : g.stub # "putc" /\ Due(w, g)
  BY <1>12, <1>13, <1>14, <1>17, <1>18
<1>20. Settled(w)
  BY <1>12, <1>13, <1>16, <1>19 DEF Settled
<1>21. n = "trap" => w.cpu.flags.res = m.cpu.flags.res
  BY <1>2, <1>5, <1>13
<1>22. QED
  BY <1>12, <1>13, <1>14, <1>20, <1>21 DEF w

\* Whatever the service, the debts are settled after it.
LEMMA InterruptSettled ==
  ASSUME NEW m, NEW n \in Vectors, NEW r \in BOOLEAN, Entering(m, n)
  PROVE  Settled(HookedInterrupt(m, n, r)) /\ ~ HookedInterrupt(m, n, r).cpu.pm
<1>1. CASE n \in {"trap", "dos", "putc"} /\ n \in m.hooked
  BY <1>1, TransferSettled
<1>2. CASE Blocks(m, n)
  <2>1. n = "read"
    BY <1>2 DEF Blocks
  <2>2. QED
    BY <1>2, <2>1, WaitSettled
<1>3. CASE ~ (n \in {"trap", "dos", "putc"} /\ n \in m.hooked) /\ ~ Blocks(m, n)
  BY <1>3, ServedSettled
<1>4. QED
  BY <1>1, <1>2, <1>3

\* The trap is nobody's stub.
LEMMA EnteringTrap ==
  ASSUME NEW m, Settled(m), ~ m.cpu.pm
  PROVE  Entering(m, "trap") /\ ~ AtStub(m, "trap")
<1>1. m.cpu.code \in Codes
  BY Parts DEF Settled
<1>2. ~ AtStub(m, "trap")
  BY <1>1 DEF AtStub, Codes, Stub, Handler, Program, Client, Stubs
<1>3. QED
  BY <1>2 DEF Settled, Entering

\* A trap after an instruction leaves debts alone, and the result with the code.
LEMMA RetireSettled ==
  ASSUME NEW m, Settled(m), ~ m.cpu.pm, NEW tf
  PROVE  LET w == Retire(m, tf)
         IN  /\ Settled(w) /\ w.ghost.owed = m.ghost.owed
             /\ IF w.cpu.code = m.cpu.code THEN w.cpu.flags.res = m.cpu.flags.res
                                           ELSE Head(w.stack).flags.res = m.cpu.flags.res
<1> DEFINE h == HookedInterrupt(m, "trap", FALSE)
<1>1. CASE tf /\ m.cpu.flags.tf /\ ~ m.cpu.latch
  <2>1. Retire(m, tf) = h
    BY <1>1 DEF Retire
  <2>2. "trap" \in Vectors /\ FALSE \in BOOLEAN /\ ~ Blocks(m, "trap")
    BY DEF Vectors, Blocks
  <2>3. Entering(m, "trap") /\ ~ AtStub(m, "trap")
    BY EnteringTrap
  <2>4. CASE "trap" \in m.hooked
    <3>1. /\ Settled(h) /\ h.ghost.owed = m.ghost.owed
          /\ h.cpu.flags.res = m.cpu.flags.res /\ Head(h.stack) = Frame(m)
      BY <2>2, <2>3, <2>4, TransferSettled
    <3>2. Frame(m).flags = m.cpu.flags
      BY DEF Frame
    <3> HIDE DEF h
    <3>3. QED
      BY <2>1, <3>1, <3>2
  <2>5. CASE "trap" \notin m.hooked
    <3>1. /\ Settled(h) /\ h.cpu.code = m.cpu.code /\ h.ghost.owed = m.ghost.owed
          /\ h.cpu.flags.res = m.cpu.flags.res
      BY <2>2, <2>3, <2>5, ServedSettled
    <3> HIDE DEF h
    <3>2. QED
      BY <2>1, <3>1
  <2>6. QED
    BY <2>4, <2>5
<1>2. CASE ~ (tf /\ m.cpu.flags.tf /\ ~ m.cpu.latch)
  BY <1>2 DEF Retire
<1>3. QED
  BY <1>1, <1>2

---------------------------------------------------------------------------
(* The steps of a guest, again.                                            *)

\* An instruction with a trap after it.
LEMMA RetiredSettled ==
  ASSUME NEW m, Settled(m), ~ m.cpu.pm, NEW tf, Become(Retire(m, tf))
  PROVE  Settled(machine')
<1>1. Settled(Retire(m, tf))
  BY RetireSettled
<1>2. QED
  BY <1>1, Becoming DEF Settled

\* What a guest's instruction finds, whoever waits.
LEMMA SettledParts ==
  ASSUME Settled(machine)
  PROVE  /\ machine \in Machines /\ machine.cpu.code \in Codes /\ machine.cpu.next \in Nexts
         /\ machine.stack \in Seq(FrameSet) /\ machine.hooked \subseteq Vectors
         /\ machine.keys \in Keys /\ machine.cpu \in CPU
         /\ machine.ghost \in [reads : SUBSET Begins, owed : SUBSET Debts]
BY Parts DEF Settled, Machines

\* INT n.
LEMMA IntSettled ==
  ASSUME Settled(machine), NEW n \in Vectors, IntN(n)
  PROVE  Settled(machine')
<1>1. PICK r \in IF n = "disk" THEN BOOLEAN ELSE {FALSE} :
        LET m == [machine EXCEPT !.cpu.next = IF AtStub(machine, n) THEN "iret" ELSE "any"]
            first == IF Blocks(m, n) THEN Begun(m) ELSE m
        IN  Become(Retire(HookedInterrupt(first, n, r), cpu.flags.tf))
  BY DEF IntN
<1>2. r \in BOOLEAN
  OBVIOUS
<1>3. /\ machine \in Machines /\ ~ machine.cpu.pm
      /\ machine.cpu.next = n \/ machine.cpu.next = "any"
  BY MachineParts, SettledParts DEF IntN, Running
<1> DEFINE x == IF AtStub(machine, n) THEN "iret" ELSE "any"
           m == [machine EXCEPT !.cpu.next = x]
           first == IF Blocks(m, n) THEN Begun(m) ELSE m
           w == HookedInterrupt(first, n, r)
<1>4. Become(Retire(w, cpu.flags.tf))
  BY <1>1
<1> HIDE DEF w
<1>5. /\ m \in Machines /\ m.cpu.code = machine.cpu.code /\ m.cpu.next = x
      /\ m.cpu.pm = machine.cpu.pm /\ m.stack = machine.stack
      /\ m.hooked = machine.hooked /\ m.ghost = machine.ghost
  <2>1. x \in Nexts
    BY DEF Nexts
  <2> HIDE DEF x
  <2>2. QED
    BY <1>3, <2>1, Parts DEF Machines, CPU
<1> HIDE DEF m
<1>6. /\ first \in Machines /\ first.cpu = m.cpu /\ first.stack = m.stack
      /\ first.hooked = m.hooked /\ first.ghost.owed = m.ghost.owed
  <2>1. CASE Blocks(m, n)
    <3> DEFINE rs == IF \E g \in m.ghost.reads : g.code = m.cpu.code THEN m.ghost.reads
                     ELSE m.ghost.reads \cup {[code |-> m.cpu.code, flags |-> m.cpu.flags]}
               h == [m.ghost EXCEPT !.reads = rs]
    <3>1. m.ghost \in [reads : SUBSET Begins, owed : SUBSET Debts]
      BY <1>5 DEF Machines
    <3>2. [code |-> m.cpu.code, flags |-> m.cpu.flags] \in Begins
      BY <1>5, Parts DEF Begins
    <3>3. rs \subseteq Begins
      BY <3>1, <3>2
    <3>4. Begun(m) = [m EXCEPT !.ghost.reads = rs]
      BY DEF Begun
    <3> HIDE DEF rs
    <3>5. h \in [reads : SUBSET Begins, owed : SUBSET Debts] /\ h.owed = m.ghost.owed
      BY <3>1, <3>3
    <3>6. first = [m EXCEPT !.ghost = h]
      BY <2>1, <3>4
    <3> HIDE DEF h, first
    <3>7. QED
      BY <1>5, <3>5, <3>6 DEF Machines
  <2>2. CASE ~ Blocks(m, n)
    BY <1>5, <2>2
  <2>3. QED
    BY <2>1, <2>2
<1> HIDE DEF first
<1>7. AtStub(first, n) <=> AtStub(machine, n)
  BY <1>5, <1>6 DEF AtStub
<1>8. Entering(first, n)
  <2>1. Installed(first)
    BY <1>5, <1>6 DEF Settled, Installed
  <2>2. ASSUME NEW g \in first.ghost.owed
        PROVE  /\ g.stub # "putc"
               /\ IF AtStub(first, n) THEN Answered(first.stack, g) ELSE Due(first, g)
    <3>1. g.stub # "putc" /\ Due(machine, g)
      BY <1>5, <1>6, <2>2 DEF Settled
    <3>2. ~ Pending(machine.cpu, g.stub)
      BY <1>3 DEF Pending, Vectors
    <3>3. Answered(first.stack, g)
      BY <1>5, <1>6, <3>1, <3>2, DueBelow
    <3>4. ~ AtStub(first, n) => ~ Pending(first.cpu, g.stub)
      BY <1>5, <1>6, <1>7 DEF Pending
    <3>5. QED
      BY <3>1, <3>3, <3>4, DueBelow
  <2>3. ~ first.cpu.pm
    BY <1>3, <1>5, <1>6
  <2>4. QED
    BY <1>5, <1>6, <1>7, <2>1, <2>2, <2>3 DEF Entering
<1>9. Settled(w) /\ ~ w.cpu.pm
  BY <1>2, <1>8, InterruptSettled DEF w
<1>10. QED
  BY <1>4, <1>9, RetiredSettled

\* A far call of a stub.
LEMMA FarCallSettled ==
  ASSUME Settled(machine), NEW n \in Vectors, FarCall(n)
  PROVE  Settled(machine')
<1> DEFINE s == <<Frame(machine)>> \o machine.stack
           w == [machine EXCEPT !.stack = <<Frame(machine)>> \o @,
                                !.cpu.code = Stub(n), !.cpu.next = n]
<1>1. /\ machine \in Machines /\ ~ machine.cpu.pm
      /\ machine.cpu.code = cpu.code /\ cpu.code \in Codes
      /\ machine.cpu.next = "any" /\ n \in Chains(cpu.code)
  BY SettledParts, MachineParts DEF FarCall, Running
<1>2. n \in Stubs /\ Stub(n) \in Codes
  BY <1>1, ChainsToStubs
<1>3. s \in Seq(FrameSet)
  BY <1>1, FrameType, PushFrame, Parts
<1>4. w = [machine EXCEPT !.stack = s, !.cpu.code = Stub(n), !.cpu.next = n]
  OBVIOUS
<1> HIDE DEF w, s
<1>5. /\ w \in Machines /\ w.stack = s /\ w.cpu.pm = machine.cpu.pm
      /\ w.cpu.code = Stub(n) /\ w.cpu.next = n
      /\ w.hooked = machine.hooked /\ w.ghost = machine.ghost
  <2>1. n \in Nexts
    BY <1>2 DEF Nexts
  <2>2. PICK c \in Codes, x \in Nexts : c = Stub(n) /\ x = n
    BY <1>2, <2>1
  <2>3. QED
    BY <1>1, <1>3, <1>4, <2>2, Parts DEF Machines, CPU
<1>6. w.cpu.code \in Filter => "putc" \in machine.hooked
  <2>1. SUFFICES ASSUME w.cpu.code \in Filter PROVE machine.cpu.code \in Filter
    BY DEF Settled, Installed
  <2>2. n = "putc"
    BY <1>5, <2>1 DEF Filter, Handler, Stub
  <2>3. QED
    BY <1>1, <2>2 DEF Chains, Filter, Handler, Program
<1>7. Settled(w)
  <2>1. w.cpu.next # "iret"
    BY <1>2, <1>5 DEF Stubs
  <2>2. QED
    BY <1>1, <1>5, <1>6, <2>1, PushedSettled DEF s
<1>8. Become(Retire(w, cpu.flags.tf))
  BY DEF FarCall, w
<1>9. QED
  BY <1>1, <1>5, <1>7, <1>8, RetiredSettled

\* Answers that an IRET gives out are seen by the code it returns to.
AnswersSeen ==
  \A g \in ghost.owed \ ghost'.owed : FlagsAfter(Head(stack).code).res = g.res

\* An IRET gives the result a stub owes to its caller.
LEMMA IretSettled ==
  ASSUME Settled(machine), Iret
  PROVE  Settled(machine') /\ AnswersSeen
<1> DEFINE f == Head(machine.stack)
           t == Tail(machine.stack)
           os == {g \in machine.ghost.owed : Stub(g.stub) # machine.cpu.code}
           h == [machine.ghost EXCEPT !.owed = os]
           c == [machine.cpu EXCEPT !.code = f.code, !.next = f.next, !.flags = f.flags]
           w == [machine EXCEPT !.stack = t, !.cpu.code = f.code, !.cpu.next = f.next,
                                !.cpu.flags = f.flags, !.ghost.owed = os]
<1>1. /\ machine \in Machines /\ ~ machine.cpu.pm /\ machine.stack # <<>>
      /\ machine.cpu.next = "iret" \/ machine.cpu.code[1] = "handler"
  BY SettledParts, MachineParts DEF Iret, Running, Owner
<1>2. /\ f \in FrameSet /\ t \in Seq(FrameSet) /\ f.code \in Codes /\ f.next \in Nexts
      /\ f.flags \in Flags /\ f = machine.stack[1]
  BY <1>1, Parts, PopFrame DEF FrameSet
<1>3. Become(Retire(w, cpu.flags.tf))
  BY MachineParts DEF Iret
<1>4. os \subseteq Debts /\ machine.ghost \in [reads : SUBSET Begins, owed : SUBSET Debts]
  BY <1>1 DEF Machines
<1>5. w = [machine EXCEPT !.stack = t, !.cpu = c, !.ghost = h]
  OBVIOUS
<1>6. /\ h \in [reads : SUBSET Begins, owed : SUBSET Debts] /\ h.owed = os
      /\ c \in CPU /\ c.pm = machine.cpu.pm /\ c.code = f.code /\ c.next = f.next
      /\ c.flags = f.flags
  <2> HIDE DEF os
  <2>1. h \in [reads : SUBSET Begins, owed : SUBSET Debts] /\ h.owed = os
    BY <1>4
  <2> HIDE DEF h, f
  <2>2. c \in CPU /\ c.pm = machine.cpu.pm /\ c.code = f.code /\ c.next = f.next
        /\ c.flags = f.flags
    BY <1>1, <1>2, Parts DEF CPU
  <2>3. QED
    BY <2>1, <2>2
<1> HIDE DEF w, h, c
<1>7. /\ w \in Machines /\ w.stack = t /\ w.cpu = c
      /\ w.hooked = machine.hooked /\ w.ghost.owed = os
  <2> HIDE DEF t, f, os
  <2>1. QED
    BY <1>1, <1>2, <1>5, <1>6 DEF Machines
<1>8. Settled(w) /\ ~ w.cpu.pm
  BY <1>1, <1>6, <1>7, PoppedSettled
<1> DEFINE v == Retire(w, cpu.flags.tf)
<1>9. /\ Settled(v) /\ v.ghost.owed = w.ghost.owed
      /\ IF v.cpu.code = w.cpu.code THEN v.cpu.flags.res = w.cpu.flags.res
                                    ELSE Head(v.stack).flags.res = w.cpu.flags.res
  BY <1>8, RetireSettled
<1>10. Become(v)
  BY <1>3
<1> HIDE DEF v
<1>11. /\ machine' = v /\ cpu' = v.cpu /\ stack' = v.stack /\ ghost' = v.ghost
  BY <1>9, <1>10, Becoming DEF Settled, Become
<1>12. FlagsAfter(f.code).res = f.flags.res
  BY <1>6, <1>7, <1>9, <1>11 DEF FlagsAfter
<1>13. ASSUME NEW g \in ghost.owed \ ghost'.owed PROVE f.flags.res = g.res
  <2>1. g \in machine.ghost.owed /\ Stub(g.stub) = machine.cpu.code
    BY <1>7, <1>9, <1>11, <1>13, MachineParts
  <2>2. machine.cpu.code[1] = "stub"
    BY <2>1 DEF Stub
  <2>3. Pending(machine.cpu, g.stub)
    BY <1>1, <2>1, <2>2 DEF Pending
  <2>4. Due(machine, g)
    BY <2>1 DEF Settled
  <2>5. QED
    BY <1>1, <1>2, <2>3, <2>4 DEF Due
<1>14. QED
  BY <1>9, <1>11, <1>12, <1>13, MachineParts DEF AnswersSeen

\* Flags and keys owe nobody anything.
LEMMA SetIFSettled ==
  ASSUME Settled(machine), NEW on \in BOOLEAN, SetIF(on)
  PROVE  Settled(machine')
<1> DEFINE w == [machine EXCEPT !.cpu.flags.iff = on]
<1>1. machine \in Machines /\ ~ machine.cpu.pm
  BY SettledParts, MachineParts DEF SetIF, Running
<1>2. /\ w \in Machines /\ w.cpu.code = machine.cpu.code /\ w.cpu.next = machine.cpu.next
      /\ ~ w.cpu.pm /\ w.stack = machine.stack /\ w.hooked = machine.hooked
      /\ w.ghost = machine.ghost
  BY <1>1, Parts DEF Machines, CPU, Flags
<1>3. Become(Retire(w, cpu.flags.tf))
  BY DEF SetIF
<1> HIDE DEF w
<1>4. Settled(w)
  BY <1>2, SameSettled
<1>5. QED
  BY <1>2, <1>3, <1>4, RetiredSettled

\* A handler reads the keyboard port.
LEMMA ReadPortSettled ==
  ASSUME Settled(machine), ReadPort
  PROVE  Settled(machine')
<1> DEFINE line == IF machine.keys.line = 0 THEN 0 ELSE machine.keys.line - 1
           w == [machine EXCEPT !.keys.line = line, !.keys.serving = FALSE]
<1>1. machine \in Machines /\ ~ machine.cpu.pm
  BY SettledParts, MachineParts DEF ReadPort, Running
<1>2. line \in Nat
  BY <1>1, Parts DEF Keys
<1>3. Become(Retire(w, cpu.flags.tf))
  BY DEF ReadPort
<1> HIDE DEF line
<1>4. /\ w \in Machines /\ w.cpu = machine.cpu /\ w.stack = machine.stack
      /\ w.hooked = machine.hooked /\ w.ghost = machine.ghost
  BY <1>1, <1>2, Parts DEF Machines, Keys
<1> HIDE DEF w
<1>5. Settled(w) /\ ~ w.cpu.pm
  BY <1>1, <1>4, SameSettled
<1>6. QED
  BY <1>3, <1>5, RetiredSettled

\* A guest's instruction settles debts, and its IRET shows the answers.
LEMMA ExecuteSettled ==
  ASSUME Settled(machine), Execute
  PROVE  Settled(machine')
BY IntSettled, FarCallSettled, IretSettled, ReadPortSettled, SetIFSettled DEF Execute

---------------------------------------------------------------------------
(* The world around the guest, again.                                      *)

\* Tracing and typing owe nobody anything either.
LEMMA TraceSettled ==
  ASSUME Settled(machine), Trace \/ TypeKey
  PROVE  Settled(machine')
<1>1. machine \in Machines
  BY SettledParts
<1>2. CASE Trace
  <2> DEFINE w == [machine EXCEPT !.cpu.flags.tf = TRUE]
  <2>1. /\ w \in Machines /\ w.cpu.code = machine.cpu.code /\ w.cpu.next = machine.cpu.next
        /\ w.cpu.pm = machine.cpu.pm /\ w.stack = machine.stack /\ w.hooked = machine.hooked
        /\ w.ghost = machine.ghost
    BY <1>1, Parts DEF Machines, CPU, Flags
  <2>2. Become(w) /\ ~ machine.cpu.pm
    BY <1>2, MachineParts DEF Trace, Running
  <2> HIDE DEF w
  <2>3. Settled(w)
    BY <2>1, <2>2, SameSettled
  <2>4. QED
    BY <2>1, <2>2, <2>3, Becoming
<1>3. CASE TypeKey
  <2> DEFINE w == [machine EXCEPT !.keys.line = @ + 1]
  <2>1. /\ w \in Machines /\ w.cpu = machine.cpu /\ w.stack = machine.stack
        /\ w.hooked = machine.hooked /\ w.ghost = machine.ghost
    BY <1>1, Parts, SMTT(60) DEF Machines, Keys
  <2>2. Become(w)
    BY <1>3 DEF TypeKey
  <2> HIDE DEF w
  <2>3. Settled(w)
    <3>1. Installed(w)
      BY <2>1 DEF Settled, Installed
    <3>2. \A g \in w.ghost.owed : g.stub # "putc" /\ Due(w, g)
      BY <2>1, DueAlike DEF Settled
    <3>3. QED
      BY <2>1, <3>1, <3>2 DEF Settled
  <2>4. QED
    BY <2>1, <2>2, <2>3, Becoming
<1>4. QED
  BY <1>2, <1>3

\* A guest takes over its vectors before any of its handlers runs.
LEMMA SetVectorsSettled ==
  ASSUME Settled(machine), NEW set \in Installs, SetVectors(set)
  PROVE  Settled(machine')
<1> DEFINE w == [machine EXCEPT !.hooked = set]
<1>1. machine \in Machines /\ set \subseteq Vectors
  BY InstallsAssumption, SettledParts DEF Vectors
<1>2. /\ machine.stack = <<>> /\ machine.cpu.next = "any" /\ machine.cpu.code = Program
      /\ ~ machine.cpu.pm
  BY MachineParts DEF SetVectors, Running
<1>3. /\ w \in Machines /\ w.cpu = machine.cpu /\ w.stack = <<>> /\ w.ghost = machine.ghost
  BY <1>1, <1>2 DEF Machines
<1>4. Become(w)
  BY DEF SetVectors
<1> HIDE DEF w
<1>5. Settled(w)
  <2>1. Program \notin Filter
    BY DEF Program, Filter, Handler, Stub
  <2>2. \A g \in w.ghost.owed : g.stub # "putc"
    BY <1>3 DEF Settled
  <2>3. QED
    BY <1>2, <1>3, <2>1, <2>2, EmptySettled
<1>6. QED
  BY <1>3, <1>4, <1>5, Becoming

\* A hardware interrupt returns, or leaves a handler on top of what ran.
LEMMA CheckIrqSettled ==
  ASSUME Settled(machine), NEW irq \in {"timer", "key"}, CheckIrq(irq)
  PROVE  Settled(machine')
<1> DEFINE e == Enter(machine)
           n == IF irq = "key" THEN "key" ELSE "tick"
           held == IF irq = "key" THEN [e EXCEPT !.keys.serving = TRUE] ELSE e
           d == DispatchHardware(e, irq)
           w == IF d.cpu.latch THEN d ELSE FinishReturn(d, cpu.flags)
<1>1. machine \in Machines /\ ~ machine.cpu.pm /\ cpu.flags \in Flags
  BY MachineParts, SettledParts, Parts DEF CheckIrq
<1>2. /\ e \in Machines /\ e.stack = <<Frame(machine)>> \o machine.stack /\ ~ e.cpu.latch
      /\ e.cpu.pm = machine.cpu.pm /\ e.hooked = machine.hooked /\ e.ghost = machine.ghost
  BY <1>1, EnterShape
<1>3. Become(w)
  BY DEF CheckIrq
<1>4. d = IF n \in held.hooked THEN Transfer(held, Handler(n))
          ELSE IF irq = "key" THEN Irq1Keyboard(held) ELSE held
  <2>1. n \in e.hooked <=> n \in held.hooked
    BY <1>2 DEF Machines
  <2>2. QED
    BY <2>1 DEF DispatchHardware
<1> HIDE DEF e, d
<1>5. /\ held \in Machines /\ held.stack = e.stack /\ held.hooked = e.hooked
      /\ held.ghost = e.ghost /\ held.cpu = e.cpu
  BY <1>2, Parts DEF Machines, Keys
<1>6. n \in {"key", "tick"} /\ Handler(n) \in Codes /\ Handler(n) \notin Filter
  BY CodesApart DEF Vectors, Filter, Handler, Stub
<1>7. PICK f \in FrameSet :
        f = Frame(machine) /\ f.code = machine.cpu.code /\ f.next = machine.cpu.next
  BY <1>1, FrameType
<1> HIDE DEF held, n
<1>8. CASE n \in held.hooked
  <2>1. /\ d \in Machines /\ d.cpu.code = Handler(n) /\ d.cpu.next = "any" /\ d.cpu.latch
        /\ d.cpu.pm = held.cpu.pm /\ d.stack = held.stack /\ d.hooked = held.hooked
        /\ d.ghost = held.ghost
    BY <1>4, <1>5, <1>6, <1>8, TransferShape
  <2>2. Settled(d)
    BY <1>1, <1>2, <1>5, <1>6, <2>1, PushedSettled
  <2>3. QED
    BY <1>3, <2>1, <2>2, Becoming
<1>9. CASE n \notin held.hooked
  <2>1. d = IF irq = "key" THEN Irq1Keyboard(held) ELSE held
    BY <1>4, <1>9
  <2>2. /\ d \in Machines /\ d.cpu = held.cpu /\ d.stack = held.stack
        /\ d.hooked = held.hooked /\ d.ghost = held.ghost
    BY <1>5, <2>1, Irq1Shape
  <2>3. machine.stack \in Seq(FrameSet) /\ d.stack = <<f>> \o machine.stack /\ ~ d.cpu.latch
    BY <1>1, <1>2, <1>5, <1>7, <2>2, Parts
  <2> DEFINE x == FinishReturn(d, cpu.flags)
  <2>4. /\ x \in Machines /\ x.stack = machine.stack /\ x.cpu.pm = d.cpu.pm
        /\ x.cpu.code = f.code /\ x.cpu.next = f.next
        /\ x.hooked = d.hooked /\ x.ghost = d.ghost
    BY <1>1, <2>2, <2>3, FinishShape, ZenonT(60)
  <2>5. Become(x)
    BY <1>3, <2>3
  <2> HIDE DEF x
  <2>6. Settled(x)
    BY <1>1, <1>2, <1>5, <1>7, <2>2, <2>4, SameSettled
  <2>7. QED
    BY <2>4, <2>5, <2>6, Becoming
<1>10. QED
  BY <1>8, <1>9

\* The program and its client in protected mode have no frames.
LEMMA ModesSettled ==
  ASSUME Settled(machine), EnterProtected \/ LeaveProtected
  PROVE  Settled(machine')
<1>1. machine \in Machines /\ \A g \in machine.ghost.owed : g.stub # "putc"
  BY DEF Settled
<1>2. machine.stack = <<>> /\ machine.cpu.next = "any"
  BY MachineParts DEF EnterProtected, LeaveProtected, Settled, Clients
<1>3. Client \notin Filter /\ Program \notin Filter
  BY DEF Client, Program, Filter, Handler, Stub
<1>4. CASE EnterProtected
  <2> DEFINE w == [machine EXCEPT !.cpu.pm = TRUE, !.cpu.code = Client,
                                  !.cpu.flags.iff = FALSE, !.cpu.flags.tf = FALSE]
  <2>1. /\ w \in Machines /\ w.ghost = machine.ghost
        /\ w.stack = machine.stack /\ w.cpu.next = machine.cpu.next /\ w.cpu.code = Client
    BY <1>1, CodesApart, Parts, ZenonT(60) DEF Machines, CPU, Flags
  <2>2. Become(w)
    BY <1>4 DEF EnterProtected
  <2> HIDE DEF w
  <2>3. Settled(w)
    BY <1>1, <1>2, <1>3, <2>1, EmptySettled
  <2>4. QED
    BY <2>1, <2>2, <2>3, Becoming
<1>5. CASE LeaveProtected
  <2> DEFINE w == [machine EXCEPT !.cpu.pm = FALSE, !.cpu.code = Program]
  <2>1. /\ w \in Machines /\ w.ghost = machine.ghost /\ ~ w.cpu.pm
        /\ w.stack = machine.stack /\ w.cpu.next = machine.cpu.next /\ w.cpu.code = Program
    BY <1>1, CodesApart, Parts DEF Machines, CPU
  <2>2. Become(w)
    BY <1>5 DEF LeaveProtected
  <2> HIDE DEF w
  <2>3. Settled(w)
    BY <1>1, <1>2, <1>3, <2>1, EmptySettled
  <2>4. QED
    BY <2>1, <2>2, <2>3, Becoming
<1>6. QED
  BY <1>4, <1>5

\* A bridge starts DOS on a stack of its own.
LEMMA OpenBridgeSettled ==
  ASSUME Settled(machine), resets \in Nat, OpenBridge
  PROVE  Settled(machine')
<1> DEFINE b == [open |-> TRUE, since |-> resets, cpu |-> cpu, stack |-> stack]
           s == <<Frame(machine)>>
           w == Bridged(machine, b, s)
<1>1. /\ machine \in Machines /\ machine.cpu \in Clients /\ machine.stack = <<>>
      /\ cpu = machine.cpu /\ stack = machine.stack
  BY MachineParts DEF OpenBridge, Settled
<1>2. b \in Bridges
  BY <1>1 DEF Bridges
<1>3. PICK f \in FrameSet : f = Frame(machine) /\ f.code = machine.cpu.code
  BY <1>1, FrameType
<1>4. s \in Seq(FrameSet) /\ s = <<Frame(machine)>> \o machine.stack
  BY <1>1, <1>3
<1>5. Become(w)
  BY DEF OpenBridge, Bridged
<1> HIDE DEF b, s
<1>6. /\ w \in Machines /\ w.stack = s /\ w.cpu.code = Handler("dos")
      /\ w.cpu.next = "any" /\ ~ w.cpu.pm /\ w.ghost = machine.ghost /\ w.hooked = machine.hooked
  BY <1>1, <1>2, <1>4, BridgeShape
<1> HIDE DEF w
<1>7. Handler("dos") \notin Filter
  BY DEF Filter, Handler, Stub
<1>8. Settled(w)
  BY <1>4, <1>6, <1>7, PushedSettled
<1>9. QED
  BY <1>5, <1>6, <1>8, Becoming

\* The end of a bridge, by a return or by exhaustion, drops the frames of DOS.
LEMMA CloseBridgeSettled ==
  ASSUME Settled(machine), BridgeReturn \/ BridgeExhausted
  PROVE  Settled(machine')
<1> DEFINE x == Restored(machine)
           fl == [machine.bridge.cpu.flags EXCEPT !.res = TRUE]
           w == [x EXCEPT !.cpu.flags = fl]
<1>1. /\ machine \in Machines /\ machine.bridge.open
      /\ \A g \in machine.ghost.owed : g.stub # "putc"
  BY MachineParts DEF BridgeReturn, BridgeExhausted, Settled
<1>2. fl \in Flags
  <2>1. machine.bridge \in Bridges
    BY <1>1 DEF Machines, NoBridge
  <2>2. machine.bridge.cpu.flags \in Flags
    BY <2>1 DEF Bridges, Clients, CPU
  <2>3. QED
    BY <2>2 DEF Flags
<1>3. /\ x \in Machines /\ x.stack = <<>> /\ x.cpu.next = "any" /\ x.cpu.code = Client
      /\ x.ghost = machine.ghost
  BY <1>1, RestoredShape
<1>4. Become(x) \/ Become(w)
  BY MachineParts DEF BridgeReturn, BridgeExhausted
<1> HIDE DEF x, fl
<1>5. /\ w \in Machines /\ w.stack = x.stack /\ w.cpu.next = "any" /\ w.cpu.code = Client
      /\ w.ghost = x.ghost
  BY <1>2, <1>3, Parts DEF Machines, CPU
<1> HIDE DEF w
<1>6. Client \notin Filter
  BY DEF Client, Filter, Handler, Stub
<1>7. Settled(x) /\ Settled(w)
  BY <1>1, <1>3, <1>5, <1>6, EmptySettled
<1>8. QED
  BY <1>3, <1>4, <1>5, <1>7, Becoming

\* A reset cancels every debt.
LEMMA ResetsSettled ==
  ASSUME Settled(machine), WarmReset \/ TripleFault \/ WindowReset
  PROVE  Settled(machine')
<1> DEFINE x == RealModeReset(machine)
           c == [x.cpu EXCEPT !.code = Program, !.next = "any"]
           w == AtStart(x)
           k == [w.keys EXCEPT !.line = 0, !.buf = 0, !.serving = FALSE]
           v == ColdReset(machine)
<1>1. machine \in Machines
  BY DEF Settled
<1>2. /\ x \in Machines /\ ~ x.cpu.pm /\ x.stack = machine.stack
      /\ x.cpu.next = machine.cpu.next
  BY <1>1, ResetShape
<1>3. x.ghost.owed = {} /\ x.cpu.code = machine.cpu.code /\ x.hooked = machine.hooked
  BY <1>1 DEF RealModeReset, Machines, CPU
<1>4. v = [w EXCEPT !.hooked = {}, !.keys = k]
  BY DEF ColdReset
<1>5. \/ ~ machine.cpu.pm /\ Become(x)
      \/ Become(w)
      \/ Become(v)
  BY MachineParts DEF WarmReset, TripleFault, WindowReset
<1> HIDE DEF x, v
<1>6. w = [x EXCEPT !.cpu = c, !.stack = <<>>]
  BY <1>2 DEF AtStart, Machines
<1>7. c \in CPU /\ c.next = "any" /\ ~ c.pm /\ c.code = Program
  BY <1>2, CodesApart, Parts DEF CPU, Nexts
<1> HIDE DEF c, w
<1>8. /\ w \in Machines /\ w.cpu = c /\ w.stack = <<>> /\ w.ghost = x.ghost
  <2>1. <<>> \in Seq(FrameSet)
    OBVIOUS
  <2>2. QED
    BY <1>2, <1>6, <1>7, <2>1 DEF Machines
<1>9. k \in Keys
  BY <1>8, Parts DEF Keys
<1> HIDE DEF k
<1>10. v \in Machines /\ v.cpu = c /\ v.stack = <<>> /\ v.ghost = x.ghost
  BY <1>4, <1>8, <1>9 DEF Machines
<1>11. Program \notin Filter
  BY DEF Program, Filter, Handler, Stub
<1>12. Settled(w) /\ Settled(v)
  BY <1>3, <1>7, <1>8, <1>10, <1>11, EmptySettled
<1>13. ~ machine.cpu.pm => Settled(x)
  BY <1>2, <1>3, SameSettled
<1>14. QED
  BY <1>2, <1>5, <1>8, <1>10, <1>12, <1>13, Becoming

---------------------------------------------------------------------------
(* Every behaviour, whoever waits.                                         *)

\* What is true between any two steps of the loop.
Honest == Settled(machine) /\ resets \in Nat

\* A session starts without debts.
LEMMA InitHonest ==
  ASSUME Init
  PROVE  Honest
<1>1. Kept
  BY InitKept
<1>2. /\ machine \in Machines /\ machine.stack = <<>> /\ machine.cpu.next = "any"
      /\ ~ machine.cpu.pm /\ machine.cpu.code = Program /\ machine.ghost.owed = {}
  BY <1>1, MachineParts DEF Kept, Guarded, Init
<1>3. Program \notin Filter
  BY DEF Program, Filter, Handler, Stub
<1>4. QED
  BY <1>1, <1>2, <1>3, EmptySettled DEF Honest, Kept

\* Every step settles its debts.
LEMMA NextHonest ==
  ASSUME Honest, [Next]_vars
  PROVE  Honest'
<1>1. CASE UNCHANGED vars
  BY <1>1 DEF Honest, Settled, Installed, Due, vars, machine
<1>2. CASE Next
  <2>1. Settled(machine')
    BY <1>2, ExecuteSettled, TraceSettled, SetVectorsSettled, CheckIrqSettled, ModesSettled,
       OpenBridgeSettled, CloseBridgeSettled, ResetsSettled
    DEF Next, Honest
  <2>2. resets' \in Nat
    BY <1>2, ResetsCounted DEF Honest
  <2>3. QED
    BY <2>1, <2>2 DEF Honest
<1>3. QED
  BY <1>1, <1>2

\* What a service answers in the flags is what the caller of its ROM stub sees
\* after the stub's IRET, for any guest: interrupt handlers may wait for keys
\* too, stubs nest and are interrupted, bridges are cut short and resets leave
\* frames behind.
THEOREM AnswersReachCallers == Spec => ChainedResult
<1>1. Init => Honest
  BY InitHonest
<1>2. Honest /\ [Next]_vars => Honest'
  BY NextHonest
<1>3. Honest /\ [Next]_vars =>
        [Iret => \A g \in ghost.owed \ ghost'.owed :
                   FlagsAfter(Head(stack).code).res = g.res]_vars
  BY IretSettled DEF Honest, AnswersSeen
<1>4. QED
  BY <1>1, <1>2, <1>3, PTL DEF Spec, ChainedResult
=============================================================================
