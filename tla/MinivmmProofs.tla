--------------------------- MODULE MinivmmProofs ----------------------------
(***************************************************************************)
(* Proofs about the program minivmm and its serial port.                   *)
(*                                                                         *)
(* Minivmm (boot, memory layout, run loop and signals), for every command  *)
(* line of Configurations.                                                 *)
(*                                                                         *)
(* Serial16550 (the 16550A), for every ring size, buffer size and amount of*)
(* input: the interrupt line is truthful, an overrun is always on record,  *)
(* and the receive ring implements ByteChannel.                            *)
(***************************************************************************)
EXTENDS Minivmm, Serial16550, SequenceTheorems, TLAPS

-----------------------------------------------------------------------------
(* Minivmm: the invariant.                                                 *)

\* The calls that main() is made of.
Names ==
  {"create_vm", "irqchip", "pit", "memory", "blob", "gdt", "disk", "eventfds",
   "kernel", "cmdline", "initrd", "mptable", "vfio", "create_vcpu", "cpuid",
   "sregs", "regs", "mp_state", "signal", "termios_raw", "threads"}

\* Ranges of guest memory.
Regions == [from : Nat, len : Nat]

\* The types of the variables.
MvTypeOK ==
  /\ conf \in Configurations
  /\ pc \in {"setup", "loop", "enter", "guest", "exit", "eintr", "leave", "ended"}
  /\ todo \in Seq(Names) /\ memory \in Seq(Regions)
  /\ zero_page \in [code32_start : Nat, ramdisk_image : Nat, e820_table : SUBSET Regions]
  /\ DOMAIN vcpu = {"cpuid", "gdt", "tr", "rip", "rsi"}
  /\ handlers \in BOOLEAN /\ raw \in BOOLEAN /\ running \in BOOLEAN
  /\ missed \in BOOLEAN /\ late \in 0..2

\* No element is there twice.
Distinct(s) == \A i, j \in 1..Len(s) : s[i] = s[j] => i = j

\* What main() has still to call, and what it has called.
Order ==
  /\ pc \notin {"setup", "ended"} => todo = <<>>
  /\ Distinct(todo)
  /\ ToSet(todo) \subseteq ToSet(Calls(conf))
  /\ \A i, j \in 1..Len(todo) : todo[i] = "signal" /\ todo[j] = "termios_raw" => i < j
  /\ "signal" \notin ToSet(todo) => handlers

\* The calls of main() that have been made.
Made == ToSet(Calls(conf)) \ ToSet(todo)

\* Memory holds what the calls made so far have written, nothing over anything but
\* an initramfs over an old kernel.
Written ==
  /\ \A call \in Made : Fails(call) = "no"
  /\ \A i \in 1..Len(memory) : \E call \in Made : memory[i] \in ToSet(Writes(call))
  /\ \A call \in Made : ToSet(Writes(call)) \subseteq ToSet(memory)
  /\ \A i, j \in 1..Len(memory) :
       i # j => \/ Apart(memory[i], memory[j])
                \/ InitrdOverOldKernel(memory[i], memory[j])

\* What the calls made so far have said about it.
Told ==
  /\ "kernel" \in Made => zero_page.code32_start = LoadAddr % FourGB
  /\ "initrd" \in Made =>
       /\ zero_page.ramdisk_image = Initrd.from % FourGB
       /\ zero_page.e820_table = {Region(0, 2556), Region(MB, conf.mem - MB)}
  /\ "sregs" \in Made => vcpu.gdt = Gdt /\ vcpu.tr = Tss
  /\ "regs" \in Made => vcpu.rip = Entry /\ vcpu.rsi = ZeroPage.from

\* The terminal is raw only under handlers that can end the loop.
Restorable == (raw => handlers) /\ TerminalRestored

\* The stop flag, and how many entries it has let through.
Stopping ==
  /\ pc = "enter" => running \/ (missed /\ late = 0)
  /\ late # 0 => late = 1 /\ missed /\ ~running /\ pc \notin {"setup", "enter"}

\* The inductive invariant of main() and its run loop.
MvInv ==
  /\ MvTypeOK /\ Order /\ Told /\ Restorable /\ Stopping
  /\ Granted => Written

-----------------------------------------------------------------------------
\* The elements of a sequence.
LEMMA ToSetIs == ASSUME NEW S, NEW s \in Seq(S) PROVE ToSet(s) = {s[i] : i \in 1..Len(s)}
BY DEF ToSet

\* Two lists with no element in common make one without repetition.
LEMMA Joined ==
  ASSUME NEW S, NEW s \in Seq(S), NEW t \in Seq(S)
  PROVE  /\ s \o t \in Seq(S) /\ Len(s \o t) = Len(s) + Len(t)
         /\ ToSet(s \o t) = ToSet(s) \cup ToSet(t)
         /\ Distinct(s) /\ Distinct(t) /\ ToSet(s) \cap ToSet(t) = {} => Distinct(s \o t)
<1>1. /\ s \o t \in Seq(S) /\ Len(s \o t) = Len(s) + Len(t)
      /\ \A i \in 1..(Len(s) + Len(t)) :
           (s \o t)[i] = IF i <= Len(s) THEN s[i] ELSE t[i - Len(s)]
  BY ConcatProperties
<1>2. ToSet(s \o t) = ToSet(s) \cup ToSet(t)
  <2>1. ASSUME NEW i \in 1..Len(s \o t) PROVE (s \o t)[i] \in ToSet(s) \cup ToSet(t)
    <3>1. CASE i <= Len(s)
      BY <1>1, <3>1, ToSetIs
    <3>2. CASE i > Len(s)
      <4>1. i - Len(s) \in 1..Len(t)
        BY <1>1, <3>2
      <4> QED
        BY <1>1, <3>2, <4>1, ToSetIs
    <3> QED
      BY <1>1, <3>1, <3>2
  <2>2. ASSUME NEW i \in 1..Len(s) PROVE s[i] \in ToSet(s \o t)
    <3>1. i \in 1..Len(s \o t) /\ (s \o t)[i] = s[i]
      BY <1>1
    <3> QED
      BY <1>1, <3>1, ToSetIs
  <2>3. ASSUME NEW i \in 1..Len(t) PROVE t[i] \in ToSet(s \o t)
    <3>1. Len(s) + i \in 1..Len(s \o t) /\ (s \o t)[Len(s) + i] = t[i]
      BY <1>1
    <3> QED
      BY <1>1, <3>1, ToSetIs
  <2>4. /\ ToSet(s \o t) = {(s \o t)[i] : i \in 1..Len(s \o t)}
        /\ ToSet(s) = {s[i] : i \in 1..Len(s)} /\ ToSet(t) = {t[i] : i \in 1..Len(t)}
    BY <1>1, ToSetIs
  <2> QED
    BY <2>1, <2>2, <2>3, <2>4
<1>3. ASSUME Distinct(s), Distinct(t), ToSet(s) \cap ToSet(t) = {} PROVE Distinct(s \o t)
  <2> SUFFICES ASSUME NEW i \in 1..Len(s \o t), NEW j \in 1..Len(s \o t), i < j,
                      (s \o t)[i] = (s \o t)[j]
               PROVE  FALSE
    BY <1>1 DEF Distinct
  <2>1. CASE j <= Len(s)
    BY <1>1, <1>3, <2>1 DEF Distinct
  <2>2. CASE i > Len(s)
    <3>1. /\ i - Len(s) \in 1..Len(t) /\ j - Len(s) \in 1..Len(t)
          /\ (s \o t)[i] = t[i - Len(s)] /\ (s \o t)[j] = t[j - Len(s)]
      BY <1>1, <2>2
    <3>2. t[i - Len(s)] = t[j - Len(s)]
      BY <3>1
    <3>3. i - Len(s) = j - Len(s)
      BY <1>3, <3>1, <3>2 DEF Distinct
    <3> QED
      BY <1>1, <3>3
  <2>3. CASE i <= Len(s) /\ j > Len(s)
    <3>1. /\ i \in 1..Len(s) /\ j - Len(s) \in 1..Len(t)
          /\ (s \o t)[i] = s[i] /\ (s \o t)[j] = t[j - Len(s)]
      BY <1>1, <2>3
    <3>2. s[i] \in ToSet(s) /\ t[j - Len(s)] \in ToSet(t)
      BY <3>1, ToSetIs
    <3> QED
      BY <1>3, <3>1, <3>2
  <2> QED
    BY <1>1, <2>1, <2>2, <2>3
<1> QED
  BY <1>1, <1>2, <1>3

\* The same, of lists of calls.
LEMMA JoinedCalls ==
  ASSUME NEW s \in Seq(Names), NEW t \in Seq(Names), Distinct(s), Distinct(t),
         ToSet(s) \cap ToSet(t) = {}
  PROVE  /\ s \o t \in Seq(Names) /\ Distinct(s \o t) /\ Len(s \o t) = Len(s) + Len(t)
         /\ ToSet(s \o t) = ToSet(s) \cup ToSet(t)
BY Joined

\* A list of one call.
LEMMA One == ASSUME NEW S, NEW a \in S
             PROVE  <<a>> \in Seq(S) /\ ToSet(<<a>>) = {a} /\ Distinct(<<a>>)
BY DEF ToSet, Distinct

\* A list of two calls.
LEMMA Pair == ASSUME NEW S, NEW a \in S, NEW b \in S
              PROVE  /\ <<a, b>> \in Seq(S) /\ ToSet(<<a, b>>) = {a, b}
                     /\ a # b => Distinct(<<a, b>>)
BY DEF ToSet, Distinct

\* The parts of main(): which calls they are made of.
Loads == <<"kernel", "cmdline", "initrd", "gdt">>

\* The lists that Calls() is made of, and the calls in each.
LEMMA Parts ==
  /\ VmSetup \in Seq(Names) /\ Distinct(VmSetup)
  /\ ToSet(VmSetup) = {"create_vm", "irqchip", "pit", "memory"}
  /\ VcpuSetup \in Seq(Names) /\ Distinct(VcpuSetup)
  /\ ToSet(VcpuSetup) = {"create_vcpu", "cpuid", "sregs", "regs", "mp_state"}
  /\ Start \in Seq(Names) /\ Distinct(Start) /\ Len(Start) = 3
  /\ Start[1] = "signal" /\ Start[2] = "termios_raw" /\ Start[3] = "threads"
  /\ ToSet(Start) = {"signal", "termios_raw", "threads"}
  /\ Loads \in Seq(Names) /\ Distinct(Loads)
  /\ ToSet(Loads) = {"kernel", "cmdline", "initrd", "gdt"}
<1>1. VmSetup \in Seq(Names) /\ Distinct(VmSetup)
  BY DEF VmSetup, Distinct, Names
<1>2. ToSet(VmSetup) = {"create_vm", "irqchip", "pit", "memory"}
  BY DEF VmSetup, ToSet
<1>3. VcpuSetup \in Seq(Names) /\ Distinct(VcpuSetup)
  BY DEF VcpuSetup, Distinct, Names
<1>4. ToSet(VcpuSetup) = {"create_vcpu", "cpuid", "sregs", "regs", "mp_state"}
  BY DEF VcpuSetup, ToSet
<1>5. /\ Start \in Seq(Names) /\ Distinct(Start) /\ Len(Start) = 3
      /\ Start[1] = "signal" /\ Start[2] = "termios_raw" /\ Start[3] = "threads"
  BY DEF Start, Distinct, Names
<1>6. ToSet(Start) = {"signal", "termios_raw", "threads"}
  BY DEF Start, ToSet
<1>7. Loads \in Seq(Names) /\ Distinct(Loads)
  BY DEF Loads, Distinct, Names
<1>8. ToSet(Loads) = {"kernel", "cmdline", "initrd", "gdt"}
  BY DEF Loads, ToSet
<1> QED
  BY <1>1, <1>2, <1>3, <1>4, <1>5, <1>6, <1>7, <1>8

\* One call is made: the others stay to be made, in their order.
LEMMA OneLess ==
  ASSUME NEW S, NEW s \in Seq(S), s # <<>>
  PROVE  /\ Head(s) \in S /\ Head(s) = s[1] /\ Len(s) \in Nat \ {0}
         /\ Tail(s) \in Seq(S) /\ Len(Tail(s)) = Len(s) - 1
         /\ \A i \in 1..Len(Tail(s)) : Tail(s)[i] = s[i + 1]
         /\ ToSet(s) = {Head(s)} \cup ToSet(Tail(s))
         /\ Distinct(s) => Distinct(Tail(s)) /\ Head(s) \notin ToSet(Tail(s))
<1>1. /\ Head(s) = s[1] /\ Len(s) \in Nat \ {0} /\ Head(s) \in S
      /\ Tail(s) \in Seq(S) /\ Len(Tail(s)) = Len(s) - 1
      /\ \A i \in 1..Len(Tail(s)) : Tail(s)[i] = s[i + 1]
  BY HeadTailProperties, EmptySeq, ElementOfSeq
<1>2. ToSet(s) = {s[i] : i \in 1..Len(s)} /\ ToSet(Tail(s)) = {Tail(s)[i] : i \in 1..Len(Tail(s))}
  BY <1>1, ToSetIs
<1>3. ToSet(s) = {Head(s)} \cup ToSet(Tail(s))
  <2>1. ASSUME NEW i \in 1..Len(s) PROVE s[i] \in {Head(s)} \cup ToSet(Tail(s))
    <3>1. CASE i = 1
      BY <1>1, <3>1
    <3>2. CASE i # 1
      <4>1. i - 1 \in 1..Len(Tail(s)) /\ Tail(s)[i - 1] = s[i]
        BY <1>1, <3>2
      <4> QED
        BY <1>2, <4>1
    <3> QED
      BY <3>1, <3>2
  <2>2. ASSUME NEW i \in 1..Len(Tail(s)) PROVE Tail(s)[i] \in ToSet(s)
    <3>1. i + 1 \in 1..Len(s) /\ Tail(s)[i] = s[i + 1]
      BY <1>1
    <3> QED
      BY <1>2, <3>1
  <2>3. Head(s) \in ToSet(s)
    BY <1>1, <1>2
  <2> QED
    BY <1>2, <2>1, <2>2, <2>3
<1>4. ASSUME Distinct(s) PROVE Distinct(Tail(s)) /\ Head(s) \notin ToSet(Tail(s))
  <2>1. ASSUME NEW i \in 1..Len(Tail(s)), NEW j \in 1..Len(Tail(s)), Tail(s)[i] = Tail(s)[j]
        PROVE  i = j
    <3>1. i + 1 \in 1..Len(s) /\ j + 1 \in 1..Len(s) /\ s[i + 1] = s[j + 1]
      BY <1>1, <2>1
    <3>2. i + 1 = j + 1
      BY <1>4, <3>1 DEF Distinct
    <3> QED
      BY <3>2
  <2>2. ASSUME NEW i \in 1..Len(Tail(s)), Tail(s)[i] = Head(s) PROVE FALSE
    <3>1. i + 1 \in 1..Len(s) /\ 1 \in 1..Len(s) /\ s[i + 1] = s[1]
      BY <1>1, <2>2
    <3>2. i + 1 = 1
      BY <1>4, <3>1 DEF Distinct
    <3> QED
      BY <3>2
  <2> QED
    BY <1>2, <2>1, <2>2 DEF Distinct
<1> QED
  BY <1>1, <1>3, <1>4

\* What main() calls whatever it boots.
BaseCalls ==
  {"create_vm", "irqchip", "pit", "memory", "create_vcpu", "cpuid", "sregs", "regs",
   "mp_state", "signal", "termios_raw", "threads"}

\* What it calls for a kernel.
KernelCalls(c) ==
  {"disk", "kernel", "cmdline", "initrd", "gdt"}
    \cup (IF c.e THEN {"eventfds"} ELSE {}) \cup (IF c.p THEN {"mptable", "vfio"} ELSE {})

\* These are their calls, each once.
LEMMA KernelCallsAre ==
  ASSUME NEW c
  PROVE  LET k == <<"disk">> \o (IF c.e THEN <<"eventfds">> ELSE <<>>)
                  \o Loads \o (IF c.p THEN <<"mptable", "vfio">> ELSE <<>>)
         IN  k \in Seq(Names) /\ Distinct(k) /\ ToSet(k) = KernelCalls(c)
<1> DEFINE d == <<"disk">>
           e == IF c.e THEN <<"eventfds">> ELSE <<>>
           p == IF c.p THEN <<"mptable", "vfio">> ELSE <<>>
<1>1. d \in Seq(Names) /\ Distinct(d) /\ ToSet(d) = {"disk"}
  BY One DEF Names
<1>2. /\ e \in Seq(Names) /\ Distinct(e)
      /\ ToSet(e) = IF c.e THEN {"eventfds"} ELSE {}
  <2>1. CASE c.e
    BY <2>1, One DEF Names
  <2>2. CASE ~c.e
    BY <2>2 DEF ToSet, Distinct
  <2> QED
    BY <2>1, <2>2
<1>3. /\ p \in Seq(Names) /\ Distinct(p)
      /\ ToSet(p) = IF c.p THEN {"mptable", "vfio"} ELSE {}
  <2>1. CASE c.p
    <3>1. "mptable" \in Names /\ "vfio" \in Names
      BY DEF Names
    <3>2. <<"mptable", "vfio">> \in Seq(Names) /\ Distinct(<<"mptable", "vfio">>)
          /\ ToSet(<<"mptable", "vfio">>) = {"mptable", "vfio"}
      BY <3>1, Pair
    <3> QED
      BY <2>1, <3>2
  <2>2. CASE ~c.p
    BY <2>2 DEF ToSet, Distinct
  <2> QED
    BY <2>1, <2>2
<1> HIDE DEF d, e, p
<1>4. d \o e \in Seq(Names) /\ Distinct(d \o e) /\ ToSet(d \o e) = ToSet(d) \cup ToSet(e)
  BY <1>1, <1>2, Joined
<1>5. /\ d \o e \o Loads \in Seq(Names) /\ Distinct(d \o e \o Loads)
      /\ ToSet(d \o e \o Loads) = ToSet(d) \cup ToSet(e) \cup ToSet(Loads)
  <2>1. ToSet(d \o e) \cap ToSet(Loads) = {}
    BY <1>1, <1>2, <1>4, Parts
  <2>8. d \o e \in Seq(Names) /\ Distinct(d \o e)
        /\ Loads \in Seq(Names) /\ Distinct(Loads) /\ ToSet(d \o e) = ToSet(d) \cup ToSet(e)
    BY <1>4, <2>1, Parts
  <2> QED
    BY <2>1, <2>8, JoinedCalls, Zenon
<1>6. /\ d \o e \o Loads \o p \in Seq(Names) /\ Distinct(d \o e \o Loads \o p)
      /\ ToSet(d \o e \o Loads \o p) = ToSet(d) \cup ToSet(e) \cup ToSet(Loads) \cup ToSet(p)
  <2>1. ToSet(d \o e \o Loads) \cap ToSet(p) = {}
    BY <1>1, <1>2, <1>3, <1>5, Parts
  <2>8. d \o e \o Loads \in Seq(Names) /\ Distinct(d \o e \o Loads)
        /\ p \in Seq(Names) /\ Distinct(p)
        /\ ToSet(d \o e \o Loads) = ToSet(d) \cup ToSet(e) \cup ToSet(Loads)
    BY <1>3, <1>5, <2>1
  <2> QED
    BY <2>1, <2>8, JoinedCalls, Zenon
<1>7. ToSet(d \o e \o Loads \o p) = KernelCalls(c)
  BY <1>1, <1>2, <1>3, <1>6, Parts DEF KernelCalls
<1> QED
  BY <1>6, <1>7 DEF d, e, p

\* The calls of main(): each once, the handlers before the raw terminal.
LEMMA CallsAre ==
  ASSUME NEW c \in Configurations
  PROVE  /\ Calls(c) \in Seq(Names) /\ Distinct(Calls(c))
         /\ ToSet(Calls(c)) =
              BaseCalls \cup (IF c.blob THEN {"blob", "gdt"} ELSE KernelCalls(c))
         /\ \A i, j \in 1..Len(Calls(c)) :
              Calls(c)[i] = "signal" /\ Calls(c)[j] = "termios_raw" => i < j
<1> DEFINE m == IF c.blob THEN <<"blob", "gdt">>
                ELSE <<"disk">> \o (IF c.e THEN <<"eventfds">> ELSE <<>>)
                     \o Loads \o (IF c.p THEN <<"mptable", "vfio">> ELSE <<>>)
           front == VmSetup \o m \o VcpuSetup
<1>1. /\ m \in Seq(Names) /\ Distinct(m)
      /\ ToSet(m) = IF c.blob THEN {"blob", "gdt"} ELSE KernelCalls(c)
  <2>1. CASE c.blob
    <3>1. "blob" \in Names /\ "gdt" \in Names
      BY DEF Names
    <3>2. <<"blob", "gdt">> \in Seq(Names) /\ Distinct(<<"blob", "gdt">>)
          /\ ToSet(<<"blob", "gdt">>) = {"blob", "gdt"}
      BY <3>1, Pair
    <3> QED
      BY <2>1, <3>2
  <2>2. CASE ~c.blob
    BY <2>2, KernelCallsAre
  <2> QED
    BY <2>1, <2>2
<1>2. Calls(c) = VmSetup \o m \o VcpuSetup \o Start
  BY DEF Calls, Loads
<1> HIDE DEF m
<1>3. /\ VmSetup \o m \in Seq(Names) /\ Distinct(VmSetup \o m)
      /\ ToSet(VmSetup \o m) = ToSet(VmSetup) \cup ToSet(m)
  <2>1. ToSet(VmSetup) \cap ToSet(m) = {}
    BY <1>1, Parts DEF KernelCalls
  <2>8. VmSetup \in Seq(Names) /\ Distinct(VmSetup) /\ m \in Seq(Names) /\ Distinct(m)
    BY <1>1, <2>1, Parts
  <2> QED
    BY <2>1, <2>8, JoinedCalls, Zenon
<1>4. /\ front \in Seq(Names) /\ Distinct(front)
      /\ ToSet(front) = ToSet(VmSetup) \cup ToSet(m) \cup ToSet(VcpuSetup)
  <2>1. ToSet(VmSetup \o m) \cap ToSet(VcpuSetup) = {}
    BY <1>1, <1>3, Parts DEF KernelCalls
  <2>8. VmSetup \o m \in Seq(Names) /\ Distinct(VmSetup \o m)
        /\ VcpuSetup \in Seq(Names) /\ Distinct(VcpuSetup)
        /\ ToSet(VmSetup \o m) = ToSet(VmSetup) \cup ToSet(m)
    BY <1>3, <2>1, Parts
  <2> QED
    BY <2>1, <2>8, JoinedCalls, Zenon
<1> HIDE DEF front
<1>5. /\ Calls(c) = front \o Start
      /\ Calls(c) \in Seq(Names) /\ Distinct(Calls(c)) /\ Len(Calls(c)) = Len(front) + 3
      /\ ToSet(Calls(c)) = ToSet(front) \cup ToSet(Start)
  <2>1. ToSet(front) \cap ToSet(Start) = {}
    BY <1>1, <1>4, Parts DEF KernelCalls
  <2>2. Calls(c) = front \o Start
    BY <1>2 DEF front
  <2>8. front \in Seq(Names) /\ Distinct(front) /\ Start \in Seq(Names) /\ Distinct(Start)
        /\ Len(Start) = 3 /\ Calls(c) = front \o Start
    BY <1>4, <2>1, <2>2, Parts
  <2> QED
    BY <2>1, <2>8, JoinedCalls, Zenon
<1>6. ToSet(Calls(c)) = BaseCalls \cup (IF c.blob THEN {"blob", "gdt"} ELSE KernelCalls(c))
  BY <1>1, <1>4, <1>5, Parts DEF BaseCalls
<1>7. /\ Calls(c)[Len(front) + 1] = "signal" /\ Calls(c)[Len(front) + 2] = "termios_raw"
      /\ Len(front) \in Nat
  BY <1>4, <1>5, Parts, ConcatProperties
<1>8. ASSUME NEW i \in 1..Len(Calls(c)), NEW j \in 1..Len(Calls(c)),
             Calls(c)[i] = "signal", Calls(c)[j] = "termios_raw"
      PROVE  i < j
  <2>1. Len(front) + 1 \in 1..Len(Calls(c)) /\ Len(front) + 2 \in 1..Len(Calls(c))
    BY <1>5, <1>7
  <2>2. i = Len(front) + 1
    BY <1>5, <1>7, <1>8, <2>1, Zenon DEF Distinct
  <2>3. j = Len(front) + 2
    BY <1>5, <1>7, <1>8, <2>1, Zenon DEF Distinct
  <2> QED
    BY <1>7, <2>2, <2>3
<1> QED
  BY <1>5, <1>6, <1>8

-----------------------------------------------------------------------------
\* What a call writes.
W(call) == ToSet(Writes(call))

\* The calls that write, and what.
LEMMA WritesAre ==
  /\ W("blob") = {Region(MB, 1)}
  /\ W("kernel") = {ZeroPage, Region(LoadAddr, conf.kernel.image)}
  /\ W("cmdline") = {CmdLine(conf.cmd + Suffix)}
  /\ W("initrd") = {Initrd}
  /\ W("gdt") = {Gdt, Tss}
  /\ W("mptable") = {MpTable, MpFloat}
  /\ \A call : call \notin {"blob", "kernel", "cmdline", "initrd", "gdt", "mptable"}
                 => W(call) = {}
<1>2. W("blob") = {Region(MB, 1)}
  BY DEF W, ToSet, Writes
<1>3. W("kernel") = {ZeroPage, Region(LoadAddr, conf.kernel.image)}
  BY DEF W, ToSet, Writes
<1>4. W("cmdline") = {CmdLine(conf.cmd + Suffix)}
  BY DEF W, ToSet, Writes
<1>5. W("initrd") = {Initrd}
  BY DEF W, ToSet, Writes
<1>6. W("gdt") = {Gdt, Tss}
  BY DEF W, ToSet, Writes
<1>7. W("mptable") = {MpTable, MpFloat}
  BY DEF W, ToSet, Writes
<1>8. ASSUME NEW call,
             call \notin {"blob", "kernel", "cmdline", "initrd", "gdt", "mptable"}
      PROVE  W(call) = {}
  BY <1>8 DEF W, ToSet, Writes
<1> QED
  BY <1>2, <1>3, <1>4, <1>5, <1>6, <1>7, <1>8

\* What the command line gives.
LEMMA ConfIs ==
  ASSUME conf \in Configurations
  PROVE  /\ conf.mem \in Nat /\ 64 * MB <= conf.mem /\ conf.mem < Wrap
         /\ conf.initrd \in Nat /\ conf.initrd < Wrap
         /\ conf.cmd \in Nat /\ conf.cmd + Suffix <= CMDLINE_MAX
         /\ conf.kernel.image \in Nat /\ conf.kernel.pref \in Nat /\ conf.kernel.init \in Nat
         /\ conf.kernel.v2_10 \in BOOLEAN
         /\ conf.kernel.v2_10 => conf.kernel.image <= conf.kernel.init
         /\ ~conf.kernel.v2_10 => conf.kernel.init = 0
         /\ conf.kernel \in Kernels /\ conf.mem \in MemSizes
         /\ conf.blob \in BOOLEAN /\ conf.e \in BOOLEAN /\ conf.p \in BOOLEAN
<1>1. /\ conf.mem \in MemSizes /\ conf.kernel \in Kernels /\ conf.initrd \in InitrdSizes
      /\ conf.cmd \in CmdLens
      /\ conf.blob \in BOOLEAN /\ conf.e \in BOOLEAN /\ conf.p \in BOOLEAN
  BY DEF Configurations
<1>2. conf.kernel \in [image : Nat, pref : Nat, init : Nat, v2_10 : BOOLEAN]
  BY <1>1, ConfigurationsOK
<1> QED
  BY <1>1, <1>2, ConfigurationsOK

\* An initramfs that is no larger than memory ends within it.
LEMMA InitrdFits ==
  ASSUME NEW mem \in Nat, NEW size \in Nat, size < Wrap, mem < Wrap
  PROVE  /\ InitrdAddr(mem, size) \in Nat
         /\ size <= mem => InitrdAddr(mem, size) + size <= mem
<1>1. /\ (mem + Wrap - size) % Wrap \in Nat
      /\ size <= mem => (mem + Wrap - size) % Wrap = mem - size
  BY DEF Wrap, FourGB
<1>2. ASSUME NEW n \in Nat PROVE Rounded(n) \in Nat /\ Rounded(n) <= n
  BY DEF Rounded, Page
<1> QED
  BY <1>1, <1>2 DEF InitrdAddr

\* Where the kernel and the initramfs end up.
LEMMA Places ==
  ASSUME conf \in Configurations
  PROVE  /\ LoadAddr \in Nat /\ (Granted /\ ~conf.blob => MB <= LoadAddr)
         /\ Fails("kernel") = "no" => LoadAddr + conf.kernel.image <= conf.mem
         /\ Initrd.from \in Nat /\ Initrd.len = conf.initrd
         /\ Granted /\ ~conf.blob => Initrd.from + conf.initrd <= conf.mem
         /\ Fails("initrd") = "no" => LoadAddr + conf.kernel.init < Initrd.from
<1>1. LoadAddr \in Nat /\ (Granted /\ ~conf.blob => MB <= LoadAddr)
  BY ConfIs DEF LoadAddr, Fits, Granted, MB
<1>2. Fails("kernel") = "no" => LoadAddr + conf.kernel.image <= conf.mem
  BY ConfIs DEF LoadAddr, Fits, Fails, MB
<1>3. /\ Initrd.from \in Nat /\ Initrd.len = conf.initrd
      /\ Granted /\ ~conf.blob => Initrd.from + conf.initrd <= conf.mem
  BY ConfIs, InitrdFits DEF Initrd, Region, Granted
<1>4. Fails("initrd") = "no" => LoadAddr + conf.kernel.init < Initrd.from
  BY <1>1, <1>3, ConfIs DEF Fails, InitrdTooLow
<1> QED
  BY <1>1, <1>2, <1>3, <1>4

\* The calls for a kernel are not made when there is none.
LEMMA BlobCalls ==
  ASSUME conf \in Configurations, NEW call \in ToSet(Calls(conf))
  PROVE  /\ call \in {"kernel", "initrd"} => ~conf.blob
         /\ call = "blob" => conf.blob
BY CallsAre DEF BaseCalls, KernelCalls

\* What is written below the first megabyte.
Low == {ZeroPage, Gdt, Tss, CmdLine(conf.cmd + Suffix), MpFloat, MpTable}

\* It is below the first megabyte, and no two of it overlap.
LEMMA LowIsLow ==
  ASSUME conf \in Configurations
  PROVE  /\ \A r \in Low : r \in Regions /\ End(r) <= MB
         /\ \A r, s \in Low : r # s => Apart(r, s)
  BY ConfIs
     DEF Low, ZeroPage, Gdt, Tss, CmdLine, MpFloat, MpTable, Regions, Region, End,
       Apart, MB, Page, Suffix, CMDLINE_MAX

\* Every call writes inside the memory of the guest.
LEMMA CallsInside ==
  ASSUME conf \in Configurations, Granted, NEW call \in ToSet(Calls(conf)),
         Fails(call) = "no", NEW r \in W(call)
  PROVE  r \in Regions /\ Inside(r, Ram)
<1>1. CASE r \in Low
  BY <1>1, LowIsLow, ConfIs DEF Inside, Ram, Region, Regions, End, MB
<1>2. CASE call = "blob"
  BY <1>2, WritesAre, ConfIs DEF Inside, Ram, Region, Regions, End, MB
<1>3. CASE call = "kernel" /\ r = Region(LoadAddr, conf.kernel.image)
  BY <1>3, Places, ConfIs DEF Inside, Ram, Region, Regions, End, MB
<1>4. CASE call = "initrd"
  BY <1>4, WritesAre, Places, BlobCalls, ConfIs DEF Inside, Ram, Region, Regions, End, Initrd
<1> QED
  BY <1>1, <1>2, <1>3, <1>4, WritesAre DEF Low

\* Two calls never write over each other, but for an initramfs over an old kernel.
LEMMA CallsApart ==
  ASSUME conf \in Configurations, Granted,
         NEW a \in ToSet(Calls(conf)), NEW b \in ToSet(Calls(conf)), a # b,
         Fails(a) = "no", Fails(b) = "no", NEW r \in W(a), NEW s \in W(b)
  PROVE  Apart(r, s) \/ InitrdOverOldKernel(r, s)
<1> DEFINE High == {h \in Regions : MB <= h.from}
<1>1. \A h \in High : h.from \in Nat /\ h.len \in Nat /\ MB <= h.from
  BY DEF Regions
<1>2. r \in Low \cup High /\ s \in Low \cup High
  <2>1. /\ Region(MB, 1) \in High
        /\ ~conf.blob => Region(LoadAddr, conf.kernel.image) \in High
    BY Places, ConfIs DEF Region, Regions, MB
  <2>2. ~conf.blob /\ Fails("initrd") = "no" => Initrd \in High
    BY Places, ConfIs DEF Region, Regions, Initrd, MB
  <2>3. /\ a \in {"kernel", "initrd"} => ~conf.blob
        /\ b \in {"kernel", "initrd"} => ~conf.blob
    BY BlobCalls
  <2> QED
    BY <2>1, <2>2, <2>3, WritesAre DEF Low
<1>3. CASE r \in Low /\ s \in Low
  <2>1. r # s
    <3>1. /\ ZeroPage.from = 112 /\ Gdt.from = 128 /\ Tss.from = 129
          /\ CmdLine(conf.cmd + Suffix).from = 144
          /\ MpFloat.from = 2556 /\ MpTable.from = 2557
      BY DEF ZeroPage, Gdt, Tss, CmdLine, MpFloat, MpTable, Region
    <3>2. /\ LoadAddr \in Nat /\ Region(LoadAddr, conf.kernel.image).from = LoadAddr
          /\ ~conf.blob => MB <= LoadAddr
      BY Places DEF Region
    <3>3. /\ Region(MB, 1).from = MB /\ Initrd.from \in Nat
          /\ ~conf.blob /\ Fails("initrd") = "no" => MB <= Initrd.from
      BY Places, ConfIs DEF Region, MB
    <3>4. ASSUME NEW c \in ToSet(Calls(conf)), Fails(c) = "no", NEW x \in W(c), x \in Low
          PROVE  c = IF x.from = 112 THEN "kernel" ELSE IF x.from = 144 THEN "cmdline"
                     ELSE IF x.from \in {128, 129} THEN "gdt" ELSE "mptable"
      <4>1. x.from \in {112, 128, 129, 144, 2556, 2557}
        BY <3>1, <3>4 DEF Low
      <4>2. x.from < MB
        BY <4>1 DEF MB
      <4>3. c \in {"kernel", "cmdline", "gdt", "mptable"}
        BY <3>3, <3>4, <4>1, <4>2, WritesAre, BlobCalls DEF MB
      <4>4. c = "kernel" => x.from = 112
        BY <3>1, <3>2, <3>4, <4>1, <4>2, WritesAre, BlobCalls DEF MB
      <4> QED
        BY <3>1, <3>4, <4>3, <4>4, WritesAre
    <3> QED
      BY <1>3, <3>4
  <2> QED
    BY <1>3, <2>1, LowIsLow
<1>4. CASE r \in Low /\ s \in High
  <2>1. End(r) <= MB /\ End(r) \in Nat /\ MB <= s.from /\ s.from \in Nat
    BY <1>1, <1>4, LowIsLow DEF End, Regions
  <2> QED
    BY <2>1 DEF Apart, MB
<1>5. CASE r \in High /\ s \in Low
  <2>1. End(s) <= MB /\ End(s) \in Nat /\ MB <= r.from /\ r.from \in Nat
    BY <1>1, <1>5, LowIsLow DEF End, Regions
  <2> QED
    BY <2>1 DEF Apart, MB
<1>6. CASE r \in High \ Low /\ s \in High \ Low
  <2>1. /\ a \in {"blob", "kernel", "initrd"} /\ b \in {"blob", "kernel", "initrd"}
        /\ a = "kernel" => r = Region(LoadAddr, conf.kernel.image)
        /\ b = "kernel" => s = Region(LoadAddr, conf.kernel.image)
        /\ a = "initrd" => r = Initrd
        /\ b = "initrd" => s = Initrd
    BY <1>6, WritesAre DEF Low
  <2>2. ~(a = "blob" /\ b # "blob") /\ ~(b = "blob" /\ a # "blob")
    BY <2>1, BlobCalls
  <2>3. CASE a = "kernel" /\ b = "initrd"
    <3>1. CASE conf.kernel.v2_10
      BY <2>1, <2>3, <3>1, Places, ConfIs DEF Apart, End, Region
    <3>2. CASE ~conf.kernel.v2_10
      BY <2>1, <2>3, <3>2 DEF InitrdOverOldKernel
    <3> QED
      BY <3>1, <3>2
  <2>4. CASE a = "initrd" /\ b = "kernel"
    <3>1. CASE conf.kernel.v2_10
      BY <2>1, <2>4, <3>1, Places, ConfIs DEF Apart, End, Region
    <3>2. CASE ~conf.kernel.v2_10
      BY <2>1, <2>4, <3>2 DEF InitrdOverOldKernel
    <3> QED
      BY <3>1, <3>2
  <2> QED
    BY <2>1, <2>2, <2>3, <2>4
<1> QED
  BY <1>2, <1>3, <1>4, <1>5, <1>6

\* What is written is a list of ranges.
LEMMA WritesType ==
  ASSUME conf \in Configurations, NEW call
  PROVE  Writes(call) \in Seq(Regions)
<1>1. /\ ZeroPage \in Regions /\ Gdt \in Regions /\ Tss \in Regions
      /\ MpTable \in Regions /\ MpFloat \in Regions /\ Region(MB, 1) \in Regions
      /\ CmdLine(conf.cmd + Suffix) \in Regions
  BY ConfIs DEF ZeroPage, Gdt, Tss, MpTable, MpFloat, CmdLine, Region, Regions, Page,
                Suffix, MB
<1>2. Region(LoadAddr, conf.kernel.image) \in Regions /\ Initrd \in Regions
  BY Places, ConfIs DEF Region, Regions, Initrd
<1> QED
  BY <1>1, <1>2 DEF Writes

\* A call does not write over itself.
LEMMA OwnApart ==
  ASSUME conf \in Configurations, Granted, NEW call \in ToSet(Calls(conf)),
         NEW i \in 1..Len(Writes(call)), NEW j \in 1..Len(Writes(call)), i # j
  PROVE  Apart(Writes(call)[i], Writes(call)[j])
<1>1. CASE call = "kernel"
  <2>1. /\ Writes(call) = <<ZeroPage, Region(LoadAddr, conf.kernel.image)>>
        /\ i \in 1..2 /\ j \in 1..2
    BY <1>1 DEF Writes
  <2>2. /\ Apart(ZeroPage, Region(LoadAddr, conf.kernel.image))
        /\ Apart(Region(LoadAddr, conf.kernel.image), ZeroPage)
    BY <1>1, Places, BlobCalls, ConfIs DEF ZeroPage, Region, Apart, End, Page, MB
  <2> QED
    BY <2>1, <2>2
<1>2. CASE call = "gdt"
  <2>1. Writes(call) = <<Gdt, Tss>> /\ i \in 1..2 /\ j \in 1..2
    BY <1>2 DEF Writes
  <2> QED
    BY <2>1 DEF Gdt, Tss, Region, Apart, End
<1>3. CASE call = "mptable"
  <2>1. Writes(call) = <<MpTable, MpFloat>> /\ i \in 1..2 /\ j \in 1..2
    BY <1>3 DEF Writes
  <2> QED
    BY <2>1 DEF MpTable, MpFloat, Region, Apart, End
<1>4. CASE call \notin {"kernel", "gdt", "mptable"}
  <2>1. Len(Writes(call)) \in {0, 1}
    BY <1>4 DEF Writes
  <2> QED
    BY <2>1
<1> QED
  BY <1>1, <1>2, <1>3, <1>4

-----------------------------------------------------------------------------
\* What the calls do depends on the command line alone.
LEMMA Fixed ==
  ASSUME conf' = conf, NEW call
  PROVE  /\ Writes(call)' = Writes(call) /\ Fails(call)' = Fails(call)
         /\ W(call)' = W(call) /\ Calls(conf)' = Calls(conf)
         /\ LoadAddr' = LoadAddr /\ Initrd' = Initrd /\ Entry' = Entry /\ Granted' = Granted
BY DEF Writes, Fails, W, LoadAddr, Initrd, Entry, Fits, InitrdTooLow, Ram, Granted

\* A step that leaves the machine alone keeps what is known about it.
LEMMA MachineKept ==
  ASSUME MvInv, UNCHANGED <<conf, todo, machine>>
  PROVE  /\ (Granted' => Written') /\ Told' /\ Made' = Made
         /\ memory' \in Seq(Regions) /\ todo' \in Seq(Names) /\ conf' \in Configurations
         /\ zero_page' \in [code32_start : Nat, ramdisk_image : Nat,
                            e820_table : SUBSET Regions]
         /\ DOMAIN vcpu' = {"cpuid", "gdt", "tr", "rip", "rsi"}
<1>1. /\ conf' = conf /\ todo' = todo /\ memory' = memory /\ zero_page' = zero_page
      /\ vcpu' = vcpu
  BY DEF machine
<1>2. Made' = Made
  BY <1>1 DEF Made
<1>3. Granted' => Written'
  <2>1. LoadAddr' = LoadAddr /\ Initrd' = Initrd /\ Granted' = Granted
    BY <1>1, Fixed
  <2>2. SUFFICES ASSUME Granted PROVE Written'
    BY <2>1
  <2>3. /\ \A call \in Made' : Fails(call)' = "no"
        /\ \A i \in 1..Len(memory') : \E call \in Made' : memory'[i] \in ToSet(Writes(call))'
        /\ \A call \in Made' : ToSet(Writes(call))' \subseteq ToSet(memory)'
    BY <1>1, <1>2, <2>2, Fixed DEF MvInv, Written, W
  <2>4. (\A i, j \in 1..Len(memory) :
           i # j => \/ Apart(memory[i], memory[j])
                    \/ InitrdOverOldKernel(memory[i], memory[j]))'
    <3>1. \A i, j \in 1..Len(memory) :
            i # j => \/ Apart(memory[i], memory[j])
                     \/ InitrdOverOldKernel(memory[i], memory[j])
      BY <2>2 DEF MvInv, Written
    <3>2. \A r, s : InitrdOverOldKernel(r, s)' = InitrdOverOldKernel(r, s)
      BY <1>1, <2>1 DEF InitrdOverOldKernel
    <3> QED
      BY <1>1, <3>1, <3>2
  <2> QED
    BY <2>3, <2>4 DEF Written
<1>4. Told'
  BY <1>1, <1>2, Fixed DEF MvInv, Told
<1> QED
  BY <1>1, <1>2, <1>3, <1>4 DEF MvInv, MvTypeOK

\* Before main() has called anything.
LEMMA InitMvInv == MainInit => MvInv
<1> SUFFICES ASSUME MainInit PROVE MvInv
  OBVIOUS
<1>1. /\ conf \in Configurations /\ todo = Calls(conf) /\ memory = <<>>
      /\ Made = {}
  BY DEF MainInit, Made
<1>4. conf \in Configurations
  BY <1>1
<1>2. MvTypeOK
  <2>1. todo \in Seq(Names) /\ memory \in Seq(Regions)
    BY <1>1, CallsAre
  <2>2. zero_page \in [code32_start : Nat, ramdisk_image : Nat, e820_table : SUBSET Regions]
    BY DEF MainInit
  <2>3. DOMAIN vcpu = {"cpuid", "gdt", "tr", "rip", "rsi"}
    BY DEF MainInit
  <2>4. handlers \in BOOLEAN /\ raw \in BOOLEAN /\ running \in BOOLEAN /\ missed \in BOOLEAN
    BY Zenon DEF MainInit
  <2>5. pc = "setup" /\ late \in 0..2
    BY DEF MainInit
  <2> QED
    BY <1>4, <2>1, <2>2, <2>3, <2>4, <2>5 DEF MvTypeOK
<1>3. Order
  <2>1. "signal" \in ToSet(todo)
    BY <1>1, CallsAre DEF BaseCalls
  <2> QED
    BY <1>1, <2>1, CallsAre DEF Order, MainInit
<1>5. Written /\ Told
  BY <1>1 DEF Written, Told
<1>6. Restorable /\ Stopping
  BY DEF MainInit, Restorable, TerminalRestored, Stopping
<1> QED
  BY <1>2, <1>3, <1>5, <1>6 DEF MvInv

\* A call of main() keeps the invariant: it writes where nothing is.
LEMMA SetupStep ==
  ASSUME MvInv, Setup
  PROVE  MvInv'
<1> DEFINE call == Head(todo)
<1> USE DEF MvInv
<1>1. /\ pc = "setup" /\ todo # <<>> /\ Fails(call) = "no" /\ todo' = Tail(todo)
      /\ pc' = IF Tail(todo) = <<>> THEN "loop" ELSE "setup"
      /\ memory' = memory \o Writes(call) /\ zero_page' = ZeroPageAfter(call)
      /\ handlers' = (handlers \/ call = "signal")
      /\ raw' = (raw \/ call = "termios_raw")
      /\ vcpu' \in VcpuAfter(call)
      /\ conf' = conf /\ running' = running /\ missed' = missed /\ late' = late
  BY DEF Setup, history
<1>2. /\ call \in Names /\ call = todo[1] /\ todo' \in Seq(Names)
      /\ Len(todo) \in Nat \ {0} /\ Len(todo') = Len(todo) - 1
      /\ \A i \in 1..Len(todo') : todo'[i] = todo[i + 1]
      /\ ToSet(todo) = {call} \cup ToSet(todo')
      /\ Distinct(todo') /\ call \notin ToSet(todo')
  BY <1>1, OneLess DEF MvTypeOK, Order
<1>3. /\ conf \in Configurations /\ Calls(conf)' = Calls(conf)
      /\ call \in ToSet(Calls(conf)) /\ Made' = Made \cup {call} /\ call \notin Made
  BY <1>1, <1>2, Fixed DEF MvTypeOK, Order, Made
<1>4. /\ Writes(call) \in Seq(Regions) /\ memory \in Seq(Regions)
      /\ memory' \in Seq(Regions) /\ Len(memory') = Len(memory) + Len(Writes(call))
      /\ ToSet(memory') = ToSet(memory) \cup W(call)
  BY <1>1, <1>3, WritesType, Joined DEF MvTypeOK, W
<1>5. /\ \A i \in 1..Len(memory') :
           memory'[i] = IF i <= Len(memory) THEN memory[i]
                        ELSE Writes(call)[i - Len(memory)]
  BY <1>1, <1>4, ConcatProperties
<1>6. \A c \in Made : (Granted => Fails(c) = "no") /\ c \in ToSet(Calls(conf))
  BY DEF Written, Made
<1>7. ASSUME NEW i \in 1..Len(Writes(call)) PROVE Writes(call)[i] \in W(call)
  BY <1>4, <1>7, ToSetIs DEF W
<1>8. MvTypeOK'
  <2>1. zero_page' \in [code32_start : Nat, ramdisk_image : Nat, e820_table : SUBSET Regions]
    <3>1. LoadAddr % FourGB \in Nat /\ Initrd.from % FourGB \in Nat
      BY <1>3, Places DEF FourGB
    <3>2. {Region(0, 2556), Region(MB, conf.mem - MB)} \in SUBSET Regions
      BY <1>3, ConfIs DEF Regions, Region, MB
    <3>. /\ zero_page' = ZeroPageAfter(call)
         /\ zero_page \in [code32_start : Nat, ramdisk_image : Nat,
                           e820_table : SUBSET Regions]
      BY <1>1 DEF MvTypeOK
    <3>3. CASE call = "kernel"
      <4>1. zero_page' = [zero_page EXCEPT !.code32_start = LoadAddr % FourGB]
        BY <3>3 DEF ZeroPageAfter
      <4> QED
        BY <3>1, <4>1
    <3>4. CASE call = "initrd"
      <4>1. zero_page' = [zero_page EXCEPT !.ramdisk_image = Initrd.from % FourGB,
              !.e820_table = {Region(0, 2556), Region(MB, conf.mem - MB)}]
        BY <3>4 DEF ZeroPageAfter
      <4>2. zero_page' = [code32_start |-> zero_page.code32_start,
                          ramdisk_image |-> Initrd.from % FourGB,
                          e820_table |-> {Region(0, 2556), Region(MB, conf.mem - MB)}]
        <5>. DEFINE at == Initrd.from % FourGB
                    ram == {Region(0, 2556), Region(MB, conf.mem - MB)}
        <5>1. zero_page' = [zero_page EXCEPT !.ramdisk_image = at, !.e820_table = ram]
          BY <4>1
        <5>. HIDE DEF at, ram
        <5>2. zero_page' = [code32_start |-> zero_page.code32_start,
                            ramdisk_image |-> at, e820_table |-> ram]
          BY <5>1
        <5> QED
          BY <5>2 DEF at, ram
      <4> QED
        BY <3>1, <3>2, <4>2
    <3>5. CASE call \notin {"kernel", "initrd"}
      BY <1>1, <3>5 DEF MvTypeOK, ZeroPageAfter
    <3> QED
      BY <3>3, <3>4, <3>5
  <2>2. DOMAIN vcpu' = {"cpuid", "gdt", "tr", "rip", "rsi"}
    BY <1>1 DEF MvTypeOK, VcpuAfter, GuestSregs
  <2> QED
    BY <1>1, <1>2, <1>3, <1>4, <2>1, <2>2 DEF MvTypeOK
<1>9. Order'
  <2>1. \A i, j \in 1..Len(todo') :
           todo'[i] = "signal" /\ todo'[j] = "termios_raw" => i < j
    <3> SUFFICES ASSUME NEW i \in 1..Len(todo'), NEW j \in 1..Len(todo'),
                        todo'[i] = "signal", todo'[j] = "termios_raw"
                 PROVE  i < j
      OBVIOUS
    <3>1. /\ i + 1 \in 1..Len(todo) /\ j + 1 \in 1..Len(todo)
          /\ todo[i + 1] = "signal" /\ todo[j + 1] = "termios_raw"
      BY <1>2
    <3>2. i + 1 < j + 1
      BY <3>1 DEF Order
    <3> QED
      BY <3>2
  <2>2. "signal" \notin ToSet(todo') => handlers'
    BY <1>1, <1>2 DEF Order
  <2>3. pc' \notin {"setup", "ended"} => todo' = <<>>
    BY <1>1
  <2> QED
    BY <1>2, <1>3, <2>1, <2>2, <2>3 DEF Order
<1>10. ASSUME Granted' PROVE Written'
  <2>0. Granted
    BY <1>1, <1>10, Fixed
  <2> USE <2>0
  <2>1. \A c \in Made' : Fails(c)' = "no"
    BY <1>1, <1>3, <1>6, Fixed
  <2>2. \A i \in 1..Len(memory') : \E c \in Made' : memory'[i] \in ToSet(Writes(c))'
    <3> SUFFICES ASSUME NEW i \in 1..Len(memory')
                 PROVE  \E c \in Made' : memory'[i] \in W(c)
      BY <1>1, Fixed DEF W
    <3>1. CASE i <= Len(memory)
      <4>1. i \in 1..Len(memory) /\ memory'[i] = memory[i]
        BY <1>4, <1>5, <3>1
      <4> QED
        BY <1>3, <4>1 DEF Written, W
    <3>2. CASE i > Len(memory)
      <4>1. /\ i - Len(memory) \in 1..Len(Writes(call))
            /\ memory'[i] = Writes(call)[i - Len(memory)]
        BY <1>4, <1>5, <3>2
      <4> QED
        BY <1>3, <1>7, <4>1
    <3> QED
      BY <1>4, <3>1, <3>2
  <2>3. \A c \in Made' : ToSet(Writes(c))' \subseteq ToSet(memory')
    BY <1>1, <1>3, <1>4, Fixed DEF Written, W
  <2>4. ASSUME NEW i \in 1..Len(memory'), NEW j \in 1..Len(memory'), i # j
        PROVE  \/ Apart(memory'[i], memory'[j])
               \/ InitrdOverOldKernel(memory'[i], memory'[j])
    <3>1. ASSUME NEW k \in 1..Len(memory), NEW r \in W(call)
          PROVE  /\ Apart(memory[k], r) \/ InitrdOverOldKernel(memory[k], r)
                 /\ Apart(r, memory[k]) \/ InitrdOverOldKernel(r, memory[k])
      <4>1. PICK c \in Made : memory[k] \in W(c)
        BY DEF Written, W
      <4> QED
        BY <1>1, <1>3, <1>6, <4>1, CallsApart
    <3>2. CASE i <= Len(memory) /\ j <= Len(memory)
      <4>1. /\ i \in 1..Len(memory) /\ memory'[i] = memory[i]
            /\ j \in 1..Len(memory) /\ memory'[j] = memory[j]
        BY <1>4, <1>5, <3>2
      <4> QED
        BY <2>4, <4>1 DEF Written
    <3>3. CASE i <= Len(memory) /\ j > Len(memory)
      <4>1. /\ i \in 1..Len(memory) /\ memory'[i] = memory[i]
            /\ j - Len(memory) \in 1..Len(Writes(call))
            /\ memory'[j] = Writes(call)[j - Len(memory)]
        BY <1>4, <1>5, <3>3
      <4> QED
        BY <1>7, <3>1, <4>1
    <3>4. CASE i > Len(memory) /\ j <= Len(memory)
      <4>1. /\ j \in 1..Len(memory) /\ memory'[j] = memory[j]
            /\ i - Len(memory) \in 1..Len(Writes(call))
            /\ memory'[i] = Writes(call)[i - Len(memory)]
        BY <1>4, <1>5, <3>4
      <4> QED
        BY <1>7, <3>1, <4>1
    <3>5. CASE i > Len(memory) /\ j > Len(memory)
      <4>1. /\ i - Len(memory) \in 1..Len(Writes(call))
            /\ memory'[i] = Writes(call)[i - Len(memory)]
            /\ j - Len(memory) \in 1..Len(Writes(call))
            /\ memory'[j] = Writes(call)[j - Len(memory)]
            /\ i - Len(memory) # j - Len(memory)
        BY <1>4, <1>5, <2>4, <3>5
      <4> QED
        BY <1>3, <4>1, OwnApart
    <3> QED
      BY <1>4, <3>2, <3>3, <3>4, <3>5
  <2>5. LoadAddr' = LoadAddr /\ Initrd' = Initrd /\ conf' = conf
    BY <1>1, Fixed
  <2>6. (\A i, j \in 1..Len(memory) :
           i # j => \/ Apart(memory[i], memory[j])
                    \/ InitrdOverOldKernel(memory[i], memory[j]))'
    BY <2>4, <2>5 DEF InitrdOverOldKernel
  <2> QED
    BY <2>1, <2>2, <2>3, <2>6 DEF Written
<1>11. Told'
  <2>1. LoadAddr' = LoadAddr /\ Initrd' = Initrd /\ Entry' = Entry /\ conf' = conf
    BY <1>1, Fixed
  <2>2. "kernel" \in Made' => zero_page'.code32_start = LoadAddr % FourGB
    BY <1>1, <1>3 DEF Told, ZeroPageAfter, MvTypeOK
  <2>3. "initrd" \in Made' =>
          /\ zero_page'.ramdisk_image = Initrd.from % FourGB
          /\ zero_page'.e820_table = {Region(0, 2556), Region(MB, conf.mem - MB)}
    BY <1>1, <1>3 DEF Told, ZeroPageAfter, MvTypeOK
  <2>4. /\ "sregs" \in Made' => vcpu'.gdt = Gdt /\ vcpu'.tr = Tss
        /\ "regs" \in Made' => vcpu'.rip = Entry /\ vcpu'.rsi = ZeroPage.from
    <3>1. DOMAIN vcpu = {"cpuid", "gdt", "tr", "rip", "rsi"}
      BY DEF MvTypeOK
    <3>2. CASE call = "sregs"
      <4>1. vcpu' = [vcpu EXCEPT !.gdt = Gdt, !.tr = Tss]
        BY <1>1, <3>2 DEF VcpuAfter, GuestSregs
      <4>2. /\ vcpu'.gdt = Gdt /\ vcpu'.tr = Tss /\ vcpu'.rip = vcpu.rip
            /\ vcpu'.rsi = vcpu.rsi
        BY <3>1, <4>1
      <4> QED
        BY <1>3, <3>2, <4>2 DEF Told
    <3>3. CASE call = "regs"
      <4>1. vcpu' = [vcpu EXCEPT !.rip = Entry, !.rsi = ZeroPage.from]
        BY <1>1, <3>3 DEF VcpuAfter
      <4>2. /\ vcpu'.gdt = vcpu.gdt /\ vcpu'.tr = vcpu.tr /\ vcpu'.rip = Entry
            /\ vcpu'.rsi = ZeroPage.from
        BY <3>1, <4>1
      <4> QED
        BY <1>3, <3>3, <4>2 DEF Told
    <3>4. CASE call = "cpuid"
      BY <1>1, <1>3, <3>1, <3>4 DEF Told, VcpuAfter
    <3>5. CASE call \notin {"sregs", "regs", "cpuid"}
      BY <1>1, <1>3, <3>5 DEF Told, VcpuAfter
    <3> QED
      BY <3>2, <3>3, <3>4, <3>5
  <2> QED
    BY <2>1, <2>2, <2>3, <2>4 DEF Told
<1>12. Restorable'
  <2>1. call = "termios_raw" => handlers
    <3> SUFFICES ASSUME call = "termios_raw", "signal" \in ToSet(todo) PROVE FALSE
      BY DEF Order
    <3>1. PICK i \in 1..Len(todo) : todo[i] = "signal"
      BY ToSetIs DEF MvTypeOK
    <3> QED
      BY <1>2, <3>1 DEF Order
  <2> QED
    BY <1>1, <2>1 DEF Restorable, TerminalRestored
<1>13. Stopping'
  BY <1>1 DEF Stopping
<1> QED
  BY <1>8, <1>9, <1>10, <1>11, <1>12, <1>13

\* Outside of setup only the place in the loop and the flags change.
LEMMA RunStep ==
  ASSUME MvInv,
         SetupDies \/ Check \/ KvmRun \/ GuestExit \/ Eintr \/ HandleExit \/ Leave
           \/ (\E sig \in {"stop", "stats"}, toVcpu \in BOOLEAN : Signal(sig, toVcpu))
           \/ UNCHANGED mainVars
  PROVE  MvInv'
<1> USE DEF MvInv
<1>1. UNCHANGED <<conf, todo, machine>>
  BY DEF SetupDies, Check, KvmRun, GuestExit, Eintr, HandleExit, Leave, Signal, mainVars
<1>2. /\ (Granted' => Written') /\ Told' /\ Made' = Made
      /\ memory' \in Seq(Regions) /\ todo' \in Seq(Names) /\ conf' \in Configurations
      /\ zero_page' \in [code32_start : Nat, ramdisk_image : Nat,
                         e820_table : SUBSET Regions]
      /\ DOMAIN vcpu' = {"cpuid", "gdt", "tr", "rip", "rsi"}
  BY <1>1, MachineKept
<1>3. conf' = conf /\ todo' = todo
  BY <1>1
<1>4. /\ pc \in {"setup", "loop", "enter", "guest", "exit", "eintr", "leave", "ended"}
      /\ handlers \in BOOLEAN /\ raw \in BOOLEAN /\ running \in BOOLEAN
      /\ missed \in BOOLEAN /\ late \in 0..2
  BY DEF MvTypeOK
\* It is enough that each step goes on to where it may.
<1>5. ASSUME /\ pc' \in {"setup", "loop", "enter", "guest", "exit", "eintr", "leave",
                         "ended"}
             /\ handlers' \in BOOLEAN /\ raw' \in BOOLEAN /\ running' \in BOOLEAN
             /\ missed' \in BOOLEAN /\ late' \in 0..2,
             pc' \notin {"setup", "ended"} => pc \notin {"setup", "ended"},
             handlers' = handlers, Restorable', Stopping'
      PROVE  MvInv'
  <2>1. MvTypeOK'
    BY <1>2, <1>5 DEF MvTypeOK
  <2>2. Order'
    BY <1>3, <1>5 DEF Order
  <2> QED
    BY <1>2, <1>5, <2>1, <2>2
<1>6. CASE SetupDies
  <2>1. /\ pc = "setup" /\ pc' = "ended" /\ raw' = FALSE /\ handlers' = handlers
        /\ running' = running /\ missed' = missed /\ late' = late
    BY <1>6 DEF SetupDies, Die, history
  <2> QED
    BY <1>4, <1>5, <2>1 DEF Restorable, TerminalRestored, Stopping
<1>7. CASE Check
  <2>1. /\ pc = "loop" /\ pc' = IF running THEN "enter" ELSE "leave"
        /\ raw' = raw /\ handlers' = handlers
        /\ running' = running /\ missed' = missed /\ late' = late
    BY <1>7 DEF Check, process, history
  <2> QED
    BY <1>4, <1>5, <2>1 DEF Restorable, TerminalRestored, Stopping
<1>8. CASE KvmRun
  <2>1. /\ pc = "enter" /\ pc' = "guest" /\ raw' = raw /\ handlers' = handlers
        /\ running' = running /\ missed' = missed
        /\ late' = IF running \/ late = 2 THEN late ELSE late + 1
    BY <1>8 DEF KvmRun, process
  <2> QED
    BY <1>4, <1>5, <2>1 DEF Restorable, TerminalRestored, Stopping
<1>9. CASE GuestExit
  <2>1. /\ pc = "guest" /\ pc' = "exit" /\ raw' = raw /\ handlers' = handlers
        /\ running' = running /\ missed' = missed /\ late' = late
    BY <1>9 DEF GuestExit, process, history
  <2> QED
    BY <1>4, <1>5, <2>1 DEF Restorable, TerminalRestored, Stopping
<1>10. CASE Eintr
  <2>1. /\ pc = "eintr" /\ pc' = "loop" /\ raw' = raw /\ handlers' = handlers
        /\ running' = running /\ missed' = missed /\ late' = late
    BY <1>10 DEF Eintr, AfterEintr, process, history
  <2> QED
    BY <1>4, <1>5, <2>1 DEF Restorable, TerminalRestored, Stopping
<1>11. CASE HandleExit
  <2>1. /\ pc = "exit" /\ pc' \in {"loop", "leave", "ended"} /\ handlers' = handlers
        /\ raw' \in BOOLEAN /\ (raw' => raw) /\ (pc' = "ended" => ~raw')
        /\ running' \in BOOLEAN /\ (running' => running) /\ missed' = missed /\ late' = late
    BY <1>4, <1>11 DEF HandleExit, AfterExit, Die, history
  <2> QED
    BY <1>4, <1>5, <2>1 DEF Restorable, TerminalRestored, Stopping
<1>12. CASE Leave
  <2>1. /\ pc = "leave" /\ pc' = "ended" /\ raw' = FALSE /\ handlers' = handlers
        /\ running' = FALSE /\ missed' = missed /\ late' = late
    BY <1>12 DEF Leave, history
  <2> QED
    BY <1>4, <1>5, <2>1 DEF Restorable, TerminalRestored, Stopping
<1>13. CASE \E sig \in {"stop", "stats"}, toVcpu \in BOOLEAN : Signal(sig, toVcpu)
  <2>1. PICK sig \in {"stop", "stats"}, toVcpu \in BOOLEAN : Signal(sig, toVcpu)
    BY <1>13
  <2>2. /\ pc # "ended" /\ raw' = raw /\ handlers' = handlers /\ late' = late
        /\ missed' = (missed \/ (handlers /\ sig = "stop" /\ pc = "enter"))
    BY <2>1 DEF Signal, process
  <2>3. CASE ~handlers
    <3>1. pc' = "ended" /\ running' = running
      BY <2>1, <2>3 DEF Signal
    <3> QED
      BY <1>4, <1>5, <2>2, <2>3, <3>1 DEF Restorable, TerminalRestored, Stopping
  <2>4. CASE handlers
    <3>1. /\ pc' = IF toVcpu /\ pc = "guest" THEN "eintr" ELSE pc
          /\ running' = (running /\ sig # "stop")
      BY <2>1, <2>4 DEF Signal
    <3> QED
      BY <1>4, <1>5, <2>2, <2>4, <3>1 DEF Restorable, TerminalRestored, Stopping
  <2> QED
    BY <1>4, <2>3, <2>4
<1>14. CASE UNCHANGED mainVars
  <2>1. /\ pc' = pc /\ raw' = raw /\ handlers' = handlers
        /\ running' = running /\ missed' = missed /\ late' = late
    BY <1>14 DEF mainVars, process, history
  <2> QED
    BY <1>4, <1>5, <2>1 DEF Restorable, TerminalRestored, Stopping
<1> QED
  BY <1>6, <1>7, <1>8, <1>9, <1>10, <1>11, <1>12, <1>13, <1>14

-----------------------------------------------------------------------------
\* What the invariant says of the end and of the stop flag.
LEMMA MvImplies ==
  ASSUME MvInv
  PROVE  TerminalRestored /\ StopsAfterOneExit
<1>1. late \in 0..2 /\ missed \in BOOLEAN
  BY DEF MvInv, MvTypeOK
<1> QED
  BY <1>1 DEF MvInv, Restorable, Stopping, StopsAfterOneExit

\* When main() has made its calls everything is where the guest looks for it.
LEMMA EverythingFound ==
  ASSUME MvInv
  PROVE  GuestFindsItsMemory
<1> SUFFICES ASSUME pc = "loop", Granted PROVE GuestFindsItsMemory
  BY DEF GuestFindsItsMemory
<1>1. /\ conf \in Configurations /\ memory \in Seq(Regions)
      /\ ToSet(memory) = {memory[i] : i \in 1..Len(memory)} /\ DOMAIN memory = 1..Len(memory)
  BY ToSetIs DEF MvInv, MvTypeOK
<1>2. Made = BaseCalls \cup (IF conf.blob THEN {"blob", "gdt"} ELSE KernelCalls(conf))
  <2>1. todo = <<>>
    BY DEF MvInv, Order
  <2>2. ToSet(todo) = {}
    BY <2>1 DEF ToSet
  <2> QED
    BY <1>1, <2>2, CallsAre DEF Made
<1>3. /\ "gdt" \in Made /\ "sregs" \in Made /\ "regs" \in Made /\ "memory" \in Made
      /\ IF conf.blob THEN "blob" \in Made
         ELSE "kernel" \in Made /\ "initrd" \in Made
  BY <1>2 DEF BaseCalls, KernelCalls
<1>4. \A call \in Made : Fails(call) = "no" /\ W(call) \subseteq ToSet(memory)
  BY DEF MvInv, Written, W
<1>5. \A i, j \in DOMAIN memory :
        i # j => Apart(memory[i], memory[j]) \/ InitrdOverOldKernel(memory[i], memory[j])
  BY <1>1 DEF MvInv, Written
<1>6. \A i \in DOMAIN memory : Inside(memory[i], Ram)
  <2>1. Made \subseteq ToSet(Calls(conf))
    BY DEF Made
  <2> QED
    BY <1>1, <2>1, CallsInside DEF MvInv, Written, W
<1>7. \A r : r \in ToSet(memory) => Contains(memory, r)
  BY <1>1 DEF Contains
<1>8. Contains(memory, vcpu.gdt) /\ Contains(memory, vcpu.tr)
  BY <1>3, <1>4, <1>7, WritesAre DEF MvInv, Told
<1>9. \E i \in DOMAIN memory : memory[i].from = vcpu.rip
  <2>1. vcpu.rip = Entry
    BY <1>3 DEF MvInv, Told
  <2>2. CASE conf.blob
    <3>1. Region(MB, 1) \in ToSet(memory)
      BY <1>3, <1>4, <2>2, WritesAre
    <3> QED
      BY <1>1, <2>1, <2>2, <3>1 DEF Entry, Region
  <2>3. CASE ~conf.blob
    <3>1. Region(LoadAddr, conf.kernel.image) \in ToSet(memory)
      BY <1>3, <1>4, <2>3, WritesAre
    <3> QED
      BY <1>1, <2>1, <2>3, <3>1 DEF Entry, Region
  <2> QED
    BY <2>2, <2>3
<1>10. ASSUME ~conf.blob
       PROVE  LET kernel == Region(zero_page.code32_start, Needs(conf.kernel))
                  initrd == Region(zero_page.ramdisk_image, conf.initrd)
              IN /\ Contains(memory, Region(LoadAddr, conf.kernel.image))
                 /\ kernel.from = vcpu.rip /\ Contains(memory, Region(vcpu.rsi, Page))
                 /\ Contains(memory, initrd)
                 /\ conf.kernel.v2_10 => Apart(kernel, initrd)
                 /\ \A r \in {kernel, initrd} :
                      \E a \in zero_page.e820_table : Inside(r, a)
                 /\ \A a \in zero_page.e820_table :
                      /\ Apart(a, MpFloat) /\ Apart(a, MpTable)
                      /\ conf.mem <= VirtioWindows.from => Apart(a, VirtioWindows)
  <2>1. /\ Fails("kernel") = "no" /\ Fails("initrd") = "no" /\ Fails("memory") = "no"
        /\ "kernel" \in Made /\ "initrd" \in Made
    BY <1>3, <1>4, <1>10
  <2>2. conf.mem <= PrivateSlots.from
    <3>1. Apart(Ram, PrivateSlots)
      BY <2>1 DEF Fails
    <3> QED
      BY <1>1, <3>1, ConfIs DEF Ram, Apart, End, Region, PrivateSlots, Page, MB
  <2>3. /\ LoadAddr \in Nat /\ MB <= LoadAddr /\ LoadAddr + conf.kernel.image <= conf.mem
        /\ Initrd.from \in Nat /\ Initrd.from + conf.initrd <= conf.mem
        /\ LoadAddr + conf.kernel.init < Initrd.from
    BY <1>1, <1>10, <2>1, Places
  <2>4. /\ conf.mem \in Nat /\ conf.initrd \in Nat /\ conf.kernel.init \in Nat
        /\ conf.kernel.image \in Nat /\ 64 * MB <= conf.mem
        /\ Needs(conf.kernel) \in Nat /\ LoadAddr + Needs(conf.kernel) <= conf.mem
    BY <1>1, <2>3, ConfIs DEF Needs
  <2>5. LoadAddr % FourGB = LoadAddr /\ Initrd.from % FourGB = Initrd.from
    BY <2>2, <2>3, <2>4 DEF PrivateSlots, Region, FourGB, Page
  <2>6. /\ zero_page.code32_start = LoadAddr /\ zero_page.ramdisk_image = Initrd.from
        /\ zero_page.e820_table = {Region(0, 2556), Region(MB, conf.mem - MB)}
    BY <2>1, <2>5 DEF MvInv, Told
  <2>7. vcpu.rip = LoadAddr /\ vcpu.rsi = ZeroPage.from
    BY <1>3, <1>10 DEF MvInv, Told, Entry
  <2>8. /\ Contains(memory, Region(LoadAddr, conf.kernel.image))
        /\ Contains(memory, ZeroPage) /\ Contains(memory, Initrd)
    BY <1>4, <1>7, <2>1, WritesAre
  <2>9. ZeroPage = Region(ZeroPage.from, Page) /\ Initrd = Region(Initrd.from, conf.initrd)
    BY DEF ZeroPage, Initrd, Region
  <2>10. conf.kernel.v2_10 =>
           Apart(Region(LoadAddr, Needs(conf.kernel)), Region(Initrd.from, conf.initrd))
    BY <2>3, <2>4 DEF Apart, End, Region, Needs
  <2>11. /\ Inside(Region(LoadAddr, Needs(conf.kernel)), Region(MB, conf.mem - MB))
         /\ Inside(Region(Initrd.from, conf.initrd), Region(MB, conf.mem - MB))
    BY <2>3, <2>4 DEF Inside, End, Region, MB
  <2>12. \A a \in {Region(0, 2556), Region(MB, conf.mem - MB)} :
           /\ Apart(a, MpFloat) /\ Apart(a, MpTable)
           /\ conf.mem <= VirtioWindows.from => Apart(a, VirtioWindows)
    BY <2>4 DEF Apart, End, Region, MpFloat, MpTable, VirtioWindows, MB
  <2> QED
    BY <2>6, <2>7, <2>8, <2>9, <2>10, <2>11, <2>12 DEF Region
<1> QED
  BY <1>5, <1>6, <1>8, <1>9, <1>10 DEF GuestFindsItsMemory

\* main() makes each of its calls once and in order; the zero page and the registers
\* hold what the calls so far wrote; where what load_bzimage() takes for granted
\* holds, each call writes only where nothing is yet, but for an initramfs over an old
\* kernel; run_loop() is left as soon as it looks at the stop flag.
THEOREM MinivmmInvariant == MainSpec => []MvInv
<1>1. MvInv /\ [MainNext]_mainVars => MvInv'
  BY SetupStep, RunStep DEF MainNext
<1> QED
  BY <1>1, InitMvInv, PTL DEF MainSpec

\* At the first VM entry all that main() has put into guest memory is as it was
\* written and is where the zero page and the vCPU registers say (load_bzimage()),
\* but for the cases that GuestFindsItsMemory names.
THEOREM MemoryIsFound == MainSpec => []GuestFindsItsMemory
<1>1. MvInv => GuestFindsItsMemory
  BY EverythingFound
<1> QED
  BY <1>1, MinivmmInvariant, PTL

\* However and whenever the process ends the terminal is as it was: the handlers are
\* there before the raw mode, and atexit() undoes that (termios_raw()).
THEOREM EndsRestored == MainSpec => []TerminalRestored
<1>1. MvInv => TerminalRestored
  BY MvImplies
<1> QED
  BY <1>1, MinivmmInvariant, PTL

\* A program that is to stop enters the guest again only if the request came between
\* the test of running and KVM_RUN, and then once (run_loop()).
THEOREM OneExitAtMost == MainSpec => []StopsAfterOneExit
<1>1. MvInv => StopsAfterOneExit
  BY MvImplies
<1> QED
  BY <1>1, MinivmmInvariant, PTL

-----------------------------------------------------------------------------
(* Serial16550.                                                            *)

\* LineTellsTruth for any state of the port.
Truth(s) ==
  /\ s.line = s.irq_level
  /\ s.irq_level <=> s.ier \cap Conditions(s) # {}
  /\ s.iir = Highest(s.ier \cap Conditions(s))

Ready(s) == s.dr <=> s.rx # <<>>

\* The fields that serial_update_irq_locked() does not touch.
SameRegisters(s, t) ==
  /\ t.ier = s.ier /\ t.fifo = s.fifo /\ t.dlab = s.dlab /\ t.loop = s.loop
  /\ t.rx = s.rx /\ t.dr = s.dr /\ t.oe = s.oe
  /\ t.thr_ipending = s.thr_ipending

\* There is an interrupt to name exactly when some enabled condition is present.
LEMMA HighestNames ==
  ASSUME NEW on \in SUBSET Sources
  PROVE  /\ Highest(on) \in Sources \cup {"NO_INT"}
         /\ Highest(on) # "NO_INT" <=> on # {}
<1>1. CASE "RLSI" \in on
  BY <1>1 DEF Highest, Sources
<1>2. CASE "RLSI" \notin on /\ "RDI" \in on
  BY <1>2 DEF Highest, Sources
<1>3. CASE on = {"THRI"}
  BY <1>3 DEF Highest, Sources
<1>4. CASE on = {}
  BY <1>4 DEF Highest, Sources
<1> QED  BY <1>1, <1>2, <1>3, <1>4 DEF Sources

\* serial_update_irq_locked() makes the line truthful and changes nothing else.
LEMMA UpdateIrqWorks ==
  ASSUME NEW s \in SerialState, s.line = s.irq_level
  PROVE  /\ UpdateIrq(s) \in SerialState
         /\ Truth(UpdateIrq(s))
         /\ SameRegisters(s, UpdateIrq(s))
<1> DEFINE on == s.ier \cap Conditions(s)
           t  == [s EXCEPT !.iir = Highest(on),
                           !.irq_level = Highest(on) # "NO_INT"]
<1>1. on \in SUBSET Sources /\ Highest(on) \in Sources \cup {"NO_INT"}
      /\ (Highest(on) # "NO_INT" <=> on # {})
  BY HighestNames DEF SerialState
<1> HIDE DEF on
<1>2. t \in SerialState /\ SameRegisters(s, t) /\ t.line = s.line
      /\ t.iir = Highest(on) /\ t.irq_level = (Highest(on) # "NO_INT")
  BY <1>1 DEF SerialState, SameRegisters
<1>3. UpdateIrq(s) = IF (Highest(on) # "NO_INT") = s.irq_level
                     THEN t ELSE KvmIrqLine(t, Highest(on) # "NO_INT")
  BY DEF UpdateIrq, on
<1> DEFINE u == UpdateIrq(s)
<1>4. u \in SerialState /\ SameRegisters(s, u)
      /\ u.line = u.irq_level /\ u.irq_level = (Highest(on) # "NO_INT")
      /\ u.iir = Highest(on)
  <2>1. CASE (Highest(on) # "NO_INT") = s.irq_level
    BY <1>2, <1>3, <2>1
  <2>2. CASE (Highest(on) # "NO_INT") # s.irq_level
    <3> DEFINE level == Highest(on) # "NO_INT"
               latch == t.irr \/ (level /\ ~t.line)
    <3>1. u = [t EXCEPT !.line = level, !.irr = latch]
      BY <1>3, <2>2 DEF KvmIrqLine
    <3>2. level \in BOOLEAN /\ latch \in BOOLEAN
      OBVIOUS
    <3>3. level = (Highest(on) # "NO_INT")
      OBVIOUS
    <3> HIDE DEF t, u, level, latch
    <3>4. u \in SerialState
      BY <1>2, <3>1, <3>2 DEF SerialState
    <3>5. u.line = level /\ u.irq_level = t.irq_level /\ u.iir = t.iir
          /\ SameRegisters(t, u)
      BY <1>2, <3>1 DEF SerialState, SameRegisters
    <3> QED  BY <1>2, <3>3, <3>4, <3>5 DEF SameRegisters
  <2> QED  BY <2>1, <2>2
<1>5. u.ier \cap Conditions(u) = on
  BY <1>4 DEF SameRegisters, Conditions, on
<1> QED  BY <1>1, <1>4, <1>5 DEF Truth

-----------------------------------------------------------------------------
(* What each operation does to the port.                                   *)

\* A port in the middle of an operation, and between two operations.
Sound(s) ==
  /\ s \in SerialState
  /\ s.line = s.irq_level
  /\ Len(s.rx) <= Capacity
  /\ Ready(s)

Good(s) == Sound(s) /\ Truth(s)

LEMMA UpdateIrqGood ==
  ASSUME NEW s, Sound(s)
  PROVE  Good(UpdateIrq(s)) /\ UpdateIrq(s).rx = s.rx /\ UpdateIrq(s).oe = s.oe
<1>1. /\ UpdateIrq(s) \in SerialState
      /\ Truth(UpdateIrq(s))
      /\ SameRegisters(s, UpdateIrq(s))
  BY UpdateIrqWorks DEF Sound
<1>2. Ready(UpdateIrq(s))
  BY <1>1 DEF SameRegisters, Ready, Sound
<1> QED  BY <1>1, <1>2 DEF Good, Sound, Truth, SameRegisters

\* serial_recv_locked() appends the byte or reports the overrun.
LEMMA RecvWorks ==
  ASSUME NEW s, Sound(s), NEW c \in Byte
  PROVE  /\ Good(Recv(s, c))
         /\ Full(s) => Recv(s, c).rx = s.rx /\ Recv(s, c).oe = TRUE
         /\ ~Full(s) => Recv(s, c).rx = Append(s.rx, c) /\ Recv(s, c).oe = s.oe
<1> USE SizesOK DEF Capacity
<1>1. CASE Full(s)
  <2> DEFINE t == [s EXCEPT !.oe = TRUE]
  <2>1. t \in SerialState /\ t.line = t.irq_level /\ t.rx = s.rx /\ t.oe = TRUE
        /\ t.dr = s.dr
    BY DEF SerialState, Sound
  <2>2. Recv(s, c) = UpdateIrq(t)
    BY <1>1 DEF Recv
  <2> HIDE DEF t
  <2>3. Sound(t)
    BY <2>1 DEF Sound, Ready
  <2> QED  BY <1>1, <2>1, <2>2, <2>3, UpdateIrqGood
<1>2. CASE ~Full(s)
  <2> DEFINE more == Append(s.rx, c)
             t == [s EXCEPT !.rx = more, !.dr = TRUE]
  <2>1. more \in Seq(Byte) /\ more # <<>> /\ Len(more) <= Capacity
    BY <1>2 DEF Sound, SerialState, Full
  <2> HIDE DEF more
  <2>2. t \in SerialState /\ t.line = t.irq_level /\ t.rx = more
        /\ t.dr = TRUE /\ t.oe = s.oe
    BY <2>1 DEF SerialState, Sound
  <2>3. Recv(s, c) = UpdateIrq(t) /\ more = Append(s.rx, c)
    BY <1>2 DEF Recv, more
  <2> HIDE DEF t
  <2>4. Sound(t)
    BY <2>1, <2>2 DEF Sound, Ready
  <2> QED  BY <1>2, <2>2, <2>3, <2>4, UpdateIrqGood
<1> QED  BY <1>1, <1>2

\* Writing THR sends the byte or, in loopback, receives it.
LEMMA TransmitWorks ==
  ASSUME NEW s, Good(s)
  PROVE  /\ Good(Transmit(s))
         /\ ~s.loop => Transmit(s).rx = s.rx /\ Transmit(s).oe = s.oe
         /\ s.loop /\ Full(s) => Transmit(s).rx = s.rx /\ Transmit(s).oe = TRUE
         /\ s.loop /\ ~Full(s) =>
              Transmit(s).rx = Append(s.rx, 0) /\ Transmit(s).oe = s.oe
<1> DEFINE t == [s EXCEPT !.thr_ipending = FALSE]
           u == IF s.loop THEN Recv(t, 0) ELSE t
           w == [u EXCEPT !.thr_ipending = TRUE]
<1>1. t \in SerialState /\ t.line = t.irq_level /\ t.rx = s.rx /\ t.oe = s.oe
      /\ t.dr = s.dr
  BY DEF Good, Sound, SerialState
<1>2. Transmit(s) = UpdateIrq(w)
  BY DEF Transmit
<1> HIDE DEF t
<1>3. 0 \in Byte /\ (Full(t) <=> Full(s)) /\ Sound(t)
  BY <1>1, SizesOK DEF Byte, Full, Ready, Good, Sound
<1>4. s.loop => u = Recv(t, 0)
  OBVIOUS
<1>5. ~s.loop => u = t
  OBVIOUS
<1> HIDE DEF u
<1>6. Sound(u)
  BY <1>3, <1>4, <1>5, RecvWorks DEF Good
<1>7. w \in SerialState /\ w.line = w.irq_level /\ w.rx = u.rx /\ w.oe = u.oe
      /\ w.dr = u.dr
  BY <1>6 DEF Sound, SerialState
<1> HIDE DEF w
<1>8. Sound(w)
  BY <1>6, <1>7 DEF Sound, Ready
<1>9. Good(Transmit(s)) /\ Transmit(s).rx = u.rx /\ Transmit(s).oe = u.oe
  BY <1>2, <1>7, <1>8, UpdateIrqGood
<1>10. CASE s.loop
  <2>1. /\ Full(t) => u.rx = t.rx /\ u.oe = TRUE
        /\ ~Full(t) => u.rx = Append(t.rx, 0) /\ u.oe = t.oe
    BY <1>3, <1>4, <1>10, RecvWorks
  <2>2. Full(s) => Transmit(s).rx = s.rx /\ Transmit(s).oe = TRUE
    BY <1>1, <1>3, <1>9, <2>1
  <2>3. ~Full(s) => Transmit(s).rx = Append(s.rx, 0) /\ Transmit(s).oe = s.oe
    BY <1>1, <1>3, <1>9, <2>1
  <2> QED  BY <1>9, <1>10, <2>2, <2>3
<1>11. CASE ~s.loop
  BY <1>1, <1>5, <1>9, <1>11
<1> QED  BY <1>10, <1>11

\* Writing IER leaves the receive side alone.
LEMMA SetIerWorks ==
  ASSUME NEW s, Good(s), NEW enable \in SUBSET Sources
  PROVE  /\ Good(SetIer(s, enable))
         /\ SetIer(s, enable).rx = s.rx /\ SetIer(s, enable).oe = s.oe
<1> DEFINE pend == s.thr_ipending \/ "THRI" \in enable
           t == [s EXCEPT !.ier = enable, !.thr_ipending = pend]
<1>1. pend \in BOOLEAN
  OBVIOUS
<1>2. SetIer(s, enable) = UpdateIrq(t)
  BY DEF SetIer
<1> HIDE DEF pend
<1>3. t \in SerialState /\ t.line = t.irq_level /\ t.rx = s.rx /\ t.oe = s.oe
      /\ t.dr = s.dr
  BY <1>1 DEF Good, Sound, SerialState
<1> HIDE DEF t
<1>4. Sound(t)
  BY <1>3 DEF Good, Sound, Ready
<1> QED  BY <1>2, <1>3, <1>4, UpdateIrqGood

\* Writing FCR empties the ring or leaves it alone, and never touches OE.
LEMMA SetFcrWorks ==
  ASSUME NEW s, Good(s), NEW enable \in BOOLEAN, NEW rcvr \in BOOLEAN,
         NEW xmit \in BOOLEAN
  PROVE  /\ Good(SetFcr(s, enable, rcvr, xmit))
         /\ SetFcr(s, enable, rcvr, xmit).rx \in {<<>>, s.rx}
         /\ SetFcr(s, enable, rcvr, xmit).oe = s.oe
<1> DEFINE toggled == enable # s.fifo
           t == IF rcvr \/ toggled THEN ClearRcvr(s) ELSE s
           u == IF xmit \/ toggled THEN [t EXCEPT !.thr_ipending = TRUE] ELSE t
           w == [u EXCEPT !.fifo = enable]
<1>1. SetFcr(s, enable, rcvr, xmit) = UpdateIrq(w)
  BY DEF SetFcr
<1>2. ClearRcvr(s) \in SerialState /\ ClearRcvr(s).line = ClearRcvr(s).irq_level
      /\ ClearRcvr(s).rx = <<>> /\ ClearRcvr(s).dr = FALSE
      /\ ClearRcvr(s).oe = s.oe
  <2>1. <<>> \in Seq(Byte)
    OBVIOUS
  <2>2. ClearRcvr(s) = [s EXCEPT !.rx = <<>>, !.dr = FALSE]
    BY DEF ClearRcvr
  <2>3. s \in SerialState /\ s.line = s.irq_level
    BY DEF Good, Sound
  <2> QED  BY <2>1, <2>2, <2>3 DEF SerialState
<1>3. Sound(ClearRcvr(s))
  BY <1>2, SizesOK DEF Sound, Ready, Capacity
<1>4. t = ClearRcvr(s) \/ t = s
  OBVIOUS
<1> HIDE DEF t
<1>5. Sound(t) /\ t.rx \in {<<>>, s.rx} /\ t.oe = s.oe
  BY <1>2, <1>3, <1>4 DEF Good
<1>6. /\ u \in SerialState /\ u.line = u.irq_level /\ u.rx = t.rx
      /\ u.oe = t.oe /\ u.dr = t.dr
  BY <1>5 DEF Sound, SerialState
<1> HIDE DEF u
<1>7. /\ w \in SerialState /\ w.line = w.irq_level /\ w.rx = u.rx
      /\ w.oe = u.oe /\ w.dr = u.dr
  BY <1>6 DEF SerialState
<1> HIDE DEF w
<1>8. Sound(w)
  BY <1>5, <1>6, <1>7 DEF Sound, Ready
<1> QED  BY <1>1, <1>5, <1>6, <1>7, <1>8, UpdateIrqGood

\* Reading RBR removes the oldest byte.
LEMMA PopWorks ==
  ASSUME NEW s, Good(s)
  PROVE  /\ Good(UpdateIrq(AfterPop(s)))
         /\ s.rx = <<>> => UpdateIrq(AfterPop(s)).rx = s.rx
         /\ s.rx # <<>> => UpdateIrq(AfterPop(s)).rx = Tail(s.rx)
         /\ UpdateIrq(AfterPop(s)).oe = s.oe
<1> DEFINE left == PopRx(s)
           ready == s.dr /\ left # <<>>
           t == [s EXCEPT !.rx = left, !.dr = ready]
<1>1. left \in Seq(Byte) /\ Len(left) <= Capacity
  BY SizesOK DEF PopRx, Good, Sound, SerialState, Capacity
<1>2. /\ s.rx = <<>> => left = s.rx
      /\ s.rx # <<>> => left = Tail(s.rx)
  BY DEF PopRx
<1>3. AfterPop(s) = t
  BY DEF AfterPop
<1>4. ready \in BOOLEAN /\ (ready <=> left # <<>>)
  BY <1>2 DEF Good, Sound, Ready
<1> HIDE DEF left, ready
<1>5. /\ t \in SerialState /\ t.line = t.irq_level /\ t.rx = left
      /\ t.oe = s.oe /\ t.dr = ready
  BY <1>1, <1>4 DEF Good, Sound, SerialState
<1> HIDE DEF t
<1>6. Sound(t)
  BY <1>1, <1>4, <1>5 DEF Sound, Ready
<1> QED  BY <1>2, <1>3, <1>5, <1>6, UpdateIrqGood

\* Reading IIR acknowledges THRI and leaves the receive side alone.
LEMMA AckThriWorks ==
  ASSUME NEW s, Good(s)
  PROVE  Good(AckThri(s)) /\ AckThri(s).rx = s.rx /\ AckThri(s).oe = s.oe
<1> DEFINE t == [s EXCEPT !.thr_ipending = FALSE]
<1>1. t \in SerialState /\ t.line = t.irq_level /\ t.rx = s.rx /\ t.oe = s.oe
      /\ t.dr = s.dr
  BY DEF Good, Sound, SerialState
<1>2. AckThri(s) = IF s.iir = "THRI" THEN UpdateIrq(t) ELSE s
  BY DEF AckThri
<1> HIDE DEF t
<1>3. Sound(t)
  BY <1>1 DEF Good, Sound, Ready
<1> QED  BY <1>1, <1>2, <1>3, UpdateIrqGood

\* Reading LSR clears the overrun and leaves the ring alone.
LEMMA AckOverrunWorks ==
  ASSUME NEW s, Good(s)
  PROVE  Good(AckOverrun(s)) /\ AckOverrun(s).rx = s.rx /\ AckOverrun(s).oe = FALSE
<1> DEFINE t == [s EXCEPT !.oe = FALSE]
<1>1. t \in SerialState /\ t.line = t.irq_level /\ t.rx = s.rx /\ t.oe = FALSE
      /\ t.dr = s.dr
  BY DEF Good, Sound, SerialState
<1>2. AckOverrun(s) = IF s.oe THEN UpdateIrq(t) ELSE s
  BY DEF AckOverrun
<1>3. s.oe \in BOOLEAN
  BY DEF Good, Sound, SerialState
<1> HIDE DEF t
<1>4. Sound(t)
  BY <1>1 DEF Good, Sound, Ready
<1>5. CASE s.oe
  BY <1>1, <1>2, <1>4, <1>5, UpdateIrqGood
<1>6. CASE ~s.oe
  BY <1>2, <1>3, <1>6
<1> QED  BY <1>5, <1>6

-----------------------------------------------------------------------------
(* The inductive invariant.                                                *)

IInv ==
  /\ Good(serial)
  /\ held \in BOOLEAN /\ buf \in Seq(Byte) /\ taken \in 0..MaxBytes
  /\ unreported \in BOOLEAN /\ last \in Byte
  /\ OverrunReported

\* Nothing is enabled, received or owed at reset.
LEMMA InitIInv == Init => IInv
<1> SUFFICES ASSUME Init PROVE IInv  OBVIOUS
<1>1. /\ serial \in SerialState /\ serial.line = FALSE
      /\ serial.irq_level = FALSE /\ serial.rx = <<>> /\ serial.dr = FALSE
      /\ serial.ier = {} /\ serial.iir = "NO_INT"
  BY DEF Init, SerialState, Sources
<1>2. Sound(serial)
  <2>1. Len(serial.rx) = 0 /\ 0 <= Capacity
    BY <1>1, SizesOK DEF Capacity
  <2> QED  BY <1>1, <2>1 DEF Sound, Ready
<1>3. serial.ier \cap Conditions(serial) = {}
  BY <1>1
<1>4. Truth(serial)
  BY <1>1, <1>3, HighestNames DEF Truth
<1>5. buf \in Seq(Byte) /\ taken \in 0..MaxBytes /\ last \in Byte
  BY SizesOK DEF Init, Byte
<1>6. held \in BOOLEAN /\ unreported = FALSE
  BY DEF Init
<1> QED
  BY <1>2, <1>4, <1>5, <1>6 DEF IInv, Good, OverrunReported

\* Fields other than those that feed the interrupt logic do not disturb it.
SameIrq(s, t) ==
  /\ t.ier = s.ier /\ t.dr = s.dr /\ t.oe = s.oe
  /\ t.thr_ipending = s.thr_ipending /\ t.iir = s.iir
  /\ t.irq_level = s.irq_level /\ t.line = s.line

LEMMA SameIrqGood ==
  ASSUME NEW s, NEW t \in SerialState, Good(s), SameIrq(s, t), t.rx = s.rx
  PROVE  Good(t)
<1>1. Conditions(t) = Conditions(s)
  BY DEF SameIrq, Conditions
<1> QED  BY <1>1 DEF Good, Sound, Truth, Ready, SameIrq

\* Every step keeps the invariant and is a step of the byte channel or leaves
\* the receive side alone.
LEMMA Step ==
  ASSUME IInv, [Next]_vars
  PROVE  /\ IInv'
         /\ [Channel!Next]_<<serial.rx, serial.oe>>
<1> USE SizesOK
<1>0. /\ Good(serial) /\ serial.rx \in Seq(Byte) /\ serial.oe \in BOOLEAN
      /\ (Full(serial) <=> Len(serial.rx) = Capacity)
      /\ (~Full(serial) <=> Len(serial.rx) < Capacity)
  BY DEF IInv, Good, Sound, SerialState, Full, Capacity
<1>1. ASSUME InputRead
      PROVE  IInv' /\ [Channel!Next]_<<serial.rx, serial.oe>>
  <2>1. PICK k \in 1..BatchMax : /\ taken + k <= MaxBytes
                                /\ buf' = [i \in 1..k |-> taken + i]
                                /\ taken' = taken + k
    BY <1>1 DEF InputRead
  <2>2. buf' \in Seq(Byte) /\ taken' \in 0..MaxBytes
    BY <2>1 DEF Byte, IInv
  <2> QED  BY <1>1, <2>2 DEF InputRead, IInv, OverrunReported
<1>2. ASSUME InputLock \/ InputUnlock
      PROVE  IInv' /\ [Channel!Next]_<<serial.rx, serial.oe>>
  <2>1. held' \in BOOLEAN
    BY <1>2 DEF InputLock, InputUnlock
  <2>2. /\ serial' = serial /\ buf' = buf /\ taken' = taken
        /\ unreported' = unreported /\ last' = last
    BY <1>2 DEF InputLock, InputUnlock
  <2> QED  BY <2>1, <2>2 DEF IInv, OverrunReported
<1>3. ASSUME InputRecv
      PROVE  IInv' /\ [Channel!Next]_<<serial.rx, serial.oe>>
  <2>1. Head(buf) \in Byte /\ Tail(buf) \in Seq(Byte)
    BY <1>3 DEF InputRecv, IInv
  <2>2. Good(serial')
    BY <1>3, <1>0, <2>1, RecvWorks DEF InputRecv, Good
  <2>3. CASE Full(serial)
    <3>1. serial'.rx = serial.rx /\ serial'.oe = TRUE
      BY <1>3, <1>0, <2>1, <2>3, RecvWorks DEF InputRecv, Good
    <3>2. Channel!Refuse
      BY <1>0, <2>3, <3>1 DEF Channel!Refuse
    <3> QED
      BY <1>3, <2>1, <2>2, <3>1, <3>2 DEF IInv, InputRecv, OverrunReported, Channel!Next
  <2>4. CASE ~Full(serial)
    <3>1. serial'.rx = Append(serial.rx, Head(buf)) /\ serial'.oe = serial.oe
      BY <1>3, <1>0, <2>1, <2>4, RecvWorks DEF InputRecv, Good
    <3>2. Channel!Accept
      BY <1>0, <2>1, <2>4, <3>1 DEF Channel!Accept
    <3> QED
      BY <1>3, <2>1, <2>2, <2>4, <3>1, <3>2
      DEF IInv, InputRecv, OverrunReported, Channel!Next
  <2> QED  BY <2>3, <2>4
<1>4. ASSUME WriteThr
      PROVE  IInv' /\ [Channel!Next]_<<serial.rx, serial.oe>>
  <2>0. 0 \in Byte
    BY DEF Byte
  <2>1. Good(serial')
    BY <1>4, <1>0, TransmitWorks DEF WriteThr
  <2>2. CASE ~serial.loop
    <3>1. serial'.rx = serial.rx /\ serial'.oe = serial.oe
      BY <1>4, <1>0, <2>2, TransmitWorks DEF WriteThr
    <3> QED
      BY <1>4, <2>1, <2>2, <3>1 DEF IInv, WriteThr, inputVars, OverrunReported
  <2>3. CASE serial.loop /\ Full(serial)
    <3>1. serial'.rx = serial.rx /\ serial'.oe = TRUE
      BY <1>4, <1>0, <2>3, TransmitWorks DEF WriteThr
    <3>2. Channel!Refuse
      BY <1>0, <2>3, <3>1 DEF Channel!Refuse
    <3> QED
      BY <1>4, <2>1, <3>1, <3>2
      DEF IInv, WriteThr, inputVars, OverrunReported, Channel!Next
  <2>4. CASE serial.loop /\ ~Full(serial)
    <3>1. serial'.rx = Append(serial.rx, 0) /\ serial'.oe = serial.oe
      BY <1>4, <1>0, <2>4, TransmitWorks DEF WriteThr
    <3>2. Channel!Accept
      BY <1>0, <2>0, <2>4, <3>1 DEF Channel!Accept
    <3> QED
      BY <1>4, <2>1, <2>4, <3>1, <3>2
      DEF IInv, WriteThr, inputVars, OverrunReported, Channel!Next
  <2> QED  BY <2>2, <2>3, <2>4
<1>5. ASSUME NEW enable \in SUBSET Sources, WriteIer(enable)
      PROVE  IInv' /\ [Channel!Next]_<<serial.rx, serial.oe>>
  <2>1. Good(serial') /\ serial'.rx = serial.rx /\ serial'.oe = serial.oe
    BY <1>5, <1>0, SetIerWorks DEF WriteIer
  <2> QED  BY <1>5, <2>1 DEF IInv, WriteIer, inputVars, OverrunReported
<1>6. ASSUME NEW enable \in BOOLEAN, NEW rcvr \in BOOLEAN, NEW xmit \in BOOLEAN,
             WriteFcr(enable, rcvr, xmit)
      PROVE  IInv' /\ [Channel!Next]_<<serial.rx, serial.oe>>
  <2>1. /\ Good(serial') /\ serial'.rx \in {<<>>, serial.rx}
        /\ serial'.oe = serial.oe
    BY <1>6, <1>0, SetFcrWorks DEF WriteFcr
  <2>2. [Channel!Next]_<<serial.rx, serial.oe>>
    BY <2>1 DEF Channel!Next, Channel!Flush
  <2> QED  BY <1>6, <2>1, <2>2 DEF IInv, WriteFcr, inputVars, OverrunReported
<1>7. ASSUME NEW b \in BOOLEAN, WriteLcr(b) \/ WriteMcr(b)
      PROVE  IInv' /\ [Channel!Next]_<<serial.rx, serial.oe>>
  <2>1. /\ serial' \in SerialState /\ SameIrq(serial, serial')
        /\ serial'.rx = serial.rx /\ serial'.oe = serial.oe
        /\ serial'.dr = serial.dr
    BY <1>7, <1>0 DEF WriteLcr, WriteMcr, Good, Sound, SerialState, SameIrq
  <2>2. Good(serial')
    BY <1>0, <2>1, SameIrqGood
  <2> QED  BY <1>7, <2>1, <2>2 DEF IInv, WriteLcr, WriteMcr, inputVars, OverrunReported
<1>8. ASSUME ReadRbr
      PROVE  IInv' /\ [Channel!Next]_<<serial.rx, serial.oe>>
  <2>1. /\ Good(serial') /\ serial'.oe = serial.oe
        /\ serial.rx = <<>> => serial'.rx = serial.rx
        /\ serial.rx # <<>> => serial'.rx = Tail(serial.rx)
    BY <1>8, <1>0, PopWorks DEF ReadRbr
  <2>2. [Channel!Next]_<<serial.rx, serial.oe>>
    BY <2>1 DEF Channel!Next, Channel!Deliver
  <2>3. last' \in Byte
    BY <1>8, <1>0 DEF ReadRbr, IInv
  <2> QED  BY <1>8, <2>1, <2>2, <2>3 DEF IInv, ReadRbr, inputVars, OverrunReported
<1>9. ASSUME ReadIir
      PROVE  IInv' /\ [Channel!Next]_<<serial.rx, serial.oe>>
  <2>1. Good(serial') /\ serial'.rx = serial.rx /\ serial'.oe = serial.oe
    BY <1>9, <1>0, AckThriWorks DEF ReadIir
  <2> QED  BY <1>9, <2>1 DEF IInv, ReadIir, inputVars, OverrunReported
<1>10. ASSUME ReadLsr
      PROVE  IInv' /\ [Channel!Next]_<<serial.rx, serial.oe>>
  <2>1. Good(serial') /\ serial'.rx = serial.rx /\ serial'.oe = FALSE
    BY <1>10, <1>0, AckOverrunWorks DEF ReadLsr
  <2>2. Channel!Report
    BY <2>1 DEF Channel!Report
  <2> QED
    BY <1>10, <2>1, <2>2 DEF IInv, ReadLsr, inputVars, OverrunReported, Channel!Next
<1>11. ASSUME TakeInterrupt
      PROVE  IInv' /\ [Channel!Next]_<<serial.rx, serial.oe>>
  <2>1. /\ serial' \in SerialState /\ SameIrq(serial, serial')
        /\ serial'.rx = serial.rx /\ serial'.oe = serial.oe
        /\ serial'.dr = serial.dr
    BY <1>11, <1>0 DEF TakeInterrupt, Good, Sound, SerialState, SameIrq
  <2>2. Good(serial')
    BY <1>0, <2>1, SameIrqGood
  <2> QED  BY <1>11, <2>1, <2>2 DEF IInv, TakeInterrupt, inputVars, OverrunReported
<1>12. ASSUME UNCHANGED vars
      PROVE  IInv' /\ [Channel!Next]_<<serial.rx, serial.oe>>
  BY <1>12 DEF vars, inputVars, IInv, OverrunReported
<1> QED
  BY <1>1, <1>2, <1>3, <1>4, <1>5, <1>6, <1>7,
     <1>8, <1>9, <1>10, <1>11, <1>12
  DEF Next, InputThread, Guest

-----------------------------------------------------------------------------
(* Theorems.                                                               *)

\* Every variable keeps its type and the ring never holds more than RxSize - 1
\* bytes.
THEOREM TypeCorrect == Spec => []TypeOK
<1>1. IInv => TypeOK
  BY DEF IInv, TypeOK, Good, Sound
<1>2. IInv /\ [Next]_vars => IInv'
  BY Step
<1> QED  BY InitIInv, <1>1, <1>2, PTL DEF Spec

\* serial_update_irq_locked() is called wherever it has to be: the line that
\* KVM sees agrees with the registers after every access and every byte.
THEOREM LineIsTruthful == Spec => []LineTellsTruth
<1>1. IInv => LineTellsTruth
  BY DEF IInv, LineTellsTruth, Good, Truth
<1>2. IInv /\ [Next]_vars => IInv'
  BY Step
<1> QED  BY InitIInv, <1>1, <1>2, PTL DEF Spec

\* LSR.DR agrees with the ring.
THEOREM DataReadyIsExact == Spec => []DataReadyExact
<1>1. IInv => DataReadyExact
  BY DEF IInv, DataReadyExact, Good, Sound, Ready
<1>2. IInv /\ [Next]_vars => IInv'
  BY Step
<1> QED  BY InitIInv, <1>1, <1>2, PTL DEF Spec

\* No byte is dropped silently.
THEOREM OverrunIsReported == Spec => []OverrunReported
<1>1. IInv => OverrunReported
  BY DEF IInv
<1>2. IInv /\ [Next]_vars => IInv'
  BY Step
<1> QED  BY InitIInv, <1>1, <1>2, PTL DEF Spec

\* The receive side of the port implements the bounded byte channel.
THEOREM ImplementsByteChannel == Spec => IsByteChannel
<1>1. Init => Channel!Init
  BY DEF Init, Channel!Init
<1>2. IInv /\ [Next]_vars => IInv' /\ [Channel!Next]_<<serial.rx, serial.oe>>
  BY Step
<1> QED  BY InitIInv, <1>1, <1>2, PTL DEF Spec, IsByteChannel, Channel!Spec
=============================================================================
