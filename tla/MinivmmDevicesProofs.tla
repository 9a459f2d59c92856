------------------------ MODULE MinivmmDevicesProofs ------------------------
(***************************************************************************)
(* Proofs about the devices of minivmm.                                    *)
(*                                                                         *)
(* VfioMsix (PCI configuration, VFIO and MSI-X), for any BARs, vectors and *)
(* messages.                                                               *)
(*                                                                         *)
(* VirtioDevices (virtio-mmio registers, console and disk), for any chains,*)
(* queue size and FIFO size.  The properties say where they do not hold: a *)
(* FIFO asked to hold more than its size, a chain longer than the array of *)
(* segments, a short pwrite().  What a recursive function computes is      *)
(* shown by induction, in the form that every set of naturals has a least  *)
(* element.                                                                *)
(***************************************************************************)
EXTENDS VirtioDevices, VfioMsix, SequenceTheorems, WellFoundedInduction, TLAPS

-----------------------------------------------------------------------------
(* VfioMsix: the BARs.                                                     *)

\* The last steps of the guest's sizing and placing of a BAR.
Rest(k) == SubSeq(ToDo, k, 5)

\* The types of the configuration registers.
BarsTypeOK ==
  /\ bar_size \in [Bars -> {1, 2, 4, 8, Half, 2 * Half, 4 * Half}]
  /\ \A b \in Bars \ Is64 : bar_size[b] < Half
  /\ bar_val \in [Bars -> [lo : 0..Ones, hi : 0..Ones]]
  /\ found \in [Bars -> [base : 0..Top, size : Nat]]
  /\ gpc \in [Bars -> {Rest(k) : k \in 1..6}]

\* What the registers of a BAR hold, and what the guest knows, before its k-th step.
Before(b, k) ==
  /\ k = 1 => bar_val[b].lo = 0
  /\ k \in {2, 3} => bar_val[b].lo = Ones
  /\ k \in {1, 2} => bar_val[b].hi = 0
  /\ k = 3 => bar_val[b].hi = IF b \in Is64 THEN Ones ELSE 0
  /\ k < 4 => found[b].base = 0
  /\ k >= 4 => /\ found[b].size = Shown(b) /\ found[b].base # 0
               /\ b \in Is64 <=> found[b].base + found[b].size > Half
  /\ k >= 5 => bar_val[b].lo = found[b].base % Half
  /\ k = 6 => bar_val[b].hi = IF b \in Is64 THEN found[b].base \div Half ELSE 0
  /\ b \notin Is64 => bar_val[b].hi = 0

\* Every BAR is at some step, and its registers hold what that step left.
Placed == \A b \in Bars : \A k \in 1..6 : gpc[b] = Rest(k) => Before(b, k)

\* The addresses the guest has given out do not overlap.
Disjoint ==
  \A b, o \in Bars :
    b # o /\ found[b].base # 0 /\ found[o].base # 0 =>
      Span(found[b].base, found[b].size) \cap Span(found[o].base, found[o].size) = {}

\* The inductive invariant of the BARs.
BarsInv == BarsTypeOK /\ Placed /\ Disjoint

\* The steps left, one less at a time.
LEMMA RestIs ==
  ASSUME NEW k \in 1..6
  PROVE  /\ k <= 5 => /\ Rest(k) # <<>> /\ Head(Rest(k)) = ToDo[k]
                      /\ Tail(Rest(k)) = Rest(k + 1)
         /\ k = 6 => Rest(k) = <<>>
         /\ Len(Rest(k)) = 6 - k
<1> DEFINE Names == {"ones_lo", "ones_hi", "read", "base_lo", "base_hi"}
<1>1. ToDo \in Seq(Names) /\ Len(ToDo) = 5
  BY DEF ToDo
<1> HIDE DEF Names
<1>4. \A i \in 1..5 : ToDo[i] \in Names
  BY <1>1, ElementOfSeq
<1>2. CASE k = 6
  BY <1>1, <1>2, SubSeqProperties DEF Rest
<1>3. CASE k <= 5
  <2>1. /\ Rest(k) \in Seq(Names) /\ Len(Rest(k)) = 6 - k
        /\ \A i \in 1..(6 - k) : Rest(k)[i] = ToDo[k + i - 1]
    BY <1>3, <1>4, SubSeqProperties DEF Rest
  <2>2. /\ Rest(k + 1) \in Seq(Names) /\ Len(Rest(k + 1)) = 5 - k
        /\ \A i \in 1..(5 - k) : Rest(k + 1)[i] = ToDo[k + i]
    BY <1>3, <1>4, SubSeqProperties DEF Rest
  <2>3. Rest(k) # <<>> /\ Head(Rest(k)) = ToDo[k]
    BY <1>3, <2>1
  <2>4. /\ Tail(Rest(k)) \in Seq(Names) /\ Len(Tail(Rest(k))) = 5 - k
        /\ \A i \in 1..(5 - k) : Tail(Rest(k))[i] = Rest(k)[i + 1]
    BY <1>3, <2>1, HeadTailProperties
  <2>5. Tail(Rest(k)) = Rest(k + 1)
    BY <1>3, <2>1, <2>2, <2>4, SeqEqual
  <2> QED
    BY <1>3, <2>1, <2>3, <2>5
<1> QED
  BY <1>2, <1>3

\* What is left tells the step.
LEMMA SameRest == \A j, k \in 1..6 : Rest(j) = Rest(k) => j = k
<1> SUFFICES ASSUME NEW j \in 1..6, NEW k \in 1..6, Rest(j) = Rest(k) PROVE j = k
  OBVIOUS
<1>1. Len(Rest(j)) = 6 - j /\ Len(Rest(k)) = 6 - k
  BY RestIs
<1> QED
  BY <1>1

\* The five steps, by their places.
LEMMA Steps ==
  /\ ToDo[1] = "ones_lo" /\ ToDo[2] = "ones_hi" /\ ToDo[3] = "read"
  /\ ToDo[4] = "base_lo" /\ ToDo[5] = "base_hi"
BY DEF ToDo

\* The arithmetic of the sizes and addresses.
LEMMA ReadsItsSize ==
  ASSUME NEW n \in {1, 2, 4, 8, Half, 2 * Half, 4 * Half}
  PROVE  LET m == ((n - 1) % Half) + 1 IN
         /\ n < Half => Half - (Ones - (Ones % m)) = n
         /\ Half * Half - ((Ones - (Ones % m)) + Half * Ones)
              = IF n < Half THEN n ELSE Half
<1>1. CASE n \in {1, 2, 4, 8}
  <2>1. ((n - 1) % Half) + 1 = n
    BY <1>1 DEF Half
  <2> QED
    BY <1>1, <2>1 DEF Half, Ones
<1>2. CASE n \in {Half, 2 * Half, 4 * Half}
  <2>1. ((n - 1) % Half) + 1 = Half /\ ~(n < Half)
    BY <1>2 DEF Half
  <2> QED
    BY <1>2, <2>1 DEF Half, Ones
<1> QED
  BY <1>1, <1>2

\* A 64-bit address is its two halves.
LEMMA Halves ==
  ASSUME NEW a \in 0..Top
  PROVE  /\ a % Half \in 0..Ones /\ a \div Half \in 0..Ones
         /\ a = (a % Half) + Half * (a \div Half)
         /\ a < Half => a % Half = a
BY DEF Half, Ones, Top

\* The register of a BAR is its low half.
LEMMA WriteLow ==
  ASSUME NEW b \in Bars, NEW val, WriteBar(b, val)
  PROVE  bar_val' = [bar_val EXCEPT ![b]["lo"] = val]
BY DEF WriteBar, BarOf

\* The register after that of a 64-bit BAR is its high half.
LEMMA WriteHigh ==
  ASSUME NEW b \in Is64, NEW val, WriteBar(b + 1, val)
  PROVE  bar_val' = [bar_val EXCEPT ![b]["hi"] = val]
<1>1. b + 1 \notin Bars /\ b \in 0..5 /\ b \in Bars
  BY BarsOK
<1>2. b + 1 > 0 /\ (b + 1) - 1 = b
  BY <1>1
<1>3. BarOf(b + 1) = <<b, "hi">> /\ <<b, "hi">> # <<>>
  BY <1>1, <1>2 DEF BarOf
<1>4. BarOf(b + 1)[1] = b /\ BarOf(b + 1)[2] = "hi" /\ BarOf(b + 1) # <<>>
  BY <1>3
<1> QED
  BY <1>4 DEF WriteBar

\* A configuration access of the guest keeps the invariant.
LEMMA CfgDataStep ==
  ASSUME BarsInv, NEW b \in Bars, CfgData(b)
  PROVE  BarsInv'
<1>0. BarsTypeOK /\ Placed /\ Disjoint
  BY DEF BarsInv
<1>1. PICK k \in 1..6 : gpc[b] = Rest(k)
  BY <1>0 DEF BarsTypeOK
<1>2. k <= 5 /\ Before(b, k)
  <2>1. Rest(k) # <<>>
    BY <1>1 DEF CfgData
  <2>2. k # 6
    BY <2>1, RestIs
  <2>3. Before(b, k)
    BY <1>0, <1>1 DEF Placed
  <2> QED
    BY <2>2, <2>3
<1>3. /\ gpc' = [gpc EXCEPT ![b] = Rest(k + 1)] /\ Head(gpc[b]) = ToDo[k]
  BY <1>1, <1>2, RestIs DEF CfgData
<1>4. /\ bar_size[b] \in {1, 2, 4, 8, Half, 2 * Half, 4 * Half}
      /\ b \notin Is64 => bar_size[b] < Half
      /\ bar_size' = bar_size
      /\ bar_val[b] \in [lo : 0..Ones, hi : 0..Ones]
      /\ found[b] \in [base : 0..Top, size : Nat]
  BY <1>0 DEF BarsTypeOK, CfgData
\* The registers and the bases of the other BARs stay as they are.
<1> DEFINE Only == \A o \in Bars \ {b} : bar_val'[o] = bar_val[o] /\ found'[o] = found[o]
<1>5. ASSUME Only, Before(b, k + 1)',
             bar_val' \in [Bars -> [lo : 0..Ones, hi : 0..Ones]],
             found' \in [Bars -> [base : 0..Top, size : Nat]], Disjoint'
      PROVE  BarsInv'
  <2>1. BarsTypeOK'
    <3>1. Rest(k + 1) \in {Rest(j) : j \in 1..6}
      BY <1>2
    <3> QED
      BY <1>0, <1>3, <1>4, <1>5, <3>1 DEF BarsTypeOK
  <2>2. ASSUME NEW o \in Bars, NEW j \in 1..6, gpc'[o] = Rest(j) PROVE Before(o, j)'
    <3>1. CASE o = b
      <4>1. j = k + 1
        BY <1>0, <1>2, <1>3, <2>2, <3>1, SameRest DEF BarsTypeOK
      <4> QED
        BY <1>5, <3>1, <4>1
    <3>2. CASE o # b
      <4>1. gpc[o] = Rest(j)
        BY <1>0, <1>3, <2>2, <3>2 DEF BarsTypeOK
      <4>2. Before(o, j)
        BY <1>0, <4>1 DEF Placed
      <4>3. bar_val'[o] = bar_val[o] /\ found'[o] = found[o]
        BY <1>5, <3>2
      <4> QED
        BY <1>4, <4>2, <4>3 DEF Before, Shown
    <3> QED
      BY <3>1, <3>2
  <2> QED
    BY <1>5, <2>1, <2>2 DEF BarsInv, Placed
<1>6. found' = found => Disjoint'
  BY <1>0 DEF Disjoint
<1>7. ASSUME NEW val \in 0..Ones, bar_val' = [bar_val EXCEPT ![b]["lo"] = val],
             found' = found
      PROVE  /\ bar_val'[b].lo = val /\ bar_val'[b].hi = bar_val[b].hi
             /\ Only /\ bar_val' \in [Bars -> [lo : 0..Ones, hi : 0..Ones]]
             /\ found'[b] = found[b]
  BY <1>0, <1>7 DEF BarsTypeOK
<1>8. ASSUME NEW val \in 0..Ones, bar_val' = [bar_val EXCEPT ![b]["hi"] = val],
             found' = found
      PROVE  /\ bar_val'[b].hi = val /\ bar_val'[b].lo = bar_val[b].lo
             /\ Only /\ bar_val' \in [Bars -> [lo : 0..Ones, hi : 0..Ones]]
             /\ found'[b] = found[b]
  BY <1>0, <1>8 DEF BarsTypeOK
<1>9. CASE k = 1
  <2>1. WriteBar(b, Ones) /\ found' = found
    BY <1>3, <1>9, Steps DEF CfgData
  <2>2. Ones \in 0..Ones
    BY DEF Ones, Half
  <2>3. bar_val' = [bar_val EXCEPT ![b]["lo"] = Ones]
    BY <2>1, WriteLow
  <2>4. Before(b, 2)'
    <3>1. /\ bar_val'[b].lo = Ones /\ bar_val'[b].hi = bar_val[b].hi
          /\ found'[b] = found[b]
      BY <1>7, <2>1, <2>2, <2>3
    <3> QED
      BY <1>2, <1>4, <1>9, <3>1 DEF Before, Shown
  <2> QED
    BY <1>0, <1>5, <1>6, <1>7, <1>9, <2>1, <2>2, <2>3, <2>4 DEF BarsTypeOK
<1>10. CASE k = 2
  <2>1. /\ found' = found
        /\ IF b \in Is64 THEN WriteBar(b + 1, Ones) ELSE bar_val' = bar_val
    BY <1>3, <1>10, Steps DEF CfgData
  <2>2. Ones \in 0..Ones
    BY DEF Ones, Half
  <2>3. CASE b \in Is64
    <3>1. bar_val' = [bar_val EXCEPT ![b]["hi"] = Ones]
      BY <2>1, <2>3, WriteHigh
    <3>2. Before(b, 3)'
      <4>1. /\ bar_val'[b].hi = Ones /\ bar_val'[b].lo = bar_val[b].lo
            /\ found'[b] = found[b]
        BY <1>8, <2>1, <2>2, <3>1
      <4> QED
        BY <1>2, <1>4, <1>10, <2>3, <4>1 DEF Before, Shown
    <3> QED
      BY <1>0, <1>5, <1>6, <1>8, <1>10, <2>1, <2>2, <3>1, <3>2 DEF BarsTypeOK
  <2>4. CASE b \notin Is64
    <3>1. Before(b, 3)'
      BY <1>2, <1>4, <1>10, <2>1, <2>4 DEF Before, Shown
    <3> QED
      BY <1>0, <1>5, <1>6, <1>10, <2>1, <2>4, <3>1 DEF BarsTypeOK
  <2> QED
    BY <2>3, <2>4
<1>11. CASE k = 3
  <2> DEFINE size == Width(b) - Value(b)
  <2>1. /\ bar_val' = bar_val
        /\ \E a \in Bases(b, size) : found' = [found EXCEPT ![b] = [base |-> a, size |-> size]]
    BY <1>3, <1>11, Steps DEF CfgData
  <2>2. size = Shown(b)
    <3>1. bar_val[b].lo = Ones /\ bar_val[b].hi = IF b \in Is64 THEN Ones ELSE 0
      BY <1>2, <1>4, <1>11 DEF Before, Shown
    <3> QED
      <4> DEFINE m == ((bar_size[b] - 1) % Half) + 1
      <4>1. /\ bar_size[b] < Half => Half - (Ones - (Ones % m)) = bar_size[b]
            /\ Half * Half - ((Ones - (Ones % m)) + Half * Ones)
                 = IF bar_size[b] < Half THEN bar_size[b] ELSE Half
        BY <1>4, ReadsItsSize
      <4>2. ReadBar(b, "lo") = Ones - (Ones % m) /\ ReadBar(b, "hi") = bar_val[b].hi
        BY <3>1 DEF ReadBar
      <4> HIDE DEF m
      <4>3. CASE b \in Is64
        BY <3>1, <4>1, <4>2, <4>3 DEF Width, Value, Shown
      <4>4. CASE b \notin Is64
        <5>1. size = Half - ((Ones - (Ones % m)) + 0)
          BY <4>2, <4>4 DEF Width, Value
        <5>2. (Ones - (Ones % m)) + 0 = Ones - (Ones % m)
          BY <4>1, <4>4, <1>4 DEF m, Ones, Half
        <5> QED
          BY <1>4, <4>1, <4>4, <5>1, <5>2 DEF Shown
      <4> QED
        BY <4>3, <4>4
  <2> HIDE DEF size
  <2>3. PICK a \in Bases(b, size) : found' = [found EXCEPT ![b] = [base |-> a, size |-> size]]
    BY <2>1
  <2>4. /\ a \in 1..Top /\ size \in Nat
        /\ b \in Is64 <=> a + size > Half
        /\ \A o \in Bars \ {b} : found[o].base # 0 =>
             Span(a, size) \cap Span(found[o].base, found[o].size) = {}
    BY <1>4, <2>2, <2>3 DEF Bases, Shown, Half
  <2>5. /\ found'[b].base = a /\ found'[b].size = size
        /\ \A o \in Bars \ {b} : found'[o] = found[o]
        /\ found' \in [Bars -> [base : 0..Top, size : Nat]]
    BY <1>0, <2>3, <2>4 DEF BarsTypeOK, Top, Half
  <2>6. Disjoint'
    BY <1>0, <2>4, <2>5 DEF Disjoint
  <2>7. Before(b, 4)'
    BY <1>2, <1>4, <1>11, <2>1, <2>2, <2>4, <2>5 DEF Before, Shown
  <2> QED
    BY <1>0, <1>5, <1>11, <2>1, <2>5, <2>6, <2>7 DEF BarsTypeOK
<1>12. CASE k = 4
  <2>1. WriteBar(b, found[b].base % Half) /\ found' = found
    BY <1>3, <1>12, Steps DEF CfgData
  <2>2. found[b].base % Half \in 0..Ones
    BY <1>4, Halves
  <2>3. bar_val' = [bar_val EXCEPT ![b]["lo"] = found[b].base % Half]
    BY <2>1, WriteLow
  <2>4. Before(b, 5)'
    <3>1. /\ bar_val'[b].lo = found[b].base % Half /\ bar_val'[b].hi = bar_val[b].hi
          /\ found'[b] = found[b]
      BY <1>7, <2>1, <2>2, <2>3
    <3> QED
      BY <1>2, <1>4, <1>12, <3>1 DEF Before, Shown
  <2> QED
    BY <1>0, <1>5, <1>6, <1>7, <1>12, <2>1, <2>2, <2>3, <2>4 DEF BarsTypeOK
<1>13. CASE k = 5
  <2>1. /\ found' = found
        /\ IF b \in Is64 THEN WriteBar(b + 1, found[b].base \div Half)
           ELSE bar_val' = bar_val
    BY <1>3, <1>13, Steps DEF CfgData
  <2>2. found[b].base \div Half \in 0..Ones
    BY <1>4, Halves
  <2>3. CASE b \in Is64
    <3>1. bar_val' = [bar_val EXCEPT ![b]["hi"] = found[b].base \div Half]
      BY <2>1, <2>3, WriteHigh
    <3>2. Before(b, 6)'
      <4>1. /\ bar_val'[b].hi = found[b].base \div Half /\ bar_val'[b].lo = bar_val[b].lo
            /\ found'[b] = found[b]
        BY <1>8, <2>1, <2>2, <3>1
      <4> QED
        BY <1>2, <1>4, <1>13, <2>3, <4>1 DEF Before, Shown
    <3> QED
      BY <1>0, <1>5, <1>6, <1>8, <1>13, <2>1, <2>2, <3>1, <3>2 DEF BarsTypeOK
  <2>4. CASE b \notin Is64
    <3>1. Before(b, 6)'
      BY <1>2, <1>4, <1>13, <2>1, <2>4 DEF Before, Shown
    <3> QED
      BY <1>0, <1>5, <1>6, <1>13, <2>1, <2>4, <3>1 DEF BarsTypeOK
  <2> QED
    BY <2>3, <2>4
<1> QED
  BY <1>2, <1>9, <1>10, <1>11, <1>12, <1>13

\* The other steps leave the configuration registers alone.
LEMMA BarsKept ==
  ASSUME BarsInv, UNCHANGED <<bar_size, bar_val, gpc, found>>
  PROVE  BarsInv'
<1>1. /\ bar_size' = bar_size /\ bar_val' = bar_val /\ gpc' = gpc /\ found' = found
  OBVIOUS
<1>2. BarsTypeOK'
  BY <1>1 DEF BarsInv, BarsTypeOK
<1>3. Placed'
  <2>1. \A b, k : Before(b, k)' = Before(b, k)
    BY <1>1 DEF Before, Shown
  <2> QED
    BY <1>1, <2>1 DEF BarsInv, Placed
<1>4. Disjoint'
  BY <1>1 DEF BarsInv, Disjoint
<1> QED
  BY <1>2, <1>3, <1>4 DEF BarsInv

\* A guest that has placed every BAR reaches each at its own addresses.
LEMMA BarsInvImplies == BarsInv => BarsDecode
<1> SUFFICES ASSUME BarsInv, Driving, NEW b \in Bars
             PROVE  /\ found[b].size = Shown(b)
                    /\ \A off \in 0..(Shown(b) - 1) :
                         \/ Decode(found[b].base + off) = <<b, off>>
                         \/ \E o \in Bars : /\ o < b /\ bar_size[o] > Half
                                            /\ found[b].base + off \in Beyond(o)
  BY DEF BarsDecode
<1>1. ASSUME NEW o \in Bars
      PROVE  /\ Base(o) = found[o].base /\ found[o].size = Shown(o)
             /\ found[o].base # 0 /\ found[o].base \in Nat
             /\ bar_size[o] \in Nat /\ Shown(o) \in Nat
  <2>1. gpc[o] = Rest(6)
    BY RestIs DEF Driving
  <2>2. Before(o, 6)
    BY <2>1 DEF BarsInv, Placed
  <2>3. /\ found[o].base \in 0..Top
        /\ bar_size[o] \in {1, 2, 4, 8, Half, 2 * Half, 4 * Half}
        /\ o \notin Is64 => bar_size[o] < Half
    BY DEF BarsInv, BarsTypeOK
  <2>4. Base(o) = found[o].base
    <3>1. CASE o \in Is64
      BY <2>2, <2>3, <3>1, Halves DEF Before, Base
    <3>2. CASE o \notin Is64
      <4>1. found[o].base < Half /\ found[o].base % Half = found[o].base
        BY <2>2, <2>3, <3>2, Halves DEF Before, Shown, Half, Top
      <4> QED
        BY <2>2, <2>3, <3>2, <4>1 DEF Before, Base, Half, Top
    <3> QED
      BY <3>1, <3>2
  <2> QED
    BY <2>2, <2>3, <2>4 DEF Before, Shown, Half, Top
<1>2. ASSUME NEW off \in 0..(Shown(b) - 1),
             ~ \E o \in Bars : /\ o < b /\ bar_size[o] > Half
                              /\ found[b].base + off \in Beyond(o)
      PROVE  Decode(found[b].base + off) = <<b, off>>
  <2> DEFINE pa == found[b].base + off
  <2>1. pa \in Span(found[b].base, found[b].size) /\ pa \in Nat
    BY <1>1 DEF Span
  <2>2. b \in Hits(pa)
    BY <1>1, <2>1 DEF Hits, Span, Shown, Half
  <2>3. ASSUME NEW o \in Hits(pa) PROVE b <= o
    <3>1. o \in Bars /\ o \in Nat /\ b \in Nat /\ pa \in Span(found[o].base, bar_size[o])
      BY <1>1, <2>3, BarsOK DEF Hits
    <3>2. SUFFICES ASSUME o < b PROVE FALSE
      BY <3>1
    <3>3. pa \notin Span(found[o].base, found[o].size)
      BY <1>1, <2>1, <3>1, <3>2 DEF BarsInv, Disjoint
    <3>4. bar_size[o] > Half /\ found[o].size = Half
      BY <1>1, <3>1, <3>3 DEF Span, Shown, Half
    <3>5. pa \in Beyond(o)
      BY <1>1, <2>1, <3>1, <3>3, <3>4 DEF Beyond, Span, Half
    <3> QED
      BY <1>2, <3>1, <3>2, <3>4, <3>5
  <2>4. (CHOOSE x \in Hits(pa) : \A y \in Hits(pa) : x <= y) = b
    <3>1. \A x \in Hits(pa) : x \in Nat
      BY BarsOK DEF Hits
    <3> QED
      BY <2>2, <2>3, <3>1
  <2>5. pa - Base(b) = off
    BY <1>1
  <2> HIDE DEF pa
  <2>6. Hits(pa) # {}
    BY <2>2
  <2> QED
    BY <2>4, <2>5, <2>6 DEF Decode, pa
<1> QED
  BY <1>1, <1>2

-----------------------------------------------------------------------------
\* The types of the MSI-X state.
MsixTypeOK ==
  /\ msix_slowpath \in BOOLEAN
  /\ msgctl \in [enable : BOOLEAN, funcmask : BOOLEAN]
  /\ shadow \in [Vectors -> [addr : Nat, data : Nat, masked : BOOLEAN]]
  /\ efd \subseteq Vectors /\ armed \subseteq Vectors
  /\ msix_routing_done \in BOOLEAN
  /\ pc \in {"guest", "routes", "set_irqs", "sync"}
  /\ route \in [Vectors -> Nat \X Nat]
  /\ phys \in [Vectors -> BOOLEAN]
  /\ devvec \in Vectors \cup {NoVector} /\ busy \in BOOLEAN
  /\ pba \subseteq Vectors /\ count \subseteq Vectors
  /\ bare \subseteq Vectors /\ torn \subseteq Vectors
  /\ busy => devvec \in Vectors
  /\ count # {} => msix_slowpath

\* Which vectors have a trigger, at each step of msix_setup_irqs().
Phases ==
  /\ pc \in {"routes", "set_irqs"} => ~msix_routing_done
  /\ pc = "sync" => msix_routing_done
  /\ armed = IF msix_routing_done THEN efd ELSE {}
  /\ ~msix_routing_done => bare = {}

\* A vector whose address is gone when its trigger is set is among the bare ones.
Addressed == pc = "sync" => \A v \in armed \ bare : shadow[v].addr # 0

\* While msix_setup_irqs() runs every vector is masked and no message half written.
Quiescent ==
  pc # "guest" =>
    \A v \in Vectors : shadow[v].masked /\ shadow[v].addr = shadow[v].data

\* KVM's routes are those of the shadow table, once they have been set up.
RoutesFollow ==
  msix_routing_done \/ pc \in {"set_irqs", "sync"} => route = UpdateRoutes(shadow)

\* An armed vector is masked or has a whole message, the bare ones apart.
Unmasked ==
  msix_routing_done => \A v \in armed \ bare : shadow[v].masked \/ Complete(v)

\* The inductive invariant of the MSI-X emulation.
MsixInv ==
  /\ MsixTypeOK /\ Phases /\ Addressed /\ Quiescent /\ RoutesFollow /\ Unmasked
  /\ MaskAgrees /\ MessagesAsProgrammed

\* The route of one vector.
LEMMA RouteOf ==
  ASSUME NEW s, NEW v \in Vectors
  PROVE  UpdateRoutes(s)[v] = IF s[v].addr = 0 THEN <<0, 0>> ELSE <<s[v].addr, s[v].data>>
BY DEF UpdateRoutes

\* A message that is injected is whole, when the vector's halves agree.
LEMMA InjectIsWhole ==
  ASSUME route = UpdateRoutes(shadow), NEW vs \in SUBSET Vectors, NEW free,
         \A v \in vs \ free : shadow[v].addr = shadow[v].data, Inject(vs)
  PROVE  torn' \subseteq torn \cup free
<1> SUFFICES ASSUME NEW v \in vs, v \notin free, route[v] # <<0, 0>>,
                    route[v] # <<shadow[v].addr, shadow[v].data>> \/ ~Complete(v)
             PROVE  FALSE
  BY DEF Inject
<1>1. route[v] = IF shadow[v].addr = 0 THEN <<0, 0>> ELSE <<shadow[v].addr, shadow[v].data>>
  BY RouteOf
<1> QED
  BY <1>1 DEF Complete

\* Signals keep the rest: nothing torn but for the bare vectors.
LEMMA SignalIsWhole ==
  ASSUME MsixTypeOK, NEW vs \in SUBSET Vectors, NEW free \in SUBSET Vectors, Signal(vs),
         ~msix_slowpath => /\ route = UpdateRoutes(shadow)
                           /\ \A v \in vs \ free : shadow[v].addr = shadow[v].data
  PROVE  /\ count' \subseteq Vectors /\ torn' \subseteq Vectors
         /\ count' # {} => msix_slowpath
         /\ msix_slowpath \/ torn' \subseteq torn \cup free
<1>1. CASE msix_slowpath
  BY <1>1 DEF Signal, MsixTypeOK
<1>2. CASE ~msix_slowpath
  <2>1. Inject(vs) /\ count' = count
    BY <1>2 DEF Signal
  <2>2. torn' \subseteq torn \cup free
    BY <1>2, <2>1, InjectIsWhole
  <2> QED
    BY <2>1, <2>2 DEF MsixTypeOK
<1> QED
  BY <1>1, <1>2

\* A write to the address or the data of a vector keeps the invariant.
LEMMA WriteMessageStep ==
  ASSUME MsixInv, NEW v \in Vectors, NEW f \in {"addr", "data"},
         NEW m \in Nat, WriteMessage(v, f, m)
  PROVE  MsixInv'
<1>0. MsixTypeOK /\ Phases /\ Addressed /\ Quiescent /\ RoutesFollow /\ Unmasked
      /\ MaskAgrees /\ MessagesAsProgrammed
  BY DEF MsixInv
<1>1. /\ pc = "guest" /\ (shadow[v].masked \/ ~Complete(v))
      /\ shadow' = [shadow EXCEPT ![v][f] = m]
      /\ route' = IF msix_routing_done THEN UpdateRoutes(shadow') ELSE route
      /\ UNCHANGED <<msix_slowpath, bars, msgctl, efd, msix_routing_done, armed, bare, pc,
                     phys, device, wires>>
  BY DEF WriteMessage, Driving
<1>2. /\ \A u \in Vectors : u # v => shadow'[u] = shadow[u]
      /\ shadow'[v].masked = shadow[v].masked
      /\ shadow'[v].addr = IF f = "addr" THEN m ELSE shadow[v].addr
      /\ shadow' \in [Vectors -> [addr : Nat, data : Nat, masked : BOOLEAN]]
  BY <1>0, <1>1 DEF MsixTypeOK
<1>3. \A u \in Vectors : shadow'[u].masked = shadow[u].masked
  BY <1>2
<1>4. MsixTypeOK'
  <2>1. route' \in [Vectors -> Nat \X Nat]
    BY <1>0, <1>1, <1>2 DEF MsixTypeOK, UpdateRoutes
  <2> QED
    BY <1>0, <1>1, <1>2, <2>1 DEF MsixTypeOK, device, wires
<1>5. /\ pc' = "guest" /\ efd' = efd /\ msix_routing_done' = msix_routing_done
      /\ armed' = armed /\ bare' = bare /\ torn' = torn /\ msix_slowpath' = msix_slowpath
  BY <1>1 DEF wires
<1>10. Phases' /\ Quiescent' /\ MessagesAsProgrammed'
  BY <1>0, <1>5, ZenonT(20) DEF Phases, Quiescent, MessagesAsProgrammed
<1>6. Addressed'
  BY <1>5 DEF Addressed
<1>7. RoutesFollow'
  <2>1. CASE msix_routing_done
    BY <1>1, <2>1 DEF RoutesFollow, UpdateRoutes
  <2>2. CASE ~msix_routing_done
    BY <1>5, <2>2 DEF RoutesFollow
  <2> QED
    BY <2>1, <2>2
<1>8. Unmasked'
  BY <1>0, <1>1, <1>2 DEF Unmasked, Complete, MsixTypeOK
<1>9. MaskAgrees'
  BY <1>0, <1>1, <1>3 DEF MaskAgrees, MsixTypeOK
<1> QED
  BY <1>4, <1>6, <1>7, <1>8, <1>9, <1>10 DEF MsixInv

\* A write to Vector Control keeps it.
LEMMA WriteControlStep ==
  ASSUME MsixInv, NEW v \in Vectors, NEW m \in BOOLEAN, WriteControl(v, m)
  PROVE  MsixInv'
<1>0. MsixTypeOK /\ Phases /\ Addressed /\ Quiescent /\ RoutesFollow /\ Unmasked
      /\ MaskAgrees /\ MessagesAsProgrammed
  BY DEF MsixInv
<1>1. /\ pc = "guest" /\ (m \/ Complete(v))
      /\ shadow' = [shadow EXCEPT ![v].masked = m]
      /\ phys' = [phys EXCEPT ![v] = m]
      /\ UNCHANGED <<msix_slowpath, bars, msgctl, arming, pc, device>>
  BY DEF WriteControl, Forward, Driving
<1>2. /\ \A u \in Vectors : u # v => shadow'[u] = shadow[u]
      /\ shadow'[v].masked = m
      /\ \A u \in Vectors : /\ shadow'[u].addr = shadow[u].addr
                            /\ shadow'[u].data = shadow[u].data
      /\ shadow' \in [Vectors -> [addr : Nat, data : Nat, masked : BOOLEAN]]
  BY <1>0, <1>1 DEF MsixTypeOK
<1>3. /\ pba' \subseteq Vectors /\ count' \subseteq Vectors /\ torn' \subseteq Vectors
      /\ count' # {} => msix_slowpath
      /\ msix_slowpath \/ torn' \subseteq torn
  <2>1. CASE ~m /\ v \in pba \cap armed
    <3>1. pba' = pba \ {v} /\ Signal({v})
      BY <2>1 DEF WriteControl, Forward
    <3>2. Complete(v) /\ msix_routing_done
      BY <1>0, <1>1, <2>1 DEF Phases
    <3>3. \A u \in {v} \ {} : shadow[u].addr = shadow[u].data
      BY <3>2 DEF Complete
    <3>4. route = UpdateRoutes(shadow)
      BY <1>0, <3>2 DEF RoutesFollow
    <3>5. /\ count' \subseteq Vectors /\ torn' \subseteq Vectors
          /\ count' # {} => msix_slowpath
          /\ msix_slowpath \/ torn' \subseteq torn \cup {}
      BY <1>0, <3>1, <3>3, <3>4, SignalIsWhole
    <3> QED
      BY <1>0, <3>1, <3>5 DEF MsixTypeOK
  <2>2. CASE ~(~m /\ v \in pba \cap armed)
    BY <1>0, <2>2 DEF WriteControl, Forward, wires, MsixTypeOK
  <2> QED
    BY <2>1, <2>2
<1>4. MsixTypeOK'
  BY <1>0, <1>1, <1>2, <1>3 DEF MsixTypeOK, arming, device
<1>5. Phases' /\ Quiescent' /\ MessagesAsProgrammed'
  <2>1. /\ pc' = "guest" /\ efd' = efd /\ msix_routing_done' = msix_routing_done
        /\ armed' = armed /\ bare' = bare /\ msix_slowpath' = msix_slowpath
    BY <1>1 DEF arming
  <2> QED
    BY <1>0, <1>3, <2>1 DEF Phases, Quiescent, MessagesAsProgrammed
<1>9. Addressed'
  BY <1>0, <1>1, <1>2 DEF Addressed, arming, MsixTypeOK
<1>6. RoutesFollow'
  BY <1>0, <1>1, <1>2 DEF RoutesFollow, UpdateRoutes, arming
<1>7. Unmasked'
  BY <1>0, <1>1, <1>2 DEF Unmasked, Complete, MsixTypeOK, arming
<1>8. MaskAgrees'
  BY <1>0, <1>1, <1>2 DEF MaskAgrees, MsixTypeOK, arming
<1> QED
  BY <1>4, <1>5, <1>6, <1>7, <1>8, <1>9 DEF MsixInv

\* A write to Message Control keeps it.
LEMMA WriteMsgctlStep ==
  ASSUME MsixInv, NEW e \in BOOLEAN, NEW f \in BOOLEAN, WriteMsgctl(e, f)
  PROVE  MsixInv'
<1>0. MsixTypeOK /\ Phases /\ Addressed /\ Quiescent /\ RoutesFollow /\ Unmasked
      /\ MaskAgrees /\ MessagesAsProgrammed
  BY DEF MsixInv
<1>1. /\ pc = "guest" /\ msgctl' = [enable |-> e, funcmask |-> f]
      /\ pc' \in {"guest", "routes"}
      /\ pc' = "routes" =>
           /\ ~msix_routing_done
           /\ \A v \in Vectors : shadow[v].masked /\ shadow[v].addr = shadow[v].data
      /\ UNCHANGED <<msix_slowpath, bars, shadow, arming, phys, device, wires>>
  BY DEF WriteMsgctl, Driving
<1>2. MsixTypeOK'
  BY <1>0, <1>1 DEF MsixTypeOK, arming, device, wires
<1> QED
  BY <1>0, <1>1, <1>2
     DEF MsixInv, Phases, Addressed, Quiescent, RoutesFollow, Unmasked, Complete, MaskAgrees,
         MessagesAsProgrammed, arming, wires

\* msix_setup_irqs() keeps it, at each of its steps.
LEMMA SetupStep ==
  ASSUME MsixInv, SetupRoutes \/ SetIrqs \/ SetupSync
  PROVE  MsixInv'
<1>0. MsixTypeOK /\ Phases /\ Addressed /\ Quiescent /\ RoutesFollow /\ Unmasked
      /\ MaskAgrees /\ MessagesAsProgrammed
  BY DEF MsixInv
<1>1. CASE SetupRoutes
  <2>1. UpdateRoutes(shadow) \in [Vectors -> Nat \X Nat]
    BY <1>0 DEF MsixTypeOK, UpdateRoutes
  <2>2. MsixTypeOK'
    BY <1>0, <1>1, <2>1 DEF SetupRoutes, MsixTypeOK, table, device, wires
  <2> QED
    BY <1>0, <1>1, <2>2
       DEF SetupRoutes, MsixInv, Phases, Addressed, Quiescent, RoutesFollow, UpdateRoutes,
           Unmasked, Complete, MaskAgrees, MessagesAsProgrammed, table, device, wires
<1>2. CASE SetIrqs
  <2>1. CASE pc' = "guest" /\ UNCHANGED <<armed, msix_routing_done, bare, phys, wires>>
    <3>1. MsixTypeOK'
      BY <1>0, <1>2, <2>1 DEF SetIrqs, MsixTypeOK, table, device, wires
    <3> QED
      BY <1>0, <1>2, <2>1, <3>1
         DEF SetIrqs, MsixInv, Phases, Addressed, Quiescent, RoutesFollow, UpdateRoutes,
             Unmasked, Complete, MaskAgrees, MessagesAsProgrammed, table, device, wires
  <2>2. CASE /\ armed' = efd /\ msix_routing_done' = TRUE
             /\ bare' = {v \in efd : shadow[v].addr = 0}
             /\ phys' = [v \in Vectors |-> v \notin efd]
             /\ pba' = pba \ efd /\ Signal(pba \cap efd)
             /\ pc' = "sync"
    <3>1. /\ pc = "set_irqs" /\ ~msix_routing_done /\ bare = {}
          /\ UNCHANGED <<msix_slowpath, bars, table, efd, route, device>>
      BY <1>0, <1>2 DEF SetIrqs, Phases
    <3>2. \A v \in Vectors : shadow[v].masked /\ shadow[v].addr = shadow[v].data
      BY <1>0, <3>1 DEF Quiescent
    <3>3. /\ count' \subseteq Vectors /\ torn' \subseteq Vectors
          /\ count' # {} => msix_slowpath
          /\ msix_slowpath \/ torn' \subseteq torn \cup {}
      <4>1. route = UpdateRoutes(shadow)
        BY <1>0, <3>1 DEF RoutesFollow
      <4>2. pba \cap efd \in SUBSET Vectors
        BY <1>0 DEF MsixTypeOK
      <4> QED
        BY <1>0, <2>2, <3>2, <4>1, <4>2, SignalIsWhole
    <3>4. MsixTypeOK'
      BY <1>0, <2>2, <3>1, <3>3 DEF MsixTypeOK, table, device
    <3>5. MessagesAsProgrammed'
      BY <1>0, <3>1, <3>3 DEF MessagesAsProgrammed
    <3>6. Addressed'
      BY <2>2, <3>1 DEF Addressed, table
    <3>7. Phases' /\ Quiescent' /\ MaskAgrees'
      BY <2>2, <3>1, <3>2 DEF Phases, Quiescent, MaskAgrees, table
    <3>8. Unmasked'
      BY <1>0, <2>2, <3>1, <3>2 DEF Unmasked, Complete, MsixTypeOK, table
    <3>9. RoutesFollow'
      BY <1>0, <3>1 DEF RoutesFollow, UpdateRoutes, table
    <3> QED
      BY <3>4, <3>5, <3>6, <3>7, <3>8, <3>9 DEF MsixInv
  <2> QED
    BY <1>2, <2>1, <2>2 DEF SetIrqs
<1>3. CASE SetupSync
  <2>1. \A v \in armed \ bare : SyncMasks[v] = shadow[v].masked
    BY <1>0, <1>3 DEF SetupSync, SyncMasks, Addressed, MsixTypeOK
  <2>2. SyncMasks \in [Vectors -> BOOLEAN]
    BY <1>0 DEF SyncMasks, MsixTypeOK
  <2>3. MsixTypeOK'
    BY <1>0, <1>3, <2>2 DEF SetupSync, MsixTypeOK, table, arming, device, wires
  <2>4. MaskAgrees'
    BY <1>0, <1>3, <2>1 DEF SetupSync, MaskAgrees, Phases, table, arming
  <2> QED
    BY <1>0, <1>3, <2>3, <2>4
       DEF SetupSync, MsixInv, Phases, Addressed, Quiescent, RoutesFollow, UpdateRoutes,
           Unmasked, Complete, MessagesAsProgrammed, table, arming, device, wires
<1> QED
  BY <1>1, <1>2, <1>3

\* The device completes a request and raises its vector.
LEMMA CompleteStep ==
  ASSUME MsixInv, CompleteRequest
  PROVE  MsixInv'
<1>0. MsixTypeOK /\ Phases /\ Addressed /\ Quiescent /\ RoutesFollow /\ Unmasked
      /\ MaskAgrees /\ MessagesAsProgrammed
  BY DEF MsixInv
<1>1. /\ busy /\ busy' = FALSE /\ devvec \in Vectors
      /\ UNCHANGED <<msix_slowpath, bars, table, arming, pc, phys, devvec>>
  BY <1>0 DEF CompleteRequest, MsixTypeOK
<1>2. /\ pba' \subseteq Vectors /\ count' \subseteq Vectors /\ torn' \subseteq Vectors
      /\ count' # {} => msix_slowpath
      /\ msix_slowpath \/ torn' \subseteq torn \cup bare
  <2>1. CASE devvec \in armed /\ ~phys[devvec]
    <3>1. Signal({devvec}) /\ UNCHANGED pba
      BY <2>1 DEF CompleteRequest
    <3>2. msix_routing_done
      BY <1>0, <2>1 DEF Phases
    <3>3. devvec \notin bare => shadow[devvec].addr = shadow[devvec].data
      <4> SUFFICES ASSUME devvec \notin bare, ~Complete(devvec)
                   PROVE  shadow[devvec].addr = shadow[devvec].data
        BY DEF Complete
      <4>1. shadow[devvec].masked
        BY <1>0, <2>1, <3>2 DEF Unmasked
      <4>2. pc # "guest"
        BY <1>0, <2>1, <3>2, <4>1 DEF MaskAgrees
      <4> QED
        BY <1>0, <1>1, <4>2 DEF Quiescent
    <3>4. \A u \in {devvec} \ bare : shadow[u].addr = shadow[u].data
      BY <3>3
    <3>5. route = UpdateRoutes(shadow)
      BY <1>0, <3>2 DEF RoutesFollow
    <3>6. bare \in SUBSET Vectors /\ {devvec} \in SUBSET Vectors
      BY <1>0, <1>1 DEF MsixTypeOK
    <3>7. /\ count' \subseteq Vectors /\ torn' \subseteq Vectors
          /\ count' # {} => msix_slowpath
          /\ msix_slowpath \/ torn' \subseteq torn \cup bare
      BY <1>0, <3>1, <3>4, <3>5, <3>6, SignalIsWhole
    <3> QED
      BY <1>0, <3>1, <3>7 DEF MsixTypeOK
  <2>2. CASE ~(devvec \in armed /\ ~phys[devvec])
    BY <1>0, <1>1, <2>2 DEF CompleteRequest, MsixTypeOK
  <2> QED
    BY <2>1, <2>2
<1>3. MsixTypeOK'
  BY <1>0, <1>1, <1>2 DEF MsixTypeOK, table, arming
<1> QED
  BY <1>0, <1>1, <1>2, <1>3
     DEF MsixInv, Phases, Addressed, Quiescent, RoutesFollow, UpdateRoutes, Unmasked,
         Complete, MaskAgrees, MessagesAsProgrammed, table, arming

\* The steps that leave the table, KVM's routes and VFIO's triggers alone.
LEMMA ElsewhereStep ==
  ASSUME MsixInv, UNCHANGED <<msix_slowpath, table, arming, pc, phys, pba>>,
         devvec' \in Vectors \cup {NoVector}, busy' \in BOOLEAN,
         busy' => devvec' \in Vectors,
         count' \subseteq Vectors, count' # {} => msix_slowpath, torn' \subseteq Vectors,
         msix_slowpath \/ torn' = torn
  PROVE  MsixInv'
<1>1. MsixTypeOK'
  BY DEF MsixInv, MsixTypeOK, table, arming
<1> QED
  BY <1>1
     DEF MsixInv, Phases, Addressed, Quiescent, RoutesFollow, UpdateRoutes, Unmasked,
         Complete, MaskAgrees, MessagesAsProgrammed, table, arming

\* The vector register, a notification, the slow path's thread.
LEMMA DeviceStep ==
  ASSUME MsixInv, NEW v \in Vectors, WriteVector(v) \/ SlowPath(v) \/ Notify
  PROVE  MsixInv'
<1>0. MsixTypeOK /\ RoutesFollow /\ Unmasked /\ Phases
  BY DEF MsixInv
<1>1. CASE WriteVector(v)
  BY <1>0, <1>1, ElsewhereStep DEF MsixTypeOK, WriteVector, wires
<1>2. CASE SlowPath(v)
  <2>1. torn' \subseteq Vectors /\ (msix_slowpath \/ torn' = torn)
    BY <1>0, <1>2 DEF SlowPath, Inject, MsixTypeOK
  <2> QED
    BY <1>0, <1>2, <2>1, ElsewhereStep DEF SlowPath, MsixTypeOK, device
<1>3. CASE Notify
  BY <1>0, <1>3, ElsewhereStep DEF Notify, MsixTypeOK, wires
<1> QED
  BY <1>1, <1>2, <1>3

-----------------------------------------------------------------------------
\* No BAR has been touched at the start.
LEMMA BarsInit == MsixInit => BarsInv
<1> SUFFICES ASSUME MsixInit PROVE BarsInv
  OBVIOUS
<1>1. /\ bar_val = [b \in Bars |-> [lo |-> 0, hi |-> 0]]
      /\ gpc = [b \in Bars |-> ToDo]
      /\ found = [b \in Bars |-> [base |-> 0, size |-> 0]]
  BY DEF MsixInit
<1>2. ToDo = Rest(1)
  <2>1. ToDo \in Seq({"ones_lo", "ones_hi", "read", "base_lo", "base_hi"}) /\ Len(ToDo) = 5
    BY DEF ToDo
  <2>2. SubSeq(ToDo, 1, Len(ToDo)) = ToDo
    BY <2>1, SubSeqFull
  <2> QED
    BY <2>1, <2>2 DEF Rest
<1>3. BarsTypeOK
  <2>1. /\ bar_size \in [Bars -> {1, 2, 4, 8, Half, 2 * Half, 4 * Half}]
        /\ \A b \in Bars \ Is64 : bar_size[b] < Half
    BY BarsOK DEF MsixInit
  <2> QED
    BY <1>1, <1>2, <2>1 DEF BarsTypeOK, Half, Ones, Top
<1>4. Placed
  <2> SUFFICES ASSUME NEW b \in Bars, NEW k \in 1..6, gpc[b] = Rest(k) PROVE Before(b, k)
    BY DEF Placed
  <2>1. k = 1
    BY <1>1, <1>2, SameRest
  <2> QED
    BY <1>1, <2>1 DEF Before
<1>5. Disjoint
  BY <1>1 DEF Disjoint
<1> QED
  BY <1>3, <1>4, <1>5 DEF BarsInv

\* Every action keeps the invariant of the BARs.
LEMMA BarsStep == BarsInv /\ [MsixNext]_msixVars => BarsInv'
<1> SUFFICES ASSUME BarsInv, [MsixNext]_msixVars PROVE BarsInv'
  OBVIOUS
<1>1. CASE \E b \in Bars : CfgData(b)
  BY <1>1, CfgDataStep
<1>2. CASE UNCHANGED <<bar_size, bar_val, gpc, found>>
  BY <1>2, BarsKept
<1>3. (\E b \in Bars : CfgData(b)) \/ UNCHANGED <<bar_size, bar_val, gpc, found>>
  BY DEF MsixNext, msixVars, bars, CfgAddr, WriteMessage, WriteControl, WriteMsgctl,
         SetupRoutes, SetIrqs, SetupSync, WriteVector, Notify, CompleteRequest, SlowPath
<1> QED
  BY <1>1, <1>2, <1>3

\* When the guest has placed the BARs by the sizes it read, every address in a BAR
\* reaches that BAR at the right offset (pt_config_read(), pt_config_write()).
THEOREM BarsReached == MsixSpec => []BarsDecode
<1> QED
  BY BarsInit, BarsStep, BarsInvImplies, PTL DEF MsixSpec

\* No vector is set up at the start.
LEMMA MsixInitInv == MsixInit => MsixInv
<1> SUFFICES ASSUME MsixInit PROVE MsixInv
  OBVIOUS
<1>1. /\ pc = "guest" /\ efd = {} /\ armed = {} /\ count = {} /\ pba = {}
      /\ shadow = [v \in Vectors |-> [addr |-> 0, data |-> 0, masked |-> FALSE]]
      /\ route = [v \in Vectors |-> <<0, 0>>] /\ phys = [v \in Vectors |-> TRUE]
      /\ devvec = NoVector /\ msix_routing_done = FALSE /\ busy = FALSE
      /\ bare = {} /\ torn = {} /\ msgctl = [enable |-> FALSE, funcmask |-> FALSE]
  BY DEF MsixInit
<1>2. msix_slowpath \in BOOLEAN
  BY BarsOK DEF MsixInit
<1>3. msix_routing_done \in BOOLEAN /\ busy \in BOOLEAN
  BY Zenon DEF MsixInit
<1>4. MsixTypeOK
  BY <1>1, <1>2, <1>3 DEF MsixTypeOK
<1> QED
  BY <1>1, <1>4 DEF MsixInv, Phases, Addressed, Quiescent, RoutesFollow, Unmasked,
                    MaskAgrees, MessagesAsProgrammed

\* Every action keeps the invariant of the MSI-X emulation.
LEMMA MsixStep == MsixInv /\ [MsixNext]_msixVars => MsixInv'
<1> SUFFICES ASSUME MsixInv, [MsixNext]_msixVars PROVE MsixInv'
  OBVIOUS
<1>1. CASE \E b \in Bars : CfgData(b) \/ \E i \in {b, b + 1} : CfgAddr(b, i)
  <2>1. UNCHANGED <<msix_slowpath, table, arming, pc, phys, device, wires>>
    BY <1>1 DEF CfgData, CfgAddr
  <2> QED
    BY <2>1, ElsewhereStep DEF MsixInv, MsixTypeOK, device, wires
<1>2. CASE UNCHANGED msixVars
  BY <1>2, ElsewhereStep DEF MsixInv, MsixTypeOK, device, wires, msixVars
<1>3. CASE \E v \in Vectors : \E f \in {"addr", "data"} :
            \E m \in Messages[msix_slowpath] \cup {0} : WriteMessage(v, f, m)
  <2>1. Messages[msix_slowpath] \cup {0} \subseteq Nat
    BY BarsOK DEF MsixInv, MsixTypeOK
  <2> QED
    BY <1>3, <2>1, WriteMessageStep
<1>4. CASE \E v \in Vectors : \E m \in BOOLEAN : WriteControl(v, m)
  BY <1>4, WriteControlStep
<1>5. CASE \E v \in Vectors : WriteVector(v) \/ SlowPath(v)
  BY <1>5, DeviceStep
<1>6. CASE \E e, f \in BOOLEAN : WriteMsgctl(e, f)
  BY <1>6, WriteMsgctlStep
<1>7. CASE SetupRoutes \/ SetIrqs \/ SetupSync
  BY <1>7, SetupStep
<1>8. CASE Notify
  <2>1. devvec \in Vectors
    BY <1>8 DEF Notify, MsixInv, MsixTypeOK
  <2> QED
    BY <1>8, <2>1, DeviceStep
<1>9. CASE CompleteRequest
  BY <1>9, CompleteStep
<1> QED
  BY <1>1, <1>2, <1>3, <1>4, <1>5, <1>6, <1>7, <1>8, <1>9 DEF MsixNext

\* Whatever the order in which the guest writes, masks and unmasks vectors, KVM's
\* routes, VFIO's triggers and the device's mask bits follow the shadow table
\* (msix_setup_irqs(), msix_update_routes()).
THEOREM MsixInvariant == MsixSpec => []MsixInv
<1> QED
  BY MsixInitInv, MsixStep, PTL DEF MsixSpec

\* While the guest runs, the device masks an armed vector exactly when the guest has
\* masked it (msix_setup_irqs() unmasks them all and then puts the bits back).
THEOREM MasksAgree == MsixSpec => []MaskAgrees
<1>1. MsixInv => MaskAgrees
  BY DEF MsixInv
<1> QED
  BY <1>1, MsixInvariant, PTL

\* KVM_IRQFD never injects the address of one message with the data of another, nor
\* a message that the guest has replaced (msix_update_routes()).
THEOREM MessagesAreWhole == MsixSpec => []MessagesAsProgrammed
<1>1. MsixInv => MessagesAsProgrammed
  BY DEF MsixInv
<1> QED
  BY <1>1, MsixInvariant, PTL

-----------------------------------------------------------------------------
(* VirtioDevices: sequences.                                               *)

\* What is left of a sequence from its k-th element.
Suffix(s, k) == SubSeq(s, k, Len(s))

\* Its head is that element, its tail what is left after it.
LEMMA SuffixIs ==
  ASSUME NEW S, NEW s \in Seq(S), NEW k \in 1..(Len(s) + 1)
  PROVE  /\ k <= Len(s) => /\ Suffix(s, k) # <<>> /\ Head(Suffix(s, k)) = s[k]
                           /\ Tail(Suffix(s, k)) = Suffix(s, k + 1)
         /\ k = Len(s) + 1 => Suffix(s, k) = <<>>
         /\ Len(Suffix(s, k)) = Len(s) + 1 - k
         /\ k = 1 => Suffix(s, k) = s
<1>1. Len(s) \in Nat /\ \A i \in 1..Len(s) : s[i] \in S
  BY ElementOfSeq
<1>2. CASE k = Len(s) + 1
  <2>1. Suffix(s, k) = <<>>
    BY <1>1, <1>2, SubSeqProperties DEF Suffix
  <2> QED
    BY <1>1, <1>2, <2>1
<1>3. CASE k <= Len(s)
  <2>1. /\ Suffix(s, k) \in Seq(S) /\ Len(Suffix(s, k)) = Len(s) + 1 - k
        /\ \A i \in 1..(Len(s) + 1 - k) : Suffix(s, k)[i] = s[k + i - 1]
    BY <1>1, <1>3, SubSeqProperties DEF Suffix
  <2>2. /\ Suffix(s, k + 1) \in Seq(S) /\ Len(Suffix(s, k + 1)) = Len(s) - k
        /\ \A i \in 1..(Len(s) - k) : Suffix(s, k + 1)[i] = s[k + i]
    BY <1>1, <1>3, SubSeqProperties DEF Suffix
  <2>3. Suffix(s, k) # <<>> /\ Head(Suffix(s, k)) = s[k]
    BY <1>1, <1>3, <2>1
  <2>4. /\ Tail(Suffix(s, k)) \in Seq(S) /\ Len(Tail(Suffix(s, k))) = Len(s) - k
        /\ \A i \in 1..(Len(s) - k) : Tail(Suffix(s, k))[i] = Suffix(s, k)[i + 1]
    BY <1>1, <1>3, <2>1, HeadTailProperties
  <2>7. \A i \in 1..(Len(s) - k) : Tail(Suffix(s, k))[i] = Suffix(s, k + 1)[i]
    <3> SUFFICES ASSUME NEW i \in 1..(Len(s) - k)
                 PROVE  Tail(Suffix(s, k))[i] = Suffix(s, k + 1)[i]
      OBVIOUS
    <3>1. i + 1 \in 1..(Len(s) + 1 - k) /\ k + (i + 1) - 1 = k + i
      BY <1>1
    <3> QED
      BY <2>1, <2>2, <2>4, <3>1
  <2>5. Tail(Suffix(s, k)) = Suffix(s, k + 1)
    BY <2>2, <2>4, <2>7, SeqEqual
  <2>6. k = 1 => Suffix(s, k) = s
    BY SubSeqFull DEF Suffix
  <2> QED
    BY <1>1, <1>3, <2>1, <2>3, <2>5, <2>6
<1> QED
  BY <1>1, <1>2, <1>3

\* What Append() yields.
LEMMA Appended ==
  ASSUME NEW S, NEW s \in Seq(S), NEW b \in S, NEW t, t = Append(s, b)
  PROVE  /\ t \in Seq(S) /\ Len(t) = Len(s) + 1
         /\ \A i \in 1..Len(s) : t[i] = s[i]
         /\ t[Len(s) + 1] = b
OBVIOUS

-----------------------------------------------------------------------------
(* VirtioDevices: recursive functions.                                     *)

\* A set of naturals has a least element.
LEMMA Least ==
  ASSUME NEW T, T \subseteq Nat, T # {}
  PROVE  \E x \in T : \A y \in T : x <= y
<1> DEFINE R == OpToRel(<, Nat)
<1>1. IsWellFoundedOn(R, Nat)
  BY NatLessThanWellFounded, Zenon
<1>2. \A x, y \in Nat : <<y, x>> \in R <=> y < x
  BY DEF OpToRel
<1> HIDE DEF R
<1>3. PICK x \in T : \A y \in T : ~ (<<y, x>> \in R)
  BY <1>1, WFMin
<1>4. \A y \in T : y \in Nat /\ x \in Nat /\ ~(y < x)
  BY <1>2, <1>3
<1>5. \A y \in T : x <= y
  BY <1>4
<1> QED
  BY <1>3, <1>5

\* Induction over the naturals, of a set of them.
LEMMA Induct ==
  ASSUME NEW T, T \subseteq Nat, 0 \in T, \A n \in T : n + 1 \in T
  PROVE  T = Nat
<1> SUFFICES ASSUME T # Nat PROVE FALSE
  OBVIOUS
<1> DEFINE M == Nat \ T
<1>1. M \subseteq Nat /\ M # {}
  OBVIOUS
<1>2. PICK m \in M : \A y \in M : m <= y
  BY <1>1, Least
<1>3. m \in Nat /\ m # 0 /\ m - 1 \in Nat /\ ~(m <= m - 1)
  OBVIOUS
<1>4. m - 1 \in T
  BY <1>2, <1>3
<1> QED
  BY <1>3, <1>4

\* A function that repeats the step g from a.
Iterates(f, n, a, g) == f[0] = a /\ \A k \in 1..n : f[k] = g[<<k, f[k - 1]>>]

\* A step can be repeated: what makes a recursive function exist.
LEMMA Iterate ==
  ASSUME NEW S, NEW a \in S, NEW g \in [Nat \X S -> S]
  PROVE  \A n \in Nat : \E f \in [0..n -> S] : Iterates(f, n, a, g)
<1> DEFINE OK(n, f) == f[0] = a /\ \A k \in 1..n : f[k] = g[<<k, f[k - 1]>>]
           T == {n \in Nat : \E f \in [0..n -> S] : OK(n, f)}
<1>1. 0 \in T
  <2>1. [k \in 0..0 |-> a] \in [0..0 -> S] /\ OK(0, [k \in 0..0 |-> a])
    OBVIOUS
  <2> QED
    BY <2>1
<1>2. ASSUME NEW n \in T PROVE n + 1 \in T
  <2>1. PICK f \in [0..n -> S] : OK(n, f)
    OBVIOUS
  <2> DEFINE h == [k \in 0..(n + 1) |-> IF k = n + 1 THEN g[<<n + 1, f[n]>>] ELSE f[k]]
  <2>2. n \in Nat
    OBVIOUS
  <2>3. f[n] \in S /\ <<n + 1, f[n]>> \in Nat \X S
    BY <2>2
  <2>4. g[<<n + 1, f[n]>>] \in S
    BY <2>3
  <2>5. h \in [0..(n + 1) -> S]
    BY <2>2, <2>4
  <2>6. /\ h[n + 1] = g[<<n + 1, f[n]>>]
        /\ \A k \in 0..n : h[k] = f[k]
    BY <2>2
  <2> HIDE DEF h
  <2>7. ASSUME NEW k \in 1..(n + 1) PROVE h[k] = g[<<k, h[k - 1]>>]
    <3>1. CASE k = n + 1
      <4>1. k - 1 = n /\ n \in 0..n
        BY <2>2, <3>1
      <4> QED
        BY <2>6, <3>1, <4>1
    <3>2. CASE k \in 1..n
      <4>1. k - 1 \in 0..n /\ k \in 0..n
        BY <2>2, <3>2
      <4> QED
        BY <2>1, <2>6, <3>2, <4>1
    <3> QED
      BY <2>2, <3>1, <3>2
  <2>8. OK(n + 1, h)
    BY <2>1, <2>2, <2>6, <2>7
  <2> QED
    BY <2>2, <2>5, <2>8
<1> HIDE DEF OK
<1>3. T = Nat
  <2>1. T \subseteq Nat
    OBVIOUS
  <2> HIDE DEF T
  <2> QED
    BY <1>1, <1>2, <2>1, Induct
<1>4. \A n \in Nat : \E f \in [0..n -> S] : OK(n, f)
  BY <1>3
<1> QED
  BY <1>4 DEF OK, Iterates

\* Sums() adds one segment at a time.
LEMMA SumsIs ==
  ASSUME NEW s \in Seq(Nat)
  PROVE  /\ \A k \in 0..Len(s) : Sums(s)[k] \in Nat
         /\ Sums(s)[0] = 0 /\ \A k \in 1..Len(s) : Sums(s)[k] = Sums(s)[k - 1] + s[k]
<1> DEFINE P(f) == f = [k \in 0..Len(s) |-> IF k = 0 THEN 0 ELSE f[k - 1] + s[k]]
           g == [x \in Nat \X Nat |-> IF x[1] \in 1..Len(s) THEN x[2] + s[x[1]] ELSE 0]
<1>1. g \in [Nat \X Nat -> Nat]
  OBVIOUS
<1>2. /\ Len(s) \in Nat /\ 0 \in Nat
      /\ \A k \in 1..Len(s) : \A x \in Nat : g[<<k, x>>] = x + s[k]
  OBVIOUS
<1>3. PICK f \in [0..Len(s) -> Nat] :
         f[0] = 0 /\ \A k \in 1..Len(s) : f[k] = g[<<k, f[k - 1]>>]
  <2> HIDE DEF g
  <2>1. \A n \in Nat : \E f \in [0..n -> Nat] : Iterates(f, n, 0, g)
    <3>1. 0 \in Nat /\ g \in [Nat \X Nat -> Nat]
      BY <1>1
    <3> QED
      BY <3>1, Iterate, Zenon
  <2> QED
    BY <1>2, <2>1 DEF Iterates
<1> HIDE DEF g
<1>4. \A k \in 1..Len(s) : f[k] = f[k - 1] + s[k]
  <2>1. \A k \in 1..Len(s) : k - 1 \in 0..Len(s)
    BY <1>2
  <2> QED
    BY <1>2, <1>3, <2>1
<1>5. P(f)
  <2>1. f = [k \in 0..Len(s) |-> f[k]]
    BY <1>3
  <2>2. ASSUME NEW k \in 0..Len(s)
        PROVE  f[k] = IF k = 0 THEN 0 ELSE f[k - 1] + s[k]
    <3>1. k = 0 \/ k \in 1..Len(s)
      BY <1>2
    <3> QED
      BY <1>3, <1>4, <3>1
  <2> QED
    BY <2>1, <2>2, Zenon
<1>6. Sums(s) = CHOOSE x : P(x)
  BY Zenon DEF Sums
<1>7. P(Sums(s))
  <2> HIDE DEF P
  <2> QED
    BY <1>5, <1>6
<1>8. \A k \in 0..Len(s) : Sums(s)[k] = IF k = 0 THEN 0 ELSE Sums(s)[k - 1] + s[k]
  BY <1>7
<1>9. Sums(s)[0] = 0 /\ \A k \in 1..Len(s) : Sums(s)[k] = Sums(s)[k - 1] + s[k]
  BY <1>2, <1>8
<1> DEFINE T == {n \in Nat : n <= Len(s) => Sums(s)[n] \in Nat}
<1>10. T = Nat
  <2>1. T \subseteq Nat /\ 0 \in T
    BY <1>9
  <2>2. ASSUME NEW n \in T PROVE n + 1 \in T
    <3>1. CASE n + 1 <= Len(s)
      <4>1. n + 1 \in 1..Len(s) /\ (n + 1) - 1 = n /\ Sums(s)[n] \in Nat
        BY <1>2, <3>1
      <4> QED
        BY <1>9, <4>1
    <3> QED
      BY <3>1
  <2> HIDE DEF T
  <2> QED
    BY <2>1, <2>2, Induct
<1>11. \A k \in 0..Len(s) : Sums(s)[k] \in Nat
  BY <1>10
<1> QED
  BY <1>9, <1>11

\* Total() is the last of the sums.
LEMMA TotalIs ==
  ASSUME NEW s \in Seq(Nat)
  PROVE  Total(s) \in Nat
<1>1. Len(s) \in 0..Len(s)
  OBVIOUS
<1> QED
  BY <1>1, SumsIs DEF Total

\* The sums of two sequences agree as far as the sequences do.
LEMMA SumsAgree ==
  ASSUME NEW s \in Seq(Nat), NEW t \in Seq(Nat), NEW m \in Nat, m <= Len(s), m <= Len(t),
         \A k \in 1..m : s[k] = t[k]
  PROVE  Sums(s)[m] = Sums(t)[m]
<1> DEFINE T == {n \in Nat : n <= m => Sums(s)[n] = Sums(t)[n]}
<1>1. T \subseteq Nat /\ 0 \in T
  BY SumsIs
<1>2. ASSUME NEW n \in T PROVE n + 1 \in T
  <2>1. CASE n + 1 <= m
    <3>1. /\ n + 1 \in 1..m /\ (n + 1) - 1 = n /\ Sums(s)[n] = Sums(t)[n]
          /\ n + 1 \in 1..Len(s) /\ n + 1 \in 1..Len(t)
      BY <2>1
    <3>2. Sums(s)[n + 1] = Sums(s)[n] + s[n + 1] /\ Sums(t)[n + 1] = Sums(t)[n] + t[n + 1]
      BY <3>1, SumsIs
    <3> QED
      BY <3>1, <3>2
  <2> QED
    BY <2>1
<1>3. T = Nat
  <2> HIDE DEF T
  <2> QED
    BY <1>1, <1>2, Induct
<1> QED
  BY <1>3

\* What blk_handle() has transferred when it is done with the i-th segment.
Filled(lens, i) == Total(SubSeq(lens, 2, i))

\* One segment more adds its length.
LEMMA FilledIs ==
  ASSUME NEW s \in Seq(Nat)
  PROVE  /\ Filled(s, 1) = 0
         /\ \A i \in 2..Len(s) : Filled(s, i) = Filled(s, i - 1) + s[i]
         /\ \A i \in 1..Len(s) : Filled(s, i) \in Nat
<1>1. \A i \in 1..Len(s) :
        /\ SubSeq(s, 2, i) \in Seq(Nat) /\ Len(SubSeq(s, 2, i)) = i - 1
        /\ \A k \in 1..(i - 1) : SubSeq(s, 2, i)[k] = s[k + 1]
  <2> SUFFICES ASSUME NEW i \in 1..Len(s)
               PROVE  /\ SubSeq(s, 2, i) \in Seq(Nat) /\ Len(SubSeq(s, 2, i)) = i - 1
                      /\ \A k \in 1..(i - 1) : SubSeq(s, 2, i)[k] = s[k + 1]
    OBVIOUS
  <2>1. \A k \in 2..i : k \in 1..Len(s) /\ s[k] \in Nat
    OBVIOUS
  <2>2. i \in Nat /\ Len(s) \in Nat
    OBVIOUS
  <2> QED
    BY <2>1, <2>2, SubSeqProperties
<1>2. \A i \in 1..Len(s) : Filled(s, i) \in Nat
  BY <1>1, TotalIs DEF Filled
<1>3. Filled(s, 1) = 0
  <2> DEFINE t == SubSeq(s, 2, 1)
  <2>1. t = <<>>
    OBVIOUS
  <2>2. t \in Seq(Nat) /\ Len(t) = 0
    BY <2>1
  <2> HIDE DEF t
  <2>3. Sums(t)[0] = 0
    BY <2>2, SumsIs
  <2> QED
    BY <2>2, <2>3 DEF Filled, Total, t
<1>4. ASSUME NEW i \in 2..Len(s) PROVE Filled(s, i) = Filled(s, i - 1) + s[i]
  <2> DEFINE t == SubSeq(s, 2, i)
             u == SubSeq(s, 2, i - 1)
  <2>1. /\ i \in 1..Len(s) /\ i - 1 \in 1..Len(s) /\ i \in Nat /\ Len(s) \in Nat
        /\ (i - 1) - 1 = i - 2
    OBVIOUS
  <2>2. /\ t \in Seq(Nat) /\ Len(t) = i - 1 /\ u \in Seq(Nat) /\ Len(u) = i - 2
        /\ \A k \in 1..(i - 1) : t[k] = s[k + 1]
        /\ \A k \in 1..(i - 2) : u[k] = s[k + 1]
    BY <1>1, <2>1
  <2> HIDE DEF t, u
  <2>3. Sums(t)[i - 2] = Sums(u)[i - 2]
    <3>1. i - 2 \in Nat /\ i - 2 <= Len(t) /\ i - 2 <= Len(u)
      BY <2>1, <2>2
    <3>2. ASSUME NEW k \in 1..(i - 2) PROVE t[k] = u[k]
      <4>1. k \in 1..(i - 1)
        OBVIOUS
      <4> QED
        BY <2>2, <4>1
    <3> QED
      BY <2>2, <3>1, <3>2, SumsAgree
  <2>4. Sums(t)[i - 1] = Sums(t)[i - 2] + t[i - 1] /\ t[i - 1] = s[i]
    <3>1. i - 1 \in 1..Len(t) /\ (i - 1) - 1 = i - 2 /\ (i - 1) + 1 = i
      BY <2>1, <2>2
    <3>2. Sums(t)[i - 1] = Sums(t)[(i - 1) - 1] + t[i - 1]
      BY <2>2, <3>1, SumsIs
    <3>3. t[i - 1] = s[(i - 1) + 1]
      BY <2>2, <3>1
    <3> QED
      BY <3>1, <3>2, <3>3
  <2>5. Filled(s, i) = Sums(t)[i - 1] /\ Filled(s, i - 1) = Sums(u)[i - 2]
    BY <2>2 DEF Filled, Total, t, u
  <2> QED
    BY <2>3, <2>4, <2>5
<1> QED
  BY <1>2, <1>3, <1>4

\* It never gets less.
LEMMA FilledGrows ==
  ASSUME NEW s \in Seq(Nat), NEW i \in 1..Len(s), NEW j \in i..Len(s)
  PROVE  Filled(s, i) <= Filled(s, j)
<1> DEFINE T == {n \in Nat : i + n <= Len(s) => Filled(s, i) <= Filled(s, i + n)}
<1>1. \A k \in 1..Len(s) : Filled(s, k) \in Nat
  BY FilledIs
<1>2. T \subseteq Nat /\ 0 \in T
  BY <1>1
<1>3. ASSUME NEW n \in T PROVE n + 1 \in T
  <2>1. CASE i + (n + 1) <= Len(s)
    <3>1. /\ i + (n + 1) \in 2..Len(s) /\ (i + (n + 1)) - 1 = i + n /\ i + n \in 1..Len(s)
          /\ Filled(s, i) <= Filled(s, i + n) /\ i + (n + 1) \in 1..Len(s)
      BY <2>1
    <3>2. Filled(s, i + (n + 1)) = Filled(s, i + n) + s[i + (n + 1)]
      BY <3>1, FilledIs
    <3>3. s[i + (n + 1)] \in Nat
      BY <3>1
    <3> QED
      BY <1>1, <3>1, <3>2, <3>3
  <2> QED
    BY <2>1
<1>4. T = Nat
  <2> HIDE DEF T
  <2> QED
    BY <1>2, <1>3, Induct
<1>5. j - i \in Nat /\ i + (j - i) = j /\ j <= Len(s)
  OBVIOUS
<1>6. j - i \in T
  BY <1>4, <1>5
<1>7. i + (j - i) <= Len(s) => Filled(s, i) <= Filled(s, i + (j - i))
  BY <1>6
<1> QED
  BY <1>5, <1>7

-----------------------------------------------------------------------------
(* VirtioDevices: chains.                                                  *)

\* The descriptor tables a guest can write.
Tables == [0..(Num - 1) -> [addr : 0..(Wrap - 1), len : Nat, more : BOOLEAN, next : Nat]]
\* The states of the walk of gather_chain().
Walks == [idx : Nat, segs : Seq(Nat), more : BOOLEAN, bad : BOOLEAN]

\* Min() of two numbers.
LEMMA MinOfTwo ==
  ASSUME NEW a \in Nat, NEW b \in Nat
  PROVE  /\ Min({a, b}) \in Nat /\ Min({a, b}) <= a /\ Min({a, b}) <= b
         /\ Min({a, b}) = a \/ Min({a, b}) = b
<1>1. \E x \in {a, b} : \A y \in {a, b} : x <= y
  <2>1. CASE a <= b
    BY <2>1
  <2>2. CASE b <= a
    BY <2>2
  <2> QED
    BY <2>1, <2>2
<1>2. Min({a, b}) \in {a, b} /\ \A y \in {a, b} : Min({a, b}) <= y
  BY <1>1 DEF Min
<1> QED
  BY <1>2

\* One more descriptor.
LEMMA FollowWalks ==
  ASSUME NEW tab \in Tables, NEW w \in Walks
  PROVE  Follow(tab, w) \in Walks
<1> DEFINE d == tab[w.idx]
           more == Append(w.segs, d.len)
<1>1. CASE ~w.more \/ w.bad
  BY <1>1 DEF Follow
<1>2. CASE ~(~w.more \/ w.bad) /\ (w.idx \notin 0..(Num - 1) \/ ~InMemory(d.addr, d.len))
  <2>1. Follow(tab, w) = [w EXCEPT !.bad = TRUE]
    BY <1>2 DEF Follow
  <2> QED
    BY <2>1 DEF Walks
<1>3. CASE ~(~w.more \/ w.bad) /\ ~(w.idx \notin 0..(Num - 1) \/ ~InMemory(d.addr, d.len))
  <2>1. Follow(tab, w) = [w EXCEPT !.idx = d.next, !.more = d.more, !.segs = more]
    BY <1>3 DEF Follow
  <2>2. d \in [addr : 0..(Wrap - 1), len : Nat, more : BOOLEAN, next : Nat]
    BY <1>3 DEF Tables
  <2>3. d.len \in Nat /\ d.next \in Nat /\ d.more \in BOOLEAN
    BY <2>2
  <2> HIDE DEF d
  <2>4. more \in Seq(Nat)
    <3>1. w.segs \in Seq(Nat)
      BY DEF Walks
    <3> QED
      BY <2>3, <3>1, Appended
  <2> HIDE DEF more
  <2> QED
    BY <2>1, <2>3, <2>4 DEF Walks
<1> QED
  BY <1>1, <1>2, <1>3

\* The walk of gather_chain() stays within these states.
LEMMA WalkIs ==
  ASSUME NEW head \in Nat, NEW tab \in Tables
  PROVE  \A k \in 0..(Num + 1) : Walk(head, tab)[k] \in Walks
<1> DEFINE first == [idx |-> head, segs |-> <<>>, more |-> TRUE, bad |-> FALSE]
           P(f) == f = [k \in 0..(Num + 1) |->
                          IF k = 0 THEN first ELSE Follow(tab, f[k - 1])]
           g == [x \in Nat \X Walks |-> Follow(tab, x[2])]
<1>1. Num \in Nat /\ Num + 1 \in Nat
  BY SizesOK
<1>2. first \in Walks
  BY <1>1 DEF Walks
<1>3. /\ g \in [Nat \X Walks -> Walks]
      /\ \A k \in Nat : \A w \in Walks : g[<<k, w>>] = Follow(tab, w)
  BY FollowWalks
<1>4. PICK f \in [0..(Num + 1) -> Walks] :
         f[0] = first /\ \A k \in 1..(Num + 1) : f[k] = g[<<k, f[k - 1]>>]
  <2> HIDE DEF g, first
  <2>1. \A n \in Nat : \E f \in [0..n -> Walks] : Iterates(f, n, first, g)
    <3>1. first \in Walks /\ g \in [Nat \X Walks -> Walks]
      BY <1>2, <1>3
    <3> QED
      BY <3>1, Iterate, Zenon
  <2> QED
    BY <1>1, <2>1 DEF Iterates
<1> HIDE DEF g
<1>5. \A k \in 1..(Num + 1) : f[k] = Follow(tab, f[k - 1])
  <2>1. \A k \in 1..(Num + 1) : k \in Nat /\ k - 1 \in 0..(Num + 1)
    BY <1>1
  <2> QED
    BY <1>3, <1>4, <2>1
<1> HIDE DEF first
<1>6. P(f)
  BY <1>1, <1>4, <1>5
<1>7. Walk(head, tab) = CHOOSE x : P(x)
  BY Zenon DEF Walk, first
<1>8. P(Walk(head, tab))
  <2> HIDE DEF P
  <2> QED
    BY <1>6, <1>7
<1> DEFINE all == Walk(head, tab)
<1>9. \A k \in 0..(Num + 1) : all[k] = IF k = 0 THEN first ELSE Follow(tab, all[k - 1])
  BY <1>8
<1> HIDE DEF all, P
<1> DEFINE T == {n \in Nat : n <= Num + 1 => all[n] \in Walks}
<1>10. T \subseteq Nat /\ 0 \in T
  BY <1>1, <1>2, <1>9
<1>11. ASSUME NEW n \in T PROVE n + 1 \in T
  <2>1. CASE n + 1 <= Num + 1
    <3>1. n + 1 \in 0..(Num + 1) /\ n + 1 # 0 /\ (n + 1) - 1 = n /\ all[n] \in Walks
      BY <1>1, <2>1
    <3>2. all[n + 1] = Follow(tab, all[n])
      BY <1>9, <3>1
    <3>3. all[n + 1] \in Walks
      BY <3>1, <3>2, FollowWalks
    <3> QED
      BY <3>3
  <2> QED
    BY <2>1
<1>12. T = Nat
  <2> HIDE DEF T
  <2> QED
    BY <1>10, <1>11, Induct
<1> QED
  BY <1>1, <1>12 DEF all

\* What SubSeq() cuts out.
LEMMA CutOut ==
  ASSUME NEW s \in Seq(Nat), NEW m \in Nat \ {0}, NEW n \in Nat, n <= Len(s)
  PROVE  /\ SubSeq(s, m, n) \in Seq(Nat)
         /\ Len(SubSeq(s, m, n)) = IF m <= n THEN (n - m) + 1 ELSE 0
         /\ \A i \in 1..((n - m) + 1) : m = 1 => SubSeq(s, m, n)[i] = s[i]
<1>1. CASE m <= n
  <2>1. \A i \in m..n : s[i] \in Nat
    <3>1. \A i \in 1..Len(s) : s[i] \in Nat
      BY ElementOfSeq
    <3>2. \A i \in m..n : i \in 1..Len(s)
      OBVIOUS
    <3> QED
      BY <3>1, <3>2
  <2>2. /\ SubSeq(s, m, n) \in Seq(Nat)
        /\ Len(SubSeq(s, m, n)) = IF m <= n THEN (n - m) + 1 ELSE 0
        /\ \A i \in 1..((n - m) + 1) : SubSeq(s, m, n)[i] = s[(m + i) - 1]
    <3>1. m \in Int /\ n \in Int
      OBVIOUS
    <3> QED
      BY <2>1, <3>1, SubSeqProperties
  <2>3. m = 1 => \A i \in 1..((n - m) + 1) : (m + i) - 1 = i
    OBVIOUS
  <2> QED
    BY <2>2, <2>3
<1>2. CASE ~(m <= n)
  <2>1. SubSeq(s, m, n) = <<>>
    BY <1>2
  <2>2. (n - m) + 1 <= 0
    BY <1>2
  <2> QED
    BY <1>2, <2>1, <2>2
<1> QED
  BY <1>1, <1>2

\* Whatever the table holds, the walk adds up a list of lengths.
LEMMA LengthsFit ==
  ASSUME NEW c, c.head \in Nat, c.table \in Tables
  PROVE  Lengths(c) \in Seq(Nat)
<1> DEFINE end == Walk(c.head, c.table)[Num + 1]
<1>1. Num + 1 \in 0..(Num + 1)
  BY SizesOK
<1>2. end \in Walks
  BY <1>1, WalkIs
<1>3. Lengths(c) = IF end.more \/ end.bad THEN Bad ELSE end.segs
  BY DEF Lengths
<1> HIDE DEF end
<1> QED
  BY <1>2, <1>3 DEF Walks, Bad

\* gather_chain() fills at most the array it is given, and all of the chain is in it
\* where nothing was left out.
LEMMA GatherFits ==
  ASSUME NEW c, Lengths(c) \in Seq(Nat)
  PROVE  /\ Gather(c) \in Seq(Nat) /\ Len(Gather(c)) <= MaxSegs
         /\ LeftOut(c) \in Seq(Nat)
         /\ LeftOut(c) = <<>> => Gather(c) = Lengths(c)
<1> DEFINE s == Lengths(c)
           n == Min({MaxSegs, Len(s)})
<1>1. MaxSegs \in Nat \ {0} /\ MaxSegs + 1 \in Nat \ {0} /\ s \in Seq(Nat) /\ Len(s) \in Nat
  BY SizesOK
<1>2. Gather(c) = SubSeq(s, 1, n) /\ LeftOut(c) = SubSeq(s, MaxSegs + 1, Len(s))
  BY DEF Gather, LeftOut
<1> HIDE DEF s
<1>3. n \in Nat /\ n <= MaxSegs /\ n <= Len(s) /\ (n = MaxSegs \/ n = Len(s))
  BY <1>1, MinOfTwo
<1> HIDE DEF n
<1>4. 1 \in Nat \ {0} /\ (n - 1) + 1 = n /\ Len(s) <= Len(s)
  BY <1>1, <1>3
<1>5. /\ Gather(c) \in Seq(Nat) /\ Len(Gather(c)) = n
      /\ \A i \in 1..n : Gather(c)[i] = s[i]
  <2>1. /\ SubSeq(s, 1, n) \in Seq(Nat)
        /\ Len(SubSeq(s, 1, n)) = IF 1 <= n THEN (n - 1) + 1 ELSE 0
        /\ \A i \in 1..((n - 1) + 1) : 1 = 1 => SubSeq(s, 1, n)[i] = s[i]
    BY <1>1, <1>3, <1>4, CutOut
  <2> QED
    BY <1>2, <1>3, <1>4, <2>1
<1>6. /\ LeftOut(c) \in Seq(Nat)
      /\ Len(LeftOut(c)) =
           IF MaxSegs + 1 <= Len(s) THEN (Len(s) - (MaxSegs + 1)) + 1 ELSE 0
  BY <1>1, <1>2, <1>4, CutOut
<1>7. ASSUME LeftOut(c) = <<>> PROVE Gather(c) = s
  <2>1. Len(LeftOut(c)) = 0
    BY <1>7
  <2>2. n = Len(s)
    BY <1>1, <1>3, <1>6, <2>1
  <2> QED
    BY <1>1, <1>5, <2>2, SeqEqual
<1> QED
  BY <1>3, <1>5, <1>6, <1>7 DEF s

\* A chain's lengths can be summed.
LEMMA LengthsOf ==
  ASSUME NEW c \in Chains["console"] \cup Chains["blk"]
  PROVE  /\ Lengths(c) \in Seq(Nat)
         /\ Gather(c) \in Seq(Nat) /\ Total(Gather(c)) \in Nat
         /\ LeftOut(c) \in Seq(Nat) /\ Total(LeftOut(c)) \in Nat
<1>1. c.head \in Nat /\ c.table \in Tables
  BY SizesOK DEF Tables
<1>2. Lengths(c) \in Seq(Nat)
  BY <1>1, LengthsFit
<1> QED
  BY <1>2, GatherFits, TotalIs

-----------------------------------------------------------------------------
\* The register accesses of the driver's bring-up.
Accesses == {"reset", "features_ok", "confirm", "sel", "unused", "num", "low", "high",
             "ready", "driver_ok"}
\* Each is for one of the queues.
AccessSteps == Accesses \X (0..1)
\* How many accesses there are for the device.
LastStep == IF id = "console" THEN 16 ELSE 10

\* What \o yields.
LEMMA Concat ==
  ASSUME NEW s \in Seq(AccessSteps), NEW t \in Seq(AccessSteps), NEW m \in Nat, NEW n \in Nat,
         Len(s) = m, Len(t) = n
  PROVE  /\ s \o t \in Seq(AccessSteps) /\ Len(s \o t) = m + n
         /\ \A i \in 1..m : (s \o t)[i] = s[i]
         /\ \A i \in 1..n : (s \o t)[m + i] = t[i]
<1>1. /\ s \o t \in Seq(AccessSteps) /\ Len(s \o t) = m + n
      /\ \A i \in 1..(m + n) : (s \o t)[i] = IF i <= m THEN s[i] ELSE t[i - m]
  BY ConcatProperties
<1>2. ASSUME NEW i \in 1..n PROVE (s \o t)[m + i] = t[i]
  <2>1. m + i \in 1..(m + n) /\ ~(m + i <= m) /\ (m + i) - m = i
    OBVIOUS
  <2> QED
    BY <1>1, <2>1
<1> QED
  BY <1>1, <1>2

\* The same, of any two.
LEMMA ConcatAll ==
  \A s, t \in Seq(AccessSteps) :
     /\ s \o t \in Seq(AccessSteps) /\ Len(s \o t) = Len(s) + Len(t)
     /\ \A i \in 1..Len(s) : (s \o t)[i] = s[i]
     /\ \A i \in 1..Len(t) : (s \o t)[Len(s) + i] = t[i]
<1> SUFFICES ASSUME NEW s \in Seq(AccessSteps), NEW t \in Seq(AccessSteps)
             PROVE  /\ s \o t \in Seq(AccessSteps) /\ Len(s \o t) = Len(s) + Len(t)
                    /\ \A i \in 1..Len(s) : (s \o t)[i] = s[i]
                    /\ \A i \in 1..Len(t) : (s \o t)[Len(s) + i] = t[i]
  OBVIOUS
<1>1. Len(s) \in Nat /\ Len(t) \in Nat
  OBVIOUS
<1> QED
  BY <1>1, Concat

\* The accesses for one queue.
LEMMA SetUpIs ==
  ASSUME NEW q \in 0..1
  PROVE  /\ SetUp(q) \in Seq(AccessSteps) /\ Len(SetUp(q)) = 6
         /\ SetUp(q)[1] = <<"sel", q>> /\ SetUp(q)[2] = <<"unused", q>>
         /\ SetUp(q)[3] = <<"num", q>> /\ SetUp(q)[4] = <<"low", q>>
         /\ SetUp(q)[5] = <<"high", q>> /\ SetUp(q)[6] = <<"ready", q>>
BY DEF SetUp, AccessSteps, Accesses

\* The accesses of the bring-up, by their places.
LEMMA BringUpIs ==
  ASSUME id \in {"console", "blk"}
  PROVE  /\ BringUp \in Seq(AccessSteps) /\ Len(BringUp) = LastStep
         /\ BringUp[1] = <<"reset", 0>> /\ BringUp[2] = <<"features_ok", 0>>
         /\ BringUp[3] = <<"confirm", 0>> /\ BringUp[LastStep] = <<"driver_ok", 0>>
         /\ \A q \in Queues : \A j \in 1..6 : BringUp[3 + 6 * q + j] = SetUp(q)[j]
<1> DEFINE first == <<<<"reset", 0>>, <<"features_ok", 0>>, <<"confirm", 0>>>>
           other == IF id = "console" THEN SetUp(1) ELSE <<>>
           last == <<<<"driver_ok", 0>>>>
<1>1. /\ first \in Seq(AccessSteps) /\ Len(first) = 3
      /\ first[1] = <<"reset", 0>> /\ first[2] = <<"features_ok", 0>>
      /\ first[3] = <<"confirm", 0>>
  BY DEF AccessSteps, Accesses
<1>2. last \in Seq(AccessSteps) /\ Len(last) = 1 /\ last[1] = <<"driver_ok", 0>>
  BY DEF AccessSteps, Accesses
<1>3. /\ other \in Seq(AccessSteps) /\ Len(other) = LastStep - 10
      /\ id = "console" => other = SetUp(1)
  <2>1. CASE id = "console"
    BY <2>1, SetUpIs DEF LastStep
  <2>2. CASE id # "console"
    BY <2>2 DEF LastStep
  <2> QED
    BY <2>1, <2>2
<1>4. BringUp = ((first \o SetUp(0)) \o other) \o last
  BY DEF BringUp
<1> HIDE DEF first, other, last
<1>5. /\ first \o SetUp(0) \in Seq(AccessSteps) /\ Len(first \o SetUp(0)) = 9
      /\ \A i \in 1..3 : (first \o SetUp(0))[i] = first[i]
      /\ \A i \in 1..6 : (first \o SetUp(0))[3 + i] = SetUp(0)[i]
  <2>1. SetUp(0) \in Seq(AccessSteps) /\ Len(SetUp(0)) = 6
    BY SetUpIs
  <2>2. /\ first \o SetUp(0) \in Seq(AccessSteps) /\ Len(first \o SetUp(0)) = 3 + 6
        /\ \A i \in 1..3 : (first \o SetUp(0))[i] = first[i]
        /\ \A i \in 1..6 : (first \o SetUp(0))[3 + i] = SetUp(0)[i]
    <3>1. first \in Seq(AccessSteps) /\ Len(first) = 3 /\ 3 \in Nat /\ 6 \in Nat
      BY <1>1
    <3> QED
      BY <2>1, <3>1, Concat, ZenonT(40)
  <2>3. 3 + 6 = 9
    OBVIOUS
  <2> QED
    BY <2>2, <2>3, Zenon
<1> DEFINE most == first \o SetUp(0)
<1>6. /\ most \o other \in Seq(AccessSteps) /\ Len(most \o other) = LastStep - 1
      /\ \A i \in 1..9 : (most \o other)[i] = most[i]
      /\ \A i \in 1..(LastStep - 10) : (most \o other)[9 + i] = other[i]
  <2>1. most \in Seq(AccessSteps) /\ Len(most) = 9
    BY <1>5
  <2> HIDE DEF most
  <2>2. /\ most \o other \in Seq(AccessSteps)
        /\ Len(most \o other) = 9 + (LastStep - 10)
        /\ \A i \in 1..9 : (most \o other)[i] = most[i]
        /\ \A i \in 1..(LastStep - 10) : (most \o other)[9 + i] = other[i]
    <3> DEFINE rest == LastStep - 10
    <3>1. rest \in Nat /\ 9 \in Nat /\ other \in Seq(AccessSteps) /\ Len(other) = rest
      BY <1>3 DEF LastStep
    <3> HIDE DEF rest
    <3>2. /\ most \o other \in Seq(AccessSteps) /\ Len(most \o other) = 9 + rest
          /\ \A i \in 1..9 : (most \o other)[i] = most[i]
          /\ \A i \in 1..rest : (most \o other)[9 + i] = other[i]
      <4>1. /\ most \in Seq(AccessSteps) /\ other \in Seq(AccessSteps) /\ 9 \in Nat /\ rest \in Nat
            /\ Len(most) = 9 /\ Len(other) = rest
        BY <2>1, <3>1
      <4>2. /\ most \o other \in Seq(AccessSteps) /\ Len(most \o other) = Len(most) + Len(other)
            /\ \A i \in 1..Len(most) : (most \o other)[i] = most[i]
            /\ \A i \in 1..Len(other) : (most \o other)[Len(most) + i] = other[i]
        BY <4>1, ConcatAll, Zenon
      <4> QED
        BY <4>1, <4>2
    <3> QED
      BY <3>2 DEF rest
  <2>3. 9 + (LastStep - 10) = LastStep - 1
    BY DEF LastStep
  <2> QED
    BY <2>2, <2>3
<1> DEFINE all == most \o other
<1>7. /\ BringUp \in Seq(AccessSteps) /\ Len(BringUp) = LastStep
      /\ \A i \in 1..(LastStep - 1) : BringUp[i] = all[i]
      /\ BringUp[LastStep] = <<"driver_ok", 0>>
  <2>1. all \in Seq(AccessSteps) /\ Len(all) = LastStep - 1
    BY <1>6
  <2>2. BringUp = all \o last
    BY <1>4
  <2> HIDE DEF all
  <2>3. /\ all \o last \in Seq(AccessSteps) /\ Len(all \o last) = (LastStep - 1) + 1
        /\ \A i \in 1..(LastStep - 1) : (all \o last)[i] = all[i]
        /\ \A i \in 1..1 : (all \o last)[(LastStep - 1) + i] = last[i]
    <3>1. 1 \in Nat /\ LastStep - 1 \in Nat /\ last \in Seq(AccessSteps) /\ Len(last) = 1
      BY <1>2 DEF LastStep
    <3> QED
      BY <2>1, <3>1, Concat, Zenon
  <2>4. (LastStep - 1) + 1 = LastStep
    BY DEF LastStep
  <2>5. 1 \in 1..1
    OBVIOUS
  <2>6. (all \o last)[LastStep] = last[1]
    BY <2>3, <2>4, <2>5
  <2> QED
    BY <1>2, <2>2, <2>3, <2>4, <2>6, Zenon
<1> HIDE DEF all, most
<1>8. \A i \in 1..9 : BringUp[i] = most[i]
  <2>1. \A i \in 1..9 : i \in 1..(LastStep - 1)
    BY DEF LastStep
  <2> QED
    BY <1>6, <1>7, <2>1 DEF all
<1>9. /\ BringUp[1] = <<"reset", 0>> /\ BringUp[2] = <<"features_ok", 0>>
      /\ BringUp[3] = <<"confirm", 0>>
  <2>1. most[1] = first[1] /\ most[2] = first[2] /\ most[3] = first[3]
    <3>1. \A i \in 1..3 : most[i] = first[i]
      BY <1>5, Zenon DEF most
    <3> QED
      BY <3>1
  <2>2. BringUp[1] = most[1] /\ BringUp[2] = most[2] /\ BringUp[3] = most[3]
    BY <1>8
  <2> QED
    BY <1>1, <2>1, <2>2
<1>10. ASSUME NEW q \in Queues, NEW j \in 1..6 PROVE BringUp[3 + 6 * q + j] = SetUp(q)[j]
  <2>1. CASE q = 0
    <3>1. 3 + j \in 1..9 /\ 3 + 6 * q + j = 3 + j
      BY <2>1
    <3> QED
      BY <1>5, <1>8, <2>1, <3>1 DEF most
  <2>2. CASE q = 1 /\ id = "console"
    <3>1. /\ j \in 1..(LastStep - 10) /\ 9 + j \in 1..(LastStep - 1)
          /\ 3 + 6 * q + j = 9 + j
      BY <2>2 DEF LastStep
    <3> QED
      BY <1>3, <1>6, <1>7, <2>2, <3>1 DEF all
  <2> QED
    BY <2>1, <2>2 DEF Queues
<1> QED
  BY <1>7, <1>9, <1>10

-----------------------------------------------------------------------------
\* The registers of a queue.
VqType == [num : Nat, low : Seq(Nat), high : Seq(Nat), ready : BOOLEAN]

\* The types of the registers.
RegsTypeOK ==
  /\ id \in {"console", "blk"} /\ queue_sel \in 0..1 /\ probes \in Nat
  /\ vq \in [0..1 -> VqType]

\* The place of the first access for queue q.
At(q) == 3 + 6 * q

\* What the registers of a queue hold before the k-th access of the bring-up.
Queued(q, k) ==
  /\ k \in (At(q) + 2)..(At(q) + 6) => queue_sel = q
  /\ k \in 2..(At(q) + 6) => ~vq[q].ready
  /\ k > At(q) + 3 => vq[q].num = Num
  /\ k > At(q) + 4 => vq[q].low = Rings(q)
  /\ k > At(q) + 5 => vq[q].high = Rings(q)
  /\ k > At(q) + 6 => vq[q].ready

\* What the registers of the device hold before the k-th access.
BeforeAccess(k) ==
  (k = 3 => "features_ok" \in status) /\ \A q \in Queues : Queued(q, k)

\* The inductive invariant of the bring-up.
RegsInv ==
  /\ RegsTypeOK
  /\ \E k \in 1..(LastStep + 1) : todo = Suffix(BringUp, k) /\ BeforeAccess(k)

\* Before the first access.
LEMMA RegsInit == Init => RegsInv
<1> SUFFICES ASSUME Init PROVE RegsInv
  OBVIOUS
<1>1. id \in {"console", "blk"}
  BY DEF Init
<1>2. RegsTypeOK
  <2>1. vq = [q \in 0..1 |-> [num |-> 0, low |-> <<>>, high |-> <<>>, ready |-> FALSE]]
    BY DEF Init
  <2> QED
    BY <1>1, <2>1 DEF Init, RegsTypeOK, VqType
<1>3. todo = Suffix(BringUp, 1)
  BY <1>1, BringUpIs, SuffixIs DEF Init, LastStep
<1>4. BeforeAccess(1)
  BY DEF BeforeAccess, Queued, At, Queues
<1>5. 1 \in 1..(LastStep + 1)
  BY DEF LastStep
<1> QED
  BY <1>2, <1>3, <1>4, <1>5 DEF RegsInv

\* An access of the driver keeps the invariant.
LEMMA ProbeStep ==
  ASSUME RegsInv, Probe
  PROVE  RegsInv'
<1>1. /\ RegsTypeOK /\ id' = id /\ probes' = probes /\ Queues' = Queues
      /\ BringUp' = BringUp /\ LastStep' = LastStep
  BY DEF RegsInv, Probe, Queues, BringUp, LastStep
<1>2. PICK k \in 1..(LastStep + 1) : todo = Suffix(BringUp, k) /\ BeforeAccess(k)
  BY DEF RegsInv
<1>3. /\ id \in {"console", "blk"} /\ BringUp \in Seq(AccessSteps) /\ Len(BringUp) = LastStep
      /\ LastStep \in {10, 16}
  BY <1>1, BringUpIs DEF RegsTypeOK, LastStep
<1>4. /\ k \in 1..LastStep /\ Head(todo) = BringUp[k]
      /\ Tail(todo) = Suffix(BringUp, k + 1)
  <2>1. todo # <<>>
    BY DEF Probe
  <2> QED
    BY <1>2, <1>3, <2>1, SuffixIs
<1>5. ASSUME NEW step, NEW q \in 0..1, BringUp[k] = <<step, q>>
      PROVE  /\ Access(step, q)
             /\ todo' = IF GivesUp(step) THEN Failed ELSE Suffix(BringUp, k + 1)
  <2>1. Head(todo)[1] = step /\ Head(todo)[2] = q
    BY <1>4, <1>5
  <2>2. Access(step, q)
    BY <2>1 DEF Probe, Access
  <2>3. GivesUp(Head(todo)[1]) = GivesUp(step)
    BY <2>1 DEF GivesUp
  <2> QED
    BY <1>4, <2>2, <2>3 DEF Probe
\* It is enough to find what the next access wants.
<1>6. ASSUME todo' = Suffix(BringUp, k + 1), queue_sel' \in 0..1,
             vq' \in [0..1 -> VqType], k + 1 = 3 => "features_ok" \in status',
             \A q \in Queues : Queued(q, k + 1)'
      PROVE  RegsInv'
  <2>1. RegsTypeOK'
    BY <1>1, <1>6 DEF RegsTypeOK
  <2>2. k + 1 \in 1..(LastStep + 1)
    BY <1>3, <1>4
  <2>3. BeforeAccess(k + 1)'
    BY <1>1, <1>6 DEF BeforeAccess
  <2> QED
    BY <1>1, <1>6, <2>1, <2>2, <2>3 DEF RegsInv
<1>7. \A q \in Queues : Queued(q, k) /\ q \in 0..1 /\ (q = 1 => LastStep = 16)
  BY <1>2 DEF BeforeAccess, Queues, LastStep
<1>8. \A q \in 0..1 : Rings(q)' = Rings(q) /\ Rings(q) \in Seq(Nat)
  BY <1>1 DEF Rings, RegsTypeOK
<1>9. CASE k = 1
  <2>1. /\ queue_sel' = queue_sel /\ vq' = ResetQueues
        /\ todo' = Suffix(BringUp, k + 1)
    BY <1>1, <1>5, <1>9, BringUpIs DEF Access, GivesUp, RegsTypeOK
  <2>2. /\ vq' \in [0..1 -> VqType]
        /\ \A q \in Queues : vq'[q].ready = FALSE
    <3>1. vq \in [0..1 -> VqType] /\ Queues \subseteq 0..1
      BY <1>1 DEF RegsTypeOK, Queues
    <3>2. vq' = [q \in 0..1 |-> IF q \in Queues THEN [vq[q] EXCEPT !.ready = FALSE] ELSE vq[q]]
      BY <2>1, <3>1 DEF ResetQueues
    <3>3. \A q \in 0..1 : /\ [vq[q] EXCEPT !.ready = FALSE] \in VqType
                          /\ [vq[q] EXCEPT !.ready = FALSE].ready = FALSE
      BY <3>1 DEF VqType
    <3> QED
      BY <3>1, <3>2, <3>3
  <2>3. \A q \in Queues : Queued(q, k + 1)'
    BY <1>7, <1>9, <2>2 DEF Queued, At
  <2> QED
    BY <1>1, <1>6, <1>9, <2>1, <2>2, <2>3 DEF RegsTypeOK
<1>10. CASE k = 2
  <2>1. /\ queue_sel' = queue_sel /\ vq' = vq /\ status' = status \cup {"features_ok"}
        /\ todo' = Suffix(BringUp, k + 1)
    BY <1>1, <1>5, <1>10, BringUpIs DEF Access, GivesUp, RegsTypeOK
  <2>2. \A q \in Queues : Queued(q, k + 1)'
    BY <1>7, <1>10, <2>1 DEF Queued, At
  <2> QED
    BY <1>1, <1>6, <1>10, <2>1, <2>2 DEF RegsTypeOK
<1>11. CASE k = 3
  <2>1. ~GivesUp("confirm")
    BY <1>2, <1>11 DEF GivesUp, BeforeAccess
  <2>2. /\ queue_sel' = queue_sel /\ vq' = vq /\ todo' = Suffix(BringUp, k + 1)
    BY <1>1, <1>5, <1>11, <2>1, BringUpIs DEF Access, RegsTypeOK
  <2>3. \A q \in Queues : Queued(q, k + 1)'
    BY <1>7, <1>11, <2>2 DEF Queued, At
  <2> QED
    BY <1>1, <1>6, <1>11, <2>2, <2>3 DEF RegsTypeOK
<1>12. CASE k = LastStep
  <2>1. /\ queue_sel' = queue_sel /\ vq' = vq /\ todo' = Suffix(BringUp, k + 1)
    BY <1>1, <1>5, <1>12, BringUpIs DEF Access, GivesUp, RegsTypeOK
  <2>2. \A q \in Queues : Queued(q, k + 1)'
    BY <1>3, <1>7, <1>8, <1>12, <2>1 DEF Queued, At
  <2> QED
    BY <1>1, <1>3, <1>6, <1>12, <2>1, <2>2 DEF RegsTypeOK
<1>13. ASSUME NEW p \in Queues, NEW j \in 1..6, k = At(p) + j PROVE RegsInv'
  <2>1. BringUp[k] = SetUp(p)[j] /\ p \in 0..1
    BY <1>1, <1>7, <1>13, BringUpIs DEF At, RegsTypeOK
  <2>2. /\ Queued(p, k) /\ vq \in [0..1 -> VqType] /\ vq[p] \in VqType
        /\ queue_sel \in 0..1 /\ k + 1 # 3
    BY <1>1, <1>7, <1>13, <2>1 DEF RegsTypeOK, At
  \* The other queue's registers stay as they are.
  <2>3. ASSUME NEW q \in Queues, q # p, vq'[q] = vq[q]
        PROVE  Queued(q, k + 1)'
    <3>1. Queued(q, k) /\ Rings(q)' = Rings(q)
      BY <1>7, <1>8
    <3>2. CASE q = 0 /\ p = 1
      <4>1. k \in 10..15 /\ At(q) = 3
        BY <1>13, <3>2 DEF At
      <4> QED
        BY <2>3, <3>1, <4>1 DEF Queued
    <3>3. CASE q = 1 /\ p = 0
      <4>1. k \in 4..9 /\ At(q) = 9
        BY <1>13, <3>3 DEF At
      <4> QED
        BY <2>3, <3>1, <4>1 DEF Queued
    <3>4. q \in 0..1 /\ p \in 0..1 /\ q # p
      BY <1>7, <2>1, <2>3
    <3>5. (q = 0 /\ p = 1) \/ (q = 1 /\ p = 0)
      BY <3>4
    <3> QED
      BY <3>2, <3>3, <3>5
  <2>4. CASE j = 1
    <3>1. /\ queue_sel' = p /\ vq' = vq /\ todo' = Suffix(BringUp, k + 1)
      BY <1>5, <2>1, <2>4, SetUpIs DEF Access, GivesUp
    <3>2. k = At(p) + 1 /\ At(p) \in Nat
      BY <1>13, <2>1, <2>4 DEF At
    <3>3. Queued(p, k + 1)'
      <4>1. k + 1 = At(p) + 2 /\ k \in 2..(At(p) + 6)
        BY <3>2, <2>1, <2>4, <1>13 DEF At
      <4>2. vq'[p].ready = vq[p].ready /\ ~vq[p].ready /\ queue_sel' = p
        BY <2>2, <3>1, <4>1 DEF Queued
      <4> QED
        BY <3>2, <4>1, <4>2 DEF Queued
    <3> QED
      BY <1>6, <2>1, <2>2, <2>3, <3>1, <3>3, <2>4
  <2>5. CASE j = 2
    <3>1. ~GivesUp("unused")
      BY <1>13, <2>1, <2>2, <2>5 DEF GivesUp, Queued, At
    <3>2. /\ queue_sel' = queue_sel /\ vq' = vq /\ todo' = Suffix(BringUp, k + 1)
      BY <1>5, <2>1, <2>5, <3>1, SetUpIs DEF Access
    <3>3. Queued(p, k + 1)'
      <4>1. /\ k + 1 = At(p) + 3 /\ At(p) \in Nat
            /\ k \in (At(p) + 2)..(At(p) + 6) /\ k \in 2..(At(p) + 6)
        BY <2>1, <2>5, <1>13 DEF At
      <4>2. vq'[p].ready = vq[p].ready /\ ~vq[p].ready /\ queue_sel' = p
        BY <2>2, <3>2, <4>1 DEF Queued
      <4> QED
        BY <4>1, <4>2 DEF Queued
    <3> QED
      BY <1>6, <2>1, <2>2, <2>3, <3>2, <3>3, <2>5
  \* The accesses that write a register of the selected queue.
  <2>6. ASSUME vq' \in [0..1 -> VqType], \A q \in (0..1) \ {p} : vq'[q] = vq[q],
               queue_sel' = queue_sel, todo' = Suffix(BringUp, k + 1), j # 1,
               Queued(p, k + 1)'
        PROVE  RegsInv'
    <3>1. \A q \in Queues : q # p => vq'[q] = vq[q]
      BY <1>7, <2>6
    <3> QED
      BY <1>6, <2>2, <2>3, <2>6, <3>1
  <2>7. CASE j = 3
    <3>1. /\ queue_sel' = queue_sel /\ queue_sel = p /\ todo' = Suffix(BringUp, k + 1)
          /\ vq' = [vq EXCEPT ![p].num = Num]
      BY <1>5, <1>13, <2>1, <2>2, <2>7, SetUpIs DEF Access, GivesUp, Queued, At
    <3>2. [vq[p] EXCEPT !.num = Num] \in VqType
      BY <2>2, SizesOK DEF VqType
    <3>3. /\ vq' \in [0..1 -> VqType] /\ \A q \in (0..1) \ {p} : vq'[q] = vq[q]
          /\ vq'[p] = [vq[p] EXCEPT !.num = Num]
      BY <2>1, <2>2, <3>1, <3>2
    <3>4. /\ vq'[p].num = Num /\ vq'[p].low = vq[p].low
          /\ vq'[p].high = vq[p].high /\ vq'[p].ready = vq[p].ready
      BY <2>2, <3>3 DEF VqType
    <3>5. Queued(p, k + 1)'
      BY <1>8, <1>13, <2>1, <2>2, <2>7, <3>1, <3>4 DEF Queued, At
    <3> QED
      BY <2>6, <2>7, <3>1, <3>3, <3>5
  <2>8. CASE j = 4
    <3>1. /\ queue_sel' = queue_sel /\ queue_sel = p /\ todo' = Suffix(BringUp, k + 1)
          /\ vq' = [vq EXCEPT ![p]["low"] = Rings(p)]
      BY <1>5, <1>13, <2>1, <2>2, <2>8, SetUpIs DEF Access, GivesUp, Queued, At
    <3>2. [vq[p] EXCEPT !.low = Rings(p)] \in VqType
      BY <1>8, <2>1, <2>2 DEF VqType
    <3>3. /\ vq' \in [0..1 -> VqType] /\ \A q \in (0..1) \ {p} : vq'[q] = vq[q]
          /\ vq'[p] = [vq[p] EXCEPT !.low = Rings(p)]
      BY <2>1, <2>2, <3>1, <3>2
    <3>4. /\ vq'[p].num = vq[p].num /\ vq'[p].low = Rings(p)
          /\ vq'[p].high = vq[p].high /\ vq'[p].ready = vq[p].ready
      BY <2>2, <3>3 DEF VqType
    <3>5. Queued(p, k + 1)'
      BY <1>8, <1>13, <2>1, <2>2, <2>8, <3>1, <3>4 DEF Queued, At
    <3> QED
      BY <2>6, <2>8, <3>1, <3>3, <3>5
  <2>9. CASE j = 5
    <3>1. /\ queue_sel' = queue_sel /\ queue_sel = p /\ todo' = Suffix(BringUp, k + 1)
          /\ vq' = [vq EXCEPT ![p]["high"] = Rings(p)]
      BY <1>5, <1>13, <2>1, <2>2, <2>9, SetUpIs DEF Access, GivesUp, Queued, At
    <3>2. [vq[p] EXCEPT !.high = Rings(p)] \in VqType
      BY <1>8, <2>1, <2>2 DEF VqType
    <3>3. /\ vq' \in [0..1 -> VqType] /\ \A q \in (0..1) \ {p} : vq'[q] = vq[q]
          /\ vq'[p] = [vq[p] EXCEPT !.high = Rings(p)]
      BY <2>1, <2>2, <3>1, <3>2
    <3>4. /\ vq'[p].num = vq[p].num /\ vq'[p].low = vq[p].low
          /\ vq'[p].high = Rings(p) /\ vq'[p].ready = vq[p].ready
      BY <2>2, <3>3 DEF VqType
    <3>5. Queued(p, k + 1)'
      BY <1>8, <1>13, <2>1, <2>2, <2>9, <3>1, <3>4 DEF Queued, At
    <3> QED
      BY <2>6, <2>9, <3>1, <3>3, <3>5
  <2>10. CASE j = 6
    <3>1. /\ queue_sel' = queue_sel /\ queue_sel = p /\ todo' = Suffix(BringUp, k + 1)
          /\ vq' = [vq EXCEPT ![p].ready = TRUE]
      BY <1>5, <1>13, <2>1, <2>2, <2>10, SetUpIs DEF Access, GivesUp, Queued, At
    <3>2. [vq[p] EXCEPT !.ready = TRUE] \in VqType
      BY <2>2 DEF VqType
    <3>3. /\ vq' \in [0..1 -> VqType] /\ \A q \in (0..1) \ {p} : vq'[q] = vq[q]
          /\ vq'[p] = [vq[p] EXCEPT !.ready = TRUE]
      BY <2>1, <2>2, <3>1, <3>2
    <3>4. /\ vq'[p].num = vq[p].num /\ vq'[p].low = vq[p].low
          /\ vq'[p].high = vq[p].high /\ vq'[p].ready = TRUE
      BY <2>2, <3>3 DEF VqType
    <3>5. Queued(p, k + 1)'
      BY <1>8, <1>13, <2>1, <2>2, <2>10, <3>1, <3>4 DEF Queued, At
    <3> QED
      BY <2>6, <2>10, <3>1, <3>3, <3>5
  <2> QED
    BY <2>4, <2>5, <2>7, <2>8, <2>9, <2>10
<1>14. \/ k \in {1, 2, 3, LastStep}
       \/ \E p \in Queues : \E j \in 1..6 : k = At(p) + j
  <2>1. CASE k \in 4..9
    <3>1. 0 \in Queues /\ k - 3 \in 1..6 /\ k = At(0) + (k - 3)
      BY <2>1 DEF Queues, At
    <3> QED
      BY <3>1
  <2>2. CASE LastStep = 16 /\ k \in 10..15
    <3>1. 1 \in Queues /\ k - 9 \in 1..6 /\ k = At(1) + (k - 9)
      BY <2>2 DEF Queues, At, LastStep
    <3> QED
      BY <3>1
  <2> QED
    BY <1>3, <1>4, <2>1, <2>2
<1> QED
  BY <1>9, <1>10, <1>11, <1>12, <1>13, <1>14

\* Every action keeps it.
LEMMA RegsStep == RegsInv /\ [Next]_vars => RegsInv'
<1> SUFFICES ASSUME RegsInv, [Next]_vars PROVE RegsInv'
  OBVIOUS
<1>1. CASE UNCHANGED <<id, regs, todo, probes>>
  <2>1. BringUp' = BringUp /\ LastStep' = LastStep /\ Queues' = Queues
    BY <1>1 DEF BringUp, LastStep, Queues
  <2>2. RegsTypeOK'
    BY <1>1 DEF RegsInv, RegsTypeOK, regs
  <2>3. PICK k \in 1..(LastStep + 1) : todo = Suffix(BringUp, k) /\ BeforeAccess(k)
    BY DEF RegsInv
  <2>4. BeforeAccess(k)'
    BY <1>1, <2>1, <2>3 DEF BeforeAccess, Queued, Rings, regs
  <2> QED
    BY <1>1, <2>1, <2>2, <2>3, <2>4 DEF RegsInv
<1>2. CASE Probe
  BY <1>2, ProbeStep
<1>3. CASE Rebind
  <2>1. /\ todo' = BringUp /\ BringUp' = BringUp /\ LastStep' = LastStep
        /\ id' = id /\ vq' = vq /\ queue_sel' = queue_sel /\ probes' = probes + 1
    BY <1>3 DEF Rebind, regs, BringUp, LastStep
  <2>2. RegsTypeOK'
    BY <2>1 DEF RegsInv, RegsTypeOK
  <2>3. todo' = Suffix(BringUp, 1)' /\ 1 \in 1..(LastStep + 1)
    BY <2>1, BringUpIs, SuffixIs DEF RegsInv, RegsTypeOK, LastStep
  <2>4. BeforeAccess(1)'
    BY DEF BeforeAccess, Queued, At, Queues
  <2> QED
    BY <2>1, <2>2, <2>3, <2>4 DEF RegsInv
<1>4. UNCHANGED <<id, regs, todo, probes>> \/ Probe \/ Rebind
  BY DEF Next, vars, Worker, PostConsole, PostRequest, Post, Return, Skip, Transmit,
         Receive, Take, BlkStart, BlkSegment, BlkDone
<1> QED
  BY <1>1, <1>2, <1>3, <1>4

\* After the last access the device is as the driver wants it.
LEMMA RegsImply == RegsInv => BringUpSucceeds
<1> SUFFICES ASSUME RegsInv PROVE BringUpSucceeds
  OBVIOUS
<1>1. PICK k \in 1..(LastStep + 1) : todo = Suffix(BringUp, k) /\ BeforeAccess(k)
  BY DEF RegsInv
<1>2. /\ BringUp \in Seq(AccessSteps) /\ Len(BringUp) = LastStep /\ LastStep \in {10, 16}
      /\ id \in {"console", "blk"}
  BY BringUpIs DEF RegsInv, RegsTypeOK, LastStep
<1>5. /\ k = LastStep + 1 => todo = <<>>
      /\ Len(todo) = LastStep + 1 - k
  <2>1. k \in 1..(Len(BringUp) + 1) /\ BringUp \in Seq(AccessSteps)
    BY <1>2
  <2>2. /\ k = Len(BringUp) + 1 => Suffix(BringUp, k) = <<>>
        /\ Len(Suffix(BringUp, k)) = Len(BringUp) + 1 - k
    BY <2>1, SuffixIs
  <2> QED
    BY <1>1, <1>2, <2>2
<1>3. todo # Failed
  <2>1. CASE k = LastStep + 1
    BY <1>5, <2>1 DEF Failed
  <2>2. CASE k \in 1..LastStep
    <3>1. Head(todo) = BringUp[k] /\ BringUp[k] \in AccessSteps
      BY <1>1, <1>2, <2>2, SuffixIs, ElementOfSeq
    <3>2. Head(Failed) \notin AccessSteps
      BY DEF Failed, AccessSteps, Accesses
    <3> QED
      BY <3>1, <3>2
  <2> QED
    BY <1>2, <2>1, <2>2
<1>4. ASSUME todo = <<>>, NEW q \in Queues PROVE Callable(q)
  <2>1. k = LastStep + 1
    <3>1. Len(todo) = 0
      BY <1>4
    <3> QED
      BY <1>2, <1>5, <3>1
  <2>2. Queued(q, k) /\ q \in 0..1 /\ k > At(q) + 6
    BY <1>1, <1>4, <2>1 DEF BeforeAccess, Queues, LastStep, At
  <2>3. /\ At(q) \in Nat /\ k \in Nat /\ k > At(q) + 3 /\ k > At(q) + 4 /\ k > At(q) + 5
    BY <1>2, <2>1, <2>2 DEF At
  <2> QED
    BY <2>2, <2>3 DEF Queued, Callable
<1> QED
  BY <1>3, <1>4 DEF BringUpSucceeds

\* A driver that brings the device up never has to give up, and the device uses what
\* it wrote, whatever an earlier driver left behind (virtio_reset()).
THEOREM EveryBringUpSucceeds == Spec => []BringUpSucceeds
<1> QED
  BY RegsInit, RegsStep, RegsImply, PTL DEF Spec

-----------------------------------------------------------------------------
\* The requests of the disk.
Requests ==
  {r \in [head : {c.head : c \in Chains["blk"]}, table : {c.table : c \in Chains["blk"]},
          type : {"in", "out", "flush", "other"}, sector : Sectors, tag : Nat] :
     /\ \E c \in Chains["blk"] : r.head = c.head /\ r.table = c.table
     /\ Gather(r) # Bad => r.sector + Data(Gather(r)) <= Capacity}

\* The chains the driver of this device may post.
Items == IF id = "console" THEN Chains["console"] ELSE Requests

\* The calls of service_vq() that are under way, each for chains that wait.
Shape ==
  \/ srv = <<>>
  \/ \E q \in Queues, r \in Nat : srv = <<<<q, r>>>> /\ r <= Len(posted[q])
  \/ /\ id = "console"
     /\ \E r, p \in Nat : /\ srv = <<<<1, r>>, <<0, p>>>>
                          /\ r <= Len(posted[1]) /\ p <= Len(posted[0])

\* Nothing waits and nothing is served until the driver is done.
Idle ==
  todo # <<>> =>
    /\ srv = <<>> /\ notified = {}
    /\ posted[0] = <<>> /\ posted[1] = <<>>

\* The inductive invariant of the calls of service_vq().
ServeInv ==
  /\ use_eventfd \in BOOLEAN /\ notified \subseteq Queues /\ ops \in Nat
  /\ posted \in [0..1 -> Seq(Items)]
  /\ Shape /\ Idle
  /\ blk # NoBlk => id = "blk" /\ srv # <<>> /\ Remaining > 0

\* A stack of one call.
LEMMA OneFrame ==
  ASSUME NEW q \in 0..1, NEW r \in Nat, srv = <<<<q, r>>>>
  PROVE  /\ srv # <<>> /\ Queue = q /\ Remaining = r /\ Front(srv) = <<>>
         /\ Taken = <<<<q, r - 1>>>>
<1>1. Len(srv) = 1 /\ srv[1] = <<q, r>> /\ srv \in Seq((0..1) \X Nat)
  OBVIOUS
<1>2. Queue = q /\ Remaining = r
  BY <1>1 DEF Queue, Remaining, Last
<1>3. Front(srv) = <<>>
  BY <1>1, SubSeqProperties DEF Front
<1>4. Taken = <<<<q, r - 1>>>>
  BY <1>1 DEF Taken
<1> QED
  BY <1>1, <1>2, <1>3, <1>4

\* A stack of two calls.
LEMMA TwoFrames ==
  ASSUME NEW r \in Nat, NEW p \in Nat, srv = <<<<1, r>>, <<0, p>>>>
  PROVE  /\ srv # <<>> /\ Queue = 0 /\ Remaining = p /\ Front(srv) = <<<<1, r>>>>
         /\ Taken = <<<<1, r>>, <<0, p - 1>>>>
<1>1. Len(srv) = 2 /\ srv[1] = <<1, r>> /\ srv[2] = <<0, p>> /\ srv \in Seq((0..1) \X Nat)
  OBVIOUS
<1>2. Queue = 0 /\ Remaining = p
  BY <1>1 DEF Queue, Remaining, Last
<1>3. Front(srv) = <<<<1, r>>>>
  <2>1. /\ Front(srv) \in Seq((0..1) \X Nat) /\ Len(Front(srv)) = 1
        /\ Front(srv)[1] = srv[1]
    BY <1>1, SubSeqProperties DEF Front
  <2> QED
    BY <1>1, <2>1, SeqEqual
<1>4. Taken = <<<<1, r>>, <<0, p - 1>>>>
  BY <1>1 DEF Taken
<1> QED
  BY <1>1, <1>2, <1>3, <1>4

\* A list of the two queues.
LEMMA Pair ==
  ASSUME NEW S, NEW a \in S, NEW b \in S
  PROVE  Append(<<a>>, b) = <<a, b>>
<1> DEFINE s == <<a>>
           t == <<a, b>>
           u == Append(s, b)
<1>1. /\ s \in Seq(S) /\ Len(s) = 1 /\ s[1] = a
      /\ t \in Seq(S) /\ Len(t) = 2 /\ t[1] = a /\ t[2] = b
  OBVIOUS
<1>2. u = Append(s, b)
  OBVIOUS
<1> HIDE DEF s, t, u
<1>3. /\ u \in Seq(S) /\ Len(u) = Len(s) + 1
      /\ \A i \in 1..Len(s) : u[i] = s[i]
      /\ u[Len(s) + 1] = b
  <2>1. s \in Seq(S)
    BY <1>1
  <2> QED
    BY <1>2, <2>1, Appended
<1>4. Len(u) = 2 /\ u[1] = a /\ u[2] = b
  BY <1>1, <1>3
<1>5. u = t
  BY <1>1, <1>3, <1>4, SeqEqual
<1> QED
  BY <1>5 DEF s, t, u

\* What Call() puts on the stack.
LEMMA CallIs ==
  ASSUME NEW q \in 0..1, NEW waiting
  PROVE  /\ Callable(q) => Call(q, waiting, <<>>) = <<<<q, Len(waiting)>>>>
         /\ ~Callable(q) => Call(q, waiting, <<>>) = <<>>
         /\ \A p, r \in Nat :
              Callable(q) => Call(q, waiting, <<<<p, r>>>>) = <<<<p, r>>, <<q, Len(waiting)>>>>
<1>1. ASSUME NEW a, NEW b PROVE Append(<<a>>, b) = <<a, b>>
  <2>1. a \in {a, b} /\ b \in {a, b}
    OBVIOUS
  <2> QED
    BY <2>1, Pair
<1>2. ASSUME NEW p \in Nat, NEW r \in Nat, Callable(q)
      PROVE  Call(q, waiting, <<<<p, r>>>>) = <<<<p, r>>, <<q, Len(waiting)>>>>
  <2>1. Call(q, waiting, <<<<p, r>>>>) = Append(<<<<p, r>>>>, <<q, Len(waiting)>>)
    BY <1>2 DEF Call
  <2> QED
    BY <1>1, <2>1, Zenon
<1> QED
  BY <1>2 DEF Call

\* Every chain the driver posts is one that gather_chain() can take.
LEMMA GatherOf ==
  ASSUME NEW r \in Requests
  PROVE  \E c \in Chains["blk"] : Gather(r) = Gather(c) /\ Lengths(r) = Lengths(c)
BY DEF Requests, Gather, Lengths

\* Nothing is served at the start.
LEMMA ServeInit == Init => ServeInv
<1> SUFFICES ASSUME Init PROVE ServeInv
  OBVIOUS
<1>1. /\ use_eventfd \in BOOLEAN /\ notified = {} /\ srv = <<>> /\ blk = NoBlk
      /\ ops \in Nat
  BY DEF Init
<1>2. posted = [q \in 0..1 |-> <<>>]
  BY DEF Init
<1>3. posted \in [0..1 -> Seq(Items)] /\ posted[0] = <<>> /\ posted[1] = <<>>
  BY <1>2
<1> QED
  BY <1>1, <1>3 DEF ServeInv, Shape, Idle

\* The innermost call takes a chain, and there was one.
LEMMA TakeKeeps ==
  ASSUME ServeInv, srv # <<>>, Remaining > 0, Take, id' = id, todo' = todo
  PROVE  /\ posted' \in [0..1 -> Seq(Items')]
         /\ Queue \in Queues /\ posted[Queue] \in Seq(Items) /\ posted[Queue] # <<>>
         /\ posted' = [posted EXCEPT ![Queue] = Tail(@)]
         /\ Chain \in Items
         /\ \/ \E q \in Queues, r \in Nat :
                 /\ srv = <<<<q, r>>>> /\ r > 0 /\ r <= Len(posted[q]) /\ Queue = q
                 /\ Taken = <<<<q, r - 1>>>> /\ r - 1 <= Len(posted'[q])
            \/ /\ id = "console" /\ Queue = 0
               /\ \E r, p \in Nat :
                    /\ srv = <<<<1, r>>, <<0, p>>>> /\ p > 0
                    /\ r <= Len(posted'[1]) /\ p <= Len(posted[0])
                    /\ Taken = <<<<1, r>>, <<0, p - 1>>>> /\ p - 1 <= Len(posted'[0])
<1>1. Items' = Items
  BY DEF Items
<1>2. /\ posted' = [posted EXCEPT ![Queue] = Tail(@)] /\ Queues \subseteq 0..1
      /\ posted \in [0..1 -> Seq(Items)] /\ Shape
  BY DEF Take, Queues, ServeInv
\* Whatever the stack is, the chain comes from a queue that has one.
<1>3. ASSUME Queue \in Queues, Remaining \in Nat, Remaining <= Len(posted[Queue])
      PROVE  /\ posted[Queue] \in Seq(Items) /\ posted[Queue] # <<>> /\ Chain \in Items
             /\ posted' \in [0..1 -> Seq(Items)]
             /\ Len(posted'[Queue]) = Len(posted[Queue]) - 1
             /\ \A q \in 0..1 : q # Queue => posted'[q] = posted[q]
  <2>1. posted[Queue] \in Seq(Items) /\ Queue \in 0..1
    BY <1>2, <1>3
  <2>2. posted[Queue] # <<>>
    BY <1>3, <2>1
  <2>3. /\ Chain \in Items /\ Tail(posted[Queue]) \in Seq(Items)
        /\ Len(Tail(posted[Queue])) = Len(posted[Queue]) - 1
    BY <2>1, <2>2, HeadTailProperties DEF Chain
  <2> QED
    BY <1>2, <2>1, <2>2, <2>3
<1>4. ASSUME NEW q \in Queues, NEW r \in Nat, srv = <<<<q, r>>>>, r <= Len(posted[q])
      PROVE  /\ Queue = q /\ Remaining = r /\ Taken = <<<<q, r - 1>>>>
             /\ Len(posted'[q]) = Len(posted[q]) - 1
  <2>1. q \in 0..1
    BY <1>2
  <2>2. Queue = q /\ Remaining = r /\ Taken = <<<<q, r - 1>>>>
    BY <1>4, <2>1, OneFrame
  <2> QED
    BY <1>3, <1>4, <2>2
<1>5. ASSUME NEW r \in Nat, NEW p \in Nat, srv = <<<<1, r>>, <<0, p>>>>,
             r <= Len(posted[1]), p <= Len(posted[0])
      PROVE  /\ Queue = 0 /\ Remaining = p /\ Taken = <<<<1, r>>, <<0, p - 1>>>>
             /\ Len(posted'[0]) = Len(posted[0]) - 1 /\ posted'[1] = posted[1]
  <2>1. 0 \in Queues
    BY DEF Queues
  <2>2. Queue = 0 /\ Remaining = p /\ Taken = <<<<1, r>>, <<0, p - 1>>>>
    BY <1>5, TwoFrames
  <2> QED
    BY <1>3, <1>5, <2>1, <2>2
<1>6. CASE \E q \in Queues, r \in Nat : srv = <<<<q, r>>>> /\ r <= Len(posted[q])
  <2>1. PICK q \in Queues, r \in Nat : srv = <<<<q, r>>>> /\ r <= Len(posted[q])
    BY <1>6
  <2>2. /\ Queue = q /\ Remaining = r /\ Taken = <<<<q, r - 1>>>>
        /\ Len(posted'[q]) = Len(posted[q]) - 1
    BY <1>4, <2>1
  <2>3. Queue \in Queues /\ Remaining \in Nat /\ Remaining <= Len(posted[Queue])
    BY <2>1, <2>2
  <2>4. r \in Nat /\ r > 0 /\ Len(posted[q]) \in Nat
    BY <1>3, <2>2, <2>3
  <2>5. r - 1 <= Len(posted'[q])
    BY <2>1, <2>2, <2>4
  <2> QED
    BY <1>1, <1>2, <1>3, <2>1, <2>2, <2>3, <2>4, <2>5
<1>7. CASE /\ id = "console"
           /\ \E r, p \in Nat : /\ srv = <<<<1, r>>, <<0, p>>>>
                                /\ r <= Len(posted[1]) /\ p <= Len(posted[0])
  <2>1. PICK r \in Nat, p \in Nat : /\ srv = <<<<1, r>>, <<0, p>>>>
                                    /\ r <= Len(posted[1]) /\ p <= Len(posted[0])
    BY <1>7
  <2>2. /\ Queue = 0 /\ Remaining = p /\ Taken = <<<<1, r>>, <<0, p - 1>>>>
        /\ Len(posted'[0]) = Len(posted[0]) - 1 /\ posted'[1] = posted[1]
    BY <1>5, <2>1
  <2>3. Queue \in Queues /\ Remaining \in Nat /\ Remaining <= Len(posted[Queue])
    BY <2>1, <2>2 DEF Queues
  <2>4. p > 0 /\ Len(posted[0]) \in Nat
    BY <1>3, <2>2, <2>3
  <2>5. p - 1 <= Len(posted'[0]) /\ r <= Len(posted'[1])
    BY <2>1, <2>2, <2>4
  <2> QED
    BY <1>1, <1>2, <1>3, <1>7, <2>1, <2>2, <2>3, <2>4, <2>5
<1> QED
  BY <1>2, <1>6, <1>7 DEF Shape

\* A call of service_vq() for the chains that wait, alone.
LEMMA CallShape ==
  ASSUME posted' \in [0..1 -> Seq(Items)], NEW q \in Queues, NEW waiting,
         waiting = posted'[q], srv' = Call(q, waiting, <<>>), Queues' = Queues
  PROVE  Shape'
<1>1. q \in 0..1 /\ Len(posted'[q]) \in Nat
  BY DEF Queues
<1>2. srv' = <<>> \/ srv' = <<<<q, Len(posted'[q])>>>>
  BY <1>1, CallIs
<1> QED
  BY <1>1, <1>2 DEF Shape

\* The driver posts a chain and notifies.
LEMMA PostKeeps ==
  ASSUME ServeInv, NEW q \in Queues, NEW c \in Items, Post(q, c), ops' \in Nat
  PROVE  ServeInv'
<1>1. /\ id' = id /\ use_eventfd' = use_eventfd /\ todo' = todo /\ blk' = blk
      /\ posted' = [posted EXCEPT ![q] = Append(@, c)] /\ todo = <<>>
      /\ (~use_eventfd => srv = <<>>)
  BY DEF Post, Ready, GuestRuns
<1>2. Items' = Items /\ Queues' = Queues
  BY <1>1 DEF Items, Queues
<1>3. q \in 0..1 /\ posted \in [0..1 -> Seq(Items)] /\ posted[q] \in Seq(Items)
  BY DEF ServeInv, Queues
<1> DEFINE more == Append(posted[q], c)
<1>4. more \in Seq(Items) /\ Len(more) = Len(posted[q]) + 1
  BY <1>3, Appended
<1>5. posted' = [posted EXCEPT ![q] = more]
  BY <1>1
<1> HIDE DEF more
<1>6. /\ posted' \in [0..1 -> Seq(Items)]
      /\ \A p \in 0..1 : Len(posted[p]) <= Len(posted'[p])
      /\ \A p \in 0..1 : Len(posted[p]) \in Nat /\ Len(posted'[p]) \in Nat
  <2>1. posted' \in [0..1 -> Seq(Items)] /\ posted'[q] = more
    BY <1>3, <1>4, <1>5
  <2>2. \A p \in 0..1 : p # q => posted'[p] = posted[p]
    BY <1>3, <1>5
  <2>3. \A p \in 0..1 : posted[p] \in Seq(Items) /\ posted'[p] \in Seq(Items)
    BY <1>3, <2>1
  <2>4. \A p \in 0..1 : Len(posted[p]) \in Nat /\ Len(posted'[p]) \in Nat
    BY <2>3
  <2> QED
    BY <1>4, <2>1, <2>2, <2>4
<1>7. CASE use_eventfd
  <2>1. notified' = notified \cup {q} /\ srv' = srv
    BY <1>7 DEF Post
  <2>2. Shape'
    <3>1. CASE srv = <<>>
      BY <2>1, <3>1 DEF Shape
    <3>2. CASE \E p \in Queues, r \in Nat : srv = <<<<p, r>>>> /\ r <= Len(posted[p])
      <4>1. PICK p \in Queues, r \in Nat : srv = <<<<p, r>>>> /\ r <= Len(posted[p])
        BY <3>2
      <4>2. p \in 0..1
        BY DEF Queues
      <4>3. r <= Len(posted'[p])
        BY <1>6, <4>1, <4>2
      <4> QED
        BY <1>2, <2>1, <4>1, <4>3 DEF Shape
    <3>3. CASE /\ id = "console"
               /\ \E r, p \in Nat : /\ srv = <<<<1, r>>, <<0, p>>>>
                                    /\ r <= Len(posted[1]) /\ p <= Len(posted[0])
      <4>1. PICK r \in Nat, p \in Nat : /\ srv = <<<<1, r>>, <<0, p>>>>
                                        /\ r <= Len(posted[1]) /\ p <= Len(posted[0])
        BY <3>3
      <4>2. r <= Len(posted'[1]) /\ p <= Len(posted'[0])
        BY <1>6, <4>1
      <4> QED
        BY <1>1, <2>1, <3>3, <4>1, <4>2 DEF Shape
    <3> QED
      BY <3>1, <3>2, <3>3 DEF ServeInv, Shape
  <2>3. Remaining' = Remaining
    BY <2>1 DEF Remaining
  <2> QED
    BY <1>1, <1>2, <1>6, <2>1, <2>2, <2>3 DEF ServeInv, Idle
<1>8. CASE ~use_eventfd
  <2>1. srv' = Call(q, posted'[q], <<>>) /\ notified' = notified
    BY <1>8 DEF Post
  <2>2. Shape'
    BY <1>2, <1>6, <2>1, CallShape
  <2>3. blk = NoBlk
    BY <1>1, <1>8 DEF ServeInv
  <2> QED
    BY <1>1, <1>2, <1>6, <2>1, <2>2, <2>3 DEF ServeInv, Idle, NoBlk
<1> QED
  BY <1>7, <1>8 DEF ServeInv

\* The chain that was taken is gone, and so is one that its call may still take.
LEMMA TakenKeeps ==
  ASSUME ServeInv, srv # <<>>, Remaining > 0, Take, srv' = Taken, id' = id,
         todo' = todo, blk' = NoBlk, ops' \in Nat
  PROVE  ServeInv'
<1>1. /\ posted' \in [0..1 -> Seq(Items')] /\ Queues' = Queues
      /\ notified' = notified /\ use_eventfd' = use_eventfd
  BY TakeKeeps DEF Take, Queues
<1>2. Shape'
  <2>1. CASE \E q \in Queues, r \in Nat :
               /\ srv = <<<<q, r>>>> /\ r > 0 /\ r <= Len(posted[q]) /\ Queue = q
               /\ Taken = <<<<q, r - 1>>>> /\ r - 1 <= Len(posted'[q])
    <3>1. PICK q \in Queues, r \in Nat :
             r > 0 /\ Taken = <<<<q, r - 1>>>> /\ r - 1 <= Len(posted'[q])
      BY <2>1
    <3>2. r - 1 \in Nat
      BY <3>1
    <3> QED
      BY <1>1, <3>1, <3>2 DEF Shape
  <2>2. CASE /\ id = "console" /\ Queue = 0
             /\ \E r, p \in Nat :
                  /\ srv = <<<<1, r>>, <<0, p>>>> /\ p > 0
                  /\ r <= Len(posted'[1]) /\ p <= Len(posted[0])
                  /\ Taken = <<<<1, r>>, <<0, p - 1>>>> /\ p - 1 <= Len(posted'[0])
    <3>1. PICK r \in Nat, p \in Nat :
             /\ p > 0 /\ r <= Len(posted'[1])
             /\ Taken = <<<<1, r>>, <<0, p - 1>>>> /\ p - 1 <= Len(posted'[0])
      BY <2>2
    <3>2. p - 1 \in Nat
      BY <3>1
    <3> QED
      BY <2>2, <3>1, <3>2 DEF Shape
  <2> QED
    BY <2>1, <2>2, TakeKeeps
<1>3. Idle'
  BY <1>1 DEF ServeInv, Idle
<1> QED
  BY <1>1, <1>2, <1>3 DEF ServeInv, NoBlk

\* The console takes a chain to print and calls service_vq() for the receive queue.
LEMMA TransmitKeeps ==
  ASSUME ServeInv, Transmit
  PROVE  ServeInv'
<1>1. /\ srv # <<>> /\ Remaining > 0 /\ Take /\ id' = id /\ todo' = todo /\ blk' = blk
      /\ id = "console" /\ Queue = 1 /\ srv' = Call(0, posted[0], Taken) /\ blk = NoBlk
      /\ ops' = ops
  BY DEF Transmit, Serving, Take, NestedService, file
<1>2. /\ posted' \in [0..1 -> Seq(Items')] /\ Queues' = Queues
      /\ notified' = notified /\ use_eventfd' = use_eventfd
      /\ posted' = [posted EXCEPT ![Queue] = Tail(@)]
  BY <1>1, TakeKeeps DEF Take, Queues
<1>3. PICK r \in Nat : /\ r > 0 /\ Taken = <<<<1, r - 1>>>> /\ r - 1 <= Len(posted'[1])
  BY <1>1, TakeKeeps
<1>4. posted'[0] = posted[0] /\ Len(posted[0]) \in Nat /\ r - 1 \in Nat
  BY <1>1, <1>2, <1>3 DEF ServeInv
<1>5. \/ srv' = <<<<1, r - 1>>>>
      \/ srv' = <<<<1, r - 1>>, <<0, Len(posted[0])>>>>
  <2>1. CASE Callable(0)
    <3>1. 0 \in 0..1 /\ 1 \in Nat
      OBVIOUS
    <3>2. \A p, n \in Nat :
            Call(0, posted[0], <<<<p, n>>>>) = <<<<p, n>>, <<0, Len(posted[0])>>>>
      BY <2>1, <3>1, CallIs, Zenon
    <3>3. Call(0, posted[0], <<<<1, r - 1>>>>) = <<<<1, r - 1>>, <<0, Len(posted[0])>>>>
      BY <1>4, <3>1, <3>2, Zenon
    <3> QED
      BY <1>1, <1>3, <3>3, Zenon
  <2>2. CASE ~Callable(0)
    BY <1>1, <1>3, <2>2 DEF Call
  <2> QED
    BY <2>1, <2>2
<1>6. Shape'
  <2>1. 1 \in Queues'
    BY <1>1 DEF Queues
  <2>2. CASE srv' = <<<<1, r - 1>>>>
    BY <1>3, <1>4, <2>1, <2>2 DEF Shape
  <2>3. CASE srv' = <<<<1, r - 1>>, <<0, Len(posted[0])>>>>
    <3>1. Len(posted'[0]) \in Nat /\ Len(posted[0]) <= Len(posted'[0])
      BY <1>4
    <3> QED
      BY <1>1, <1>3, <1>4, <2>3, <3>1 DEF Shape
  <2> QED
    BY <1>5, <2>2, <2>3
<1>7. Idle'
  BY <1>1 DEF ServeInv, Idle
<1> QED
  BY <1>1, <1>2, <1>6, <1>7 DEF ServeInv, NoBlk

\* Every action keeps the invariant of the calls.
LEMMA ServeStep == ServeInv /\ [Next]_vars => ServeInv'
<1> SUFFICES ASSUME ServeInv, [Next]_vars PROVE ServeInv'
  OBVIOUS
<1>1. CASE UNCHANGED <<id, use_eventfd, todo, posted, notified, srv, ops>> /\ blk' = blk
  <2>1. Items' = Items /\ Queues' = Queues /\ Remaining' = Remaining
    BY <1>1 DEF Items, Queues, Remaining
  <2> QED
    BY <1>1, <2>1 DEF ServeInv, Shape, Idle, NoBlk
<1>2. CASE Probe
  <2>1. /\ UNCHANGED <<id, use_eventfd, posted, notified, srv, ops, blk>> /\ todo # <<>>
    BY <1>2 DEF Probe, file
  <2>2. srv' = <<>> /\ notified' = {} /\ posted'[0] = <<>> /\ posted'[1] = <<>>
    BY <2>1 DEF ServeInv, Idle
  <2>3. Items' = Items /\ blk = NoBlk
    BY <2>1, <2>2 DEF Items, ServeInv
  <2> QED
    BY <2>1, <2>2, <2>3 DEF ServeInv, Shape, Idle, NoBlk
<1>3. CASE Rebind
  <2>1. /\ UNCHANGED <<id, use_eventfd, ops, blk>> /\ srv' = <<>> /\ notified' = {}
        /\ posted' = [q \in 0..1 |-> <<>>] /\ srv = <<>>
    BY <1>3 DEF Rebind, file
  <2>2. posted' \in [0..1 -> Seq(Items')] /\ posted'[0] = <<>> /\ posted'[1] = <<>>
    BY <2>1
  <2>3. blk = NoBlk
    BY <2>1 DEF ServeInv
  <2> QED
    BY <2>1, <2>2, <2>3 DEF ServeInv, Shape, Idle, NoBlk
<1>4. ASSUME NEW q \in {0, 1}, Worker(q) PROVE ServeInv'
  <2>1. /\ UNCHANGED <<id, use_eventfd, posted, ops, blk, todo>> /\ srv = <<>>
        /\ q \in notified /\ notified' = notified \ {q}
        /\ srv' = Call(q, posted[q], <<>>)
    BY <1>4 DEF Worker, file
  <2>2. q \in Queues /\ todo = <<>> /\ blk = NoBlk /\ Items' = Items /\ Queues' = Queues
    BY <2>1 DEF ServeInv, Idle, Items, Queues
  <2>3. Shape'
    <3>1. posted' \in [0..1 -> Seq(Items)] /\ srv' = Call(q, posted'[q], <<>>)
      BY <2>1 DEF ServeInv
    <3> QED
      BY <2>2, <3>1, CallShape
  <2> QED
    BY <2>1, <2>2, <2>3 DEF ServeInv, Idle, NoBlk
<1>5. ASSUME NEW q \in {0, 1}, NEW c \in Chains["console"], PostConsole(q, c)
      PROVE  ServeInv'
  <2>1. q \in Queues /\ c \in Items /\ Post(q, c) /\ ops' \in Nat
    BY <1>5 DEF PostConsole, Queues, Items, ServeInv
  <2> QED
    BY <2>1, PostKeeps
<1>6. ASSUME NEW c \in Chains["blk"], NEW t \in {"in", "out", "flush", "other"},
             NEW s \in Sectors, PostRequest(c, t, s)
      PROVE  ServeInv'
  <2> DEFINE r == [head |-> c.head, table |-> c.table, type |-> t, sector |-> s,
                   tag |-> ops + 1]
  <2>1. /\ id = "blk" /\ Post(0, r) /\ ops' = ops + 1
        /\ Gather(c) # Bad => s + Data(Gather(c)) <= Capacity
    BY <1>6 DEF PostRequest
  <2>2. r.head = c.head /\ r.table = c.table /\ r.sector = s
    OBVIOUS
  <2>3. Gather(r) = Gather(c)
    BY <2>2 DEF Gather, Lengths
  <2>4. ops + 1 \in Nat
    BY DEF ServeInv
  <2>5. r \in [head : {d.head : d \in Chains["blk"]}, table : {d.table : d \in Chains["blk"]},
               type : {"in", "out", "flush", "other"}, sector : Sectors, tag : Nat]
    BY <2>4
  <2> HIDE DEF r
  <2>6. r \in Requests
    BY <2>1, <2>2, <2>3, <2>5 DEF Requests
  <2>7. 0 \in Queues /\ r \in Items
    BY <2>1, <2>6 DEF Queues, Items
  <2> QED
    BY <2>1, <2>4, <2>7, PostKeeps
<1>7. CASE Return
  <2>1. /\ UNCHANGED <<id, use_eventfd, posted, notified, ops, blk, todo>> /\ srv # <<>>
        /\ srv' = Front(srv) /\ (Remaining = 0 \/ ~CanConsume)
    BY <1>7 DEF Return, file
  <2>2. Items' = Items /\ Queues' = Queues
    BY <2>1 DEF Items, Queues
  <2>3. blk = NoBlk
    <3>1. id = "blk" => CanConsume
      BY DEF CanConsume
    <3>2. Remaining = 0 => ~(Remaining > 0)
      OBVIOUS
    <3> QED
      BY <2>1, <3>1, <3>2 DEF ServeInv
  <2>4. CASE \E q \in Queues, r \in Nat : srv = <<<<q, r>>>> /\ r <= Len(posted[q])
    <3>1. srv' = <<>>
      <4>1. PICK q \in Queues, r \in Nat : srv = <<<<q, r>>>>
        BY <2>4
      <4>2. q \in 0..1
        BY DEF Queues
      <4> QED
        BY <2>1, <4>1, <4>2, OneFrame
    <3> QED
      BY <2>1, <2>2, <2>3, <3>1 DEF ServeInv, Shape, Idle, NoBlk
  <2>5. CASE /\ id = "console"
             /\ \E r, p \in Nat : /\ srv = <<<<1, r>>, <<0, p>>>>
                                  /\ r <= Len(posted[1]) /\ p <= Len(posted[0])
    <3>1. PICK r \in Nat, p \in Nat : srv = <<<<1, r>>, <<0, p>>>> /\ r <= Len(posted[1])
      BY <2>5
    <3>2. srv' = <<<<1, r>>>> /\ 1 \in Queues
      BY <2>1, <2>5, <3>1, TwoFrames DEF Queues
    <3>3. Shape'
      BY <2>1, <2>2, <3>1, <3>2 DEF Shape
    <3> QED
      BY <2>1, <2>2, <2>3, <3>3 DEF ServeInv, Idle, NoBlk
  <2> QED
    BY <2>1, <2>4, <2>5 DEF ServeInv, Shape
<1>8. CASE Skip
  <2>1. /\ srv # <<>> /\ Remaining > 0 /\ Take /\ srv' = Taken /\ id' = id
        /\ todo' = todo /\ blk' = NoBlk /\ ops' = ops
    BY <1>8 DEF Skip, Serving, Take, file
  <2> QED
    BY <2>1, TakenKeeps DEF ServeInv
<1>9. CASE Transmit
  BY <1>9, TransmitKeeps
<1>10. CASE Receive
  <2>1. /\ srv # <<>> /\ Remaining > 0 /\ Take /\ srv' = Taken /\ id' = id
        /\ todo' = todo /\ blk' = NoBlk /\ ops' = ops
    BY <1>10 DEF Receive, Serving, Take, file
  <2> QED
    BY <2>1, TakenKeeps DEF ServeInv
<1>11. CASE BlkStart
  <2>1. /\ UNCHANGED <<id, use_eventfd, posted, notified, ops, todo, srv>>
        /\ id = "blk" /\ srv # <<>> /\ Remaining > 0
    BY <1>11 DEF BlkStart, Serving
  <2>2. Items' = Items /\ Queues' = Queues /\ Remaining' = Remaining
    BY <2>1 DEF Items, Queues, Remaining
  <2> QED
    BY <2>1, <2>2 DEF ServeInv, Shape, Idle
<1>12. CASE BlkSegment
  <2>1. /\ UNCHANGED <<id, use_eventfd, posted, notified, ops, todo, srv>>
        /\ blk # NoBlk
    BY <1>12 DEF BlkSegment
  <2>2. Items' = Items /\ Queues' = Queues /\ Remaining' = Remaining
    BY <2>1 DEF Items, Queues, Remaining
  <2> QED
    BY <2>1, <2>2 DEF ServeInv, Shape, Idle
<1>13. CASE BlkDone
  <2>1. /\ Take /\ srv' = Taken /\ id' = id /\ blk # NoBlk
        /\ todo' = todo /\ blk' = NoBlk /\ ops' = ops
    BY <1>13 DEF BlkDone, Done, Take
  <2>2. srv # <<>> /\ Remaining > 0
    BY <2>1 DEF ServeInv
  <2> QED
    BY <2>1, <2>2, TakenKeeps DEF ServeInv
<1> QED
  BY <1>1, <1>2, <1>3, <1>4, <1>5, <1>6, <1>7, <1>8, <1>9, <1>10, <1>11, <1>12, <1>13
     DEF Next, vars, file

-----------------------------------------------------------------------------
\* No byte of the FIFO is overwritten before it is read.
Slots == 0..(CON_IN_SZ - 1)

\* The types of the FIFO.
FifoTypeOK ==
  /\ con_in = [buf |-> con_in.buf, head |-> con_in.head, tail |-> con_in.tail]
  /\ con_in.buf = [i \in Slots |-> con_in.buf[i]]
  /\ con_in.head \in Nat /\ con_in.tail \in Nat /\ con_in.tail <= con_in.head
  /\ order \in BOOLEAN /\ overrun \in BOOLEAN /\ left \in Nat

\* Each byte sent and not yet read is in its slot, as long as none was left out.
Kept ==
  ~overrun /\ left = 0 =>
    /\ order /\ Input <= CON_IN_SZ
    /\ \A j \in con_in.tail..(con_in.head - 1) : con_in.buf[j % CON_IN_SZ] = j + 1

\* The inductive invariant of the FIFO.
EchoInv == FifoTypeOK /\ Kept

\* The slot of the n-th byte.
LEMMA SlotOf ==
  ASSUME NEW j \in Nat
  PROVE  /\ j % CON_IN_SZ \in Slots
         /\ j = CON_IN_SZ * (j \div CON_IN_SZ) + (j % CON_IN_SZ)
         /\ j \div CON_IN_SZ \in Nat
<1>1. CON_IN_SZ \in Nat \ {0}
  BY SizesOK
<1> QED
  BY <1>1 DEF Slots

\* Two bytes in one slot are at least the FIFO's size apart.
LEMMA OneSlot ==
  ASSUME NEW x \in Nat, NEW y \in Nat, x < y, y < x + CON_IN_SZ
  PROVE  x % CON_IN_SZ # y % CON_IN_SZ
<1> DEFINE m == CON_IN_SZ
           p == x \div m
           q == y \div m
<1>1. m \in Nat \ {0}
  BY SizesOK
<1>2. /\ x = m * p + (x % m) /\ p \in Nat /\ x % m \in 0..(m - 1)
      /\ y = m * q + (y % m) /\ q \in Nat /\ y % m \in 0..(m - 1)
  BY SlotOf DEF Slots
<1>3. SUFFICES ASSUME x % m = y % m PROVE FALSE
  OBVIOUS
<1> HIDE DEF m, p, q
<1>6. y < x + m
  BY DEF m
<1>4. m * q - m * p \in 1..(m - 1)
  BY <1>1, <1>2, <1>3, <1>6
<1>5. m * q - m * p = m * (q - p)
  BY <1>1, <1>2
<1>7. CASE q - p >= 1
  BY <1>1, <1>2, <1>4, <1>5, <1>7
<1>8. CASE q - p <= 0
  BY <1>1, <1>2, <1>4, <1>5, <1>8
<1> QED
  BY <1>1, <1>2, <1>7, <1>8

\* Max() of one number.
LEMMA MaxOfOne ==
  ASSUME NEW j \in Nat
  PROVE  Max({j}) = j
BY DEF Max

\* The FIFO is empty at the start.
LEMMA EchoInit == Init => EchoInv
<1> SUFFICES ASSUME Init PROVE EchoInv
  OBVIOUS
<1>1. con_in = EmptyFifo /\ order = TRUE /\ overrun = FALSE /\ left = 0
  BY DEF Init
<1>2. FifoTypeOK
  <2>1. /\ con_in.buf = [i \in Slots |-> 0] /\ con_in.head = 0 /\ con_in.tail = 0
        /\ con_in = [buf |-> con_in.buf, head |-> con_in.head, tail |-> con_in.tail]
    BY <1>1 DEF EmptyFifo, Slots
  <2>2. con_in.buf = [i \in Slots |-> con_in.buf[i]]
    BY <2>1
  <2>3. order \in BOOLEAN /\ overrun \in BOOLEAN
    BY Zenon DEF Init
  <2> QED
    BY <1>1, <2>1, <2>2, <2>3 DEF FifoTypeOK
<1>3. con_in.head = 0 /\ con_in.tail = 0 /\ order
  BY <1>1 DEF EmptyFifo
<1>4. Kept
  BY <1>3, SizesOK DEF Kept, Input
<1> QED
  BY <1>2, <1>4 DEF EchoInv

\* Bytes are sent: those that wait stay where they are.
LEMMA PushKeeps ==
  ASSUME EchoInv, NEW n \in Nat, NEW x \in Nat, con_in' = Push(n), order' = order,
         left' = left + x,
         overrun' = (overrun \/ con_in'.head - con_in'.tail > CON_IN_SZ)
  PROVE  EchoInv'
<1> DEFINE to == con_in.head + n
           Newest(i) == {j \in con_in.head..(to - 1) : j % CON_IN_SZ = i}
           buf == [i \in DOMAIN con_in.buf |->
                     IF Newest(i) = {} THEN con_in.buf[i] ELSE Max(Newest(i)) + 1 + left]
<1>1. con_in' = [con_in EXCEPT !.head = to, !.buf = buf]
  BY DEF Push
<1>2. buf = [i \in Slots |->
               IF Newest(i) = {} THEN con_in.buf[i] ELSE Max(Newest(i)) + 1 + left]
  <2>1. DOMAIN con_in.buf = Slots
    BY DEF EchoInv, FifoTypeOK
  <2> QED
    BY <2>1
<1>3. /\ con_in.head \in Nat /\ con_in.tail \in Nat /\ con_in.tail <= con_in.head
      /\ to \in Nat /\ con_in.head <= to /\ CON_IN_SZ \in Nat \ {0}
  BY SizesOK DEF EchoInv, FifoTypeOK
<1>4. con_in' = [buf |-> buf, head |-> to, tail |-> con_in.tail]
  <2> HIDE DEF to, buf
  <2>1. con_in = [buf |-> con_in.buf, head |-> con_in.head, tail |-> con_in.tail]
    BY DEF EchoInv, FifoTypeOK
  <2> QED
    BY <1>1, <2>1
<1>5. \A i \in Slots :
        buf[i] = IF Newest(i) = {} THEN con_in.buf[i] ELSE Max(Newest(i)) + 1 + left
  BY <1>2
<1>6. \A i : Newest(i) = {j \in con_in.head..(to - 1) : j % CON_IN_SZ = i}
  OBVIOUS
<1>7. buf = [i \in Slots |-> buf[i]]
  <2> HIDE DEF Newest
  <2>1. DOMAIN buf = Slots
    BY <1>2
  <2>2. buf = [i \in DOMAIN buf |-> buf[i]]
    BY <1>2
  <2> QED
    BY <2>1, <2>2
<1> HIDE DEF buf, Newest, to
<1>8. con_in'.buf = buf /\ con_in'.head = to /\ con_in'.tail = con_in.tail
  BY <1>4
<1>9. FifoTypeOK'
  <2>1. order' \in BOOLEAN /\ overrun' \in BOOLEAN
    BY Zenon DEF EchoInv, FifoTypeOK
  <2>2. con_in' = [buf |-> con_in'.buf, head |-> con_in'.head, tail |-> con_in'.tail]
    BY <1>4, <1>8
  <2>3. con_in'.buf = [i \in Slots |-> con_in'.buf[i]]
    BY <1>7, <1>8, Zenon
  <2>4. con_in.tail <= to /\ left' \in Nat
    BY <1>3 DEF EchoInv, FifoTypeOK
  <2> QED
    BY <1>3, <1>8, <2>1, <2>2, <2>3, <2>4 DEF FifoTypeOK
<1>10. ASSUME ~overrun', left' = 0 PROVE
         /\ order' /\ to - con_in.tail <= CON_IN_SZ
         /\ \A j \in con_in.tail..(to - 1) : buf[j % CON_IN_SZ] = j + 1
  <2>1. ~overrun /\ to - con_in.tail <= CON_IN_SZ
    <3>1. ~overrun /\ ~(to - con_in.tail > CON_IN_SZ)
      BY <1>8, <1>10, Zenon
    <3> QED
      BY <1>3, <3>1
  <2>5. left = 0
    BY <1>10 DEF EchoInv, FifoTypeOK
  <2>2. /\ order
        /\ \A j \in con_in.tail..(con_in.head - 1) : con_in.buf[j % CON_IN_SZ] = j + 1
    BY <2>1, <2>5 DEF EchoInv, Kept
  <2>3. ASSUME NEW j \in con_in.tail..(to - 1) PROVE buf[j % CON_IN_SZ] = j + 1
    <3> DEFINE i == j % CON_IN_SZ
    <3>1. j \in Nat /\ i \in Slots
      BY <1>3, SlotOf
    <3>2. ASSUME NEW k \in con_in.tail..(to - 1), k % CON_IN_SZ = i PROVE k = j
      <4>1. k \in Nat /\ k < j + CON_IN_SZ /\ j < k + CON_IN_SZ
        BY <1>3, <2>1
      <4> QED
        BY <3>1, <3>2, <4>1, OneSlot
    <3>3. CASE j < con_in.head
      <4>1. Newest(i) = {}
        <5>1. \A k \in con_in.head..(to - 1) : k % CON_IN_SZ # i
          <6> SUFFICES ASSUME NEW k \in con_in.head..(to - 1), k % CON_IN_SZ = i
                       PROVE  FALSE
            OBVIOUS
          <6>1. k \in con_in.tail..(to - 1) /\ k # j
            BY <1>3, <3>1, <3>3
          <6> QED
            BY <3>2, <6>1
        <5> QED
          BY <1>6, <5>1
      <4>2. buf[i] = con_in.buf[i]
        BY <1>5, <3>1, <4>1
      <4>3. j \in con_in.tail..(con_in.head - 1)
        BY <1>3, <3>1, <3>3
      <4> QED
        BY <2>2, <4>2, <4>3
    <3>4. CASE j >= con_in.head
      <4>1. j \in con_in.head..(to - 1)
        BY <1>3, <3>1, <3>4
      <4>2. \A k \in con_in.head..(to - 1) : k % CON_IN_SZ = i => k = j
        <5>1. \A k \in con_in.head..(to - 1) : k \in con_in.tail..(to - 1)
          BY <1>3
        <5> QED
          BY <3>2, <5>1
      <4>3. Newest(i) = {j}
        BY <1>6, <4>1, <4>2
      <4>4. Newest(i) # {} /\ Max(Newest(i)) = j
        BY <3>1, <4>3, MaxOfOne
      <4> QED
        BY <1>5, <2>5, <3>1, <4>4
    <3> QED
      BY <1>3, <3>1, <3>3, <3>4
  <2> QED
    BY <2>1, <2>2, <2>3
<1>11. Kept'
  BY <1>8, <1>10 DEF Kept, Input
<1> QED
  BY <1>9, <1>11 DEF EchoInv

\* Bytes are read: as many as there are, in their order.
LEMMA PopKeeps ==
  ASSUME EchoInv, NEW n \in Nat, n <= Input, con_in' = [con_in EXCEPT !.tail = @ + n],
         order' = (order /\ \A i \in 0..(n - 1) :
                              con_in.buf[PopSlot(i)] = con_in.tail + i + 1),
         overrun' = overrun, left' = left
  PROVE  EchoInv'
<1>1. /\ con_in.head \in Nat /\ con_in.tail \in Nat /\ con_in.tail <= con_in.head
      /\ n <= con_in.head - con_in.tail /\ CON_IN_SZ \in Nat \ {0}
  BY SizesOK DEF EchoInv, FifoTypeOK, Input
<1>2. con_in' = [buf |-> con_in.buf, head |-> con_in.head, tail |-> con_in.tail + n]
  BY DEF EchoInv, FifoTypeOK
<1>3. con_in'.buf = con_in.buf /\ con_in'.head = con_in.head /\ con_in'.tail = con_in.tail + n
  BY <1>2
<1>4. FifoTypeOK'
  <2>1. order' \in BOOLEAN /\ overrun' \in BOOLEAN
    BY Zenon DEF EchoInv, FifoTypeOK
  <2>2. con_in' = [buf |-> con_in'.buf, head |-> con_in'.head, tail |-> con_in'.tail]
    BY <1>2, <1>3
  <2>3. con_in'.buf = [i \in Slots |-> con_in'.buf[i]]
    BY <1>3, Zenon DEF EchoInv, FifoTypeOK
  <2>4. con_in.tail + n \in Nat /\ con_in.tail + n <= con_in.head /\ left' \in Nat
    BY <1>1 DEF EchoInv, FifoTypeOK
  <2> QED
    BY <1>1, <1>3, <2>1, <2>2, <2>3, <2>4 DEF FifoTypeOK
<1>5. ASSUME ~overrun', left' = 0 PROVE
        /\ order' /\ con_in.head - (con_in.tail + n) <= CON_IN_SZ
        /\ \A j \in (con_in.tail + n)..(con_in.head - 1) :
             con_in.buf[j % CON_IN_SZ] = j + 1
  <2>1. /\ order /\ con_in.head - con_in.tail <= CON_IN_SZ
        /\ \A j \in con_in.tail..(con_in.head - 1) : con_in.buf[j % CON_IN_SZ] = j + 1
    BY <1>5 DEF EchoInv, Kept, Input
  <2>2. ASSUME NEW i \in 0..(n - 1)
        PROVE  con_in.buf[PopSlot(i)] = con_in.tail + i + 1
    <3>1. con_in.tail + i \in con_in.tail..(con_in.head - 1)
      BY <1>1
    <3> QED
      BY <2>1, <3>1 DEF PopSlot
  <2>3. \A j \in (con_in.tail + n)..(con_in.head - 1) : j \in con_in.tail..(con_in.head - 1)
    BY <1>1
  <2>4. con_in.head - (con_in.tail + n) <= CON_IN_SZ
    BY <1>1, <2>1
  <2> QED
    BY <2>1, <2>2, <2>3, <2>4
<1>6. Kept'
  BY <1>3, <1>5 DEF Kept, Input
<1> QED
  BY <1>4, <1>6 DEF EchoInv

\* A chain has a length.
LEMMA ChainLength ==
  ASSUME ServeInv, Serving, Take, id = "console", id' = id, todo' = todo
  PROVE  Total(Gather(Chain)) \in Nat /\ Total(LeftOut(Chain)) \in Nat
<1>1. srv # <<>> /\ Remaining > 0
  BY DEF Serving
<1>2. Chain \in Items
  BY <1>1, TakeKeeps
<1>3. Chain \in Chains["console"]
  BY <1>2 DEF Items
<1> QED
  BY <1>3, LengthsOf

\* Every action keeps the invariant of the FIFO.
LEMMA EchoStep == ServeInv /\ EchoInv /\ [Next]_vars => EchoInv'
<1> SUFFICES ASSUME ServeInv, EchoInv, [Next]_vars PROVE EchoInv'
  OBVIOUS
<1>1. CASE UNCHANGED console
  BY <1>1 DEF console, EchoInv, FifoTypeOK, Kept, Input
<1>2. CASE Transmit
  <2> DEFINE n == Total(Gather(Chain))
             x == Total(LeftOut(Chain))
  <2>1. /\ Serving /\ Take /\ id = "console" /\ id' = id /\ todo' = todo
        /\ con_in' = Push(n) /\ order' = order /\ left' = left + x
        /\ overrun' = (overrun \/ con_in'.head - con_in'.tail > CON_IN_SZ)
    BY <1>2 DEF Transmit, Take
  <2>2. n \in Nat /\ x \in Nat
    BY <2>1, ChainLength
  <2> HIDE DEF n, x
  <2> QED
    BY <2>1, <2>2, PushKeeps
<1>3. CASE Receive
  <2> DEFINE n == Min({Total(Gather(Chain)), Input})
  <2>1. /\ Serving /\ Take /\ id = "console" /\ id' = id /\ todo' = todo
        /\ overrun' = overrun /\ left' = left
        /\ con_in' = [con_in EXCEPT !.tail = @ + n]
        /\ order' = (order /\ \A i \in 0..(n - 1) :
                                con_in.buf[PopSlot(i)] = con_in.tail + i + 1)
    BY <1>3 DEF Receive, Take
  <2>2. Total(Gather(Chain)) \in Nat
    BY <2>1, ChainLength
  <2>3. Input \in Nat
    BY DEF EchoInv, FifoTypeOK, Input
  <2>4. n \in Nat /\ n <= Input
    BY <2>2, <2>3, MinOfTwo
  <2> HIDE DEF n
  <2> QED
    BY <2>1, <2>4, PopKeeps
<1>4. UNCHANGED console \/ Transmit \/ Receive
  BY
     DEF Next, vars, Probe, Rebind, Worker, PostConsole, PostRequest, Post, Return, Skip,
         BlkStart, BlkSegment, BlkDone
<1> QED
  BY <1>1, <1>2, <1>3, <1>4

-----------------------------------------------------------------------------
\* Where input waits, so does a notification or a call that will see the buffers.
Covered ==
  id = "console" =>
    \/ Input = 0 \/ posted[0] = <<>> \/ 0 \in notified
    \/ srv # <<>> /\ Queue = 0 /\ Remaining = Len(posted[0])

\* The innermost call of a stack of two.
LEMMA LastOf ==
  ASSUME NEW s, NEW q \in Nat, NEW r \in Nat, NEW p \in Nat,
         s = <<<<q, r>>>> \/ s = <<<<1, p>>, <<q, r>>>>
  PROVE  s # <<>> /\ Last(s)[1] = q /\ Last(s)[2] = r
BY DEF Last

\* A new call for the room that waits.
LEMMA CallCovers ==
  ASSUME posted' \in [0..1 -> Seq(Items)], Callable(0), NEW waiting,
         waiting = posted'[0],
         \/ srv' = Call(0, waiting, <<>>)
         \/ \E p \in Nat : srv' = Call(0, waiting, <<<<1, p>>>>)
  PROVE  Covered'
<1>1. Len(waiting) \in Nat /\ 0 \in 0..1 /\ 1 \in Nat
  OBVIOUS
<1>2. \/ srv' = <<<<0, Len(waiting)>>>>
      \/ \E p \in Nat : srv' = <<<<1, p>>, <<0, Len(waiting)>>>>
  BY <1>1, CallIs, Zenon
<1>3. 0 \in Nat
  OBVIOUS
<1>4. srv' # <<>> /\ Last(srv')[1] = 0 /\ Last(srv')[2] = Len(waiting)
  BY <1>1, <1>2, <1>3, LastOf
<1> QED
  BY <1>4 DEF Covered, Queue, Remaining

\* A call that takes a chain still has all the others before it.
LEMMA TakenCovers ==
  ASSUME ServeInv, Covered, srv # <<>>, Remaining > 0, Take, srv' = Taken, id' = id,
         todo' = todo, id = "console", Input' = Input \/ (Queue = 0 /\ Input > 0)
  PROVE  Covered'
<1>1. /\ posted' = [posted EXCEPT ![Queue] = Tail(@)] /\ notified' = notified
      /\ posted \in [0..1 -> Seq(Items)] /\ posted[Queue] # <<>>
      /\ posted[Queue] \in Seq(Items) /\ Queue \in {0, 1}
  BY TakeKeeps DEF Take, ServeInv, Queues
<1>2. /\ srv' # <<>> /\ Last(srv')[1] = Queue /\ Last(srv')[2] = Remaining - 1
      /\ Remaining \in Nat /\ Remaining > 0
  <2>1. CASE \E q \in Queues, r \in Nat :
               /\ srv = <<<<q, r>>>> /\ r > 0 /\ r <= Len(posted[q]) /\ Queue = q
               /\ Taken = <<<<q, r - 1>>>> /\ r - 1 <= Len(posted'[q])
    <3>1. PICK q \in Queues, r \in Nat :
                 srv = <<<<q, r>>>> /\ r > 0 /\ Queue = q /\ Taken = <<<<q, r - 1>>>>
      BY <2>1
    <3>2. q \in 0..1 /\ r - 1 \in Nat /\ Remaining = r /\ q \in Nat
      BY <1>1, <3>1, OneFrame
    <3>3. Last(srv')[1] = q /\ Last(srv')[2] = r - 1 /\ srv' # <<>>
      BY <3>1, <3>2, LastOf
    <3> QED
      BY <3>1, <3>2, <3>3
  <2>2. CASE /\ id = "console" /\ Queue = 0
             /\ \E r, p \in Nat :
                  /\ srv = <<<<1, r>>, <<0, p>>>> /\ p > 0
                  /\ r <= Len(posted'[1]) /\ p <= Len(posted[0])
                  /\ Taken = <<<<1, r>>, <<0, p - 1>>>> /\ p - 1 <= Len(posted'[0])
    <3>1. PICK r \in Nat, p \in Nat :
                 srv = <<<<1, r>>, <<0, p>>>> /\ p > 0 /\ Taken = <<<<1, r>>, <<0, p - 1>>>>
      BY <2>2
    <3>2. p - 1 \in Nat /\ Remaining = p /\ 0 \in Nat
      BY <3>1, TwoFrames
    <3>3. Last(srv')[1] = 0 /\ Last(srv')[2] = p - 1 /\ srv' # <<>>
      BY <3>1, <3>2, LastOf
    <3> QED
      BY <2>2, <3>1, <3>2, <3>3
  <2> QED
    BY <2>1, <2>2, TakeKeeps
<1>3. CASE Queue = 0
  <2>1. /\ posted'[0] = Tail(posted[0]) /\ Len(posted'[0]) = Len(posted[0]) - 1
        /\ posted[0] # <<>>
    BY <1>1, <1>3
  <2>2. Queue' = 0 /\ Remaining' = Remaining - 1 /\ srv' # <<>>
    BY <1>2, <1>3 DEF Queue, Remaining
  <2>3. CASE Remaining = Len(posted[0])
    BY <2>1, <2>2, <2>3 DEF Covered
  <2>4. CASE 0 \in notified
    BY <1>1, <2>4 DEF Covered
  <2>5. CASE Input = 0
    BY <2>5 DEF Covered
  <2> QED
    BY <2>1, <2>3, <2>4, <2>5 DEF Covered
<1>4. CASE Queue = 1
  <2>1. posted'[0] = posted[0] /\ Input' = Input
    BY <1>1, <1>4
  <2>2. Input = 0 \/ posted[0] = <<>> \/ 0 \in notified
    BY <1>4 DEF Covered
  <2> QED
    BY <1>1, <2>1, <2>2 DEF Covered
<1> QED
  BY <1>1, <1>3, <1>4

\* Nothing waits at the start.
LEMMA CoveredInit == Init => Covered
<1> SUFFICES ASSUME Init PROVE Covered
  OBVIOUS
<1>1. con_in.head = 0 /\ con_in.tail = 0
  BY DEF Init, EmptyFifo
<1> QED
  BY <1>1 DEF Covered, Input

\* Every action leaves the input that waits with somebody to see to it.
LEMMA CoveredStep ==
  RegsInv /\ ServeInv /\ EchoInv /\ Covered /\ [Next]_vars => Covered'
<1> SUFFICES ASSUME RegsInv, ServeInv, EchoInv, Covered, [Next]_vars PROVE Covered'
  OBVIOUS
<1>1. posted \in [0..1 -> Seq(Items)] /\ Input \in Nat
  BY DEF ServeInv, EchoInv, FifoTypeOK, Input
\* A driver that is done has set queue 0 up.
<1>2. todo = <<>> => Callable(0)
  BY RegsImply DEF BringUpSucceeds, Queues
<1>3. CASE UNCHANGED <<id, con_in, posted, notified, srv>>
  BY <1>3 DEF Covered, Input, Queue, Remaining
<1>4. CASE Rebind
  <2>1. posted' = [q \in 0..1 |-> <<>>]
    BY <1>4 DEF Rebind
  <2>2. posted'[0] = <<>>
    BY <2>1
  <2> QED
    BY <2>2 DEF Covered
<1>5. ASSUME NEW q \in {0, 1}, Worker(q) PROVE Covered'
  <2>1. /\ UNCHANGED <<id, con_in, posted, todo>> /\ srv = <<>>
        /\ q \in notified /\ notified' = notified \ {q}
        /\ srv' = Call(q, posted[q], <<>>)
    BY <1>5 DEF Worker, console
  <2>2. todo = <<>>
    BY <2>1 DEF ServeInv, Idle
  <2>3. CASE q = 0
    <3>1. posted' \in [0..1 -> Seq(Items)] /\ srv' = Call(0, posted'[0], <<>>)
      BY <1>1, <2>1, <2>3
    <3> QED
      BY <1>2, <2>2, <3>1, CallCovers
  <2>4. CASE q = 1
    BY <2>1, <2>4 DEF Covered, Input
  <2> QED
    BY <2>3, <2>4
<1>6. ASSUME NEW q \in {0, 1}, NEW c \in Chains["console"], PostConsole(q, c)
      PROVE  Covered'
  <2>1. /\ UNCHANGED <<id, con_in, todo>> /\ id = "console" /\ todo = <<>>
        /\ posted' = [posted EXCEPT ![q] = Append(@, c)] /\ c \in Items
        /\ (~use_eventfd => srv = <<>>)
    BY <1>6 DEF PostConsole, Post, console, Ready, GuestRuns, Items
  <2>2. q = 1 => posted'[0] = posted[0]
    BY <1>1, <2>1
  <2>3. CASE use_eventfd
    <3>1. notified' = notified \cup {q} /\ srv' = srv
      BY <1>6, <2>3 DEF PostConsole, Post
    <3> QED
      BY <2>1, <2>2, <3>1 DEF Covered, Input, Queue, Remaining
  <2>4. CASE ~use_eventfd
    <3>1. srv' = Call(q, posted'[q], <<>>) /\ notified' = notified
      BY <1>6, <2>4 DEF PostConsole, Post
    <3>2. CASE q = 0
      <4>1. posted' \in [0..1 -> Seq(Items)]
        <5>1. q \in 0..1 /\ posted[q] \in Seq(Items)
          BY <1>1
        <5>2. Append(posted[q], c) \in Seq(Items)
          BY <2>1, <5>1, Appended
        <5> QED
          BY <1>1, <2>1, <5>1, <5>2
      <4> QED
        BY <1>2, <2>1, <3>1, <3>2, <4>1, CallCovers
    <3>3. CASE q = 1
      BY <2>1, <2>2, <2>4, <3>1, <3>3 DEF Covered, Input
    <3> QED
      BY <3>2, <3>3
  <2> QED
    BY <2>3, <2>4 DEF ServeInv
<1>7. CASE Return
  <2>1. /\ UNCHANGED <<id, con_in, posted, notified>> /\ srv # <<>>
        /\ (Remaining = 0 \/ ~CanConsume)
    BY <1>7 DEF Return, console
  <2>2. ASSUME id = "console", Queue = 0, Remaining = Len(posted[0])
        PROVE  Input = 0 \/ posted[0] = <<>>
    <3>1. CASE Remaining = 0
      <4>1. posted[0] \in Seq(Items) /\ Len(posted[0]) = 0
        BY <1>1, <2>2, <3>1
      <4> QED
        BY <4>1
    <3>2. CASE ~CanConsume
      BY <1>1, <3>2 DEF CanConsume
    <3> QED
      BY <2>1, <3>1, <3>2
  <2> QED
    BY <2>1, <2>2 DEF Covered, Input
<1>8. CASE Skip
  <2>1. /\ srv # <<>> /\ Remaining > 0 /\ Take /\ srv' = Taken /\ id' = id
        /\ todo' = todo /\ con_in' = con_in
    BY <1>8 DEF Skip, Serving, Take, console
  <2>2. Input' = Input
    BY <2>1 DEF Input
  <2>3. CASE id = "console"
    BY <2>1, <2>2, <2>3, TakenCovers
  <2>4. CASE id # "console"
    BY <2>1, <2>4 DEF Covered
  <2> QED
    BY <2>3, <2>4
<1>9. CASE Transmit
  <2>1. /\ srv # <<>> /\ Remaining > 0 /\ Take /\ id' = id /\ todo' = todo
        /\ id = "console" /\ Queue = 1 /\ srv' = Call(0, posted[0], Taken)
    BY <1>9 DEF Transmit, Serving, Take, NestedService
  <2>2. /\ posted' = [posted EXCEPT ![1] = Tail(@)] /\ Items' = Items
        /\ posted' \in [0..1 -> Seq(Items')]
    BY <2>1, TakeKeeps DEF Items
  <2>3. PICK r \in Nat : r > 0 /\ Taken = <<<<1, r - 1>>>>
    BY <2>1, TakeKeeps
  <2>4. posted'[0] = posted[0] /\ r - 1 \in Nat
    BY <1>1, <2>2, <2>3
  <2>5. todo = <<>>
    BY <2>1 DEF ServeInv, Idle
  <2>6. \E p \in Nat : srv' = Call(0, posted'[0], <<<<1, p>>>>)
    BY <2>1, <2>3, <2>4
  <2> QED
    BY <1>2, <2>2, <2>5, <2>6, CallCovers
<1>10. CASE Receive
  <2>1. /\ srv # <<>> /\ Remaining > 0 /\ Take /\ srv' = Taken /\ id' = id
        /\ todo' = todo /\ id = "console" /\ Queue = 0 /\ Input > 0
    BY <1>10 DEF Receive, Serving, Take, CanConsume
  <2> QED
    BY <2>1, TakenCovers
<1>11. CASE id # "console" /\ id' = id
  BY <1>11 DEF Covered
<1>12. Probe => UNCHANGED <<id, con_in, posted, notified, srv>>
  BY DEF Probe, console
<1>13. BlkStart \/ BlkSegment \/ BlkDone => id # "console" /\ id' = id
  BY DEF BlkStart, BlkSegment, BlkDone, Done, Take, ServeInv
<1>14. \A c, t, s : PostRequest(c, t, s) => id # "console" /\ id' = id
  BY DEF PostRequest, Post
<1>15. UNCHANGED vars => UNCHANGED <<id, con_in, posted, notified, srv>>
  BY DEF vars, console
<1> QED
  BY <1>3, <1>4, <1>5, <1>6, <1>7, <1>8, <1>9, <1>10, <1>11, <1>12, <1>13, <1>14, <1>15
     DEF Next

\* The inductive invariant of the two devices.
DevicesInv == RegsInv /\ ServeInv /\ EchoInv /\ Covered

\* The registers, the calls of service_vq() and the FIFO of the console keep their
\* invariants, whatever chains the drivers post and in whatever order.
THEOREM DevicesInvariant == Spec => []DevicesInv
<1>1. Init => DevicesInv
  BY RegsInit, ServeInit, EchoInit, CoveredInit DEF DevicesInv
<1>2. DevicesInv /\ [Next]_vars => DevicesInv'
  BY RegsStep, ServeStep, EchoStep, CoveredStep DEF DevicesInv
<1> QED
  BY <1>1, <1>2, PTL DEF Spec

\* The bytes that the console echoes come back in the order in which they were sent,
\* none lost or repeated, unless its FIFO overran (con_in_push(), con_in_pop()) or a
\* chain was longer than the array of segments (gather_chain()).
THEOREM EchoIsInOrder == Spec => []EchoInOrder
<1>1. DevicesInv => EchoInOrder
  BY DEF DevicesInv, EchoInv, Kept, EchoInOrder
<1> QED
  BY <1>1, DevicesInvariant, PTL

\* Input and receive buffers are never both left waiting with nobody to bring them
\* together (dev_can_consume(), the nested service_vq()).
THEOREM EchoIsNotStuck == Spec => []EchoNotStuck
<1>1. DevicesInv => EchoNotStuck
  BY DEF DevicesInv, Covered, EchoNotStuck
<1> QED
  BY <1>1, DevicesInvariant, PTL

-----------------------------------------------------------------------------
(* VirtioDevices: the disk.                                                *)

\* A request of the disk that is served.
Blks == [lens : Seq(Nat), i : Nat, off : Nat, data : Seq(Nat),
         status : {"ok", "ioerr", "unsupp"}, short : BOOLEAN]

\* The types of the disk and of its request.
FileTypeOK ==
  /\ disk \in [Sectors -> Nat] /\ may \in [Sectors -> SUBSET Nat] /\ blk \in Blks
  /\ \A s \in Sectors : disk[s] \in may[s]

\* What a request without an error or a short write has transferred so far.
SoFar == Filled(blk.lens, blk.i - 1)
\* What was transferred so far is what the request says, in the file or the buffer.
Moved ==
  Whole /\ Chain.type \in {"in", "out"} =>
    /\ blk.off = 2 * (Chain.sector + SoFar)
    /\ Chain.type = "in" => /\ Len(blk.data) = SoFar
                            /\ \A k \in 1..SoFar :
                                 blk.data[k] \in may[Chain.sector + k - 1]
    /\ Chain.type = "out" =>
         \A s \in Chain.sector..(Chain.sector + SoFar - 1) : disk[s] = Chain.tag

\* The request that is served is the one at the front of the queue.
InFlight ==
  blk # NoBlk =>
    /\ blk.lens = Gather(Chain) /\ blk.lens # Bad /\ blk.i \in 2..Len(blk.lens)
    /\ Chain.type \notin {"in", "out"} \/ ~Whole => blk.i = Len(blk.lens)
    /\ blk.short => Chain.type = "out"
    /\ Chain.type = "out" => \A s \in Extent(Chain) : Chain.tag \in may[s]
    /\ Moved

\* The inductive invariant of the disk.
DiskInv == FileTypeOK /\ InFlight

\* The capacity lies within the file, and its sectors are those of the model.
LEMMA CapacityIs ==
  /\ FileSize \in Nat /\ Capacity \in Nat /\ 2 * Capacity <= FileSize
  /\ \A s \in Nat : s < Capacity => s \in Sectors
  /\ Sectors \subseteq Nat
<1>1. FileSize \in Nat
  BY SizesOK
<1> QED
  BY <1>1 DEF Capacity, Sectors

\* A request that is served lies within the capacity, up to each of its segments.
LEMMA RequestIs ==
  ASSUME NEW r \in Requests, NEW lens, lens = Gather(r), lens # Bad
  PROVE  /\ lens \in Seq(Nat) /\ r.sector \in Nat /\ r.tag \in Nat
         /\ r.type \in {"in", "out", "flush", "other"}
         /\ Data(lens) = Filled(lens, Len(lens) - 1)
         /\ Len(lens) >= 2 => Data(lens) \in Nat /\ r.sector + Data(lens) <= Capacity
         /\ \A i \in 1..(Len(lens) - 1) :
              /\ Filled(lens, i) \in Nat
              /\ Filled(lens, i) <= Data(lens)
              /\ r.sector + Filled(lens, i) <= Capacity
<1>1. lens \in Seq(Nat)
  <2>1. PICK c \in Chains["blk"] : Gather(r) = Gather(c)
    BY GatherOf
  <2> QED
    BY <2>1, LengthsOf
<1>2. /\ r.sector \in Sectors /\ r.tag \in Nat
      /\ r.type \in {"in", "out", "flush", "other"}
      /\ r.sector + Data(lens) <= Capacity
  BY DEF Requests
<1>3. r.sector \in Nat
  BY <1>2, CapacityIs
<1>4. Data(lens) = Filled(lens, Len(lens) - 1)
  BY DEF Data, Filled
<1>5. ASSUME NEW i \in 1..(Len(lens) - 1)
      PROVE  /\ Filled(lens, i) \in Nat /\ Filled(lens, Len(lens) - 1) \in Nat
             /\ Filled(lens, i) <= Filled(lens, Len(lens) - 1)
  <2>1. /\ i \in 1..Len(lens) /\ Len(lens) - 1 \in 1..Len(lens)
        /\ Len(lens) - 1 \in i..Len(lens)
    BY <1>1
  <2> QED
    BY <1>1, <2>1, FilledIs, FilledGrows
<1>6. Len(lens) >= 2 => Data(lens) \in Nat
  <2>1. Len(lens) >= 2 => 1 \in 1..(Len(lens) - 1)
    BY <1>1
  <2> QED
    BY <1>4, <1>5, <2>1
<1>7. ASSUME NEW i \in 1..(Len(lens) - 1)
      PROVE  /\ Filled(lens, i) \in Nat /\ Filled(lens, i) <= Data(lens)
             /\ r.sector + Filled(lens, i) <= Capacity
  <2>1. Capacity \in Nat
    BY CapacityIs
  <2> QED
    BY <1>2, <1>3, <1>4, <1>5, <2>1
<1> QED
  BY <1>1, <1>2, <1>3, <1>4, <1>6, <1>7

\* The one call of the disk has its request at the front of queue 0.
LEMMA BlkChain ==
  ASSUME ServeInv, id = "blk", srv # <<>>, Remaining > 0
  PROVE  /\ Queue = 0 /\ posted[0] \in Seq(Requests) /\ posted[0] # <<>>
         /\ Chain \in Requests
<1>1. /\ \E q \in Queues, r \in Nat : srv = <<<<q, r>>>> /\ r <= Len(posted[q])
      /\ Queues = {0} /\ posted \in [0..1 -> Seq(Requests)]
  BY DEF ServeInv, Shape, Queues, Items
<1>2. PICK r \in Nat : srv = <<<<0, r>>>> /\ r <= Len(posted[0])
  BY <1>1
<1>3. Queue = 0 /\ Remaining = r
  BY <1>2, OneFrame
<1>4. posted[0] \in Seq(Requests) /\ posted[0] # <<>>
  <2>1. posted[0] \in Seq(Requests)
    BY <1>1
  <2> QED
    BY <1>2, <1>3, <2>1
<1>5. Chain = Head(posted[0])
  BY <1>3 DEF Chain
<1> QED
  BY <1>3, <1>4, <1>5

\* No request is served at the start.
LEMMA DiskInit == Init => DiskInv
<1> SUFFICES ASSUME Init PROVE DiskInv
  OBVIOUS
<1>1. blk = NoBlk /\ disk = [s \in Sectors |-> 0] /\ may = [s \in Sectors |-> {0}]
  BY DEF Init
<1>2. NoBlk \in Blks
  BY DEF NoBlk, Blks
<1> QED
  BY <1>1, <1>2 DEF DiskInv, FileTypeOK, InFlight

\* Nothing happens to the request that is served.
LEMMA SameRequest ==
  ASSUME DiskInv, UNCHANGED <<disk, blk, may>>, blk # NoBlk => Chain' = Chain
  PROVE  DiskInv'
<1>1. FileTypeOK'
  BY DEF DiskInv, FileTypeOK
<1>2. ASSUME blk # NoBlk PROVE InFlight'
  <2>1. Chain' = Chain
    BY <1>2
  <2> QED
    BY <2>1 DEF DiskInv, InFlight, Moved, SoFar, Extent, Whole
<1>3. ASSUME blk = NoBlk PROVE InFlight'
  BY <1>3 DEF InFlight, NoBlk
<1> QED
  BY <1>1, <1>2, <1>3 DEF DiskInv

\* A request begins.
LEMMA StartKeeps ==
  ASSUME ServeInv, DiskInv, BlkStart
  PROVE  DiskInv'
<1> DEFINE lens == Gather(Chain)
<1>1. /\ id = "blk" /\ srv # <<>> /\ Remaining > 0 /\ lens # Bad /\ Len(lens) >= 2
      /\ blk' = [lens |-> lens, off |-> 2 * Chain.sector, data |-> <<>>,
                 i |-> IF Chain.type \in {"in", "out"} THEN 2 ELSE Len(lens),
                 short |-> FALSE,
                 status |-> IF Chain.type \in {"in", "out", "flush"} THEN "ok"
                            ELSE "unsupp"]
      /\ may' = [s \in Sectors |-> IF Chain.type = "out" /\ s \in Extent(Chain)
                                   THEN may[s] \cup {Chain.tag} ELSE may[s]]
      /\ UNCHANGED <<posted, srv, disk>>
  BY DEF BlkStart, Serving
<1>2. Chain \in Requests
  BY <1>1, BlkChain
<1> HIDE DEF lens
<1>3. /\ lens \in Seq(Nat) /\ Chain.sector \in Nat /\ Chain.tag \in Nat
      /\ Chain.type \in {"in", "out", "flush", "other"}
      /\ Data(lens) \in Nat /\ Chain.sector + Data(lens) <= Capacity
  BY <1>1, <1>2, RequestIs DEF lens
<1>4. Chain' = Chain
  BY <1>1 DEF Chain, Queue
<1> HIDE DEF Chain
<1>5. /\ blk'.lens = lens /\ blk'.off = 2 * Chain.sector /\ blk'.data = <<>>
      /\ blk'.i = (IF Chain.type \in {"in", "out"} THEN 2 ELSE Len(lens))
      /\ blk'.status = (IF Chain.type \in {"in", "out", "flush"} THEN "ok" ELSE "unsupp")
      /\ blk'.short = FALSE
      /\ Len(lens) \in Nat
  BY <1>1, <1>3
<1>6. blk' \in Blks
  <2> DEFINE i == IF Chain.type \in {"in", "out"} THEN 2 ELSE Len(lens)
             t == IF Chain.type \in {"in", "out", "flush"} THEN "ok" ELSE "unsupp"
  <2>1. i \in Nat /\ t \in {"ok", "ioerr", "unsupp"} /\ 2 * Chain.sector \in Nat
    BY <1>3
  <2>2. blk' = [lens |-> lens, off |-> 2 * Chain.sector, data |-> <<>>, i |-> i,
                short |-> FALSE, status |-> t]
    BY <1>1
  <2> HIDE DEF i, t
  <2> QED
    BY <1>3, <2>1, <2>2 DEF Blks
<1>7. FileTypeOK'
  <2>1. \A s \in Sectors : may[s] \subseteq may'[s] /\ may'[s] \in SUBSET Nat
    BY <1>1, <1>3 DEF DiskInv, FileTypeOK
  <2>2. may' \in [Sectors -> SUBSET Nat]
    BY <1>1, <2>1
  <2> QED
    BY <1>1, <1>6, <2>1, <2>2 DEF DiskInv, FileTypeOK
<1>8. ASSUME Chain.type = "out", NEW s \in Extent(Chain) PROVE Chain.tag \in may'[s]
  <2>1. s \in Chain.sector..(Chain.sector + Data(lens) - 1)
    BY <1>8 DEF Extent, lens
  <2>2. s \in Nat /\ s < Capacity
    BY <1>3, <2>1, CapacityIs
  <2>3. s \in Sectors
    BY <2>2, CapacityIs
  <2> QED
    BY <1>1, <1>8, <2>3
<1>9. Filled(lens, 1) = 0
  BY <1>3, FilledIs
<1>10. Moved'
  <2>1. ASSUME Chain.type \in {"in", "out"} PROVE SoFar' = 0
    <3>1. blk'.lens = lens /\ blk'.i - 1 = 1
      BY <1>5, <2>1
    <3> QED
      BY <1>9, <3>1 DEF SoFar
  <2>2. ASSUME Chain.type \in {"in", "out"}
        PROVE  /\ 2 * (Chain.sector + 0) = blk'.off /\ Len(blk'.data) = 0
               /\ 1..0 = {} /\ Chain.sector..(Chain.sector + 0 - 1) = {}
    BY <1>3, <1>5
  <2> QED
    BY <1>4, <2>1, <2>2 DEF Moved
<1>11. /\ blk'.lens = Gather(Chain) /\ blk'.lens # Bad /\ blk'.i \in 2..Len(blk'.lens)
       /\ Chain.type \notin {"in", "out"} \/ ~Whole' => blk'.i = Len(blk'.lens)
  BY <1>1, <1>3, <1>5 DEF lens, Whole
<1>12. InFlight'
  BY <1>4, <1>5, <1>8, <1>10, <1>11 DEF InFlight, Extent
<1> QED
  BY <1>7, <1>12 DEF DiskInv

\* The bytes that pread() finds before the end of the file.
LEMMA MinMax ==
  ASSUME NEW a \in Nat, NEW b \in Nat, a <= b
  PROVE  Min({a, Max({0, b})}) = a
<1>1. \E x \in {0, b} : \A y \in {0, b} : x >= y
  OBVIOUS
<1>2. Max({0, b}) \in {0, b} /\ \A y \in {0, b} : Max({0, b}) >= y
  BY <1>1 DEF Max
<1>3. Max({0, b}) = b
  BY <1>2
<1> QED
  BY <1>3, MinOfTwo

\* A segment that is read is read in full.
LEMMA WholeSegment ==
  ASSUME NEW len \in Nat, NEW n \in Transfers(len), blk.off \in Nat,
         blk.off + len <= FileSize, Chain.type = "in"
  PROVE  n = len
<1>1. FileSize \in Nat
  BY CapacityIs
<1>2. n = Min({len, Max({0, FileSize - blk.off})})
  BY DEF Transfers
<1>3. FileSize - blk.off \in Nat /\ len <= FileSize - blk.off
  BY <1>1
<1> DEFINE b == FileSize - blk.off
<1>4. b \in Nat /\ len <= b /\ n = Min({len, Max({0, b})})
  BY <1>2, <1>3
<1> HIDE DEF b
<1> QED
  BY <1>4, MinMax

\* One segment more is transferred.
LEMMA SegmentKeeps ==
  ASSUME ServeInv, DiskInv, BlkSegment
  PROVE  DiskInv'
<1> DEFINE lens == blk.lens
           i == blk.i
           sector == Chain.sector
           F == Filled(lens, i - 1)
           len == 2 * lens[i]
           first == blk.off \div 2
           out == Chain.type = "out"
           Moves(n) ==
             /\ blk' = [blk EXCEPT
                  !.off = @ + n,
                  !.data = IF out THEN @
                           ELSE @ \o [k \in 1..(n \div 2) |-> disk[first + k - 1]],
                  !.short = @ \/ (out /\ n < len),
                  !.i = IF n < len THEN Len(blk.lens) ELSE @ + 1]
             /\ disk' = [s \in Sectors |-> IF out /\ s \in first..(first + n \div 2 - 1)
                                           THEN Chain.tag ELSE disk[s]]
<1>1. /\ blk # NoBlk /\ i < Len(lens) /\ UNCHANGED <<posted, srv, may>>
      /\ id = "blk" /\ srv # <<>> /\ Remaining > 0 /\ blk \in Blks
  BY DEF BlkSegment, ServeInv, DiskInv, FileTypeOK
<1>2. Chain \in Requests /\ Chain' = Chain
  BY <1>1, BlkChain DEF Chain, Queue
<1>3. /\ lens = Gather(Chain) /\ lens # Bad /\ i \in 2..Len(lens)
      /\ Chain.type \in {"in", "out"} /\ blk.status = "ok" /\ blk.short = FALSE /\ Moved
      /\ Chain.type = "out" => \A s \in Extent(Chain) : Chain.tag \in may[s]
  <2>1. i # Len(lens)
    BY <1>1 DEF Blks
  <2> QED
    BY <1>1, <2>1 DEF DiskInv, InFlight, Whole, Blks
<1>4. /\ lens \in Seq(Nat) /\ sector \in Nat /\ Chain.tag \in Nat /\ Len(lens) \in Nat
      /\ i \in 2..(Len(lens) - 1) /\ i \in Nat /\ lens[i] \in Nat
  BY <1>1, <1>2, <1>3, RequestIs
<1>5. /\ F \in Nat /\ Filled(lens, i) = F + lens[i]
      /\ sector + Filled(lens, i) <= Capacity /\ Filled(lens, i) <= Data(lens)
      /\ Filled(lens, i) \in Nat /\ Data(lens) \in Nat
  <2>1. i \in 1..(Len(lens) - 1) /\ i - 1 \in 1..(Len(lens) - 1) /\ i \in 2..Len(lens)
        /\ Len(lens) >= 2
    <3>1. /\ i \in Nat /\ Len(lens) \in Nat /\ i >= 2 /\ i <= Len(lens) - 1
      BY <1>4
    <3> HIDE DEF i, lens
    <3> QED
      BY <3>1
  <2>2. Filled(lens, i) = Filled(lens, i - 1) + lens[i]
    BY <1>4, <2>1, FilledIs
  <2> QED
    BY <1>2, <1>3, <2>1, <2>2, RequestIs
<1>6. /\ blk.off = 2 * (sector + F)
      /\ ~out => /\ Chain.type = "in" /\ Len(blk.data) = F
                 /\ \A k \in 1..F : blk.data[k] \in may[sector + k - 1]
      /\ out => \A s \in sector..(sector + F - 1) : disk[s] = Chain.tag
  BY <1>3 DEF Moved, SoFar, Whole
<1>7. \/ blk' = [blk EXCEPT !.status = "ioerr", !.i = Len(blk.lens)] /\ disk' = disk
      \/ \E n \in Transfers(len) : Moves(n)
  BY DEF BlkSegment
<1> HIDE DEF F, first, lens, i, sector, out
<1> DEFINE x == lens[i]
<1>10. /\ sector \in Nat /\ F \in Nat /\ x \in Nat /\ i \in Nat
       /\ Capacity \in Nat /\ FileSize \in Nat /\ 2 * Capacity <= FileSize
       /\ sector + F + x <= Capacity /\ blk.off = 2 * (sector + F)
       /\ Filled(lens, i) = F + x /\ F + x <= Data(lens) /\ Data(lens) \in Nat
  <2>1. /\ x \in Nat /\ i \in Nat /\ sector \in Nat
    BY <1>4
  <2>2. /\ F \in Nat /\ Filled(lens, i) = F + x /\ Data(lens) \in Nat
        /\ sector + Filled(lens, i) <= Capacity /\ Filled(lens, i) <= Data(lens)
    BY <1>5
  <2>3. Capacity \in Nat /\ FileSize \in Nat /\ 2 * Capacity <= FileSize
    BY CapacityIs
  <2>4. blk.off = 2 * (sector + F)
    BY <1>6
  <2> HIDE DEF x
  <2>5. F + x <= Data(lens) /\ sector + F + x <= Capacity
    BY <2>1, <2>2, <2>3
  <2> QED
    BY <2>1, <2>2, <2>3, <2>4, <2>5
<1> HIDE DEF x
<1>11. len = 2 * x /\ lens[i] = x
  BY DEF x
<1>8. CASE blk' = [blk EXCEPT !.status = "ioerr", !.i = Len(blk.lens)] /\ disk' = disk
  <2>1. /\ blk' \in Blks /\ blk'.lens = lens /\ blk'.i = Len(lens) /\ blk'.status = "ioerr"
        /\ blk'.short = FALSE
    BY <1>1, <1>3, <1>4, <1>8 DEF Blks, lens
  <2>2. FileTypeOK'
    BY <1>1, <1>8, <2>1 DEF DiskInv, FileTypeOK
  <2>3. InFlight'
    BY <1>1, <1>2, <1>3, <1>4, <2>1 DEF InFlight, Moved, Extent, Whole
  <2> QED
    BY <2>2, <2>3 DEF DiskInv
<1>12. /\ len \in Nat /\ blk.off \in Nat /\ blk.off + len <= FileSize
       /\ first = sector + F
  <2>1. len = 2 * x
    BY <1>11
  <2> HIDE DEF len
  <2> QED
    BY <1>10, <2>1 DEF first
<1>9. ASSUME NEW n \in Transfers(len), Moves(n), n = len PROVE DiskInv'
  <2>1. Moves(n)
    BY <1>9
  <2>2. n = len
    BY <1>9
  <2>3. n \div 2 = lens[i] /\ first = sector + F /\ ~(n < len) /\ len \in Nat
    <3>1. len = 2 * x
      BY <1>11
    <3> HIDE DEF len
    <3>2. n \div 2 = x /\ ~(n < len) /\ len \in Nat
      BY <1>10, <2>2, <3>1
    <3>3. first = sector + F
      BY <1>10 DEF first
    <3> QED
      BY <1>11, <3>2, <3>3
  <2> DEFINE new == [k \in 1..lens[i] |-> disk[sector + F + k - 1]]
             data == IF out THEN blk.data ELSE blk.data \o new
  <2>4. /\ blk' = [blk EXCEPT !.off = @ + len, !.data = data, !.i = @ + 1]
        /\ disk' = [s \in Sectors |->
                      IF out /\ s \in (sector + F)..(sector + F + lens[i] - 1)
                      THEN Chain.tag ELSE disk[s]]
    <3> HIDE DEF len
    <3> QED
      BY <1>1, <1>3, <2>1, <2>2, <2>3 DEF Blks
  \* What is read or written lies on the disk.
  <2>5. ASSUME NEW k \in 0..(Filled(lens, i) - 1) PROVE sector + k \in Sectors
    <3>1. sector + k \in Nat /\ sector + k < Capacity
      <4>1. k \in 0..(F + x - 1)
        BY <1>10
      <4> QED
        BY <1>10, <4>1
    <3> QED
      BY <3>1, CapacityIs
  <2>6. new \in Seq(Nat) /\ Len(new) = lens[i]
    <3>1. ASSUME NEW k \in 1..lens[i] PROVE disk[sector + F + k - 1] \in Nat
      <4>1. F + k - 1 \in 0..(Filled(lens, i) - 1) /\ sector + F + k - 1 = sector + (F + k - 1)
        <5>1. k \in 1..x /\ Filled(lens, i) = F + x
          BY <1>10, <1>11
        <5> QED
          BY <1>10, <5>1
      <4>2. sector + F + k - 1 \in Sectors
        BY <2>5, <4>1
      <4> QED
        BY <4>2 DEF DiskInv, FileTypeOK
    <3>2. x \in Nat /\ lens[i] = x
      BY <1>10, <1>11
    <3>3. new = [k \in 1..x |-> disk[sector + F + k - 1]]
      BY <3>2
    <3>4. \A k \in 1..x : disk[sector + F + k - 1] \in Nat
      BY <3>1, <3>2
    <3> HIDE DEF new
    <3>5. new \in [1..x -> Nat]
      BY <3>3, <3>4
    <3> QED
      BY <3>2, <3>5
  <2>7. /\ data \in Seq(Nat)
        /\ ~out => /\ Len(data) = F + lens[i]
                   /\ \A k \in 1..F : data[k] = blk.data[k]
                   /\ \A k \in (F + 1)..(F + lens[i]) : data[k] = disk[sector + k - 1]
    <3>1. blk.data \in Seq(Nat)
      BY <1>1 DEF Blks
    <3>2. CASE out
      BY <3>1, <3>2
    <3>3. CASE ~out
      <4>1. Len(blk.data) = F
        BY <1>6, <3>3
      <4>2. \A k \in 1..lens[i] : new[k] = disk[sector + F + k - 1]
        OBVIOUS
      <4> HIDE DEF new
      <4>3. /\ blk.data \o new \in Seq(Nat) /\ Len(blk.data \o new) = F + lens[i]
            /\ \A k \in 1..(F + lens[i]) :
                 (blk.data \o new)[k] = IF k <= F THEN blk.data[k] ELSE new[k - F]
        <5>1. x \in Nat /\ lens[i] = x /\ F \in Nat
          BY <1>10, <1>11
        <5> DEFINE t == blk.data
        <5>2. t \in Seq(Nat) /\ Len(t) = F /\ new \in Seq(Nat) /\ Len(new) = x
          BY <2>6, <3>1, <4>1, <5>1
        <5> HIDE DEF t
        <5>3. /\ t \o new \in Seq(Nat) /\ Len(t \o new) = Len(t) + Len(new)
              /\ \A k \in 1..(Len(t) + Len(new)) :
                   (t \o new)[k] = IF k <= Len(t) THEN t[k] ELSE new[k - Len(t)]
          BY <5>2, ConcatProperties
        <5> QED
          BY <5>1, <5>2, <5>3 DEF t
      <4>4. data = blk.data \o new
        BY <3>3
      <4> HIDE DEF data
      <4>5. \A k \in 1..F : data[k] = blk.data[k]
        <5>1. \A k \in 1..F : k \in 1..(F + lens[i]) /\ k <= F
          BY <1>10, <1>11
        <5> QED
          BY <4>3, <4>4, <5>1
      <4>6. ASSUME NEW k \in (F + 1)..(F + lens[i]) PROVE data[k] = disk[sector + k - 1]
        <5>1. /\ k \in 1..(F + lens[i]) /\ ~(k <= F) /\ k - F \in 1..lens[i]
              /\ sector + F + (k - F) - 1 = sector + k - 1
          BY <1>4, <1>5
        <5> QED
          BY <4>2, <4>3, <4>4, <5>1
      <4> QED
        BY <4>3, <4>4, <4>5, <4>6
    <3> QED
      BY <3>2, <3>3
  <2> HIDE DEF data, new
  <2>8. /\ blk' \in Blks /\ blk'.lens = lens /\ blk'.i = i + 1 /\ blk'.status = "ok"
        /\ blk'.data = data /\ blk'.off = blk.off + len /\ blk'.short = FALSE
    <3>1. blk.off + len \in Nat /\ i + 1 \in Nat
      BY <1>10, <1>11
    <3> HIDE DEF len
    <3> QED
      BY <1>1, <1>3, <2>4, <2>7, <3>1 DEF Blks, lens, i
  <2>9. /\ SoFar' = F + lens[i] /\ blk'.off = 2 * (sector + (F + lens[i]))
        /\ blk'.i \in 2..Len(lens)
    <3>1. SoFar' = Filled(blk'.lens, blk'.i - 1)
      BY DEF SoFar
    <3>2. blk'.i - 1 = i
      BY <1>4, <2>8
    <3>3. SoFar' = F + lens[i]
      <4>1. blk'.lens = lens
        BY <2>8
      <4>2. Filled(lens, i) = F + lens[i]
        BY <1>5
      <4> HIDE DEF i, lens, F
      <4> QED
        BY <3>1, <3>2, <4>1, <4>2
    <3>4. blk'.off = 2 * (sector + (F + lens[i]))
      <4>1. blk'.off = blk.off + len
        BY <2>8
      <4>2. blk.off + len = 2 * (sector + (F + lens[i]))
        BY <1>4, <1>5, <1>6
      <4> HIDE DEF i, lens, F, sector, len
      <4> QED
        BY <4>1, <4>2
    <3>5. blk'.i \in 2..Len(lens)
      <4>1. blk'.i = i + 1 /\ i \in 2..(Len(lens) - 1) /\ Len(lens) \in Nat
        BY <1>4, <2>8
      <4> HIDE DEF i, lens
      <4> QED
        BY <4>1
    <3> QED
      BY <3>3, <3>4, <3>5
  <2> HIDE DEF len
  <2>10. FileTypeOK'
    <3>1. ASSUME NEW s \in Sectors PROVE disk'[s] \in Nat /\ disk'[s] \in may'[s]
      <4>1. CASE out /\ s \in (sector + F)..(sector + F + lens[i] - 1)
        <5>1. disk'[s] = Chain.tag
          BY <2>4, <4>1
        <5>2. s \in sector..(sector + Data(lens) - 1)
          <6>1. s \in (sector + F)..(sector + F + x - 1)
            BY <1>11, <4>1
          <6> QED
            BY <1>10, <6>1
        <5>3. s \in Extent(Chain)
          BY <1>3, <5>2 DEF Extent, sector
        <5> QED
          BY <1>1, <1>3, <1>4, <4>1, <5>1, <5>3 DEF out
      <4>2. CASE ~(out /\ s \in (sector + F)..(sector + F + lens[i] - 1))
        BY <1>1, <2>4, <4>2 DEF DiskInv, FileTypeOK
      <4> QED
        BY <4>1, <4>2
    <3>2. disk' \in [Sectors -> Nat]
      BY <2>4, <3>1
    <3> QED
      BY <1>1, <2>8, <3>1, <3>2 DEF DiskInv, FileTypeOK
  <2>11. ASSUME ~out, NEW k \in 1..(F + lens[i]) PROVE data[k] \in may[sector + k - 1]
    <3>1. CASE k \in 1..F
      BY <1>6, <2>7, <2>11, <3>1
    <3>2. CASE k \in (F + 1)..(F + lens[i])
      <4>1. k - 1 \in 0..(Filled(lens, i) - 1) /\ sector + (k - 1) = sector + k - 1
        BY <1>4, <1>5, <3>2
      <4>2. sector + k - 1 \in Sectors
        BY <2>5, <4>1
      <4> QED
        BY <2>7, <2>11, <3>2, <4>2 DEF DiskInv, FileTypeOK
    <3> QED
      BY <1>4, <1>5, <3>1, <3>2
  <2>12. ASSUME out, NEW s \in sector..(sector + (F + lens[i]) - 1)
         PROVE  disk'[s] = Chain.tag
    <3>1. s - sector \in 0..(Filled(lens, i) - 1) /\ sector + (s - sector) = s
      <4>1. sector \in Nat /\ F \in Nat /\ lens[i] \in Nat /\ Filled(lens, i) = F + lens[i]
        BY <1>4, <1>5
      <4> HIDE DEF i, lens, F, sector
      <4> QED
        BY <4>1
    <3>2. s \in Sectors
      BY <2>5, <3>1
    <3>3. CASE s \in sector..(sector + F - 1)
      BY <1>6, <2>4, <2>12, <3>2, <3>3
    <3>4. CASE s \in (sector + F)..(sector + F + lens[i] - 1)
      BY <2>4, <2>12, <3>2, <3>4
    <3> QED
      BY <1>4, <1>5, <3>3, <3>4
  <2>13. Moved'
    BY <1>1, <1>2, <1>3, <2>7, <2>8, <2>9, <2>11, <2>12 DEF Moved, Whole, sector, out
  <2>14. InFlight'
    BY <1>1, <1>2, <1>3, <2>8, <2>9, <2>13 DEF InFlight, Extent, Whole
  <2> QED
    BY <2>10, <2>14 DEF DiskInv
\* A short pwrite() leaves the request's tag in sectors of the request.
<1>13. ASSUME NEW n \in Transfers(len), Moves(n), n # len PROVE DiskInv'
  <2>1. out /\ n \in 0..len
    <3> HIDE DEF len
    <3>1. Chain.type # "in"
      BY <1>12, <1>13, WholeSegment
    <3>2. out
      BY <1>3, <3>1 DEF out
    <3> QED
      BY <3>1, <3>2 DEF Transfers
  <2>2. n < len /\ n \in Nat /\ n \div 2 \in Nat /\ n \div 2 <= x
    <3>1. len = 2 * x
      BY <1>11
    <3> HIDE DEF len
    <3> QED
      BY <1>10, <1>12, <1>13, <2>1, <3>1
  <2>3. /\ blk' = [blk EXCEPT !.off = @ + n, !.short = TRUE, !.i = Len(lens)]
        /\ disk' = [s \in Sectors |-> IF s \in first..(first + n \div 2 - 1)
                                      THEN Chain.tag ELSE disk[s]]
    <3> HIDE DEF len
    <3> QED
      BY <1>1, <1>13, <2>1, <2>2 DEF Blks, lens
  <2>4. /\ blk' \in Blks /\ blk'.lens = lens /\ blk'.i = Len(lens) /\ blk'.short
    <3>1. blk.off + n \in Nat /\ Len(lens) \in Nat
      <4> HIDE DEF len
      <4>1. n \in Nat /\ blk.off \in Nat
        BY <1>12, <2>2
      <4> QED
        BY <1>4, <4>1
    <3> QED
      BY <1>1, <2>3, <3>1 DEF Blks, lens
  <2>5. FileTypeOK'
    <3>1. ASSUME NEW s \in Sectors PROVE disk'[s] \in Nat /\ disk'[s] \in may'[s]
      <4>1. CASE s \in first..(first + n \div 2 - 1)
        <5>1. disk'[s] = Chain.tag
          BY <2>3, <4>1
        <5>2. s \in sector..(sector + Data(lens) - 1)
          <6> HIDE DEF len
          <6> DEFINE h == n \div 2
          <6>1. h \in Nat /\ h <= x /\ s \in first..(first + h - 1)
            BY <2>2, <4>1
          <6> HIDE DEF h
          <6> QED
            BY <1>10, <1>12, <6>1
        <5>3. s \in Extent(Chain)
          BY <1>3, <5>2 DEF Extent, sector
        <5> QED
          BY <1>1, <1>3, <1>4, <2>1, <5>1, <5>3 DEF out
      <4>2. CASE ~(s \in first..(first + n \div 2 - 1))
        BY <1>1, <2>3, <4>2 DEF DiskInv, FileTypeOK
      <4> QED
        BY <4>1, <4>2
    <3>2. disk' \in [Sectors -> Nat]
      BY <2>3, <3>1
    <3> QED
      BY <1>1, <2>4, <3>1, <3>2 DEF DiskInv, FileTypeOK
  <2>6. InFlight'
    BY <1>1, <1>2, <1>3, <1>4, <2>1, <2>4 DEF InFlight, Moved, Extent, Whole, out
  <2> QED
    BY <2>5, <2>6 DEF DiskInv
<1> QED
  BY <1>7, <1>8, <1>9, <1>13

\* Where the status is OK, all that was gathered was moved, short writes excepted.
LEMMA AllMoved ==
  ASSUME ServeInv, DiskInv, Done, Whole, Chain.type \in {"in", "out"}
  PROVE  /\ Chain \in Requests /\ blk.lens = Gather(Chain)
         /\ Chain.type = "in" => /\ Len(blk.data) = Data(blk.lens)
                                 /\ \A k \in 1..Len(blk.data) :
                                      blk.data[k] \in may[Chain.sector + k - 1]
         /\ Chain.type = "out" => \A s \in Extent(Chain) : disk[s] = Chain.tag
<1>1. /\ blk # NoBlk /\ blk.i = Len(blk.lens) /\ blk.lens = Gather(Chain)
      /\ blk.lens # Bad /\ Moved
  BY DEF Done, DiskInv, InFlight
<1>2. Chain \in Requests
  BY <1>1, BlkChain DEF ServeInv
<1>3. SoFar = Data(blk.lens)
  BY <1>1, <1>2, RequestIs DEF SoFar
<1> QED
  BY <1>1, <1>2, <1>3 DEF Moved, Extent

\* The request is done and its chain is returned.
LEMMA DoneKeeps ==
  ASSUME ServeInv, DiskInv, BlkDone
  PROVE  DiskInv'
<1>1. /\ blk' = NoBlk /\ Done /\ disk' = disk
      /\ may' = [s \in Sectors |->
                   IF Whole /\ Chain.type = "out" /\ s \in Extent(Chain)
                   THEN {Chain.tag} ELSE may[s]]
  BY DEF BlkDone
<1>2. ASSUME Whole, Chain.type = "out"
      PROVE  /\ Chain.tag \in Nat /\ \A s \in Extent(Chain) : disk[s] = Chain.tag
  <2>1. /\ Chain \in Requests /\ \A s \in Extent(Chain) : disk[s] = Chain.tag
    BY <1>1, <1>2, AllMoved
  <2> QED
    BY <2>1 DEF Requests
<1>3. \A s \in Sectors : disk[s] \in may'[s] /\ may'[s] \in SUBSET Nat
  BY <1>1, <1>2 DEF DiskInv, FileTypeOK
<1>4. may' \in [Sectors -> SUBSET Nat]
  BY <1>1, <1>3
<1>5. blk' \in Blks
  BY <1>1 DEF NoBlk, Blks
<1>6. FileTypeOK'
  BY <1>1, <1>3, <1>4, <1>5 DEF DiskInv, FileTypeOK
<1>7. InFlight'
  BY <1>1 DEF InFlight, NoBlk
<1> QED
  BY <1>6, <1>7 DEF DiskInv

\* Every action keeps the invariant of the disk.
LEMMA DiskStep ==
  ASSUME ServeInv, DiskInv, [Next]_vars
  PROVE  DiskInv'
<1>1. CASE UNCHANGED <<posted, srv, disk, blk, may>>
  BY <1>1, SameRequest DEF Chain, Queue
<1>2. CASE blk = NoBlk /\ UNCHANGED <<disk, blk, may>>
  BY <1>2, SameRequest
<1>3. ASSUME NEW c, Post(0, c), id = "blk", UNCHANGED <<disk, blk, may>> PROVE DiskInv'
  <2>1. /\ posted' = [posted EXCEPT ![0] = Append(@, c)] /\ (~use_eventfd => srv = <<>>)
        /\ (use_eventfd => srv' = srv) /\ posted \in [0..1 -> Seq(Items)]
    BY <1>3 DEF Post, Ready, GuestRuns, ServeInv
  <2>2. ASSUME blk # NoBlk PROVE Chain' = Chain
    <3>1. /\ Queue = 0 /\ posted[0] \in Seq(Requests) /\ posted[0] # <<>> /\ srv # <<>>
      BY <1>3, <2>2, BlkChain DEF ServeInv
    <3>2. srv' = srv
      BY <2>1, <3>1 DEF ServeInv
    <3> DEFINE t == Append(posted[0], c)
    <3>3. Head(t) = Head(posted[0])
      BY <3>1
    <3>4. posted' = [posted EXCEPT ![0] = t]
      BY <2>1
    <3> HIDE DEF t
    <3>5. posted'[0] = t
      BY <2>1, <3>4
    <3> QED
      BY <3>1, <3>2, <3>3, <3>5 DEF Chain, Queue
  <2> QED
    BY <1>3, <2>2, SameRequest
<1>4. ASSUME NEW c, NEW t, NEW s, PostRequest(c, t, s) PROVE DiskInv'
  BY <1>3, <1>4 DEF PostRequest, Post
<1>5. CASE BlkStart
  BY <1>5, StartKeeps
<1>6. CASE BlkSegment
  BY <1>6, SegmentKeeps
<1>7. CASE BlkDone
  BY <1>7, DoneKeeps
<1>8. id # "blk" \/ srv = <<>> => blk = NoBlk
  BY DEF ServeInv
<1>9. CASE Probe \/ Rebind \/ (\E q \in {0, 1} : Worker(q))
  <2>1. srv = <<>> /\ UNCHANGED <<disk, blk, may>>
    BY <1>9 DEF Probe, Rebind, Worker, file, ServeInv, Idle
  <2> QED
    BY <1>2, <1>8, <2>1
<1>10. CASE Transmit \/ Receive \/ Skip
  BY <1>2, <1>10 DEF Transmit, Receive, Skip, Serving, file
<1>11. ASSUME NEW q, NEW c, PostConsole(q, c) PROVE DiskInv'
  BY <1>2, <1>8, <1>11 DEF PostConsole, Post
<1>12. CASE Return
  <2>1. blk = NoBlk
    <3>1. id = "blk" => CanConsume
      BY DEF CanConsume
    <3>2. Remaining = 0 => ~(Remaining > 0)
      OBVIOUS
    <3> QED
      BY <1>12, <3>1, <3>2 DEF ServeInv, Return
  <2> QED
    BY <1>2, <1>12, <2>1 DEF Return, file
<1>13. CASE UNCHANGED vars
  BY <1>1, <1>13 DEF vars, file
<1> QED
  BY <1>4, <1>5, <1>6, <1>7, <1>9, <1>10, <1>11, <1>12, <1>13 DEF Next

\* What the invariant says of a finished request.
LEMMA DiskImplies == ServeInv /\ DiskInv => StatusIsTrue
<1> SUFFICES ASSUME ServeInv, DiskInv, Done, blk.status = "ok", LeftOut(Chain) = <<>>,
                    Chain.type \in {"in", "out"}, Chain.type = "out" => ~blk.short
             PROVE  LET sectors == Data(Lengths(Chain))
                    IN /\ Chain.type = "in" =>
                            /\ Len(blk.data) = sectors
                            /\ \A k \in 1..sectors :
                                 blk.data[k] \in may[Chain.sector + k - 1]
                       /\ Chain.type = "out" =>
                            \A s \in Chain.sector..(Chain.sector + sectors - 1) :
                              disk[s] = Chain.tag
  BY DEF StatusIsTrue
<1>1. blk.short \in BOOLEAN /\ (blk.short => Chain.type = "out")
  BY DEF DiskInv, FileTypeOK, InFlight, Blks, Done
<1>2. Whole
  BY <1>1 DEF Whole
<1>3. /\ Chain \in Requests /\ blk.lens = Gather(Chain)
      /\ Chain.type = "in" => /\ Len(blk.data) = Data(blk.lens)
                              /\ \A k \in 1..Len(blk.data) :
                                   blk.data[k] \in may[Chain.sector + k - 1]
      /\ Chain.type = "out" => \A s \in Extent(Chain) : disk[s] = Chain.tag
  BY <1>2, AllMoved
<1>4. Gather(Chain) = Lengths(Chain)
  <2>1. PICK c \in Chains["blk"] : Gather(Chain) = Gather(c) /\ Lengths(Chain) = Lengths(c)
    BY <1>3, GatherOf
  <2>2. Lengths(Chain) \in Seq(Nat)
    BY <2>1, LengthsOf
  <2> QED
    BY <2>2, GatherFits
<1> QED
  BY <1>3, <1>4 DEF Extent

\* VIRTIO_BLK_S_OK is the truth of every request within the announced capacity and of
\* at most MaxSegs segments, writes in which a pwrite() was short excepted
\* (blk_handle()).
THEOREM StatusIsTruthful == Spec => []StatusIsTrue
<1>1. Init => ServeInv /\ DiskInv
  BY ServeInit, DiskInit
<1>2. (ServeInv /\ DiskInv) /\ [Next]_vars => (ServeInv /\ DiskInv)'
  BY ServeStep, DiskStep
<1> QED
  BY <1>1, <1>2, DiskImplies, PTL DEF Spec
=============================================================================
