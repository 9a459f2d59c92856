------------------------ MODULE MiniKvmEventsProofs ------------------------
(***************************************************************************)
(* Proofs about MiniKvmEvents, for any vectors, any number of guest pages, *)
(* any size of the serial buffer and any number of injections, host        *)
(* interrupts, NMIs and failed allocations: types, the conservation of     *)
(* events, and the acceptance of every VM entry that injects.              *)
(***************************************************************************)
EXTENDS MiniKvmEvents, SequenceTheorems, TLAPS

Handlers == {"irq_handler", "iretq"}
Points == {"boot", "hello", "sti", "hlt"} \cup Handlers
Frame == [at : Points, intr : BOOLEAN, own : BOOLEAN]

\* An event is in one place at a time, and which one the point of the run loop
\* tells: a VM entry consumes the slot, an exit the entry field.
OnePlace ==
  /\ pc \notin {"enter", "deliver"} => entry = None
  /\ pc \notin {"user", "take"} => slot = None
  /\ pc = "deliver" => entry # None

\* Only a handler returns with iretq, and it has a frame to return to.
FramesMatch ==
  /\ at \in Handlers => frames # <<>>
  /\ frames # <<>> => frames[1].at \notin Handlers

\* Only the greeting and the handler print.
OutExits == pc = "exit" /\ reason = "io" => at \in {"hello", "irq_handler"}

IInv ==
  TypeOK /\ OnePlace /\ FramesMatch /\ OutExits /\ EntryAccepted /\ Conserved

\* The event in flight.
HolderOf(p, en, sl, iv) ==
  IF p \in {"user", "take"} THEN sl
  ELSE IF p \in {"enter", "deliver"} THEN en
  ELSE IF p = "exit" THEN iv ELSE None
Holder == HolderOf(pc, entry, slot, idtv)

-----------------------------------------------------------------------------
(* Lemmas.                                                                 *)

\* A list of at most one event may be joined with nothing.
LEMMA ThereIsSeq ==
  ASSUME NEW e \in Events \cup {None}
  PROVE  /\ There(e) \in Seq(Vectors)
         /\ There(e) \o <<>> = There(e) /\ <<>> \o There(e) = There(e)
<1>1. There(e) \in Seq(Vectors)
  <2>1. CASE IsExt(e)
    <3>1. e \in Vectors
      BY <2>1, EventConstantsOK DEF Events, None, NMI, IsExt
    <3> QED  BY <2>1, <3>1 DEF There
  <2>2. CASE ~IsExt(e)
    BY <2>2 DEF There
  <2> QED  BY <2>1, <2>2
<1> QED  BY <1>1, ConcatEmptySeq

\* What is in flight is what the holder has.
LEMMA InFlightIsHolder ==
  ASSUME NEW p \in {"user", "take", "enter", "deliver", "guest", "exit"},
         NEW en \in Events \cup {None}, NEW sl \in Events \cup {None},
         NEW iv \in Events \cup {None},
         p \notin {"enter", "deliver"} => en = None,
         p \notin {"user", "take"} => sl = None
  PROVE  There(en) \o There(sl) \o (IF p = "exit" THEN There(iv) ELSE <<>>)
           = There(HolderOf(p, en, sl, iv))
<1>1. There(None) = <<>>
  BY DEF There, None, IsExt
<1>2. /\ There(en) \o <<>> = There(en) /\ <<>> \o There(sl) = There(sl)
      /\ <<>> \o <<>> = <<>> /\ There(sl) \o <<>> = There(sl)
      /\ <<>> \o There(iv) = There(iv)
  BY ThereIsSeq, ConcatEmptySeq, EmptySeq
<1>3. CASE p \in {"user", "take"}
  BY <1>1, <1>2, <1>3 DEF HolderOf
<1>4. CASE p \in {"enter", "deliver"}
  BY <1>1, <1>2, <1>4 DEF HolderOf
<1>5. CASE p = "exit"
  BY <1>1, <1>2, <1>5 DEF HolderOf
<1>6. CASE p = "guest"
  BY <1>1, <1>2, <1>6 DEF HolderOf
<1> QED  BY <1>3, <1>4, <1>5, <1>6

\* So an invariant state has accepted what it delivered and what the holder has, ...
LEMMA AcceptedIs ==
  ASSUME IInv
  PROVE  accepted = delivered \o There(Holder)
<1>1. InFlight = There(Holder)
  BY InFlightIsHolder DEF IInv, TypeOK, OnePlace, InFlight, Holder
<1> QED  BY <1>1 DEF IInv, Conserved

\* ... and a step conserves events when it keeps that equation.
LEMMA ConservedIf ==
  ASSUME TypeOK', OnePlace', accepted' = delivered' \o There(Holder')
  PROVE  Conserved'
<1>1. InFlight' = There(Holder')
  BY InFlightIsHolder DEF TypeOK, OnePlace, InFlight, Holder
<1> QED  BY <1>1 DEF Conserved

\* Most steps keep the event of the holder or replace it by one that is none.
LEMMA KeepsEvent ==
  ASSUME IInv, TypeOK', OnePlace', There(Holder') = There(Holder),
         UNCHANGED <<accepted, delivered>>
  PROVE  Conserved'
BY AcceptedIs, ConservedIf

-----------------------------------------------------------------------------
(* The inductive invariant.                                                *)

LEMMA InitIInv == Init => IInv
<1> SUFFICES ASSUME Init PROVE IInv
  OBVIOUS
<1>1. TypeOK
  <2>1. frames \in Seq(Frame) /\ serial \in Seq({None, TestVector}) /\ Len(serial) = 0
        /\ accepted \in Seq(Vectors) /\ delivered \in Seq(Vectors)
    BY EmptySeq DEF Init
  <2>2. /\ {intr, shadow, nmiBlocked, idt, own, hostIrq} \subseteq BOOLEAN
        /\ unasked \in BOOLEAN
    BY DEF Init
  <2> QED
    BY <2>1, <2>2, EventConstantsOK
       DEF Init, TypeOK, Frame, Points, Handlers, Events
<1>2. OnePlace /\ FramesMatch /\ OutExits /\ EntryAccepted
  BY DEF Init, OnePlace, FramesMatch, OutExits, EntryAccepted, Handlers
<1>3. Conserved
  <2>1. There(None) = <<>> /\ <<>> \o <<>> = <<>>
    BY ConcatEmptySeq, EmptySeq DEF There, None, IsExt
  <2> QED  BY <2>1 DEF Init, Conserved, InFlight
<1> QED  BY <1>1, <1>2, <1>3 DEF IInv

\* The frames below the top one.
LEMMA Shortened ==
  ASSUME NEW s \in Seq(Frame), Len(s) \in Nat \ {0}
  PROVE  LET k == Len(s) - 1
         IN  /\ SubSeq(s, 1, k) \in Seq(Frame)
             /\ Len(SubSeq(s, 1, k)) = k
             /\ \A i \in 1..k : SubSeq(s, 1, k)[i] = s[i]
<1> DEFINE k == Len(s) - 1
<1>1. /\ k \in Int /\ 1 \in Int /\ k >= 0 /\ k - 1 + 1 = k
      /\ \A i \in 1..k : s[i] \in Frame
  BY ElementOfSeq
<1> HIDE DEF k
<1>2. /\ SubSeq(s, 1, k) \in Seq(Frame)
      /\ Len(SubSeq(s, 1, k)) = IF 1 <= k THEN k - 1 + 1 ELSE 0
      /\ \A i \in 1..(k - 1 + 1) : SubSeq(s, 1, k)[i] = s[1 + i - 1]
  BY <1>1, SubSeqProperties
<1>3. \A i \in 1..k : 1 + i - 1 = i
  BY <1>1
<1>4. (IF 1 <= k THEN k - 1 + 1 ELSE 0) = k
  BY <1>1
<1> QED  BY <1>1, <1>2, <1>3, <1>4 DEF k

\* A step that keeps the guest's frames and its place, the serial buffer and the
\* histories is judged by what it does to the event.
LEMMA EventStep ==
  ASSUME IInv, OnePlace', OutExits', EntryAccepted', There(Holder') = There(Holder),
         UNCHANGED <<at, frames, serial, accepted, delivered>>,
         slot' \in Events \cup {None}, entry' \in Events \cup {None},
         idtv' \in Events \cup {None},
         pc' \in {"user", "take", "enter", "deliver", "guest", "exit"},
         reason' \in {"none", "extint", "nmi", "exception", "io", "ept", "hlt"},
         gpa' \in Pages, ret' \in {"none", "hlt", "EIO", "ENOMEM"},
         {intr', shadow', nmiBlocked', idt', own', hostIrq'} \subseteq BOOLEAN,
         unasked' \in BOOLEAN,
         mapped' \subseteq Pages,
         nmis' \in 0..MaxNmi, hostIrqs' \in 0..MaxHostIrq, fails' \in 0..MaxFail
  PROVE  IInv'
<1>1. TypeOK'
  BY DEF IInv, TypeOK
<1>2. FramesMatch'
  BY DEF IInv, FramesMatch
<1>3. Conserved'
  BY <1>1, KeepsEvent
<1> QED  BY <1>1, <1>2, <1>3 DEF IInv

LEMMA Step == IInv /\ [Next]_vars => IInv'
<1> SUFFICES ASSUME IInv, [Next]_vars PROVE IInv'
  OBVIOUS
<1> USE EventConstantsOK DEF IInv, TypeOK, module, hardware, guest, counters
<1>1. CASE Run
  <2>1. OnePlace' /\ OutExits' /\ EntryAccepted'
    BY <1>1 DEF Run, OnePlace, OutExits, EntryAccepted, EntryChecks, None, Events,
                NMI
  <2>2. There(Holder') = There(Holder)
    BY <1>1 DEF Run, OnePlace, Holder, HolderOf, There, IsExt, None, NMI
  <2> QED
    BY <2>1, <2>2, <1>1, EventStep DEF Run, Events, OnePlace
<1>2. CASE TakeIntrInfo
  <2>1. OnePlace' /\ OutExits' /\ EntryAccepted'
    BY <1>2 DEF TakeIntrInfo, Blocking, OnePlace, OutExits, EntryAccepted,
                EntryChecks, None, Events, NMI
  <2>2. There(Holder') = There(Holder)
    BY <1>2 DEF TakeIntrInfo, Blocking, OnePlace, Holder, HolderOf, There, IsExt,
                None, NMI
  <2> QED
    BY <2>1, <2>2, <1>2, EventStep DEF TakeIntrInfo, Blocking, Events, OnePlace
<1>3. CASE Enter
  <2>1. OnePlace' /\ OutExits' /\ EntryAccepted'
    BY <1>3 DEF Enter, OnePlace, OutExits, EntryAccepted, EntryChecks, None,
                Events, NMI
  <2>2. There(Holder') = There(Holder)
    BY <1>3 DEF Enter, OnePlace, Holder, HolderOf, There, IsExt, None, NMI
  <2> QED
    BY <2>1, <2>2, <1>3, EventStep DEF Enter, Events, OnePlace
<1>4. CASE DeliveryFaults
  <2>1. OnePlace' /\ OutExits' /\ EntryAccepted'
    BY <1>4 DEF DeliveryFaults, Exit, OnePlace, OutExits, EntryAccepted,
                EntryChecks, None, Events, NMI
  <2>2. There(Holder') = There(Holder)
    BY <1>4 DEF DeliveryFaults, Exit, OnePlace, Holder, HolderOf, There, IsExt,
                None, NMI
  <2>3. /\ pc' = "exit" /\ entry' = None /\ idtv' = entry
        /\ reason' \in {"exception", "io", "ept", "hlt"} /\ gpa' \in Pages
        /\ UNCHANGED <<slot, ret, guest, mapped, serial, hostIrq, counters, accepted,
                       unasked, delivered>>
    BY <1>4 DEF DeliveryFaults, Exit
  <2> QED
    BY <2>1, <2>2, <2>3, EventStep DEF Events
<1>5. CASE HostInterrupt
  <2>1. OnePlace' /\ OutExits' /\ EntryAccepted'
    BY <1>5 DEF HostInterrupt, OnePlace, OutExits, EntryAccepted, EntryChecks,
                None, Events, NMI
  <2>2. There(Holder') = There(Holder)
    BY <1>5 DEF HostInterrupt, OnePlace, Holder, HolderOf, There, IsExt, None, NMI
  <2> QED
    BY <2>1, <2>2, <1>5, EventStep DEF HostInterrupt, Events, OnePlace
<1>6. CASE InterruptedByHost
  <2>1. OnePlace' /\ OutExits' /\ EntryAccepted'
    BY <1>6 DEF InterruptedByHost, Exit, OnePlace, OutExits, EntryAccepted,
                EntryChecks, None, Events, NMI
  <2>2. There(Holder') = There(Holder)
    BY <1>6 DEF InterruptedByHost, Exit, OnePlace, Holder, HolderOf, There, IsExt,
                None, NMI
  <2> QED
    BY <2>1, <2>2, <1>6, EventStep DEF InterruptedByHost, Exit, Events, OnePlace
<1>7. CASE HostNmi
  <2>1. OnePlace' /\ OutExits' /\ EntryAccepted'
    BY <1>7 DEF HostNmi, OnePlace, OutExits, EntryAccepted, EntryChecks, None,
                Events, NMI
  <2>2. There(Holder') = There(Holder)
    BY <1>7 DEF HostNmi, OnePlace, Holder, HolderOf, There, IsExt, None, NMI
  <2> QED
    BY <2>1, <2>2, <1>7, EventStep DEF HostNmi, Events, OnePlace
<1>8. CASE GuestExits
  <2>1. OnePlace' /\ OutExits' /\ EntryAccepted'
    BY <1>8 DEF GuestExits, Exit, OnePlace, OutExits, EntryAccepted, EntryChecks,
                None, Events, NMI
  <2>2. There(Holder') = There(Holder)
    BY <1>8 DEF GuestExits, Exit, OnePlace, Holder, HolderOf, There, IsExt, None,
                NMI
  <2>3. /\ pc' = "exit" /\ entry' = None /\ idtv' = None
        /\ reason' \in {"exception", "io", "ept", "hlt"} /\ gpa' \in Pages
        /\ UNCHANGED <<slot, ret, guest, mapped, serial, hostIrq, counters, accepted,
                       unasked, delivered>>
    BY <1>8 DEF GuestExits, Exit
  <2> QED
    BY <2>1, <2>2, <2>3, EventStep DEF Events
<1>9. CASE ExitExternalInterrupt
  <2>1. OnePlace' /\ OutExits' /\ EntryAccepted'
    BY <1>9 DEF ExitExternalInterrupt, Completed, Window, Back, OnePlace, OutExits,
                EntryAccepted, EntryChecks, None, Events, NMI
  <2>2. There(Holder') = There(Holder)
    BY <1>9 DEF ExitExternalInterrupt, Completed, Window, Back, OnePlace, Holder,
                HolderOf, There, IsExt, None, NMI
  <2> QED
    BY <2>1, <2>2, <1>9, EventStep DEF ExitExternalInterrupt, Completed, Window,
                                       Back, Events, OnePlace
<1>10. CASE ExitNmi
  <2>1. OnePlace' /\ OutExits' /\ EntryAccepted'
    BY <1>10 DEF ExitNmi, Completed, Back, OnePlace, OutExits, EntryAccepted,
                 EntryChecks, None, Events, NMI
  <2>2. There(Holder') = There(Holder)
    BY <1>10 DEF ExitNmi, Completed, Back, OnePlace, Holder, HolderOf, There,
                 IsExt, None, NMI
  <2> QED
    BY <2>1, <2>2, <1>10, EventStep DEF ExitNmi, Completed, Back, Events, OnePlace
<1>11. CASE ExitException
  <2>1. OnePlace' /\ OutExits' /\ EntryAccepted'
    BY <1>11 DEF ExitException, Completed, Return, OnePlace, OutExits,
                 EntryAccepted, EntryChecks, None, Events, NMI
  <2>2. There(Holder') = There(Holder)
    BY <1>11 DEF ExitException, Completed, Return, OnePlace, Holder, HolderOf,
                 There, IsExt, None, NMI
  <2> QED
    BY <2>1, <2>2, <1>11, EventStep DEF ExitException, Completed, Return, Events,
                                        OnePlace
<1>12. CASE ExitEptViolation
  <2>1. OnePlace' /\ OutExits' /\ EntryAccepted'
    BY <1>12 DEF ExitEptViolation, Completed, Leaf, Back, Return, EptFailure,
                 OnePlace, OutExits, EntryAccepted, EntryChecks, None, Events, NMI
  <2>2. There(Holder') = There(Holder)
    BY <1>12 DEF ExitEptViolation, Completed, Leaf, Back, Return, EptFailure,
                 OnePlace, Holder, HolderOf, There, IsExt, None, NMI
  <2>3. /\ slot' \in Events \cup {None} /\ pc' \in {"take", "user"}
        /\ ret' \in {ret, "ENOMEM"} /\ hostIrq' \in BOOLEAN
        /\ mapped' \subseteq Pages /\ fails' \in 0..MaxFail
        /\ UNCHANGED <<hardware, guest, serial, nmis, hostIrqs, accepted, unasked,
                       delivered>>
    <3>1. slot' \in Events \cup {None}
      BY <1>12 DEF ExitEptViolation, Completed, Events
    <3>2. CASE mapped' = mapped \cup {Leaf} /\ Back /\ UNCHANGED <<fails, hostIrq>>
      BY <1>12, <3>1, <3>2 DEF ExitEptViolation, Leaf, Back
    <3>3. CASE /\ fails < MaxFail /\ fails' = fails + 1 /\ Return(EptFailure)
               /\ UNCHANGED mapped
      <4>1. fails' \in 0..MaxFail
        BY <3>3
      <4>2. pc' = "user" /\ ret' = "ENOMEM" /\ hostIrq' = FALSE /\ mapped' = mapped
        BY <3>3 DEF Return, EptFailure
      <4>3. UNCHANGED <<hardware, guest, serial, nmis, hostIrqs, accepted, unasked,
                       delivered>>
        BY <1>12 DEF ExitEptViolation
      <4> QED  BY <3>1, <4>1, <4>2, <4>3
    <3> QED  BY <1>12, <3>2, <3>3 DEF ExitEptViolation
  <2> QED
    BY <2>1, <2>2, <2>3, EventStep
<1>13. CASE ExitHlt
  <2>1. OnePlace' /\ OutExits' /\ EntryAccepted'
    BY <1>13 DEF ExitHlt, Completed, Return, OnePlace, OutExits, EntryAccepted,
                 EntryChecks, None, Events, NMI
  <2>2. There(Holder') = There(Holder)
    BY <1>13 DEF ExitHlt, Completed, Return, OnePlace, Holder, HolderOf, There,
                 IsExt, None, NMI
  <2> QED
    BY <2>1, <2>2, <1>13, EventStep DEF ExitHlt, Completed, Return, Events, OnePlace
<1>14. ASSUME NEW v \in Vectors, InjectIrq(v) PROVE IInv'
  <2>1. slot' = v /\ slot = None /\ pc = "user" /\ entry = None /\ v \in Events
        /\ v \in 32..255
    BY <1>14 DEF InjectIrq, OnePlace, Events
  <2>2. TypeOK'
    BY <1>14, <2>1 DEF InjectIrq
  <2>3. OnePlace' /\ FramesMatch' /\ OutExits' /\ EntryAccepted'
    BY <1>14 DEF InjectIrq, OnePlace, FramesMatch, OutExits, EntryAccepted,
                 EntryChecks
  <2>4. There(Holder) = <<>> /\ There(Holder') = <<v>>
    BY <1>14, <2>1 DEF InjectIrq, Holder, HolderOf, There, IsExt, None
  <2>5. accepted = delivered
    BY <2>4, AcceptedIs, ConcatEmptySeq
  <2>6. accepted' = delivered' \o <<v>>
    BY <1>14, <2>5 DEF InjectIrq
  <2> QED  BY <2>2, <2>3, <2>4, <2>6, ConservedIf
<1>15. CASE Deliver
  <2>1. pc = "deliver" /\ entry # None /\ slot = None /\ entry \in Events
    BY <1>15 DEF Deliver, OnePlace, Events
  <2>2. TypeOK'
    <3>1. [at |-> at, intr |-> intr, own |-> own] \in Frame
      BY DEF Frame, Points, Handlers
    <3>2. frames' \in Seq(Frame)
      BY <1>15, <3>1 DEF Deliver, Frame, Points, Handlers
    <3>3. delivered' \in Seq(Vectors)
      BY <1>15, <2>1 DEF Deliver, IsExt, Events, NMI
    <3> QED  BY <1>15, <3>2, <3>3 DEF Deliver, Frame, Points, Handlers
  <2>3. OnePlace' /\ OutExits' /\ EntryAccepted'
    BY <1>15, <2>1 DEF Deliver, OnePlace, OutExits, EntryAccepted
  <2>4. FramesMatch'
    <3>1. frames \in Seq(Frame) /\ [at |-> at, intr |-> intr, own |-> own].at = at
      BY DEF Frame, Points, Handlers
    <3>2. CASE frames = <<>>
      BY <1>15, <3>1, <3>2 DEF Deliver, FramesMatch
    <3>3. CASE frames # <<>>
      <4> DEFINE f == [at |-> at, intr |-> intr, own |-> own]
      <4>1. f \in Frame /\ frames' = Append(frames, f)
        BY <1>15 DEF Deliver, Frame, Points, Handlers
      <4> HIDE DEF f
      <4>2. Len(frames) \in Nat \ {0}
        BY <3>1, <3>3, EmptySeq
      <4>3. frames'[1] = frames[1] /\ frames' # <<>>
        BY <3>1, <4>1, <4>2, AppendProperties, EmptySeq
      <4> QED  BY <4>3, <3>3 DEF FramesMatch
    <3> QED  BY <3>2, <3>3
  <2>5. There(Holder) = There(entry) /\ There(Holder') = <<>>
    BY <1>15, <2>1 DEF Deliver, Holder, HolderOf, There, IsExt, None
  <2>6. accepted' = delivered \o There(entry)
    BY <1>15, <2>5, AcceptedIs DEF Deliver
  <2>7. delivered' = delivered \o There(entry)
    <3>1. CASE IsExt(entry)
      <4>1. There(entry) = <<entry>> /\ delivered' = Append(delivered, entry)
        BY <1>15, <3>1 DEF Deliver, There
      <4>2. delivered \in Seq(Vectors) /\ entry \in Vectors
        BY <2>1, <3>1 DEF Events, NMI, IsExt
      <4>3. Append(delivered, entry) = delivered \o <<entry>>
        BY <4>2, AppendIsConcat
      <4> QED  BY <4>1, <4>3
    <3>2. CASE ~IsExt(entry)
      BY <1>15, <3>2, ConcatEmptySeq DEF Deliver, There
    <3> QED  BY <3>1, <3>2
  <2>8. accepted' = delivered' \o <<>>
    BY <2>2, <2>6, <2>7, ConcatEmptySeq
  <2> QED  BY <2>2, <2>3, <2>4, <2>5, <2>8, ConservedIf
<1>16. CASE GuestRuns
  <2>1. /\ pc = "guest" /\ pc' = "guest"
        /\ UNCHANGED <<slot, ret, entry, idtv, reason, gpa, mapped, serial, hostIrq,
                       nmis, hostIrqs, fails, accepted, unasked, delivered>>
    BY <1>16 DEF GuestRuns
  <2>2. OnePlace' /\ OutExits' /\ EntryAccepted' /\ There(Holder') = There(Holder)
    BY <2>1 DEF OnePlace, OutExits, EntryAccepted, Holder, HolderOf
  <2>3. TypeOK' /\ FramesMatch'
    <3>1. CASE at \in {"boot", "sti"}
      <4>1. at' \in {"hello", "hlt"} /\ frames' = frames /\ nmiBlocked' = nmiBlocked
        BY <1>16, <3>1 DEF GuestRuns
      <4>2. /\ intr' \in {intr, TRUE} /\ own' \in {own, TRUE}
            /\ shadow' \in {shadow, ~intr} /\ idt' \in {idt, TRUE}
        BY <1>16, <3>1 DEF GuestRuns
      <4>3. {intr', shadow', nmiBlocked', idt', own', hostIrq'} \subseteq BOOLEAN
        <5>1. /\ intr \in BOOLEAN /\ shadow \in BOOLEAN /\ nmiBlocked \in BOOLEAN
              /\ idt \in BOOLEAN /\ own \in BOOLEAN /\ hostIrq \in BOOLEAN
          OBVIOUS
        <5>2. /\ intr' \in BOOLEAN /\ own' \in BOOLEAN /\ idt' \in BOOLEAN
              /\ nmiBlocked' \in BOOLEAN /\ hostIrq' \in BOOLEAN
          BY <2>1, <4>1, <4>2, <5>1
        <5>3. shadow' \in BOOLEAN
          BY <4>2, <5>1
        <5> QED  BY <5>2, <5>3
      <4> QED  BY <2>1, <4>1, <4>3 DEF FramesMatch, Handlers
    <3>2. CASE at = "iretq"
      <4> DEFINE n == Len(frames)
                 top == frames[n]
      <4>1. frames \in Seq(Frame) /\ n \in Nat \ {0} /\ top \in Frame
        <5>1. frames \in Seq(Frame)
          BY DEF Frame, Points, Handlers
        <5>2. frames # <<>>
          BY <3>2 DEF FramesMatch, Handlers
        <5>3. n \in Nat \ {0}
          BY <5>1, <5>2, EmptySeq
        <5> QED  BY <5>1, <5>3, ElementOfSeq
      <4>2. /\ at' = top.at /\ intr' = top.intr /\ own' = top.own
            /\ frames' = SubSeq(frames, 1, n - 1)
            /\ shadow' = FALSE /\ nmiBlocked' = FALSE /\ idt' = idt
        BY <1>16, <3>2 DEF GuestRuns
      <4>3. /\ frames' \in Seq(Frame) /\ Len(frames') = n - 1
            /\ \A i \in 1..(n - 1) : frames'[i] = frames[i]
        BY <4>1, <4>2, Shortened
      <4> HIDE DEF n, top
      <4>4. at' \in Points /\ intr' \in BOOLEAN /\ own' \in BOOLEAN
        BY <4>1, <4>2 DEF Frame
      <4>5. {intr', shadow', nmiBlocked', idt', own', hostIrq'} \subseteq BOOLEAN
        BY <2>1, <4>2, <4>4
      <4>6. TypeOK'
        BY <2>1, <4>3, <4>4, <4>5 DEF Frame, Points, Handlers
      <4>7. CASE n = 1
        <5>1. top = frames[1] /\ frames # <<>>
          BY <4>1, <4>7, EmptySeq DEF n, top
        <5>2. frames' = <<>>
          BY <4>3, <4>7, EmptySeq
        <5> QED  BY <4>2, <4>6, <5>1, <5>2 DEF FramesMatch
      <4>8. CASE n > 1
        <5>1. frames'[1] = frames[1] /\ frames' # <<>> /\ frames # <<>>
          BY <4>1, <4>3, <4>8, EmptySeq DEF n
        <5> QED  BY <4>6, <5>1 DEF FramesMatch
      <4> QED  BY <4>1, <4>7, <4>8
    <3> QED  BY <1>16, <3>1, <3>2 DEF GuestRuns
  <2> QED  BY <2>1, <2>2, <2>3, KeepsEvent
<1>17. CASE ExitIo
  <2>1. OnePlace' /\ OutExits' /\ EntryAccepted'
    BY <1>17 DEF ExitIo, Completed, Back, OnePlace, OutExits, EntryAccepted,
                 EntryChecks, None,
              Events, NMI
  <2>2. There(Holder') = There(Holder)
    BY <1>17 DEF ExitIo, Completed, Back, OnePlace, Holder, HolderOf, There, IsExt,
              None, NMI
  <2>3. serial' \in Seq({None, TestVector}) /\ Len(serial') < SerialSize
    <3>1. CASE SerialRoom
      BY <1>17, <3>1 DEF ExitIo, SerialOut, SerialRoom
    <3>2. CASE ~SerialRoom
      BY <1>17, <3>2 DEF ExitIo, SerialOut
    <3> QED  BY <3>1, <3>2
  <2>4. TypeOK' /\ FramesMatch'
    BY <1>17, <2>3 DEF ExitIo, Completed, Back, AfterOut, FramesMatch, OutExits,
                       Handlers,
                       Events
  <2> QED  BY <1>17, <2>1, <2>2, <2>4, KeepsEvent DEF ExitIo
<1>18. CASE UNCHANGED vars
  <2>1. TypeOK' /\ OnePlace' /\ FramesMatch' /\ OutExits' /\ EntryAccepted'
    BY <1>18 DEF vars, OnePlace, FramesMatch, OutExits, EntryAccepted, EntryChecks
  <2>2. Conserved'
    BY <1>18 DEF vars, Conserved, InFlight
  <2> QED  BY <2>1, <2>2
<1> QED
  BY <1>1, <1>2, <1>3, <1>4, <1>5, <1>6, <1>7, <1>8, <1>9, <1>10, <1>11, <1>12,
      <1>13,
     <1>14, <1>15, <1>16, <1>17, <1>18 DEF Next, Inject, Guest, Handle

-----------------------------------------------------------------------------
(* The theorems.                                                           *)

LEMMA Always == Spec => []IInv
<1> QED  BY InitIInv, Step, PTL DEF Spec

\* Types are kept; the serial buffer keeps room for its terminator.
THEOREM TypeCorrect == Spec => []TypeOK
<1>1. IInv => TypeOK
  BY DEF IInv
<1> QED  BY Always, <1>1, PTL

\* Every interrupt INJECT_IRQ accepted is in exactly one place: delivered, or
\* the one event in flight, in the order of acceptance.
THEOREM EventsAreConserved == Spec => []Conserved
<1>1. IInv => Conserved
  BY DEF IInv
<1> QED  BY Always, <1>1, PTL

\* The processor never refuses a VM entry because of the event it injects.
THEOREM EntriesAreAccepted == Spec => []EntryAccepted
<1>1. IInv => EntryAccepted
  BY DEF IInv
<1> QED  BY Always, <1>1, PTL

-----------------------------------------------------------------------------
(* Injection into a halted guest.                                          *)

\* The guest halts with its interrupts enabled, also when it comes back to the
\* HLT from a handler, so the event in flight finds them enabled.
HaltedOpen ==
  /\ at = "hlt" => own
  /\ \A n \in 1..Len(frames) : frames[n].at = "hlt" => frames[n].own
  /\ pc = "exit" /\ reason = "hlt" => at = "hlt"
  /\ pc = "user" /\ ret = "hlt" => at = "hlt"
  /\ IsExt(Holder) /\ ~unasked => own

LEMMA InitHaltedOpen == Init => HaltedOpen
BY DEF Init, HaltedOpen, Holder, HolderOf, IsExt, None

LEMMA HaltedOpenStep ==
  ASSUME IInv, HaltedOpen, [Next]_vars
  PROVE  HaltedOpen'
<1> USE DEF module, hardware, guest, counters
<1>1. CASE Run
  BY <1>1 DEF Run, IInv, OnePlace, HaltedOpen, Holder, HolderOf, IsExt, None, NMI
<1>2. CASE TakeIntrInfo
  BY <1>2 DEF TakeIntrInfo, Blocking, IInv, OnePlace, HaltedOpen, Holder, HolderOf,
              IsExt, None, NMI
<1>3. CASE Enter
  BY <1>3 DEF Enter, IInv, OnePlace, HaltedOpen, Holder, HolderOf, IsExt, None, NMI
<1>4. CASE DeliveryFaults
  BY <1>4 DEF DeliveryFaults, Exit, IInv, OnePlace, HaltedOpen, Holder, HolderOf,
              IsExt, None, NMI
<1>5. CASE HostInterrupt
  BY <1>5 DEF HostInterrupt, IInv, OnePlace, HaltedOpen, Holder, HolderOf, IsExt,
              None, NMI
<1>6. CASE InterruptedByHost
  BY <1>6 DEF InterruptedByHost, Exit, IInv, OnePlace, HaltedOpen, Holder,
              HolderOf, IsExt, None, NMI
<1>7. CASE HostNmi
  BY <1>7 DEF HostNmi, IInv, OnePlace, HaltedOpen, Holder, HolderOf, IsExt, None,
              NMI
<1>8. CASE GuestExits
  BY <1>8 DEF GuestExits, Exit, IInv, OnePlace, HaltedOpen, Holder, HolderOf,
              IsExt, None, NMI
<1>9. CASE ExitExternalInterrupt
  BY <1>9 DEF ExitExternalInterrupt, Completed, Window, Back, IInv, OnePlace,
              HaltedOpen, Holder, HolderOf, IsExt, None, NMI
<1>10. CASE ExitNmi
  BY <1>10 DEF ExitNmi, Completed, Back, IInv, OnePlace, HaltedOpen, Holder,
               HolderOf, IsExt, None, NMI
<1>11. CASE ExitException
  BY <1>11 DEF ExitException, Completed, Return, IInv, OnePlace, HaltedOpen,
               Holder, HolderOf, IsExt, None, NMI
<1>12. CASE ExitEptViolation
  BY <1>12 DEF ExitEptViolation, Completed, Leaf, Back, Return, EptFailure, IInv,
               OnePlace, HaltedOpen, Holder, HolderOf, IsExt, None, NMI
<1>13. CASE ExitHlt
  BY <1>13 DEF ExitHlt, Completed, Return, IInv, OnePlace, HaltedOpen, Holder,
               HolderOf, IsExt, None, NMI
<1>14. CASE Inject
  <2>1. PICK v \in Vectors : InjectIrq(v)
    BY <1>14 DEF Inject
  <2>2. pc = "user" /\ pc' = "user" /\ UNCHANGED <<at, own, frames, ret, reason>>
    BY <2>1 DEF InjectIrq
  <2>3. IsExt(Holder') /\ ~unasked' => own'
    <3>1. ret = "hlt" => own'
      BY <2>2 DEF HaltedOpen
    <3>2. ret # "hlt" => unasked'
      BY <2>1 DEF InjectIrq, AtHlt
    <3> QED  BY <3>1, <3>2
  <2> QED
    BY <2>2, <2>3 DEF HaltedOpen
<1>15. CASE Deliver
  <2>1. frames \in Seq(Frame) /\ IInv
    BY DEF IInv, TypeOK, Frame, Points, Handlers
  <2> DEFINE f == [at |-> at, intr |-> intr, own |-> own]
  <2>2. f \in Frame /\ frames' = Append(frames, f) /\ f.at = at /\ f.own = own
    BY <1>15 DEF Deliver, IInv, TypeOK, Frame, Points, Handlers
  <2> HIDE DEF f
  <2>3. \A n \in 1..Len(frames') : frames'[n].at = "hlt" => frames'[n].own
    <3> SUFFICES ASSUME NEW n \in 1..Len(frames'), frames'[n].at = "hlt"
                 PROVE  frames'[n].own
      OBVIOUS
    <3>1. Len(frames') = Len(frames) + 1 /\ Len(frames) \in Nat
      BY <2>1, <2>2, AppendProperties, LenProperties
    <3>2. CASE n = Len(frames) + 1
      BY <2>1, <2>2, <3>2, AppendProperties DEF HaltedOpen
    <3>3. CASE n # Len(frames) + 1
      <4>1. n \in 1..Len(frames)
        BY <3>1, <3>3
      <4> QED  BY <2>1, <2>2, <4>1, AppendProperties DEF HaltedOpen
    <3> QED  BY <3>2, <3>3
  <2> QED  BY <1>15, <2>3 DEF Deliver, HaltedOpen, Holder, HolderOf, IsExt, None
<1>16. CASE GuestRuns
  <2>1. pc = "guest" /\ pc' = "guest" /\ UNCHANGED <<reason, ret>>
    BY <1>16 DEF GuestRuns
  <2>2. CASE at \in {"boot", "sti"}
    BY <1>16, <2>1, <2>2 DEF GuestRuns, HaltedOpen, Holder, HolderOf, IsExt, None
  <2>3. CASE at = "iretq"
    <3> DEFINE n == Len(frames)
    <3>1. n \in Nat \ {0} /\ frames \in Seq(Frame)
      BY <2>3, EmptySeq DEF IInv, TypeOK, FramesMatch, Frame, Points, Handlers
    <3>2. /\ at' = frames[n].at /\ own' = frames[n].own
          /\ frames' = SubSeq(frames, 1, n - 1)
      BY <1>16, <2>3 DEF GuestRuns
    <3> HIDE DEF n
    <3>3. Len(frames') = n - 1 /\ \A i \in 1..(n - 1) : frames'[i] = frames[i]
      BY <3>1, <3>2, Shortened DEF n
    <3>4. \A i \in 1..Len(frames') : i \in 1..n /\ frames'[i] = frames[i]
      BY <3>1, <3>3
    <3>5. at' = "hlt" => own'
      <4>1. n \in 1..Len(frames)
        BY <3>1 DEF n
      <4>2. frames[n].at = "hlt" => frames[n].own
        BY <4>1 DEF HaltedOpen
      <4> QED  BY <3>2, <4>2
    <3>6. \A i \in 1..Len(frames') : frames'[i].at = "hlt" => frames'[i].own
      BY <3>4 DEF HaltedOpen, n
    <3> QED
      BY <2>1, <3>5, <3>6 DEF HaltedOpen, Holder, HolderOf, IsExt, None
  <2> QED  BY <1>16, <2>2, <2>3 DEF GuestRuns
<1>17. CASE ExitIo
  BY <1>17 DEF ExitIo, Completed, Back, AfterOut, IInv, OnePlace, HaltedOpen,
               Holder,
            HolderOf, IsExt, None
<1>18. CASE UNCHANGED vars
  BY <1>18 DEF vars, HaltedOpen, Holder
<1> QED
  BY <1>1, <1>2, <1>3, <1>4, <1>5, <1>6, <1>7, <1>8, <1>9, <1>10, <1>11, <1>12,
      <1>13,
     <1>14, <1>15, <1>16, <1>17, <1>18 DEF Next, Guest, Handle

\* An interrupt injected into a halted guest is never forced on it: it is delivered
\* with interrupts enabled by the guest, whatever else user space injects and when.
THEOREM IfIsRespected == Spec => []IfRespected
<1>1. Init => HaltedOpen
  BY InitHaltedOpen
<1>2. IInv /\ HaltedOpen /\ [Next]_vars => HaltedOpen'
  BY HaltedOpenStep
<1>3. HaltedOpen => IfRespected
  BY DEF HaltedOpen, IfRespected, Holder, HolderOf
<1> QED  BY Always, <1>1, <1>2, <1>3, PTL DEF Spec
=============================================================================
