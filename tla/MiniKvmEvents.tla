--------------------------- MODULE MiniKvmEvents ---------------------------
(***************************************************************************)
(* Event injection of a mini-kvm vCPU: MINI_KVM_VCPU_INJECT_IRQ, the slot  *)
(* pending_intr_info, the exits of the run loop and what each does to the  *)
(* event in flight (phase9-capstone/practice/mini-kvm: interrupt.c, the    *)
(* loop in vcpu.c, device.c, ept.c), together with the processor that      *)
(* delivers the event and the guest of guest/guest.S that handles it.      *)
(*                                                                         *)
(* Both ioctls run under vcpu->mutex, so one thread at a time is here; the *)
(* hardware interleaves: an EPT violation may interrupt a delivery, and    *)
(* host interrupts and host NMIs arrive between any two instructions.      *)
(***************************************************************************)
EXTENDS Naturals, Sequences

CONSTANTS
  Vectors,     \* external vectors user space injects
  TestVector,  \* the one whose handler prints (0x21)
  Pages,       \* guest pages, mapped on first access
  SerialSize,  \* MINI_KVM_SERIAL_SIZE, counted in messages
  MaxInject, MaxNmi, MaxHostIrq, MaxFail  \* bounds

ASSUME EventConstantsOK ==
  /\ Vectors \subseteq 32..255 /\ TestVector \in Vectors
  /\ SerialSize \in Nat \ {0}
  /\ MaxInject \in Nat /\ MaxNmi \in Nat /\ MaxHostIrq \in Nat /\ MaxFail \in Nat

VARIABLES
  slot,                            \* vcpu->pending_intr_info
  entry, idtv,                     \* VM-entry and IDT-vectoring information
  pc, reason, gpa, ret,            \* the run loop, its exit, what RUN returned
  at, intr, shadow, nmiBlocked,    \* guest: program point, RFLAGS.IF, blocking
  idt, frames,                     \* guest: lidt done, interrupt frames
  mapped, serial,                  \* EPT leaves, kvm->serial
  hostIrq, nmis, hostIrqs, fails,  \* host interrupt pending, counters
  own, accepted, delivered,        \* history: the guest's own IF, the events,
  unasked                          \* the last was injected into a guest not halted

module   == <<slot, pc, ret>>
hardware == <<entry, idtv, reason, gpa>>
guest    == <<at, intr, shadow, nmiBlocked, idt, frames, own>>
counters == <<nmis, hostIrqs, fails>>
vars == <<module, hardware, guest, mapped, serial, hostIrq, counters,
          accepted, delivered, unasked>>

None == 0
NMI == 2
Events == Vectors \cup {NMI}
IsExt(e) == e >= 32

TypeOK ==
  /\ slot \in Events \cup {None} /\ entry \in Events \cup {None}
  /\ idtv \in Events \cup {None}
  /\ pc \in {"user", "take", "enter", "deliver", "guest", "exit"}
  /\ reason \in {"none", "extint", "nmi", "exception", "io", "ept", "hlt"}
  /\ gpa \in Pages
  /\ ret \in {"none", "hlt", "EIO", "ENOMEM"}
  /\ at \in {"boot", "hello", "sti", "hlt", "irq_handler", "iretq"}
  /\ {intr, shadow, nmiBlocked, idt, own, hostIrq} \subseteq BOOLEAN
  /\ frames \in Seq([at : {"boot", "hello", "sti", "hlt", "irq_handler", "iretq"},
                     intr : BOOLEAN, own : BOOLEAN])
  /\ mapped \subseteq Pages
  /\ serial \in Seq({None, TestVector}) /\ Len(serial) < SerialSize
  /\ nmis \in 0..MaxNmi /\ hostIrqs \in 0..MaxHostIrq /\ fails \in 0..MaxFail
  /\ accepted \in Seq(Vectors) /\ delivered \in Seq(Vectors) /\ unasked \in BOOLEAN

Init ==
  /\ slot = None /\ entry = None /\ idtv = None
  /\ pc = "user" /\ reason = "none" /\ gpa \in Pages /\ ret = "none"
  /\ at = "boot" /\ intr = FALSE /\ shadow = FALSE /\ nmiBlocked = FALSE
  /\ idt = FALSE /\ frames = <<>> /\ own = FALSE
  /\ mapped = {} /\ serial = <<>> /\ hostIrq = FALSE
  /\ nmis = 0 /\ hostIrqs = 0 /\ fails = 0
  /\ accepted = <<>> /\ delivered = <<>> /\ unasked = FALSE

-----------------------------------------------------------------------------
(* The two ioctls.                                                         *)

\* KVM_RUN has returned from the HLT with which the guest waits for interrupts.
AtHlt == ret = "hlt"

\* mini_vcpu_inject_irq(), whatever the guest is doing; a vector below 32 and a
\* full slot are refused.
InjectIrq(v) ==
  /\ pc = "user"
  /\ Len(accepted) < MaxInject
  /\ slot = None
  /\ slot' = v
  /\ accepted' = Append(accepted, v)
  /\ unasked' = ~AtHlt
  /\ UNCHANGED <<pc, ret, hardware, guest, mapped, serial, hostIrq, counters,
                 delivered>>

Run ==
  /\ pc = "user"
  /\ pc' = "take" /\ ret' = "none"
  /\ UNCHANGED <<slot, hardware, guest, mapped, serial, hostIrq, counters,
                 accepted, unasked, delivered>>

\* The head of the loop: take the event, open the guest to it.
Blocking_ignored == UNCHANGED shadow
Blocking == shadow' = (slot = None /\ shadow)

TakeIntrInfo ==
  /\ pc = "take"
  /\ entry' = slot /\ slot' = None
  /\ intr' = (slot # None \/ intr)
  /\ Blocking
  /\ pc' = "enter"
  /\ UNCHANGED <<ret, idtv, reason, gpa, at, nmiBlocked, idt, frames, own, mapped,
                 serial, hostIrq, counters, accepted, unasked, delivered>>

-----------------------------------------------------------------------------
(* The processor and the guest.                                            *)

\* The checks of a VM entry that injects (SDM 27.3.1.4, 27.3.1.5).
EntryChecks == entry # None => ~shadow /\ (IsExt(entry) => intr)

Enter ==
  /\ pc = "enter" /\ EntryChecks
  /\ pc' = IF entry = None THEN "guest" ELSE "deliver"
  /\ UNCHANGED <<slot, ret, hardware, guest, mapped, serial, hostIrq, counters,
                 accepted, unasked, delivered>>

\* Every exit clears the valid bit of the entry field and records the event
\* whose delivery it interrupted.
Exit(why, event) ==
  /\ pc' = "exit" /\ reason' = why
  /\ idtv' = event /\ entry' = None
  /\ UNCHANGED <<slot, ret, guest, mapped, serial, counters,
                 accepted, unasked, delivered>>

DeliveryFaults ==
  /\ pc = "deliver"
  /\ \/ \E p \in Pages \ mapped : gpa' = p /\ Exit("ept", entry)
     \/ ~idt /\ Exit("exception", entry) /\ UNCHANGED gpa
  /\ UNCHANGED hostIrq

Deliver ==
  /\ pc = "deliver" /\ idt
  /\ frames' = Append(frames, [at |-> at, intr |-> intr, own |-> own])
  /\ at' = IF entry = TestVector THEN "irq_handler" ELSE "iretq"
  /\ intr' = FALSE /\ own' = FALSE
  /\ nmiBlocked' = (nmiBlocked \/ entry = NMI)
  /\ delivered' = IF IsExt(entry) THEN Append(delivered, entry) ELSE delivered
  /\ entry' = None
  /\ pc' = "guest"
  /\ UNCHANGED <<slot, ret, idtv, reason, gpa, shadow, idt, mapped, serial, hostIrq,
                 counters, accepted, unasked>>

\* In user space interrupts are enabled, so none stays pending.
HostInterrupt ==
  /\ pc # "user" /\ hostIrqs < MaxHostIrq /\ ~hostIrq
  /\ hostIrq' = TRUE /\ hostIrqs' = hostIrqs + 1
  /\ UNCHANGED <<module, hardware, guest, mapped, serial, nmis, fails,
                 accepted, unasked, delivered>>

\* A pending host interrupt ends the guest's run at the next instruction.
InterruptedByHost ==
  /\ pc = "guest" /\ hostIrq
  /\ Exit("extint", None) /\ UNCHANGED <<gpa, hostIrq>>

HostNmi ==
  /\ pc = "guest" /\ nmis < MaxNmi
  /\ nmis' = nmis + 1
  /\ pc' = "exit" /\ reason' = "nmi" /\ idtv' = None /\ entry' = None
  /\ UNCHANGED <<slot, ret, gpa, guest, mapped, serial, hostIrq, hostIrqs, fails,
                 accepted, unasked, delivered>>

\* An instruction of the guest that exits: a first touch of a page, OUT, HLT.
GuestExits ==
  /\ pc = "guest" /\ ~hostIrq
  /\ \/ \E p \in Pages \ mapped : gpa' = p /\ Exit("ept", None)
     \/ at \in {"hello", "irq_handler"} /\ Exit("io", None) /\ UNCHANGED gpa
     \/ at = "hlt" /\ Exit("hlt", None) /\ UNCHANGED gpa
  /\ UNCHANGED hostIrq

\* lidt; sti, which blocks interrupts for one instruction; iretq.
GuestRuns ==
  /\ pc = "guest" /\ ~hostIrq
  /\ \/ /\ at = "boot"
        /\ at' = "hello" /\ idt' = TRUE
        /\ UNCHANGED <<intr, shadow, nmiBlocked, frames, own>>
     \/ /\ at = "sti"
        /\ at' = "hlt" /\ intr' = TRUE /\ own' = TRUE /\ shadow' = ~intr
        /\ UNCHANGED <<nmiBlocked, idt, frames>>
     \/ /\ at = "iretq"
        /\ LET top == frames[Len(frames)] IN
             at' = top.at /\ intr' = top.intr /\ own' = top.own
        /\ frames' = SubSeq(frames, 1, Len(frames) - 1)
        /\ shadow' = FALSE /\ nmiBlocked' = FALSE
        /\ UNCHANGED idt
  /\ UNCHANGED <<module, hardware, mapped, serial, hostIrq, counters,
                 accepted, unasked, delivered>>

-----------------------------------------------------------------------------
(* The exits.                                                              *)

\* mini_vcpu_complete_intr_info(): an external interrupt whose delivery was
\* interrupted goes back to the slot, anything else is dropped.
Completed_dropped == None
Completed == IF IsExt(idtv) THEN idtv ELSE None

Back == pc' = "take" /\ UNCHANGED ret

\* Every return to user space enables interrupts, so a pending one is taken.
Return(r) == pc' = "user" /\ ret' = r /\ hostIrq' = FALSE

\* The window of enabled interrupts has room for one instruction.
Window == hostIrq' = FALSE

ExitExternalInterrupt ==
  /\ pc = "exit" /\ reason = "extint"
  /\ slot' = Completed
  /\ Window /\ Back
  /\ UNCHANGED <<hardware, guest, mapped, serial, counters,
                 accepted, unasked, delivered>>

\* mini_vcpu_reinject_nmi()
ExitNmi ==
  /\ pc = "exit" /\ reason = "nmi"
  /\ slot' = IF nmiBlocked \/ Completed # None THEN Completed ELSE NMI
  /\ Back
  /\ UNCHANGED <<hardware, guest, mapped, serial, hostIrq, counters,
                 accepted, unasked, delivered>>

\* A guest exception ends the run.
ExitException ==
  /\ pc = "exit" /\ reason = "exception"
  /\ slot' = Completed
  /\ Return("EIO")
  /\ UNCHANGED <<hardware, guest, mapped, serial, counters,
                 accepted, unasked, delivered>>

\* mini_serial_out(): a linear buffer that drops what no longer fits.
SerialRoom == Len(serial) < SerialSize - 1
SerialOut(message) == serial' = IF SerialRoom THEN Append(serial, message) ELSE serial

\* mini_handle_io_exit(), with interrupts enabled: capture the message, step over
\* the OUT.
AfterOut == IF at = "hello" THEN "sti" ELSE "iretq"

ExitIo ==
  /\ pc = "exit" /\ reason = "io"
  /\ slot' = Completed
  /\ SerialOut(IF at = "hello" THEN None ELSE TestVector)
  /\ at' = AfterOut
  /\ hostIrq' = FALSE /\ Back
  /\ UNCHANGED <<hardware, intr, shadow, nmiBlocked, idt, frames, own, mapped,
                 counters, accepted, unasked, delivered>>

Leaf_always_first == CHOOSE p \in Pages : TRUE
Leaf == gpa
EptFailure_unreported == "hlt"
EptFailure == "ENOMEM"

\* mini_ept_handle_violation(): the page is mapped, or a table page is missing.
ExitEptViolation ==
  /\ pc = "exit" /\ reason = "ept"
  /\ slot' = Completed
  /\ \/ mapped' = mapped \cup {Leaf} /\ Back /\ UNCHANGED <<fails, hostIrq>>
     \/ /\ fails < MaxFail
        /\ fails' = fails + 1 /\ Return(EptFailure) /\ UNCHANGED mapped
  /\ UNCHANGED <<hardware, guest, serial, nmis, hostIrqs,
                 accepted, unasked, delivered>>

ExitHlt ==
  /\ pc = "exit" /\ reason = "hlt"
  /\ slot' = Completed
  /\ Return("hlt")
  /\ UNCHANGED <<hardware, guest, mapped, serial, counters,
                 accepted, unasked, delivered>>

Handle == \/ ExitExternalInterrupt \/ ExitNmi \/ ExitException \/ ExitIo
          \/ ExitEptViolation \/ ExitHlt

Inject == \E v \in Vectors : InjectIrq(v)
Guest == Enter \/ DeliveryFaults \/ Deliver \/ InterruptedByHost \/ GuestExits
         \/ GuestRuns

Next == Inject \/ Run \/ TakeIntrInfo \/ Guest \/ HostInterrupt \/ HostNmi \/ Handle

Spec == Init /\ [][Next]_vars

\* User space calls KVM_RUN again, the loop and the guest proceed.
FairSpec == Spec /\ WF_vars(Run) /\ WF_vars(TakeIntrInfo) /\ WF_vars(Guest)
                 /\ WF_vars(Handle)

-----------------------------------------------------------------------------
(* Properties.                                                             *)

\* No accepted interrupt is lost, repeated or reordered: those delivered,
\* followed by the one in the slot, in the entry field or recorded by the exit,
\* are those accepted.
There(e) == IF IsExt(e) THEN <<e>> ELSE <<>>
InFlight ==
  There(entry) \o There(slot) \o (IF pc = "exit" THEN There(idtv) ELSE <<>>)
Conserved == accepted = delivered \o InFlight

\* The processor never refuses the entry because of the injected event.
EntryAccepted == pc = "enter" => EntryChecks

\* An interrupt injected into a halted guest reaches it with interrupts enabled by
\* the guest itself, however its delivery is interrupted and resumed: there forcing
\* RFLAGS.IF changes nothing (interrupt.c:27-28).  One injected at another time is
\* forced on the guest.
IfRespected == pc = "deliver" /\ IsExt(entry) /\ ~unasked => own

\* KVM_RUN comes back: neither host interrupts nor faults keep the guest from
\* the HLT that ends its work.
RunReturns == pc # "user" ~> pc = "user"

\* An accepted interrupt reaches the guest, if user space keeps running it and the
\* guest has loaded its IDT; before that every delivery faults.
EveryIrqDelivered ==
  \A n \in 1..MaxInject : idt /\ Len(accepted) >= n ~> Len(delivered) >= n
=============================================================================
