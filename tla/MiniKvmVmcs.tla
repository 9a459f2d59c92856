---------------------------- MODULE MiniKvmVmcs ----------------------------
(***************************************************************************)
(* Which VMCS is where: the mini-kvm kernel module's handling of the       *)
(* per-vCPU VMCS across physical CPUs (phase9-capstone/practice/mini-kvm). *)
(*                                                                         *)
(* Threads create, run and close vCPUs through the vCPU fd.  A thread that *)
(* has not disabled preemption may find itself on another CPU at each of   *)
(* its steps; a thread inside the run loop stays on the CPU it pinned.     *)
(* The processor side (current VMCS, active VMCSs, launch state, cached    *)
(* guest-physical translations) is modelled from the instructions the      *)
(* module executes and from the SDM rules its comments quote.              *)
(*                                                                         *)
(* A vCPU is identified with the page frame of its VMCS and with its EPTP: *)
(* mini-kvm has one vCPU per VM.  Closing the vCPU frees both frames and a *)
(* later creation may get them back.                                       *)
(***************************************************************************)
EXTENDS Naturals

CONSTANTS
  Cpus,      \* logical processors that run threads
  VCpus,     \* VMCS page frames, one per vCPU that exists at a time
  Threads,   \* user threads issuing the ioctls
  Creators,  \* the threads that issue KVM_CREATE_VCPU
  Placements, \* how user space and the machine may be set up: see Placement
  NoCpu, NoVcpu, NoThread

\* use: the fds each thread holds; affinity: its sched_setaffinity(2);
\* vmx: the CPUs that executed VMXON when the module was loaded.
Placement == [use : [Threads -> SUBSET VCpus],
              affinity : [Threads -> SUBSET Cpus], vmx : SUBSET Cpus]

ASSUME ConstantsOK ==
  /\ Placements \subseteq Placement
  /\ Creators \subseteq Threads
  /\ NoCpu \notin Cpus
  /\ NoVcpu \notin VCpus
  /\ NoThread \notin Threads

VARIABLES
  place,      \* the placement of this run of the system; it never changes
  vst,        \* "free", "private" (one thread builds or frees it) or "open"
  loaded,     \* vcpu->loaded_cpu
  launched,   \* vcpu->launched
  mutex,      \* holder of vcpu->mutex
  pc, work,   \* what each thread executes and on which vCPU
  back,       \* where mini_vmcs_clear() returns to
  at,         \* the CPU a thread pinned with preempt_disable()
  irqOff,     \* CPUs with interrupts disabled
  ipi,        \* each thread's mini_vmclear_ipi request
  current,    \* processor: the current-VMCS pointer of each CPU
  active,     \* processor: the CPUs on which a VMCS is active
  hwLaunched, \* processor: launch state in the VMCS region
  fields,     \* whose values mini_vcpu_vmx_setup() wrote into a VMCS
  hostCpu,    \* the CPU whose TR/GDTR bases the host-state area holds
  tlb,        \* cached guest-physical mappings, per CPU and EPTP
  fault,      \* a VMX instruction raised #UD: the host oopses
  strayed,    \* history: the vCPUs whose set-up left its CPU, or VMX operation
  invalid     \* history: the vCPUs whose first VMLAUNCH since the last VMCLEAR
              \* exited for invalid guest state

modVars == <<vst, loaded, launched, mutex>>
thrVars == <<pc, work, back, at, irqOff, ipi>>
hwVars  == <<current, active, hwLaunched, fields, hostCpu, tlb, fault>>
hist    == <<strayed, invalid>>
vars    == <<place, modVars, thrVars, hwVars, hist>>

Use      == place.use
Affinity == place.affinity
VmxCpus  == place.vmx

Labels == {"idle", "set_clear", "set_load", "set_note", "set_write",
           "set_done", "clear", "clear_wait", "run_start", "run_load",
           "loop", "guest", "window", "leave", "free"}

TypeOK ==
  /\ place \in Placements
  /\ vst \in [VCpus -> {"free", "private", "open"}]
  /\ loaded \in [VCpus -> Cpus \cup {NoCpu}]
  /\ launched \in [VCpus -> BOOLEAN]
  /\ mutex \in [VCpus -> Threads \cup {NoThread}]
  /\ pc \in [Threads -> Labels]
  /\ work \in [Threads -> VCpus \cup {NoVcpu}]
  /\ back \in [Threads -> {"none", "set_done", "run_load", "free"}]
  /\ at \in [Threads -> Cpus \cup {NoCpu}]
  /\ irqOff \in SUBSET Cpus
  /\ ipi \in [Threads -> {"none", "posted", "done"}]
  /\ current \in [Cpus -> VCpus \cup {NoVcpu}]
  /\ active \in [VCpus -> SUBSET Cpus]
  /\ hwLaunched \in [VCpus -> BOOLEAN]
  /\ fields \in [VCpus -> VCpus \cup {NoVcpu}]
  /\ hostCpu \in [VCpus -> Cpus \cup {NoCpu}]
  /\ tlb \in [Cpus -> [VCpus -> {"none", "live", "stale"}]]
  /\ fault \in BOOLEAN
  /\ strayed \in SUBSET VCpus
  /\ invalid \in SUBSET VCpus

Init ==
  /\ place \in Placements
  /\ vst = [v \in VCpus |-> "free"]
  /\ loaded = [v \in VCpus |-> NoCpu]
  /\ launched = [v \in VCpus |-> FALSE]
  /\ mutex = [v \in VCpus |-> NoThread]
  /\ pc = [t \in Threads |-> "idle"]
  /\ work = [t \in Threads |-> NoVcpu]
  /\ back = [t \in Threads |-> "none"]
  /\ at = [t \in Threads |-> NoCpu]
  /\ irqOff = {}
  /\ ipi = [t \in Threads |-> "none"]
  /\ current = [c \in Cpus |-> NoVcpu]
  /\ active = [v \in VCpus |-> {}]
  /\ hwLaunched = [v \in VCpus |-> FALSE]
  /\ fields = [v \in VCpus |-> NoVcpu]
  /\ hostCpu = [v \in VCpus |-> NoCpu]
  /\ tlb = [c \in Cpus |-> [v \in VCpus |-> "none"]]
  /\ fault = FALSE
  /\ strayed = {}
  /\ invalid = {}

-----------------------------------------------------------------------------
(* Scheduling and the processor.                                           *)

\* Thread t can execute its next step on CPU c: the CPU it pinned, or any
\* CPU of its affinity that no other thread keeps with preemption disabled.
RunsOn(t, c) ==
  \/ at[t] = c
  \/ /\ at[t] = NoCpu
     /\ c \in Affinity[t]
     /\ \A s \in Threads : at[s] # c

Goto(t, label) == pc' = [pc EXCEPT ![t] = label] /\ UNCHANGED place

\* The vCPU ioctl returns: preempt_enable(), mutex_unlock().
Return(t) ==
  /\ Goto(t, "idle")
  /\ mutex' = [mutex EXCEPT ![work[t]] = NoThread]
  /\ at' = [at EXCEPT ![t] = NoCpu]
  /\ work' = [work EXCEPT ![t] = NoVcpu]

\* VMCLEAR of v on CPU c; #UD where VMXON never happened.
Vmclear(c, v) ==
  /\ fault' = (c \notin VmxCpus)
  /\ IF c \in VmxCpus
     THEN /\ current' = [current EXCEPT ![c] = IF @ = v THEN NoVcpu ELSE @]
          /\ active' = [active EXCEPT ![v] = @ \ {c}]
          /\ hwLaunched' = [hwLaunched EXCEPT ![v] = FALSE]
     ELSE UNCHANGED <<current, active, hwLaunched>>

\* VMPTRLD of v on CPU c.
Vmptrld(c, v) ==
  /\ fault' = (c \notin VmxCpus)
  /\ IF c \in VmxCpus
     THEN /\ current' = [current EXCEPT ![c] = v]
          /\ active' = [active EXCEPT ![v] = @ \cup {c}]
     ELSE UNCHANGED <<current, active>>

\* mini_cpu_in_vmx_operation(): the per-CPU flag mini_vmxon_done.
InVmxOperation_always(c) == TRUE
InVmxOperation(c) == c \in VmxCpus

\* A step of the set-up that needs to execute on CPU c and in VMX operation.
Stray(t, asNeeded) ==
  strayed' = IF asNeeded THEN strayed ELSE strayed \cup {work[t]}

\* The CPU to which mini_vmcs_clear() sends mini_vmclear_ipi().
ClearTarget(t) == loaded[work[t]]

\* A request posted to CPU c that has not run yet.
Pending(c) == \E t \in Threads : ipi[t] = "posted" /\ ClearTarget(t) = c

\* A CPU takes what is pending before it gets past the instruction that
\* follows local_irq_enable().
InterruptsTaken_shadow(t) == TRUE
InterruptsTaken(t) == ~Pending(at[t])

-----------------------------------------------------------------------------
(* KVM_CREATE_VCPU: mini_vcpu_vmx_setup() runs preemptible throughout.     *)

Create(t, v) ==
  /\ pc[t] = "idle" /\ t \in Creators /\ v \in Use[t] /\ vst[v] = "free"
  /\ vst' = [vst EXCEPT ![v] = "private"]
  /\ work' = [work EXCEPT ![t] = v]
  /\ Goto(t, "set_clear")
  /\ UNCHANGED <<loaded, launched, mutex, back, at, irqOff, ipi, hwVars, hist>>

SetupVmclear(t, c) ==
  /\ pc[t] = "set_clear" /\ RunsOn(t, c)
  /\ Vmclear(c, work[t])
  /\ Stray(t, c \in VmxCpus)
  /\ Goto(t, "set_load")
  /\ UNCHANGED <<modVars, work, back, at, irqOff, ipi, fields, hostCpu, tlb,
                 invalid>>

SetupVmptrld(t, c) ==
  /\ pc[t] = "set_load" /\ RunsOn(t, c)
  /\ Vmptrld(c, work[t])
  /\ Stray(t, c \in VmxCpus)
  /\ Goto(t, "set_note")
  /\ UNCHANGED <<modVars, work, back, at, irqOff, ipi, hwLaunched, fields,
                 hostCpu, tlb, invalid>>

\* vcpu->loaded_cpu = raw_smp_processor_id(), evaluated after the VMPTRLD.
SetupNote(t, c) ==
  /\ pc[t] = "set_note" /\ RunsOn(t, c)
  /\ loaded' = [loaded EXCEPT ![work[t]] = c]
  /\ Stray(t, c \in active[work[t]])
  /\ Goto(t, "set_write")
  /\ UNCHANGED <<vst, launched, mutex, work, back, at, irqOff, ipi, hwVars,
                 invalid>>

\* The VMWRITEs go to whatever VMCS is current on the CPU they execute on,
\* and their VMfail is ignored.
SetupWrite(t, c) ==
  /\ pc[t] = "set_write" /\ RunsOn(t, c)
  /\ fault' = (c \notin VmxCpus)
  /\ LET u == current[c] IN
     IF c \in VmxCpus /\ u # NoVcpu
     THEN /\ fields' = [fields EXCEPT ![u] = work[t]]
          /\ hostCpu' = [hostCpu EXCEPT ![u] = c]
     ELSE UNCHANGED <<fields, hostCpu>>
  /\ Stray(t, loaded[work[t]] = c)
  /\ back' = [back EXCEPT ![t] = "set_done"]
  /\ Goto(t, "clear")
  /\ UNCHANGED <<modVars, work, at, irqOff, ipi, current, active, hwLaunched,
                 tlb, invalid>>

\* mini_compute_controls() failed: unload and free without writing.
SetupFail(t) ==
  /\ pc[t] = "set_write"
  /\ back' = [back EXCEPT ![t] = "free"]
  /\ Goto(t, "clear")
  /\ UNCHANGED <<modVars, work, at, irqOff, ipi, hwVars, hist>>

\* mini_kvm_create_vcpu() installs the fd.  Its own late failures (a second
\* vCPU, no free fd) free the vCPU again.
SetupDone(t) ==
  /\ pc[t] = "set_done"
  /\ \/ /\ vst' = [vst EXCEPT ![work[t]] = "open"]
        /\ Goto(t, "idle")
        /\ work' = [work EXCEPT ![t] = NoVcpu]
        /\ UNCHANGED back
     \/ /\ Goto(t, "clear")
        /\ back' = [back EXCEPT ![t] = "free"]
        /\ UNCHANGED <<vst, work>>
  /\ UNCHANGED <<loaded, launched, mutex, at, irqOff, ipi, hwVars, hist>>

-----------------------------------------------------------------------------
(* mini_vmcs_clear(): VMCLEAR on the CPU named by loaded_cpu.              *)

ResetLaunched_missing(v) ==
  UNCHANGED launched /\ invalid' = invalid \ {v}
ResetLaunched(v) ==
  launched' = [launched EXCEPT ![v] = FALSE] /\ invalid' = invalid \ {v}

ClearNothing(t) ==
  /\ pc[t] = "clear" /\ loaded[work[t]] = NoCpu
  /\ ResetLaunched(work[t])
  /\ Goto(t, back[t])
  /\ UNCHANGED <<vst, loaded, mutex, work, back, at, irqOff, ipi, hwVars,
                 strayed>>

ClearLocal(t, c) ==
  /\ pc[t] = "clear" /\ RunsOn(t, c) /\ loaded[work[t]] = c
  /\ ResetLaunched(work[t])
  /\ Vmclear(c, work[t])
  /\ loaded' = [loaded EXCEPT ![work[t]] = NoCpu]
  /\ Goto(t, back[t])
  /\ UNCHANGED <<vst, mutex, work, back, at, irqOff, ipi, fields, hostCpu, tlb,
                 strayed>>

ClearRemote(t, c) ==
  /\ pc[t] = "clear" /\ RunsOn(t, c) /\ loaded[work[t]] \notin {c, NoCpu}
  /\ ResetLaunched(work[t])
  /\ at' = [at EXCEPT ![t] = c]
  /\ ipi' = [ipi EXCEPT ![t] = "posted"]
  /\ Goto(t, "clear_wait")
  /\ UNCHANGED <<vst, loaded, mutex, work, back, irqOff, hwVars, strayed>>

\* mini_vmclear_ipi() on the target, once that CPU takes interrupts.
VmclearIpi(t) ==
  /\ ipi[t] = "posted" /\ ClearTarget(t) \notin irqOff
  /\ ipi' = [ipi EXCEPT ![t] = "done"]
  /\ IF InVmxOperation(ClearTarget(t))
     THEN Vmclear(ClearTarget(t), work[t])
     ELSE UNCHANGED <<current, active, hwLaunched, fault>>
  /\ UNCHANGED <<place, modVars, pc, work, back, at, irqOff, fields, hostCpu,
                 tlb, hist>>

ClearDone(t) ==
  /\ pc[t] = "clear_wait" /\ ipi[t] = "done"
  /\ ipi' = [ipi EXCEPT ![t] = "none"]
  /\ loaded' = [loaded EXCEPT ![work[t]] = NoCpu]
  /\ at' = IF back[t] = "run_load" THEN at ELSE [at EXCEPT ![t] = NoCpu]
  /\ Goto(t, back[t])
  /\ UNCHANGED <<vst, launched, mutex, work, back, irqOff, hwVars, hist>>

-----------------------------------------------------------------------------
(* KVM_RUN: mini_vcpu_ioctl() and mini_vcpu_run_loop().                    *)

MutexFree_unlocked(v) == TRUE
MutexFree(v) == mutex[v] = NoThread

RunLock(t, v) ==
  /\ pc[t] = "idle" /\ v \in Use[t] /\ vst[v] = "open" /\ MutexFree(v)
  /\ mutex' = [mutex EXCEPT ![v] = t]
  /\ work' = [work EXCEPT ![t] = v]
  /\ Goto(t, "run_start")
  /\ UNCHANGED <<vst, loaded, launched, back, at, irqOff, ipi, hwVars, hist>>

\* A CPU that came online after the load never executed VMXON: -EPROTO.
RunRefuse(t, c) ==
  /\ pc[t] = "run_start" /\ RunsOn(t, c) /\ ~InVmxOperation(c)
  /\ Return(t)
  /\ UNCHANGED <<vst, loaded, launched, back, irqOff, ipi, hwVars, hist>>

LoadedHere(v, c) == loaded[v] = c

\* preempt_disable(), then either the VMCS is already here or it migrates.
RunStart(t, c) ==
  /\ pc[t] = "run_start" /\ RunsOn(t, c) /\ InVmxOperation(c)
  /\ at' = [at EXCEPT ![t] = c]
  /\ IF LoadedHere(work[t], c)
     THEN Goto(t, "loop") /\ UNCHANGED back
     ELSE Goto(t, "clear") /\ back' = [back EXCEPT ![t] = "run_load"]
  /\ UNCHANGED <<modVars, work, irqOff, ipi, hwVars, hist>>

\* mini_ept_invept_global(): all EPTPs on the executing CPU.
Invept_skipped(c) == UNCHANGED tlb
Invept(c) == tlb' = [tlb EXCEPT ![c] = [u \in VCpus |-> "none"]]

\* mini_vmx_fixup_host_for_cpu(), on the VMCS just loaded.
FixupHost_skipped(c, v) == UNCHANGED hostCpu
FixupHost(c, v) == hostCpu' = [hostCpu EXCEPT ![v] = c]

\* The rest of the migration branch: VMPTRLD, all-context INVEPT,
\* loaded_cpu, host-state fixup.
RunLoad(t) ==
  /\ pc[t] = "run_load"
  /\ LET c == at[t]  v == work[t] IN
     /\ Vmptrld(c, v)
     /\ Invept(c)
     /\ loaded' = [loaded EXCEPT ![v] = c]
     /\ FixupHost(c, v)
  /\ Goto(t, "loop")
  /\ UNCHANGED <<vst, launched, mutex, work, back, at, irqOff, ipi,
                 hwLaunched, fields, hist>>

\* VM entry succeeds when there is a current VMCS and the instruction chosen
\* from vcpu->launched agrees with its launch state.
EntryOK(t) ==
  /\ current[at[t]] # NoVcpu
  /\ launched[work[t]] = hwLaunched[current[at[t]]]

Enter(t) ==
  /\ pc[t] = "loop" /\ EntryOK(t)
  /\ LET c == at[t]  u == current[c] IN
     /\ irqOff' = irqOff \cup {c}
     /\ hwLaunched' = [hwLaunched EXCEPT ![u] = TRUE]
     /\ tlb' = [tlb EXCEPT ![c][u] = IF @ = "none" THEN "live" ELSE @]
  /\ launched' = [launched EXCEPT ![work[t]] = TRUE]
  /\ Goto(t, "guest")
  /\ UNCHANGED <<vst, loaded, mutex, work, back, at, ipi, current, active,
                 fields, hostCpu, fault, hist>>

\* VMLAUNCH or VMRESUME fell through: -EIO.
EnterFail(t) ==
  /\ pc[t] = "loop" /\ ~EntryOK(t)
  /\ irqOff' = irqOff \ {at[t]}
  /\ Goto(t, "leave")
  /\ UNCHANGED <<modVars, work, back, at, ipi, hwVars, hist>>

\* The entry was refused after the VMCS was loaded (bit 31 of the exit reason:
\* guest state, MSR loading): a VM exit to the host, but launched is set and
\* the launch state of the VMCS is not.  -EIO.
EnterInvalid(t) ==
  /\ pc[t] = "loop" /\ EntryOK(t)
  /\ launched' = [launched EXCEPT ![work[t]] = TRUE]
  /\ invalid' = IF launched[work[t]] THEN invalid ELSE invalid \cup {work[t]}
  /\ irqOff' = irqOff \ {at[t]}
  /\ Goto(t, "leave")
  /\ UNCHANGED <<vst, loaded, mutex, work, back, at, ipi, hwVars, strayed>>

\* EPT violation, CPUID, NMI: back to the loop head, interrupts still off.
\* An interrupt pending for this CPU makes the guest exit for it instead.
ExitAgain(t) ==
  /\ pc[t] = "guest" /\ ~Pending(at[t])
  /\ Goto(t, "loop")
  /\ UNCHANGED <<modVars, work, back, at, irqOff, ipi, hwVars, hist>>

\* External interrupt or I/O: the handler opens an interrupt window.
ExitWindow(t) ==
  /\ pc[t] = "guest"
  /\ irqOff' = irqOff \ {at[t]}
  /\ Goto(t, "window")
  /\ UNCHANGED <<modVars, work, back, at, ipi, hwVars, hist>>

\* local_irq_disable() after the window's instruction: what was pending while
\* interrupts were enabled has been taken.
WindowClose(t) ==
  /\ pc[t] = "window" /\ InterruptsTaken(t)
  /\ irqOff' = irqOff \cup {at[t]}
  /\ Goto(t, "loop")
  /\ UNCHANGED <<modVars, work, back, at, ipi, hwVars, hist>>

\* HLT, triple fault, exceptions and failures: local_irq_enable(), goto out.
ExitToUser(t) ==
  /\ pc[t] = "guest"
  /\ irqOff' = irqOff \ {at[t]}
  /\ Goto(t, "leave")
  /\ UNCHANGED <<modVars, work, back, at, ipi, hwVars, hist>>

\* The ioctl returns; interrupts have been enabled since, so nothing that was
\* pending is left.
RunReturn(t) ==
  /\ pc[t] = "leave" /\ InterruptsTaken(t)
  /\ Return(t)
  /\ UNCHANGED <<vst, loaded, launched, back, irqOff, ipi, hwVars, hist>>

-----------------------------------------------------------------------------
(* close(): mini_vcpu_release(), after the last ioctl on the fd returned.  *)

Close(t, v) ==
  /\ pc[t] = "idle" /\ v \in Use[t] /\ vst[v] = "open"
  /\ \A s \in Threads : work[s] # v
  /\ vst' = [vst EXCEPT ![v] = "private"]
  /\ work' = [work EXCEPT ![t] = v]
  /\ back' = [back EXCEPT ![t] = "free"]
  /\ Goto(t, "clear")
  /\ UNCHANGED <<loaded, launched, mutex, at, irqOff, ipi, hwVars, hist>>

\* The VMCS page and, with the last VM reference, the EPT root are freed:
\* translations still cached under this EPTP belong to a dead VM.
Free(t) ==
  /\ pc[t] = "free"
  /\ vst' = [vst EXCEPT ![work[t]] = "free"]
  /\ fields' = [fields EXCEPT ![work[t]] = NoVcpu]
  /\ tlb' = [c \in Cpus |-> [tlb[c] EXCEPT ![work[t]] =
                               IF @ = "none" THEN @ ELSE "stale"]]
  /\ work' = [work EXCEPT ![t] = NoVcpu]
  /\ Goto(t, "idle")
  /\ UNCHANGED <<loaded, launched, mutex, back, at, irqOff, ipi, current,
                 active, hwLaunched, hostCpu, fault, hist>>

-----------------------------------------------------------------------------
Setup(t) ==
  \/ \E c \in Cpus : \/ SetupVmclear(t, c) \/ SetupVmptrld(t, c)
                     \/ SetupNote(t, c)    \/ SetupWrite(t, c)
  \/ SetupFail(t) \/ SetupDone(t)

Clear(t) ==
  \/ ClearNothing(t) \/ VmclearIpi(t) \/ ClearDone(t)
  \/ \E c \in Cpus : ClearLocal(t, c) \/ ClearRemote(t, c)

Run(t) ==
  \/ \E c \in Cpus : RunRefuse(t, c) \/ RunStart(t, c)
  \/ RunLoad(t) \/ Enter(t) \/ EnterInvalid(t) \/ EnterFail(t)
  \/ ExitAgain(t) \/ ExitWindow(t) \/ WindowClose(t)
  \/ ExitToUser(t) \/ RunReturn(t)

Next ==
  /\ ~fault
  /\ \E t \in Threads :
       \/ \E v \in VCpus : Create(t, v) \/ RunLock(t, v) \/ Close(t, v)
       \/ Setup(t) \/ Clear(t) \/ Run(t) \/ Free(t)

Spec == Init /\ [][Next]_vars

\* The kernel keeps executing a thread that is inside an ioctl or close(), and
\* a CPU with interrupts enabled takes what is pending.  Nothing obliges user
\* space to issue the next ioctl.
Fairness == \A t \in Threads :
  /\ WF_vars(Setup(t)) /\ WF_vars(Run(t)) /\ WF_vars(Free(t))
  /\ WF_vars(ClearNothing(t)) /\ WF_vars(ClearDone(t)) /\ WF_vars(VmclearIpi(t))
  /\ WF_vars(\E c \in Cpus : ClearLocal(t, c) \/ ClearRemote(t, c))

FairSpec == Spec /\ Fairness
-----------------------------------------------------------------------------
(* Properties.                                                             *)

\* The threads of different vCPUs share no CPU.
DisjointVms ==
  \A s, t \in Threads : \A u \in Use[s], v \in Use[t] :
    u # v => Affinity[s] \cap Affinity[t] = {}

\* SDM rule quoted at mini-kvm.h:185: no VMCS is ever active on more than one
\* logical processor; and a VMCS page given back to the page allocator is
\* active on none (the comment in mini_vcpu_vmx_teardown()).  The exceptions
\* are the vCPUs whose set-up, which nothing pins, moved between its VMPTRLD
\* and the note of where it was.
VmcsExclusive ==
  \A v \in VCpus \ strayed :
    /\ \A c, d \in active[v] : c = d
    /\ vst[v] = "free" => active[v] = {}

\* A thread about to enter its guest finds its own vCPU's VMCS current on the
\* CPU it runs on, as vcpu->loaded_cpu claims (mini-kvm.h:196).
LoadedIsCurrent ==
  \A t \in Threads :
    pc[t] \in {"loop", "guest", "window"} /\ work[t] \notin strayed =>
      current[at[t]] = work[t]

\* Unless two VMs share a CPU, the guest that runs is described by the
\* control, guest and host fields of its own setup in the VMCS that is current,
\* with the host TR and GDTR of the CPU it will exit to, if that setup stayed
\* on one CPU.
GuestUsesOwnState ==
  DisjointVms =>
    /\ LoadedIsCurrent
    /\ \A t \in Threads : pc[t] = "guest" /\ work[t] \notin strayed =>
         fields[work[t]] = work[t] /\ hostCpu[work[t]] = at[t]

\* Unless two VMs share a CPU, the software flag that chooses between VMLAUNCH
\* and VMRESUME agrees with the launch state of the VMCS, and no entry fails
\* with error 4 or 5, whatever KVM_RUNs, moves and remote VMCLEARs came before.
\* The one exception is a vCPU whose VMLAUNCH was refused for its guest state:
\* it gets VMRESUMEs until its VMCS is next cleared.
LaunchStateAgrees ==
  DisjointVms =>
    \A t \in Threads : pc[t] = "loop" /\ work[t] \notin strayed \cup invalid =>
      EntryOK(t)

\* Unless two VMs share a CPU, no guest runs on a CPU that still caches
\* guest-physical mappings made for an earlier VM with the same EPTP (ept.c,
\* the INVEPT section).
NoStaleMapping ==
  DisjointVms =>
    \A t \in Threads : pc[t] = "guest" /\ work[t] \notin strayed =>
      tlb[at[t]][work[t]] # "stale"

\* A VMX instruction executes on a CPU outside VMX operation in no case but
\* one: during KVM_CREATE_VCPU, which does not ask.  KVM_RUN, close() and the
\* VMCLEARs sent to other CPUs never do.
NoUndefinedOpcode ==
  fault => \E t \in Threads : work[t] \in strayed /\ vst[work[t]] = "private"

\* A posted VMCLEAR request is served even while the target CPU keeps
\* running a guest: external interrupts open a window in the run loop.
ClearCompletes ==
  \A t \in Threads :
    pc[t] = "clear_wait" /\ ~fault ~> pc[t] # "clear_wait" \/ fault
=============================================================================
