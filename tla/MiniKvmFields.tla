---------------------------- MODULE MiniKvmFields ----------------------------
(***************************************************************************)
(* What mini-kvm writes into a VMCS and when (vmx.c, main.c, vcpu.c,       *)
(* vmx_entry.S): the negotiation of the controls with the capability MSRs, *)
(* the guest and host state of a new vCPU, and the host fields that the    *)
(* run loop writes again because the CPU or the task has changed.          *)
(*                                                                         *)
(* The processor is chosen in Init among all those the SDM allows.  A      *)
(* control or a register bit is a name; a host field is known by whose     *)
(* value it holds.  One vCPU; MiniKvmVmcs has the VMCSs of several.        *)
(***************************************************************************)
EXTENDS Naturals

CONSTANTS
  Cpus, Tasks,
  Asids,          \* the PCIDs the kernel may give to a task's CR3
  Ia32Emulation,  \* CONFIG_IA32_EMULATION
  Nobody          \* the value of what does not depend on CPU and task

ASSUME FieldConstantsOK ==
  /\ Cpus # {} /\ Tasks # {} /\ Asids # {}
  /\ Ia32Emulation \in BOOLEAN
  /\ Nobody \notin Cpus \cup Tasks \cup Asids /\ Nobody # "kernel"

-----------------------------------------------------------------------------
(* The processor.                                                          *)

\* Controls that the legacy capability MSRs report as fixed to 1.
DefaultOne == {"cr3_load", "cr3_store", "save_debug", "load_debug"}
Basic == {"ext_intr", "nmi", "hlt", "uncond_io", "host64", "ia32e"}
Optional == {"secondary", "ept", "exit_efer", "entry_efer"}

\* can: controls that may be 1; must: those the TRUE MSRs demand; the two
\* controls for EFER come together.
Hardware ==
  {h \in [true : BOOLEAN, can : {DefaultOne \cup Basic \cup o : o \in SUBSET Optional},
          must : {{}, {"save_debug", "load_debug"}},
          ept_vpid : SUBSET {"walk4", "wb", "invept_global"}] :
     /\ "ept" \in h.can => "secondary" \in h.can
     /\ "exit_efer" \in h.can <=> "entry_efer" \in h.can
     /\ "ept" \notin h.can => h.ept_vpid = {}}

\* Bits that must be 1 in VMX operation (IA32_VMX_CR0_FIXED0, CR4_FIXED0).
Cr0Fixed == {"PE", "NE", "PG"}
Cr4Fixed == {"VMXE"}

Controls == {"pin", "cpu", "secondary", "exit", "entry"}

PerCpu == {"TR_BASE", "GDTR_BASE", "GS_BASE"}
          \cup IF Ia32Emulation THEN {"SYSENTER_ESP"} ELSE {}
PerTask == {"CR3", "CR4", "FS_BASE", "RSP"}
PerBoot == {"CR0", "selectors", "IDTR_BASE", "SYSENTER_CS", "SYSENTER_EIP", "EFER",
            "RIP"} \cup IF Ia32Emulation THEN {} ELSE {"SYSENTER_ESP"}
HostFields == PerCpu \cup PerTask \cup PerBoot

Nothing == [cpu |-> Nobody, task |-> Nobody, asid |-> Nobody]

VARIABLES
  hw,
  mk_global,   \* NoGlobal, or the capabilities noted at load
  pc,
  cpu, task,   \* where and for whom the current thread executes
  asid,        \* of the running task
  loaded_cpu,
  ctl,         \* control fields; what the vCPU has not written is {}
  guest,       \* guest-state fields: cr0, cr4, efer, seg
  host,        \* host-state fields: whose value, Nothing if never written
  kernelGs,    \* IA32_KERNEL_GS_BASE of the executing CPU: whose value it is
  gs_shadow    \* the loop's copy of it

vars == <<hw, mk_global, pc, cpu, task, asid, loaded_cpu, ctl, guest, host, kernelGs,
          gs_shadow>>
place == <<cpu, task, asid>>
gs == <<kernelGs, gs_shadow>>
vmcs == <<ctl, guest, host>>

NoGlobal == [loaded |-> FALSE, true_ctls |-> FALSE]
NoControls == [w \in Controls |-> {}]
NoGuest == [cr0 |-> {}, cr4 |-> {}, efer |-> {}, seg |-> {}]
NoHost == [f \in HostFields |-> Nothing]

Init ==
  /\ hw \in Hardware
  /\ mk_global = NoGlobal /\ pc = "unloaded"
  /\ cpu \in Cpus /\ task \in Tasks /\ asid \in Asids
  /\ loaded_cpu = Nobody
  /\ ctl = NoControls /\ guest = NoGuest /\ host = NoHost
  /\ kernelGs = task /\ gs_shadow = Nobody

\* The value a host field must have for the thread that executes.
Now(f) ==
  [cpu |-> IF f \in PerCpu THEN cpu ELSE Nobody,
   task |-> IF f \in PerTask THEN task ELSE Nobody,
   asid |-> IF f = "CR3" THEN asid ELSE Nobody]

Written(f) ==
  LET n == Now(f) IN IF n = Nothing THEN [n EXCEPT !.cpu = "kernel"] ELSE n

\* VMWRITEs reach this vCPU's VMCS: when they may not is MiniKvmVmcs's question.
WriteHost(F) ==
  host' = [f \in HostFields |-> IF f \in F THEN Written(f) ELSE host[f]]

-----------------------------------------------------------------------------
(* insmod: mini_vmx_read_capabilities()                                    *)

Required_nowb == {"walk4", "invept_global"}
Required == {"walk4", "wb", "invept_global"}

\* Without secondary controls IA32_VMX_EPT_VPID_CAP does not exist and its RDMSR
\* raises #GP: the module is not loaded either.
ReadCapabilities ==
  /\ pc = "unloaded"
  /\ "secondary" \in hw.can /\ Required \subseteq hw.ept_vpid
  /\ pc' = "ready"
  /\ mk_global' = [loaded |-> TRUE, true_ctls |-> hw.true]
  /\ UNCHANGED <<hw, place, loaded_cpu, vmcs, gs>>

-----------------------------------------------------------------------------
(* KVM_CREATE_VCPU: mini_vcpu_vmx_setup()                                  *)

\* What a capability MSR demands; only four of the five exist in a TRUE form.
MustBeOne(w) ==
  IF w = "secondary" THEN {} ELSE IF mk_global.true_ctls THEN hw.must ELSE DefaultOne

OfWord == [pin |-> {"ext_intr", "nmi"},
           cpu |-> {"hlt", "uncond_io", "secondary", "cr3_load", "cr3_store"},
           secondary |-> {"ept"},
           exit |-> {"host64", "exit_efer", "save_debug"},
           entry |-> {"ia32e", "entry_efer", "load_debug"}]

Desired == [pin |-> {"ext_intr", "nmi"},
            cpu |-> {"hlt", "uncond_io", "secondary"},
            secondary |-> {"ept"},
            exit |-> {"host64", "exit_efer"},
            entry |-> {"ia32e", "entry_efer"}]

\* mini_vmx_adjust_control()
AdjustControl(w) ==
  (Desired[w] \cap hw.can) \cup (MustBeOne(w) \cap OfWord[w])

Negotiated == [w \in Controls |-> AdjustControl(w)]

\* mini_compute_controls() reads back what it was not given.
Granted == "secondary" \in Negotiated["cpu"] /\ "ept" \in Negotiated["secondary"]

\* VMCLEAR, VMPTRLD, then the controls.
SetupControls(c, t) ==
  /\ pc = "ready"
  /\ cpu' = c /\ task' = t /\ kernelGs' = t /\ UNCHANGED asid
  /\ IF Granted
     THEN /\ loaded_cpu' = c /\ ctl' = Negotiated /\ pc' = "set_guest"
     ELSE UNCHANGED <<loaded_cpu, ctl, pc>>   \* -EOPNOTSUPP, the VMCS is freed
  /\ UNCHANGED <<hw, mk_global, guest, host, gs_shadow>>

MINI_GUEST_CR0 == {"PE", "MP", "ET", "NE", "WP", "PG"}
MINI_GUEST_CR4 == {"PAE", "VMXE"}
MINI_GUEST_EFER == {"SCE", "LME", "LMA"}

SetGuestState ==
  /\ pc = "set_guest"
  /\ guest' = [cr0 |-> MINI_GUEST_CR0, cr4 |-> MINI_GUEST_CR4,
               efer |-> MINI_GUEST_EFER, seg |-> {"cs64", "tss64", "unusable"}]
  /\ pc' = "set_host"
  /\ UNCHANGED <<hw, mk_global, place, loaded_cpu, ctl, host, gs>>

\* mini_vmx_fixup_host_for_cpu()
FixupFields ==
  {"TR_BASE", "GDTR_BASE"} \cup IF Ia32Emulation THEN {"SYSENTER_ESP"} ELSE {}

\* mini_vmx_set_constant_host_state(); HOST_RSP is left to the entry code.
SetHostState ==
  /\ pc = "set_host"
  /\ WriteHost(PerBoot \cup FixupFields
               \cup {"CR3", "CR4", "FS_BASE", "GS_BASE"})
  /\ pc' = "set_done"
  /\ UNCHANGED <<hw, mk_global, place, loaded_cpu, ctl, guest, gs>>

\* mini_vmcs_clear(): the VMCS leaves the CPU, so that the first KVM_RUN loads it.
SetupDone ==
  /\ pc = "set_done"
  /\ loaded_cpu' = Nobody /\ pc' = "open"
  /\ UNCHANGED <<hw, mk_global, place, vmcs, gs>>

-----------------------------------------------------------------------------
(* KVM_RUN: any task that holds the fd, on any CPU; its mm may have a new  *)
(* PCID since the last time.  From here preemption is disabled.            *)

RunStart(c, t, a) ==
  /\ pc = "open"
  /\ cpu' = c /\ task' = t /\ asid' = a /\ kernelGs' = t
  /\ pc' = "start"
  /\ UNCHANGED <<hw, mk_global, loaded_cpu, vmcs, gs_shadow>>

\* The migration branch; fixup after VMPTRLD, so that it reaches this VMCS.
Load ==
  /\ pc = "start"
  /\ pc' = "loop"
  /\ loaded_cpu' = cpu
  /\ host' = IF loaded_cpu # cpu
             THEN [f \in HostFields |->
                     IF f \in FixupFields THEN Written(f) ELSE host[f]]
             ELSE host
  /\ UNCHANGED <<hw, mk_global, place, ctl, guest, gs>>

\* mini_vmx_refresh_host_state()
RefreshFields_nofs == {"CR3", "CR4", "GS_BASE"}
RefreshFields == {"CR3", "CR4", "GS_BASE", "FS_BASE"}

Refresh ==
  /\ pc = "loop"
  /\ WriteHost(RefreshFields)
  /\ pc' = "enter"
  /\ UNCHANGED <<hw, mk_global, place, loaded_cpu, ctl, guest, gs>>

\* The SDM's checks on the controls (27.2.1), the host state (27.2.2-27.2.4) and
\* the guest state (27.3.1) as far as the module's choices decide them.
EntryOK ==
  /\ {"walk4", "wb"} \subseteq hw.ept_vpid /\ "ept" \in ctl["secondary"]
  /\ \A w \in Controls :
        MustBeOne(w) \cap OfWord[w] \subseteq ctl[w] /\ ctl[w] \subseteq hw.can
  /\ "host64" \in ctl["exit"]
  /\ \A f \in HostFields : host[f] # Nothing \/ f = "RSP"
  /\ Cr0Fixed \subseteq guest.cr0 /\ Cr4Fixed \subseteq guest.cr4
  /\ "ia32e" \in ctl["entry"] => "PG" \in guest.cr0 /\ "PAE" \in guest.cr4
  /\ "entry_efer" \in ctl["entry"] =>
       /\ "LMA" \in guest.efer <=> "ia32e" \in ctl["entry"]
       /\ "LMA" \in guest.efer <=> "LME" \in guest.efer
  /\ guest.seg = {"cs64", "tss64", "unusable"}

SaveGs_once == IF gs_shadow = Nobody THEN kernelGs ELSE gs_shadow
SaveGs == kernelGs

\* mini_vmx_enter(): HOST_RSP, then VMLAUNCH or VMRESUME.
Enter ==
  /\ pc = "enter"
  /\ gs_shadow' = SaveGs
  /\ WriteHost({"RSP"})
  /\ pc' = IF EntryOK THEN "guest" ELSE "failed"
  /\ UNCHANGED <<hw, mk_global, place, loaded_cpu, ctl, guest, kernelGs>>

\* SWAPGS does not exit, and the host-state area has no KERNEL_GS_BASE.
GuestSwapgs ==
  /\ pc = "guest" /\ kernelGs' = "guest"
  /\ UNCHANGED <<hw, mk_global, pc, place, loaded_cpu, vmcs, gs_shadow>>

\* A guest that switches page tables exits only if the controls say so, and
\* the loop has no case for that exit.
GuestLoadsCr3 ==
  /\ pc = "guest" /\ "cr3_load" \in ctl["cpu"]
  /\ pc' = "unhandled"
  /\ UNCHANGED <<hw, mk_global, place, loaded_cpu, vmcs, gs>>

\* VM exit, or the failure of VM entry: back in the loop, or out of KVM_RUN.
Exit ==
  /\ pc \in {"guest", "unhandled", "failed"}
  /\ kernelGs' = gs_shadow
  /\ pc' \in IF pc = "guest" THEN {"loop", "open"} ELSE {"open"}
  /\ UNCHANGED <<hw, mk_global, place, loaded_cpu, vmcs, gs_shadow>>

Next ==
  \/ ReadCapabilities
  \/ \E c \in Cpus, t \in Tasks :
       \/ SetupControls(c, t)
       \/ \E a \in Asids : RunStart(c, t, a)
  \/ SetGuestState \/ SetHostState \/ SetupDone
  \/ Load \/ Refresh \/ Enter \/ GuestSwapgs \/ GuestLoadsCr3 \/ Exit

Spec == Init /\ [][Next]_vars

-----------------------------------------------------------------------------
(* Properties.                                                             *)

\* VM exit loads the host state from the VMCS: while the guest runs, every
\* host field holds what the CPU and the task that will be resumed need, in
\* whatever order CPUs, tasks and PCIDs changed since the field was written.
HostStateCurrent == pc = "guest" => \A f \in HostFields : host[f] = Written(f)

\* Out of the guest, KERNEL_GS_BASE is that of the thread that executes although
\* nothing in the VMCS restores it: the next SWAPGS of the host depends on it.
KernelGsIsHosts == pc \in {"loop", "enter", "open"} => kernelGs = task

\* Whatever processor it is, a vCPU that could be created can be entered: the
\* negotiation has kept every control that the module cannot do without.  And on
\* a processor with TRUE capability MSRs the guest may load CR3 (vmx.c:33-36);
\* the legacy MSRs would force an exit that the loop does not handle.
ControlsSuffice ==
  /\ pc # "failed"
  /\ pc = "unhandled" => ~hw.true
=============================================================================
