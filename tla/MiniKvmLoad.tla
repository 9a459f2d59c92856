---------------------------- MODULE MiniKvmLoad ----------------------------
(***************************************************************************)
(* Loading and unloading of mini-kvm: bringing every CPU into and out of   *)
(* VMX operation (phase9-capstone/practice/mini-kvm/main.c).               *)
(*                                                                         *)
(* on_each_cpu() runs its callback on the CPUs that are online at the call,*)
(* with interrupts off and in no particular order; a CPU that has a        *)
(* callback pending does not go offline.  Another hypervisor (kvm_intel)   *)
(* turns VMX operation on and off on its own, and CPUs come and go.  An    *)
(* INIT is blocked in VMX root operation, so a CPU that went offline there *)
(* does not come back.  Of the open files only the number counts; what is  *)
(* behind them is in MiniKvmLifecycle.                                     *)
(***************************************************************************)
EXTENDS Naturals

CONSTANTS
  CPUs,         \* the possible CPUs
  Unsupported,  \* those whose firmware does not allow VMX
  MaxFiles      \* bound: open files of each kind

ASSUME LoadConstantsOK ==
  Unsupported \subseteq CPUs /\ MaxFiles \in Nat

VARIABLES
  loader,     \* the thread in init_module() or delete_module()
  online,
  vmxe,       \* CPUs whose CR4.VMXE is set
  vmx,        \* who has each CPU in VMX operation: "off", "mini" or "other"
  page,       \* CPUs with a mini_vmxon_page
  done,       \* CPUs with mini_vmxon_done
  enable_err,
  ipi,        \* CPUs that have yet to run the current callback
  targets,    \* history: the CPUs the load covers
  left,       \* history: the CPUs that went offline in VMX operation and may have a
              \* mini_vmxon_done that is no longer true
  files       \* how many files are open on /dev/mini-kvm, on VMs and on vCPUs

loading == <<loader, online, vmxe, vmx, page, done, enable_err, ipi, targets, left>>
loadVars == <<loading, files>>
machine == <<online, vmxe, vmx>>

Fds == {"dev", "vm", "vcpu"}

TypeOK ==
  /\ loader \in {"unloaded", "alloc", "ready", "enabling", "rollback", "register",
                 "loaded", "exiting"}
  /\ online \subseteq CPUs /\ vmxe \subseteq CPUs
  /\ vmx \in [CPUs -> {"off", "mini", "other"}]
  /\ page \subseteq CPUs /\ done \subseteq CPUs
  /\ enable_err \in {"0", "ENODEV", "EBUSY", "EIO"}
  /\ ipi \subseteq online /\ targets \subseteq CPUs /\ left \subseteq CPUs
  /\ files \in [Fds -> 0..MaxFiles]

LoadInit ==
  /\ loader = "unloaded" /\ online \in SUBSET CPUs \ {{}}
  /\ vmxe = {} /\ vmx = [c \in CPUs |-> "off"]
  /\ page = {} /\ done = {} /\ enable_err = "0" /\ ipi = {} /\ targets = {}
  /\ left = {}
  /\ files = [k \in Fds |-> 0]

-----------------------------------------------------------------------------
(* mini_kvm_init()                                                         *)

\* mini_cpu_vmx_supported(): CPUID and IA32_FEATURE_CONTROL are per CPU.
VmxSupported(c) == c \notin Unsupported

\* mini_vmx_read_capabilities() asks only the CPU insmod runs on.
CapabilitiesRead == \E c \in online : VmxSupported(c)

Insmod ==
  /\ loader = "unloaded" /\ CapabilitiesRead
  /\ loader' = "alloc"
  /\ done' = {} /\ page' = {} /\ left' = left \ online
  /\ UNCHANGED <<machine, enable_err, ipi, targets>>

Possible == CPUs

\* One region for every possible CPU; a failure gives back those before it.
AllocPage ==
  /\ loader = "alloc"
  /\ \E c \in Possible \ page :
       \/ page' = page \cup {c} /\ UNCHANGED loader
       \/ page' = {} /\ loader' = "unloaded"
  /\ UNCHANGED <<machine, done, enable_err, ipi, targets, left>>

Allocated ==
  /\ loader = "alloc" /\ Possible \subseteq page
  /\ loader' = "ready"
  /\ UNCHANGED <<machine, page, done, enable_err, ipi, targets, left>>

EachCpu == online

StartEnable ==
  /\ loader = "ready"
  /\ enable_err' = "0"
  /\ ipi' = EachCpu /\ targets' = EachCpu
  /\ loader' = "enabling"
  /\ UNCHANGED <<machine, page, done, left>>

\* mini_cpu_vmxon(): VMfail and a fault of VMXON both come back as -EIO.
Vmxon(c) ==
  \/ vmx' = [vmx EXCEPT ![c] = "mini"] /\ enable_err' = "0"
  \/ enable_err' = "EIO" /\ UNCHANGED vmx

\* mini_vmx_enable_one(): the checks on this very CPU, then CR4.VMXE and VMXON.
InUse_unchecked(c) == FALSE
InUse(c) == c \in vmxe

EnableOne(c) ==
  /\ loader = "enabling" /\ c \in ipi
  /\ ipi' = ipi \ {c}
  /\ \/ /\ enable_err # "0"
        /\ UNCHANGED <<vmxe, vmx, done, enable_err>>
     \/ /\ enable_err = "0" /\ ~VmxSupported(c)
        /\ enable_err' = "ENODEV" /\ UNCHANGED <<vmxe, vmx, done>>
     \/ /\ enable_err = "0" /\ VmxSupported(c) /\ InUse(c)
        /\ enable_err' = "EBUSY" /\ UNCHANGED <<vmxe, vmx, done>>
     \/ /\ enable_err = "0" /\ VmxSupported(c) /\ ~InUse(c)
        /\ Vmxon(c)
        /\ IF enable_err' = "0"
           THEN vmxe' = vmxe \cup {c} /\ done' = done \cup {c}
           ELSE vmxe' = vmxe \ {c} /\ UNCHANGED done
  /\ UNCHANGED <<loader, online, page, targets, left>>

Failed == enable_err # "0"

Enabled ==
  /\ loader = "enabling" /\ ipi = {}
  /\ IF Failed THEN loader' = "rollback" /\ ipi' = online
               ELSE loader' = "register" /\ UNCHANGED ipi
  /\ UNCHANGED <<machine, page, done, enable_err, targets, left>>

\* misc_register(); when it fails everything is taken back.
Register ==
  /\ loader = "register"
  /\ \/ loader' = "loaded" /\ UNCHANGED ipi
     \/ loader' = "exiting" /\ ipi' = online
  /\ UNCHANGED <<machine, page, done, enable_err, targets, left>>

-----------------------------------------------------------------------------
(* mini_kvm_exit() and the way back of a failed load.                      *)

\* .owner = THIS_MODULE: an open file keeps the module in.
Owned_dev == {"dev"}
Owned == {"dev", "vm", "vcpu"}

Rmmod ==
  /\ loader = "loaded" /\ \A k \in Owned : files[k] = 0
  /\ loader' = "exiting" /\ ipi' = online
  /\ UNCHANGED <<machine, page, done, enable_err, targets, left>>

\* mini_vmx_disable_one(): VMXOFF, whose fault is absorbed, then CR4.VMXE.
IsOurs(c) == c \in done

DisableOne(c) ==
  /\ loader \in {"rollback", "exiting"} /\ c \in ipi
  /\ ipi' = ipi \ {c}
  /\ IF IsOurs(c)
     THEN /\ vmx' = [vmx EXCEPT ![c] = "off"]
          /\ vmxe' = vmxe \ {c}
          /\ done' = done \ {c}
     ELSE UNCHANGED <<vmx, vmxe, done>>
  /\ UNCHANGED <<loader, online, page, enable_err, targets, left>>

FreePages_leak == page
FreePages == {}

Disabled ==
  /\ loader \in {"rollback", "exiting"} /\ ipi = {}
  /\ page' = FreePages
  /\ loader' = "unloaded"
  /\ UNCHANGED <<machine, done, enable_err, ipi, targets, left>>

Module ==
  \/ AllocPage \/ Allocated \/ StartEnable \/ Enabled \/ Register \/ Disabled
  \/ \E c \in CPUs : EnableOne(c) \/ DisableOne(c)

-----------------------------------------------------------------------------
(* The files: open(2), KVM_CREATE_VM on /dev/mini-kvm, KVM_CREATE_VCPU on a VM. *)

MayOpen(k) ==
  \/ k = "dev" /\ loader = "loaded"
  \/ k = "vm" /\ files["dev"] > 0
  \/ k = "vcpu" /\ files["vm"] > 0

OpenFile(k) ==
  /\ MayOpen(k) /\ files[k] < MaxFiles
  /\ files' = [files EXCEPT ![k] = @ + 1]
  /\ UNCHANGED loading

CloseFile(k) ==
  /\ files[k] > 0
  /\ files' = [files EXCEPT ![k] = @ - 1]
  /\ UNCHANGED loading

-----------------------------------------------------------------------------
(* The rest of the machine.                                                *)

OtherOn(c) ==
  /\ c \in online /\ c \notin vmxe
  /\ vmxe' = vmxe \cup {c} /\ vmx' = [vmx EXCEPT ![c] = "other"]
  /\ UNCHANGED <<loader, online, page, done, enable_err, ipi, targets, left>>

OtherOff(c) ==
  /\ vmx[c] = "other"
  /\ vmxe' = vmxe \ {c} /\ vmx' = [vmx EXCEPT ![c] = "off"]
  /\ UNCHANGED <<loader, online, page, done, enable_err, ipi, targets, left>>

\* mini-kvm has no hotplug callback.  A CPU that leaves in VMX operation ignores INIT;
\* what brings it back is a reset (resume from S3, replacement), after which it is in
\* VMX operation no more, whatever mini_vmxon_done says.
GoOffline(c) ==
  /\ c \in online \ ipi /\ vmx[c] # "other" /\ online # {c}
  /\ online' = online \ {c}
  /\ left' = IF vmx[c] = "mini" THEN left \cup {c} ELSE left
  /\ UNCHANGED <<loader, vmxe, vmx, page, done, enable_err, ipi, targets>>

GoOnline(c) ==
  /\ c \in CPUs \ online
  /\ online' = online \cup {c} /\ vmxe' = vmxe \ {c}
  /\ vmx' = [vmx EXCEPT ![c] = "off"]
  /\ left' = IF c \in done THEN left ELSE left \ {c}
  /\ UNCHANGED <<loader, page, done, enable_err, ipi, targets>>

Loading ==
  \/ Insmod \/ Rmmod \/ Module
  \/ \E c \in CPUs : OtherOn(c) \/ OtherOff(c) \/ GoOffline(c) \/ GoOnline(c)

LoadNext ==
  \/ Loading /\ UNCHANGED files
  \/ \E k \in Fds : OpenFile(k) \/ CloseFile(k)

LoadSpec == LoadInit /\ [][LoadNext]_loadVars

-----------------------------------------------------------------------------
(* Properties.                                                             *)

\* A CPU that is online and in VMX operation for mini-kvm has its VMXON region.  (One
\* that left in VMX operation loses it when the module goes.)
RegionHeld == \A c \in online : vmx[c] = "mini" => c \in page /\ c \in vmxe

\* No step of mini-kvm takes a CPU from another hypervisor or clears CR4.VMXE
\* under it, whatever fails while both start and stop.  (A CPU that left in VMX
\* operation and came back may have been taken by another while mini_vmxon_done,
\* which nobody resets, still claims it.)
OthersUndisturbed ==
  [][Module => \A c \in CPUs \ left :
       vmx[c] = "other" => vmx'[c] = "other" /\ c \in vmxe']_loadVars

\* A load that succeeded covers every CPU that was online when it began, but for
\* those that have left since.
LoadCoversAll ==
  loader \in {"register", "loaded"} =>
    \A c \in targets \ left : c \in online /\ vmx[c] = "mini"

\* After unloading, and after a load that failed at any point, nothing of mini-kvm
\* is left on any CPU the machine still has, however CPUs came and went: "unloading
\* must be clean" (main.c:311-312).  A file that is still open would lead into code
\* that is gone, on CPUs without VMX operation.
CleanWhenUnloaded ==
  loader = "unloaded" =>
    /\ page = {} /\ \A k \in Fds : files[k] = 0
    /\ \A c \in online : vmx[c] # "mini" /\ (c \in vmxe => vmx[c] = "other")
    /\ \A c \in CPUs : vmx[c] = "mini" => c \in left
=============================================================================
