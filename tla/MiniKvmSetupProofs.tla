------------------------- MODULE MiniKvmSetupProofs -------------------------
(***************************************************************************)
(* Proofs about what mini-kvm sets up before a guest can run.              *)
(*                                                                         *)
(* MiniKvmLoad (VMX enable and disable), for any set of CPUs of which any  *)
(* may lack VMX, come and go at any moment.                                *)
(*                                                                         *)
(* MiniKvmFields (VMCS fields, controls and entry code), for any CPUs,     *)
(* tasks and PCIDs and for every processor of Hardware.                    *)
(***************************************************************************)
EXTENDS MiniKvmLoad, MiniKvmFields, TLAPS

-----------------------------------------------------------------------------
(* MiniKvmLoad: the invariant.                                             *)

\* CR4.VMXE is set on the CPUs in VMX operation; mini_cpu_in_vmx_operation() is right
\* about every CPU that has not left in VMX operation, and one that did and is back is
\* not in VMX operation for mini-kvm.
Exact ==
  \A c \in CPUs : /\ c \in vmxe <=> vmx[c] # "off"
                  /\ vmx[c] = "other" => c \in online
                  /\ c \notin left => /\ c \in done <=> vmx[c] = "mini"
                                      /\ vmx[c] # "off" => c \in online
                  /\ c \in left /\ c \in online => vmx[c] # "mini"

\* The regions are there from the end of the allocation to the end of the
\* unloading.
Allocation ==
  /\ loader = "unloaded" => page = {} /\ done \subseteq left
  /\ loader \in {"alloc", "ready"} => done = {} /\ left \cap online = {}
  /\ loader \notin {"unloaded", "alloc"} => page = CPUs

\* The callbacks that are still to come reach every CPU that needs one, and none
\* enables a CPU that has been away in the meantime.
Callbacks ==
  /\ loader \notin {"enabling", "rollback", "exiting"} => ipi = {}
  /\ loader \in {"rollback", "exiting"} => done \ left \subseteq ipi
  /\ loader = "enabling" => left \cap ipi = {}
  /\ loader = "enabling" /\ enable_err = "0" => targets \subseteq ipi \cup done
  /\ loader \in {"register", "loaded"} => targets \subseteq done

\* While any file is open the module is loaded.
FilesHold == loader # "loaded" => \A k \in Fds : files[k] = 0

LoadInv == TypeOK /\ Exact /\ Allocation /\ Callbacks /\ FilesHold

\* The module is not there, and no CPU is in VMX operation for it.
LEMMA InitLoadInv == LoadInit => LoadInv
BY LoadConstantsOK
   DEF LoadInit, LoadInv, TypeOK, Exact, Allocation, Callbacks, FilesHold, Fds,
       LoadConstantsOK

\* /dev/mini-kvm is open only while the module is loaded.
LEMMA StepFiles == FilesHold /\ TypeOK /\ [LoadNext]_loadVars => FilesHold'
<1> SUFFICES ASSUME FilesHold, TypeOK, [LoadNext]_loadVars PROVE FilesHold'
  OBVIOUS
<1>1. CASE Loading /\ UNCHANGED files
  <2>1. CASE Rmmod
    BY <1>1, <2>1 DEF Rmmod, Owned, Fds, FilesHold
  <2>2. CASE loader' = "loaded" \/ loader # "loaded"
    BY <1>1, <2>2 DEF FilesHold
  <2> QED
    BY <1>1, <2>1, <2>2
       DEF Loading, Module, Insmod, AllocPage, Allocated, StartEnable, Enabled,
           Register, Disabled, EnableOne, DisableOne, OtherOn, OtherOff, GoOffline,
           GoOnline
<1>2. ASSUME NEW k \in Fds, OpenFile(k) PROVE FilesHold'
  BY <1>2 DEF OpenFile, MayOpen, loading, FilesHold, TypeOK, Fds
<1>3. ASSUME NEW k \in Fds, CloseFile(k) PROVE FilesHold'
  BY <1>3 DEF CloseFile, loading, FilesHold, TypeOK, Fds
<1>4. CASE UNCHANGED loadVars
  BY <1>4 DEF loadVars, loading, FilesHold
<1> QED  BY <1>1, <1>2, <1>3, <1>4 DEF LoadNext

\* Every action keeps the invariant.
LEMMA LoadStep == LoadInv /\ [LoadNext]_loadVars => LoadInv'
<1> SUFFICES ASSUME LoadInv, [LoadNext]_loadVars
             PROVE  (TypeOK /\ Exact /\ Allocation /\ Callbacks)'
  BY StepFiles DEF LoadInv
<1> DEFINE LInv == TypeOK /\ Exact /\ Allocation /\ Callbacks
<1> SUFFICES LInv'
  OBVIOUS
<1>0. LInv
  BY DEF LoadInv
<1>a. ASSUME NEW k \in Fds, OpenFile(k) PROVE LInv'
  BY <1>0, <1>a, LoadConstantsOK
     DEF OpenFile, loading, TypeOK, Exact, Allocation, Callbacks, LoadConstantsOK
<1>b. ASSUME NEW k \in Fds, CloseFile(k) PROVE LInv'
  BY <1>0, <1>b, LoadConstantsOK
     DEF CloseFile, loading, TypeOK, Exact, Allocation, Callbacks, LoadConstantsOK
<1>15. CASE UNCHANGED loadVars
  BY <1>0, <1>15 DEF loadVars, loading, TypeOK, Exact, Allocation, Callbacks
<1>c. SUFFICES ASSUME Loading, UNCHANGED files PROVE LInv'
  BY <1>a, <1>b, <1>15 DEF LoadNext
<1> USE <1>0, <1>c DEF machine
<1>1. CASE Insmod
  BY <1>1 DEF Insmod, TypeOK, Exact, Allocation, Callbacks
<1>2. CASE AllocPage
  BY <1>2 DEF AllocPage, Possible, TypeOK, Exact, Allocation, Callbacks
<1>3. CASE Allocated
  BY <1>3 DEF Allocated, Possible, TypeOK, Exact, Allocation, Callbacks
<1>4. CASE StartEnable
  BY <1>4 DEF StartEnable, EachCpu, TypeOK, Exact, Allocation, Callbacks
<1>5. ASSUME NEW c \in CPUs, EnableOne(c) PROVE LInv'
  <2>1. /\ loader = "enabling" /\ UNCHANGED <<loader, online, page, targets, left>>
        /\ ipi' = ipi \ {c}
    BY <1>5 DEF EnableOne
  <2>2. CASE UNCHANGED <<vmxe, vmx, done>> /\ enable_err' \in {"ENODEV", "EBUSY"}
    BY <2>1, <2>2 DEF TypeOK, Exact, Allocation, Callbacks
  <2>3. CASE UNCHANGED <<vmxe, vmx, done, enable_err>> /\ enable_err # "0"
    BY <2>1, <2>3 DEF TypeOK, Exact, Allocation, Callbacks
  <2>4. CASE /\ c \notin vmxe /\ c \in ipi
             /\ vmxe' = vmxe \cup {c} /\ vmx' = [vmx EXCEPT ![c] = "mini"]
             /\ done' = done \cup {c} /\ UNCHANGED enable_err
    BY <2>1, <2>4 DEF TypeOK, Exact, Allocation, Callbacks
  <2>5. CASE /\ c \notin vmxe /\ vmxe' = vmxe \ {c}
             /\ UNCHANGED <<vmx, done>> /\ enable_err' = "EIO"
    BY <2>1, <2>5 DEF TypeOK, Exact, Allocation, Callbacks
  <2> QED  BY <1>5, <2>2, <2>3, <2>4, <2>5 DEF EnableOne, InUse, Vmxon
<1>6. CASE Enabled
  BY <1>6 DEF Enabled, Failed, TypeOK, Exact, Allocation, Callbacks
<1>7. CASE Register
  BY <1>7 DEF Register, TypeOK, Exact, Allocation, Callbacks
<1>8. CASE Rmmod
  BY <1>8 DEF Rmmod, TypeOK, Exact, Allocation, Callbacks
<1>9. ASSUME NEW c \in CPUs, DisableOne(c) PROVE LInv'
  BY <1>9 DEF DisableOne, IsOurs, TypeOK, Exact, Allocation, Callbacks
<1>10. CASE Disabled
  BY <1>10 DEF Disabled, FreePages, TypeOK, Exact, Allocation, Callbacks
<1>11. ASSUME NEW c \in CPUs, OtherOn(c) PROVE LInv'
  BY <1>11 DEF OtherOn, TypeOK, Exact, Allocation, Callbacks
<1>12. ASSUME NEW c \in CPUs, OtherOff(c) PROVE LInv'
  BY <1>12 DEF OtherOff, TypeOK, Exact, Allocation, Callbacks
<1>13. ASSUME NEW c \in CPUs, GoOnline(c) PROVE LInv'
  BY <1>13 DEF GoOnline, TypeOK, Exact, Allocation, Callbacks
<1>14. ASSUME NEW c \in CPUs, GoOffline(c) PROVE LInv'
  BY <1>14 DEF GoOffline, TypeOK, Exact, Allocation, Callbacks
<1> QED
  BY <1>1, <1>2, <1>3, <1>4, <1>5, <1>6, <1>7, <1>8, <1>9, <1>10, <1>11, <1>12,
     <1>13, <1>14 DEF Loading, Module

-----------------------------------------------------------------------------
(* MiniKvmLoad: the theorems.                                              *)

\* It holds throughout.
LEMMA LoadAlways == LoadSpec => []LoadInv
<1>1. LoadInv /\ [LoadNext]_loadVars => LoadInv'
  BY LoadStep
<1> QED  BY InitLoadInv, <1>1, PTL DEF LoadSpec

\* Types are kept; a callback is due on online CPUs only.
THEOREM TypeCorrect == LoadSpec => []TypeOK
<1>1. LoadInv => TypeOK
  BY DEF LoadInv
<1>2. LoadSpec => []LoadInv
  BY LoadAlways
<1> QED  BY <1>1, <1>2, PTL

\* After unloading or a failed load nothing of mini-kvm is left on any CPU that the
\* machine has, and elsewhere only on one that left in VMX operation.
THEOREM UnloadIsClean == LoadSpec => []CleanWhenUnloaded
<1>1. LoadInv => CleanWhenUnloaded
  BY DEF LoadInv, TypeOK, Exact, Allocation, FilesHold, CleanWhenUnloaded
<1>2. LoadSpec => []LoadInv
  BY LoadAlways
<1> QED  BY <1>1, <1>2, PTL

\* VMX operation always has its region, though CPUs come online at any moment.
THEOREM RegionIsHeld == LoadSpec => []RegionHeld
<1>1. LoadInv => RegionHeld
  BY DEF LoadInv, TypeOK, Exact, Allocation, RegionHeld
<1>2. LoadSpec => []LoadInv
  BY LoadAlways
<1> QED  BY <1>1, <1>2, PTL

\* A load that succeeded covers the CPUs that were online when it began, but for those
\* that have left since.
THEOREM LoadCoversTargets == LoadSpec => []LoadCoversAll
<1>1. LoadInv => LoadCoversAll
  BY DEF LoadInv, TypeOK, Exact, Callbacks, LoadCoversAll
<1>2. LoadSpec => []LoadInv
  BY LoadAlways
<1> QED  BY <1>1, <1>2, PTL

\* No callback takes a CPU from another hypervisor or clears CR4.VMXE under it, those
\* excepted that left in VMX operation and came back.
THEOREM OthersAreUndisturbed == LoadSpec => OthersUndisturbed
<1> DEFINE Kept ==
  Module => \A c \in CPUs \ left : vmx[c] = "other" => vmx'[c] = "other" /\ c \in vmxe'
<1>1. LoadInv /\ [LoadNext]_loadVars => [Kept]_loadVars
  <2> SUFFICES ASSUME LoadInv, Module, NEW c \in CPUs \ left, vmx[c] = "other"
               PROVE  vmx'[c] = "other" /\ c \in vmxe'
    OBVIOUS
  <2>1. c \in vmxe /\ c \notin done /\ vmx \in [CPUs -> {"off", "mini", "other"}]
    BY DEF LoadInv, TypeOK, Exact
  <2>2. CASE AllocPage \/ Allocated \/ StartEnable \/ Enabled \/ Register \/ Disabled
    BY <2>1, <2>2 DEF AllocPage, Allocated, StartEnable, Enabled, Register,
                      Disabled, machine
  <2>3. ASSUME NEW d \in CPUs, EnableOne(d) PROVE vmx'[c] = "other" /\ c \in vmxe'
    BY <2>1, <2>3 DEF EnableOne, InUse, Vmxon
  <2>4. ASSUME NEW d \in CPUs, DisableOne(d) PROVE vmx'[c] = "other" /\ c \in vmxe'
    BY <2>1, <2>4 DEF DisableOne, IsOurs
  <2> QED  BY <2>2, <2>3, <2>4 DEF Module
<1>2. LoadSpec => []LoadInv
  BY LoadAlways
<1> QED  BY <1>1, <1>2, PTL DEF LoadSpec, OthersUndisturbed

-----------------------------------------------------------------------------
(* MiniKvmFields: the invariant.                                           *)

Labels == {"unloaded", "ready", "set_guest", "set_host", "set_done", "open", "start",
           "loop", "enter", "guest", "unhandled", "failed"}
Inside == {"guest", "unhandled", "failed"}
Running == {"loop", "enter"} \cup Inside
Built == {"open", "start"} \cup Running

\* What the fields are made of.
Places ==
  /\ pc \in Labels
  /\ cpu \in Cpus /\ task \in Tasks
  /\ DOMAIN host = HostFields

\* A field that mini_vmx_fixup_host_for_cpu() writes belongs to loaded_cpu; what
\* is written once is the same everywhere; the rest is fresh at each entry.
OnCpu(c) == [cpu |-> c, task |-> Nobody, asid |-> Nobody]
HostFresh ==
  /\ pc \in Built \cup {"set_done"} => \A f \in PerBoot : host[f] = OnCpu("kernel")
  /\ pc \in Built /\ loaded_cpu # Nobody =>
        \A f \in FixupFields : host[f] = OnCpu(loaded_cpu)
  /\ pc \in Running => loaded_cpu = cpu
  /\ pc \in {"enter"} \cup Inside => \A f \in RefreshFields : host[f] = Written(f)
  /\ pc \in Inside => host["RSP"] = Written("RSP")

\* KERNEL_GS_BASE, or the loop's copy while the guest may have changed it.
GsKept ==
  /\ pc \notin Inside => kernelGs = task
  /\ pc \in Inside => gs_shadow = task

\* The control fields are those negotiated with this processor.
ControlsFixed ==
  /\ hw \in Hardware
  /\ pc # "unloaded" => /\ "secondary" \in hw.can /\ Required \subseteq hw.ept_vpid
                        /\ mk_global.true_ctls = hw.true
  /\ pc \notin {"unloaded", "ready"} => ctl = Negotiated /\ Granted
  /\ pc \notin {"unloaded", "ready", "set_guest"} =>
       guest = [cr0 |-> MINI_GUEST_CR0, cr4 |-> MINI_GUEST_CR4,
                efer |-> MINI_GUEST_EFER, seg |-> {"cs64", "tss64", "unusable"}]

FieldsInv == Places /\ HostFresh /\ GsKept /\ ControlsFixed /\ ControlsSuffice

\* Every host field is in one of the three classes that HostFresh covers.
LEMMA Classes ==
  HostFields = PerBoot \cup FixupFields \cup RefreshFields \cup {"RSP"}
BY DEF HostFields, PerBoot, PerCpu, PerTask, FixupFields, RefreshFields

\* The value of a per-boot field names neither a CPU nor a task.
LEMMA BootValue == \A f \in PerBoot : Written(f) = OnCpu("kernel")
BY DEF PerBoot, PerCpu, PerTask, Written, Now, Nothing, OnCpu

\* The value of a field of mini_vmx_fixup_host_for_cpu() names the CPU only.
LEMMA CpuValue == cpu \in Cpus => \A f \in FixupFields : Written(f) = OnCpu(cpu)
BY FieldConstantsOK
   DEF FieldConstantsOK, FixupFields, PerCpu, PerTask, Written, Now, Nothing, OnCpu

\* No value that the code writes is the value of a field that was never written.
LEMMA NeverNothing == \A f \in HostFields : Written(f) # Nothing
BY FieldConstantsOK DEF FieldConstantsOK, Written, Now, Nothing

\* The negotiation leaves a vCPU that the processor accepts.
LEMMA Enterable ==
  ASSUME Places, HostFresh, ControlsFixed, pc = "enter"
  PROVE  EntryOK
<1>1. /\ {"walk4", "wb"} \subseteq hw.ept_vpid /\ "ept" \in ctl["secondary"]
      /\ "host64" \in ctl["exit"]
  BY DEF ControlsFixed, Required, Negotiated, AdjustControl, Granted, Desired, Controls,
         Hardware, Basic
<1>2. ASSUME NEW w \in Controls
      PROVE  MustBeOne(w) \cap OfWord[w] \subseteq ctl[w] /\ ctl[w] \subseteq hw.can
  <2>1. ctl[w] = (Desired[w] \cap hw.can) \cup (MustBeOne(w) \cap OfWord[w])
    BY DEF ControlsFixed, Negotiated, AdjustControl
  <2>2. MustBeOne(w) \subseteq DefaultOne /\ DefaultOne \subseteq hw.can
    BY DEF ControlsFixed, MustBeOne, Hardware, DefaultOne
  <2> QED  BY <2>1, <2>2
<1>3. \A f \in HostFields : host[f] # Nothing \/ f = "RSP"
  BY Classes, BootValue, CpuValue, NeverNothing, FieldConstantsOK
     DEF Places, HostFresh, Running, Built, Inside, FieldConstantsOK
<1>4. /\ Cr0Fixed \subseteq guest.cr0 /\ Cr4Fixed \subseteq guest.cr4
      /\ "PG" \in guest.cr0 /\ "PAE" \in guest.cr4
      /\ "LMA" \in guest.efer /\ "LME" \in guest.efer
      /\ guest.seg = {"cs64", "tss64", "unusable"}
  BY DEF ControlsFixed, Cr0Fixed, Cr4Fixed, MINI_GUEST_CR0, MINI_GUEST_CR4,
         MINI_GUEST_EFER
<1>5. "ia32e" \in ctl["entry"]
  BY DEF ControlsFixed, Negotiated, AdjustControl, Desired, Controls, Hardware, Basic
<1> QED  BY <1>1, <1>2, <1>3, <1>4, <1>5 DEF EntryOK

\* With TRUE capability MSRs nothing forces an exit of the guest's MOV to CR3.
LEMMA Cr3Free == ControlsFixed /\ pc = "guest" /\ "cr3_load" \in ctl["cpu"] => ~hw.true
BY DEF ControlsFixed, Negotiated, AdjustControl, Desired, Controls, MustBeOne, Hardware

\* A vCPU that does not exist yet satisfies it.
LEMMA InitFieldsInv == Init => FieldsInv
BY DEF Init, FieldsInv, Places, Labels, Inside, Running, Built, HostFresh, GsKept,
       ControlsFixed, ControlsSuffice, NoHost

\* Every action keeps the invariant.
LEMMA FieldsStep == FieldsInv /\ [Next]_vars => FieldsInv'
<1> SUFFICES ASSUME FieldsInv, [Next]_vars PROVE FieldsInv'
  OBVIOUS
<1> USE DEF Inside, Running, Built, place, vmcs, gs
<1>0. Places /\ HostFresh /\ GsKept /\ ControlsFixed /\ ControlsSuffice
  BY DEF FieldsInv
<1>1. CASE ReadCapabilities
  BY <1>0, <1>1 DEF ReadCapabilities, FieldsInv, Places, Labels, HostFresh, GsKept,
                    ControlsFixed, ControlsSuffice, Hardware
<1>2. ASSUME NEW c \in Cpus, NEW t \in Tasks, SetupControls(c, t) PROVE FieldsInv'
  <2>1. Places' /\ HostFresh' /\ GsKept' /\ ControlsSuffice'
    BY <1>0, <1>2 DEF SetupControls, Places, Labels, HostFresh, GsKept, ControlsSuffice
  <2>2. ControlsFixed'
    BY <1>0, <1>2 DEF SetupControls, ControlsFixed, Granted, Negotiated, AdjustControl,
                      MustBeOne
  <2> QED  BY <2>1, <2>2 DEF FieldsInv
<1>a. UNCHANGED <<hw, mk_global>> => Negotiated' = Negotiated /\ Granted' = Granted
  BY DEF Negotiated, Granted, AdjustControl, MustBeOne
<1>3. CASE SetGuestState
  BY <1>0, <1>a, <1>3 DEF SetGuestState, FieldsInv, Places, Labels, HostFresh, GsKept,
                          ControlsFixed, ControlsSuffice
<1>4. CASE SetHostState
  <2>1. HostFresh'
    BY <1>0, <1>4, BootValue, Classes
       DEF SetHostState, WriteHost, HostFresh, OnCpu
  <2> QED
    BY <1>0, <1>a, <1>4, <2>1
       DEF SetHostState, WriteHost, FieldsInv, Places, Labels, GsKept,
                                  ControlsFixed, ControlsSuffice
<1>5. CASE SetupDone
  BY <1>0, <1>a, <1>5 DEF SetupDone, FieldsInv, Places, Labels, HostFresh, GsKept,
                          ControlsFixed, ControlsSuffice
<1>6. ASSUME NEW c \in Cpus, NEW t \in Tasks, NEW a \in Asids, RunStart(c, t, a)
      PROVE  FieldsInv'
  BY <1>0, <1>a, <1>6 DEF RunStart, FieldsInv, Places, Labels, HostFresh, GsKept,
                          ControlsFixed, ControlsSuffice
<1>7. CASE Load
  <2>1. HostFresh'
    BY <1>0, <1>7, CpuValue, FieldConstantsOK, Classes, BootValue
       DEF Load, HostFresh, Places, FieldConstantsOK, OnCpu
  <2> QED
    BY <1>0, <1>a, <1>7, <2>1
       DEF Load, FieldsInv, Places, Labels, GsKept, ControlsFixed,
                                  ControlsSuffice
<1>8. CASE Refresh
  <2>1. /\ PerBoot \cap RefreshFields = {} /\ FixupFields \cap RefreshFields = {}
        /\ RefreshFields \subseteq HostFields
    BY DEF PerBoot, RefreshFields, FixupFields, HostFields, PerCpu, PerTask
  <2>2. HostFresh'
    BY <1>0, <1>8, <2>1, Classes DEF Refresh, WriteHost, HostFresh, Written, Now
  <2> QED
    BY <1>0, <1>a, <1>8, <2>2 DEF Refresh, WriteHost, FieldsInv, Places, Labels, GsKept,
                                  ControlsFixed, ControlsSuffice
<1>9. CASE Enter
  <2>1. EntryOK /\ pc' = "guest"
    BY <1>0, <1>9, Enterable DEF Enter
  <2>2. "RSP" \in HostFields /\ "RSP" \notin PerBoot \cup FixupFields \cup RefreshFields
    BY DEF PerBoot, RefreshFields, FixupFields, HostFields, PerCpu, PerTask
  <2>3. HostFresh'
    BY <1>0, <1>9, <2>1, <2>2, Classes DEF Enter, WriteHost, HostFresh, Written, Now
  <2>4. GsKept' /\ Places' /\ ControlsFixed' /\ ControlsSuffice'
    BY <1>0, <1>a, <1>9, <2>1 DEF Enter, SaveGs, WriteHost, Places, Labels, GsKept,
                                  ControlsFixed, ControlsSuffice
  <2> QED  BY <2>3, <2>4 DEF FieldsInv
<1>10. CASE GuestSwapgs
  <2>1. \A f : Written(f)' = Written(f)
    BY <1>10 DEF GuestSwapgs, Written, Now
  <2> QED
    BY <1>0, <1>a, <1>10, <2>1
       DEF GuestSwapgs, FieldsInv, Places, Labels, HostFresh, GsKept,
                                   ControlsFixed, ControlsSuffice
<1>11. CASE GuestLoadsCr3
  <2>1. \A f : Written(f)' = Written(f)
    BY <1>11 DEF GuestLoadsCr3, Written, Now
  <2> QED
    BY <1>0, <1>a, <1>11, <2>1, Cr3Free
       DEF GuestLoadsCr3, FieldsInv, Places, Labels, HostFresh, GsKept, ControlsFixed,
           ControlsSuffice
<1>12. CASE Exit
  BY <1>0, <1>a, <1>12
     DEF Exit, FieldsInv, Places, Labels, HostFresh, GsKept, ControlsFixed,
                           ControlsSuffice
<1>13. CASE UNCHANGED vars
  <2>1. \A f : Written(f)' = Written(f)
    BY <1>13 DEF vars, Written, Now
  <2> QED
    BY <1>0, <1>a, <1>13, <2>1 DEF vars, FieldsInv, Places, Labels, HostFresh, GsKept,
                                   ControlsFixed, ControlsSuffice
<1> QED
  BY <1>1, <1>2, <1>3, <1>4, <1>5, <1>6, <1>7, <1>8, <1>9, <1>10, <1>11, <1>12, <1>13
     DEF Next

LEMMA FieldsAlways == Spec => []FieldsInv
BY InitFieldsInv, FieldsStep, PTL DEF Spec

-----------------------------------------------------------------------------
(* MiniKvmFields: the theorems.                                            *)

\* Every VM exit finds the host state of the CPU and the task that are resumed.
THEOREM HostIsRestored == Spec => []HostStateCurrent
<1>1. FieldsInv => HostStateCurrent
  <2> SUFFICES ASSUME FieldsInv, pc = "guest"
               PROVE  \A f \in HostFields : host[f] = Written(f)
    BY DEF HostStateCurrent
  <2>1. Places /\ HostFresh
    BY DEF FieldsInv
  <2> QED
    BY <2>1, FieldConstantsOK, Classes, BootValue, CpuValue
       DEF HostFresh, Places, FieldConstantsOK, Inside, Running, Built
<1> QED  BY <1>1, FieldsAlways, PTL

\* Out of the guest KERNEL_GS_BASE is the executing thread's, whatever the guest
\* did with SWAPGS.
THEOREM GsIsRestored == Spec => []KernelGsIsHosts
<1>1. FieldsInv => KernelGsIsHosts
  BY DEF FieldsInv, GsKept, KernelGsIsHosts, Inside
<1> QED  BY <1>1, FieldsAlways, PTL

\* On every processor on which a vCPU can be created it can be entered, and with
\* TRUE capability MSRs its guest may load CR3.
THEOREM CreatedMeansRunnable == Spec => []ControlsSuffice
<1>1. FieldsInv => ControlsSuffice
  BY DEF FieldsInv
<1> QED  BY <1>1, FieldsAlways, PTL
=============================================================================
