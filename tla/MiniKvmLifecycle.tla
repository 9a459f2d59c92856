-------------------------- MODULE MiniKvmLifecycle --------------------------
(***************************************************************************)
(* Lifetime of one mini-kvm VM: the VM fd, its vCPU fds, the kref in       *)
(* struct mini_kvm, the single memslot and its pinned pages                *)
(* (phase9-capstone/practice/mini-kvm/vcpu.c).                             *)
(*                                                                         *)
(* Several threads of the process issue ioctls on the two kinds of fd and  *)
(* close them in any order.  As in the kernel, release() of a file runs    *)
(* after close() once no ioctl on that file is in flight.  The VMCS side   *)
(* of a vCPU is the subject of MiniKvmVmcs.                                *)
(***************************************************************************)
EXTENDS Naturals, FiniteSets

CONSTANTS
  Threads,
  Setters,   \* the threads that issue KVM_SET_USER_MEMORY_REGION
  Regions,   \* user memory regions, one per call
  Objs,      \* struct mini_kvm_vcpu allocations
  NoThread, NoRegion, NoObj

ASSUME ConstantsOK ==
  /\ Setters \subseteq Threads
  /\ IsFiniteSet(Objs)
  /\ NoThread \notin Threads /\ NoRegion \notin Regions /\ NoObj \notin Objs

VARIABLES
  vm,         \* struct mini_kvm: "none", "live" or "freed"
  vmFd,       \* "none", "open", "closed" or "released"
  refs,       \* kvm->refcount
  lock,       \* holder of kvm->lock
  vptr,       \* kvm->vcpu
  slotBase, slotPages, slotValid, \* kvm->slot: geometry, pages array, valid
  pinned,     \* regions whose pages pin_user_pages() holds
  raced,      \* history: regions of calls that overlapped another such call
  obj,        \* "none", "built", "ref" (VM reference taken), "live", "unlinked"
  ofd,        \* the vCPU fd: "none", "open" or "closed"
  mapped,     \* vCPUs whose kvm_run page user space has mapped
  pc, region, mine  \* each thread's position, region and vCPU

slotVars == <<slotBase, slotPages, slotValid, pinned, raced>>
vmVars   == <<vm, vmFd, refs, lock, vptr>>
vars     == <<vmVars, slotVars, obj, ofd, mapped, pc, region, mine>>

VmLabels == {"set_pin", "set_geometry", "set_pages", "cre_get", "cre_lock",
             "cre_install", "cre_unlock", "cre_free", "serial"}

TypeOK ==
  /\ vm \in {"none", "live", "freed"}
  /\ vmFd \in {"none", "open", "closed", "released"}
  /\ refs \in Nat
  /\ lock \in Threads \cup {NoThread}
  /\ vptr \in Objs \cup {NoObj}
  /\ slotBase \in Regions \cup {NoRegion}
  /\ slotPages \in Regions \cup {NoRegion}
  /\ slotValid \in BOOLEAN
  /\ pinned \in SUBSET Regions /\ raced \in SUBSET Regions
  /\ obj \in [Objs -> {"none", "built", "ref", "live", "unlinked"}]
  /\ ofd \in [Objs -> {"none", "open", "closed"}]
  /\ mapped \in SUBSET Objs
  /\ pc \in [Threads -> VmLabels \cup {"idle", "run"}]
  /\ region \in [Threads -> Regions \cup {NoRegion}]
  /\ mine \in [Threads -> Objs \cup {NoObj}]

Init ==
  /\ vm = "none" /\ vmFd = "none" /\ refs = 0
  /\ lock = NoThread /\ vptr = NoObj
  /\ slotBase = NoRegion /\ slotPages = NoRegion /\ slotValid = FALSE
  /\ pinned = {} /\ raced = {}
  /\ obj = [x \in Objs |-> "none"]
  /\ ofd = [x \in Objs |-> "none"] /\ mapped = {}
  /\ pc = [t \in Threads |-> "idle"]
  /\ region = [t \in Threads |-> NoRegion]
  /\ mine = [t \in Threads |-> NoObj]

Goto(t, label) == pc' = [pc EXCEPT ![t] = label]
SetObj(x, state) == obj' = [obj EXCEPT ![x] = state]

-----------------------------------------------------------------------------
(* mini_kvm_put(): kref_put(), with mini_kvm_destroy() at zero.            *)

\* mini_kvm_unpin_memslot()
Unpin_skipped == UNCHANGED slotVars
Unpin ==
  IF slotValid
  THEN /\ pinned' = pinned \ {slotPages}
       /\ slotPages' = NoRegion
       /\ slotValid' = FALSE
       /\ UNCHANGED <<slotBase, raced>>
  ELSE UNCHANGED slotVars

Put ==
  /\ refs' = refs - 1
  /\ IF refs = 1
     THEN vm' = "freed" /\ Unpin
     ELSE UNCHANGED <<vm, slotVars>>

-----------------------------------------------------------------------------
(* KVM_CREATE_VM: the VM fd owns the first reference.                      *)

CreateVm ==
  /\ vm = "none"
  /\ vm' = "live" /\ vmFd' = "open" /\ refs' = 1
  /\ UNCHANGED <<lock, vptr, slotVars, obj, ofd, pc, region, mine, mapped>>

-----------------------------------------------------------------------------
(* KVM_SET_USER_MEMORY_REGION: mini_kvm_set_memregion() takes no lock.     *)

\* The regions of the calls under way.
InHands == {region[s] : s \in Threads} \ {NoRegion}

\* -EEXIST once a slot is valid; otherwise allocate the pages array.
SlotFree == ~slotValid

SetCheck(t, r) ==
  /\ pc[t] = "idle" /\ t \in Setters /\ vmFd = "open" /\ SlotFree
  /\ r \notin pinned \cup InHands
  /\ region' = [region EXCEPT ![t] = r]
  /\ raced' = IF InHands = {} THEN raced \ {r} ELSE raced \cup InHands \cup {r}
  /\ Goto(t, "set_pin")
  /\ UNCHANGED <<vmVars, slotBase, slotPages, slotValid, pinned, obj, ofd, mine,
                 mapped>>

SetPin(t) ==
  /\ pc[t] = "set_pin"
  /\ pinned' = pinned \cup {region[t]}
  /\ Goto(t, "set_geometry")
  /\ UNCHANGED <<vmVars, slotBase, slotPages, slotValid, raced, obj, ofd, region,
                 mine, mapped>>

\* Too few pages pinned: unpin them, -EFAULT.
SetPinFail(t) ==
  /\ pc[t] = "set_pin"
  /\ region' = [region EXCEPT ![t] = NoRegion]
  /\ Goto(t, "idle")
  /\ UNCHANGED <<vmVars, slotVars, obj, ofd, mine, mapped>>

SetGeometry(t) ==
  /\ pc[t] = "set_geometry"
  /\ slotBase' = region[t]
  /\ Goto(t, "set_pages")
  /\ UNCHANGED <<vmVars, slotPages, slotValid, pinned, raced, obj, ofd, region,
                 mine, mapped>>

SetPages(t) ==
  /\ pc[t] = "set_pages"
  /\ slotPages' = region[t] /\ slotValid' = TRUE
  /\ region' = [region EXCEPT ![t] = NoRegion]
  /\ Goto(t, "idle")
  /\ UNCHANGED <<vmVars, slotBase, pinned, raced, obj, ofd, mine, mapped>>

SetRegion(t) == \/ SetPin(t) \/ SetPinFail(t) \/ SetGeometry(t) \/ SetPages(t)

-----------------------------------------------------------------------------
(* KVM_CREATE_VCPU: mini_kvm_create_vcpu().                                *)

\* Needs a slot; allocates the vCPU and sets up its VMCS.
SlotReady == slotValid

CreateCheck(t, x) ==
  /\ pc[t] = "idle" /\ vmFd = "open" /\ SlotReady /\ obj[x] = "none"
  /\ SetObj(x, "built")
  /\ mine' = [mine EXCEPT ![t] = x]
  /\ Goto(t, "cre_get")
  /\ UNCHANGED <<vmVars, slotVars, ofd, region, mapped>>

\* The VM reference is taken before anything is published.
CreateGet_late(t) ==
  /\ pc[t] = "cre_get"
  /\ SetObj(mine[t], "ref")
  /\ Goto(t, "cre_lock")
  /\ UNCHANGED <<vmVars, slotVars, ofd, region, mine, mapped>>
CreateGet(t) ==
  /\ pc[t] = "cre_get"
  /\ refs' = refs + 1
  /\ SetObj(mine[t], "ref")
  /\ Goto(t, "cre_lock")
  /\ UNCHANGED <<vm, vmFd, lock, vptr, slotVars, ofd, region, mine, mapped>>

\* Under kvm->lock: a second vCPU is refused with -EEXIST ...
Occupied == vptr # NoObj

CreateExists(t) ==
  /\ pc[t] = "cre_lock" /\ lock = NoThread /\ Occupied
  /\ Put
  /\ SetObj(mine[t], "built")
  /\ Goto(t, "cre_free")
  /\ UNCHANGED <<vmFd, lock, vptr, ofd, region, mine, mapped>>

\* ... the first one becomes kvm->vcpu ...
CreatePublish(t) ==
  /\ pc[t] = "cre_lock" /\ lock = NoThread /\ ~Occupied
  /\ lock' = t /\ vptr' = mine[t]
  /\ Goto(t, "cre_install")
  /\ UNCHANGED <<vm, vmFd, refs, slotVars, obj, ofd, region, mine, mapped>>

\* ... and its fd becomes visible while the lock is still held.
CreateInstall(t) ==
  /\ pc[t] = "cre_install"
  /\ ofd' = [ofd EXCEPT ![mine[t]] = "open"]
  /\ SetObj(mine[t], "live")
  /\ Goto(t, "cre_unlock")
  /\ UNCHANGED <<vmVars, slotVars, region, mine, mapped>>

CreateInstallFail_noput(t) ==
  /\ pc[t] = "cre_install"
  /\ lock' = NoThread /\ vptr' = NoObj
  /\ SetObj(mine[t], "built")
  /\ Goto(t, "cre_free")
  /\ UNCHANGED <<vm, vmFd, refs, slotVars, ofd, region, mine, mapped>>
CreateInstallFail(t) ==
  /\ pc[t] = "cre_install"
  /\ lock' = NoThread /\ vptr' = NoObj
  /\ Put
  /\ SetObj(mine[t], "built")
  /\ Goto(t, "cre_free")
  /\ UNCHANGED <<vmFd, ofd, region, mine, mapped>>

CreateUnlock(t) ==
  /\ pc[t] = "cre_unlock"
  /\ lock' = NoThread
  /\ mine' = [mine EXCEPT ![t] = NoObj]
  /\ Goto(t, "idle")
  /\ UNCHANGED <<vm, vmFd, refs, vptr, slotVars, obj, ofd, region, mapped>>

\* err_teardown (also when the VMCS could not be set up).
CreateFree(t) ==
  /\ pc[t] \in {"cre_get", "cre_free"}
  /\ SetObj(mine[t], "none")
  /\ mine' = [mine EXCEPT ![t] = NoObj]
  /\ Goto(t, "idle")
  /\ UNCHANGED <<vmVars, slotVars, ofd, region, mapped>>

CreateVcpu(t) ==
  \/ CreateGet(t) \/ CreateExists(t) \/ CreatePublish(t) \/ CreateInstall(t)
  \/ CreateInstallFail(t) \/ CreateUnlock(t) \/ CreateFree(t)

-----------------------------------------------------------------------------
(* KVM_RUN uses the VM's EPT and memslot until it returns.                 *)

RunBegin(t, x) ==
  /\ pc[t] = "idle" /\ ofd[x] = "open"
  /\ mine' = [mine EXCEPT ![t] = x]
  /\ Goto(t, "run")
  /\ UNCHANGED <<vmVars, slotVars, obj, ofd, region, mapped>>

RunEnd(t) ==
  /\ pc[t] = "run"
  /\ mine' = [mine EXCEPT ![t] = NoObj]
  /\ Goto(t, "idle")
  /\ UNCHANGED <<vmVars, slotVars, obj, ofd, region, mapped>>

\* mini_vcpu_mmap(): the page is remapped without a reference of its own; the
\* mapping holds the file, as an fd does.
Mmap(x) ==
  /\ ofd[x] = "open" /\ mapped' = mapped \cup {x}
  /\ UNCHANGED <<vmVars, slotVars, obj, ofd, pc, region, mine>>

Munmap(x) ==
  /\ x \in mapped /\ mapped' = mapped \ {x}
  /\ UNCHANGED <<vmVars, slotVars, obj, ofd, pc, region, mine>>

-----------------------------------------------------------------------------
(* MINI_KVM_VM_GET_SERIAL waits for kvm->lock.                             *)

SerialBegin(t) ==
  /\ pc[t] = "idle" /\ vmFd = "open"
  /\ Goto(t, "serial")
  /\ UNCHANGED <<vmVars, slotVars, obj, ofd, region, mine, mapped>>

SerialEnd(t) ==
  /\ pc[t] = "serial" /\ lock = NoThread
  /\ Goto(t, "idle")
  /\ UNCHANGED <<vmVars, slotVars, obj, ofd, region, mine, mapped>>

-----------------------------------------------------------------------------
(* close() and release().                                                  *)

CloseVm ==
  /\ vmFd = "open" /\ vmFd' = "closed"
  /\ UNCHANGED <<vm, refs, lock, vptr, slotVars, obj, ofd, pc, region, mine, mapped>>

\* mini_vm_release()
VmRelease ==
  /\ vmFd = "closed" /\ \A t \in Threads : pc[t] \notin VmLabels
  /\ vmFd' = "released"
  /\ Put
  /\ UNCHANGED <<lock, vptr, obj, ofd, pc, region, mine, mapped>>

CloseVcpu(x) ==
  /\ ofd[x] = "open"
  /\ ofd' = [ofd EXCEPT ![x] = "closed"]
  /\ UNCHANGED <<vmVars, slotVars, obj, pc, region, mine, mapped>>

\* mini_vcpu_release(): first clear kvm->vcpu under the lock, ...
Unlink_dangling(x) == UNCHANGED vptr
Unlink(x) == vptr' = IF vptr = x THEN NoObj ELSE vptr

VcpuUnlink(x) ==
  /\ ofd[x] = "closed" /\ x \notin mapped /\ obj[x] = "live" /\ lock = NoThread
  /\ \A t \in Threads : ~(pc[t] = "run" /\ mine[t] = x)
  /\ Unlink(x)
  /\ SetObj(x, "unlinked")
  /\ UNCHANGED <<vm, vmFd, refs, lock, slotVars, ofd, pc, region, mine, mapped>>

\* ... then tear the vCPU down, free it and give the VM reference back.
VcpuRelease(x) ==
  /\ obj[x] = "unlinked"
  /\ SetObj(x, "none")
  /\ ofd' = [ofd EXCEPT ![x] = "none"]
  /\ Put
  /\ UNCHANGED <<vmFd, lock, vptr, pc, region, mine, mapped>>

-----------------------------------------------------------------------------
Next ==
  \/ CreateVm \/ CloseVm \/ VmRelease
  \/ \E x \in Objs : \/ Mmap(x) \/ Munmap(x) \/ CloseVcpu(x) \/ VcpuUnlink(x)
                      \/ VcpuRelease(x)
  \/ \E t \in Threads :
       \/ \E r \in Regions : SetCheck(t, r)
       \/ \E x \in Objs : CreateCheck(t, x) \/ RunBegin(t, x)
       \/ SetRegion(t) \/ CreateVcpu(t) \/ RunEnd(t) \/ SerialBegin(t)
       \/ SerialEnd(t)

Spec == Init /\ [][Next]_vars

\* Ioctls other than KVM_RUN and releases run to completion; a guest need not
\* stop, and user space need not close anything.  A mutex is handed to its
\* waiters in order, hence SF: all that an ioctl or a release waits for is a lock
\* (or, for a release, the end of the last use of the file).
Ioctl(t) == SetRegion(t) \/ CreateVcpu(t) \/ SerialEnd(t)
Release(x) == VcpuUnlink(x) \/ VcpuRelease(x)

Fairness ==
  /\ \A t \in Threads : SF_vars(Ioctl(t))
  /\ \A x \in Objs : SF_vars(Release(x))
  /\ WF_vars(VmRelease)

FairSpec == Spec /\ Fairness
-----------------------------------------------------------------------------
(* Properties.                                                             *)

\* The vCPUs that hold a VM reference.
Holders == {x \in Objs : obj[x] \in {"ref", "live", "unlinked"}}
VmFileHolds == IF vmFd \in {"open", "closed"} THEN 1 ELSE 0

\* The reference count is exact: one for the VM fd and one for every vCPU that
\* took a reference and did not give it back (mini-kvm.h:235).
RefsExact == refs = VmFileHolds + Cardinality(Holders)

\* Nothing that runs on behalf of an fd touches a VM that was freed, whatever
\* the order in which the fds are closed (comment above mini_kvm_destroy()), and
\* no kvm_run page is freed while user space has it mapped.
NoUseAfterFree ==
  /\ vm # "live" => /\ \A t \in Threads : pc[t] = "idle"
                    /\ \A x \in Objs : obj[x] = "none"
  /\ \A x \in mapped : obj[x] = "live"

\* kvm->vcpu never dangles, and while it is set no other vCPU is reachable
\* through an fd (the comment in mini_vcpu_release(); vcpu.c:16).
SingleVcpu ==
  /\ vptr # NoObj => obj[vptr] \in {"ref", "live"}
  /\ \A x, y \in Objs : obj[x] = "live" /\ obj[y] = "live" => x = y

\* The pins of a KVM_SET_USER_MEMORY_REGION that no other call overlapped are never
\* lost: its region is the slot's or still in the hands of the call, so that the
\* last put unpins it.  Calls that overlap (vcpu.c:529 tests slot.valid long before
\* :561 sets it) may overwrite each other's pages array; nothing else does.
PinsAccounted ==
  \A r \in pinned \ raced : (vm = "live" /\ slotPages = r) \/ r \in InHands

\* An EPT violation finds pages that are pinned, and unless calls overlapped the
\* geometry it combines with them comes from the same call.
RunSeesWholeSlot ==
  \A t \in Threads : pc[t] = "run" =>
    /\ slotValid /\ slotPages \in pinned
    /\ slotBase # slotPages => slotPages \in raced

\* A slot is replaced only by a call that overlapped the one that set it.
SlotKept ==
  [][slotValid /\ slotPages \notin raced => slotPages' \in {slotPages, NoRegion}]_vars

\* README.md:151: a region can be registered once only, a second registration
\* returns -EEXIST.
SlotSetOnce == [][slotValid => slotPages' \in {slotPages, NoRegion}]_vars

\* When every fd is closed, every mapping gone and no KVM_RUN under way, the VM is
\* freed.
Abandoned == /\ vmFd \in {"closed", "released"}
             /\ mapped = {} /\ \A x \in Objs : ofd[x] # "open"
             /\ \A t \in Threads : pc[t] # "run"
AbandonedIsFreed == Abandoned ~> (vm = "freed" \/ ~Abandoned)
=============================================================================
