----------------------- MODULE MiniKvmLifecycleProofs -----------------------
(***************************************************************************)
(* Proofs about MiniKvmLifecycle for any number of threads, regions and    *)
(* vCPU allocations.  The inductive invariant relates each allocation to   *)
(* the thread that builds it or the fd that owns it, and the reference     *)
(* count to the number of holders.                                         *)
(***************************************************************************)
EXTENDS MiniKvmLifecycle, FiniteSetTheorems, TLAPS

\* A thread builds exactly the allocation it is working on.
Builders ==
  /\ \A t \in Threads :
       /\ pc[t] \in VmLabels => vmFd \in {"open", "closed"}
       /\ pc[t] \in {"set_pin", "set_geometry", "set_pages"} => region[t] \in Regions
       /\ pc[t] \in {"cre_get", "cre_free"} =>
            mine[t] \in Objs /\ obj[mine[t]] = "built"
       /\ pc[t] \in {"cre_lock", "cre_install"} =>
            mine[t] \in Objs /\ obj[mine[t]] = "ref"
       /\ pc[t] = "run" => mine[t] \in Objs /\ obj[mine[t]] = "live"
  /\ \A x \in Objs : obj[x] \in {"built", "ref"} =>
       \E t \in Threads :
         mine[t] = x /\ pc[t] \in {"cre_get", "cre_lock", "cre_install", "cre_free"}
  /\ \A s, t \in Threads :
       /\ s # t
       /\ pc[s] \in {"cre_get", "cre_lock", "cre_install", "cre_free"}
       /\ pc[t] \in {"cre_get", "cre_lock", "cre_install", "cre_free"}
       => mine[s] # mine[t]

\* kvm->lock is held exactly between publication and unlock.
LockHeld ==
  \A t \in Threads : lock = t <=> pc[t] \in {"cre_install", "cre_unlock"}

\* kvm->vcpu is the vCPU being published or the one that is live.
Pointer ==
  /\ \A x \in Objs : obj[x] = "live" => vptr = x
  /\ vptr # NoObj =>
       \/ obj[vptr] = "live"
       \/ \E t \in Threads : pc[t] = "cre_install" /\ mine[t] = vptr
  /\ \A t \in Threads : pc[t] = "cre_install" => vptr = mine[t]

\* Open or closing fds belong to vCPUs that hold their reference; so do mappings,
\* which keep their file.
FdOwner ==
  \A x \in Objs : /\ ofd[x] = "open" => obj[x] = "live"
                  /\ ofd[x] = "closed" => obj[x] \in {"live", "unlinked"}
                  /\ x \in mapped => obj[x] = "live"

\* The VM exists exactly while somebody holds a reference.
Alive ==
  /\ vm = "live" <=> refs > 0
  /\ vm = "none" <=> vmFd = "none"
  /\ vm = "none" => /\ \A t \in Threads : pc[t] = "idle"
                    /\ \A x \in Objs : obj[x] = "none"
                    /\ slotValid = FALSE

IInv == TypeOK /\ RefsExact /\ Builders /\ LockHeld /\ Pointer /\ FdOwner /\ Alive

-----------------------------------------------------------------------------
(* Counting the holders of a reference.                                    *)

Held(f) == {x \in Objs : f[x] \in {"ref", "live", "unlinked"}}

\* Holders is Held(obj), a finite set.
LEMMA HeldFinite ==
  ASSUME NEW f
  PROVE  /\ IsFiniteSet(Held(f))
         /\ Cardinality(Held(f)) \in Nat
         /\ Cardinality(Held(f)) = 0 <=> Held(f) = {}
<1>1. IsFiniteSet(Held(f))
  BY FS_Subset, ConstantsOK DEF Held
<1> QED
  BY <1>1, FS_CardinalityType, FS_EmptySet

\* One vCPU changes state: the count changes with its membership.
LEMMA HeldStep ==
  ASSUME NEW f, NEW g, NEW x \in Objs,
         \A y \in Objs : y # x => f[y] = g[y]
  PROVE  /\ x \in Held(f) /\ x \in Held(g)
             => Cardinality(Held(g)) = Cardinality(Held(f))
         /\ x \notin Held(f) /\ x \notin Held(g)
             => Cardinality(Held(g)) = Cardinality(Held(f))
         /\ x \notin Held(f) /\ x \in Held(g)
             => Cardinality(Held(g)) = Cardinality(Held(f)) + 1
         /\ x \in Held(f) /\ x \notin Held(g)
             => Cardinality(Held(g)) = Cardinality(Held(f)) - 1
<1>1. CASE x \in Held(f) <=> x \in Held(g)
  <2>1. Held(f) = Held(g)
    BY <1>1 DEF Held
  <2> QED  BY <1>1, <2>1
<1>2. CASE x \notin Held(f) /\ x \in Held(g)
  <2>1. Held(g) = Held(f) \cup {x}
    BY <1>2 DEF Held
  <2> QED  BY <1>2, <2>1, HeldFinite, FS_AddElement
<1>3. CASE x \in Held(f) /\ x \notin Held(g)
  <2>1. Held(g) = Held(f) \ {x}
    BY <1>3 DEF Held
  <2> QED  BY <1>3, <2>1, HeldFinite, FS_RemoveElement
<1> QED  BY <1>1, <1>2, <1>3

\* Putting a reference that is there keeps the types.
LEMMA PutType ==
  ASSUME TypeOK, refs \in Nat \ {0}, Put
  PROVE  /\ vm' \in {"none", "live", "freed"}
         /\ refs' \in Nat
         /\ slotBase' \in Regions \cup {NoRegion}
         /\ slotPages' \in Regions \cup {NoRegion}
         /\ slotValid' \in BOOLEAN
         /\ pinned' \in SUBSET Regions /\ raced' \in SUBSET Regions
<1>1. vm' \in {"none", "live", "freed"} /\ refs' \in Nat
  BY DEF TypeOK, Put
<1>2. Unpin \/ UNCHANGED slotVars
  BY DEF Put, slotVars
<1> QED  BY <1>1, <1>2 DEF TypeOK, Unpin, slotVars

\* Before KVM_CREATE_VM nobody holds anything.
LEMMA InitIInv == Init => IInv
<1> SUFFICES ASSUME Init PROVE IInv  OBVIOUS
<1>1. TypeOK
  BY DEF Init, TypeOK
<1>2. RefsExact
  <2>1. Holders = Held(obj) /\ Held(obj) = {}
    BY DEF Init, Holders, Held
  <2>2. Cardinality(Holders) = 0
    BY <2>1, HeldFinite
  <2> QED  BY <2>2 DEF Init, RefsExact, VmFileHolds
<1>3. Builders /\ LockHeld /\ Pointer /\ FdOwner /\ Alive
  BY ConstantsOK DEF Init, Builders, LockHeld, Pointer, FdOwner, Alive, VmLabels
<1> QED  BY <1>1, <1>2, <1>3 DEF IInv

-----------------------------------------------------------------------------
(* Every step preserves the invariant.                                     *)

\* Every ioctl step, close() and release() keeps the inductive invariant.
LEMMA StepIInv == IInv /\ [Next]_vars => IInv'
<1> SUFFICES ASSUME IInv, [Next]_vars PROVE IInv'  OBVIOUS
<1> USE ConstantsOK
<1>0. /\ RefsExact <=> refs = VmFileHolds + Cardinality(Held(obj))
      /\ RefsExact' <=> refs' = VmFileHolds' + Cardinality(Held(obj'))
  BY DEF RefsExact, Holders, Held
<1>1. ASSUME CreateVm
      PROVE  IInv'
  <2>1. Held(obj') = {}
    BY <1>1 DEF IInv, TypeOK, Alive, Held, CreateVm
  <2>2. Cardinality(Held(obj')) = 0
    BY <2>1, HeldFinite
  <2>3. TypeOK'
    BY <1>1 DEF IInv, TypeOK, VmLabels, CreateVm, slotVars
  <2>4. RefsExact'
    BY <1>1, <1>0, <2>2 DEF IInv, TypeOK, VmFileHolds, CreateVm, slotVars
  <2>5. Builders'
    BY <1>1 DEF IInv, TypeOK, Builders, VmLabels, CreateVm, slotVars
  <2>6. LockHeld'
    BY <1>1 DEF IInv, TypeOK, LockHeld, CreateVm, slotVars
  <2>7. Pointer'
    BY <1>1 DEF IInv, TypeOK, Pointer, CreateVm, slotVars
  <2>8. FdOwner'
    BY <1>1 DEF IInv, TypeOK, FdOwner, CreateVm, slotVars
  <2>9. Alive'
    BY <1>1 DEF IInv, TypeOK, Alive, CreateVm, slotVars
  <2> QED  BY <2>3, <2>4, <2>5, <2>6, <2>7, <2>8, <2>9 DEF IInv
<1>2. ASSUME CloseVm
      PROVE  IInv'
  <2>1. TypeOK'
    BY <1>2 DEF IInv, TypeOK, VmLabels, CloseVm, slotVars
  <2>2. RefsExact'
    BY <1>2, <1>0 DEF IInv, TypeOK, VmFileHolds, CloseVm, slotVars
  <2>3. Builders'
    BY <1>2 DEF IInv, TypeOK, Builders, VmLabels, CloseVm, slotVars
  <2>4. LockHeld'
    BY <1>2 DEF IInv, TypeOK, LockHeld, CloseVm, slotVars
  <2>5. Pointer'
    BY <1>2 DEF IInv, TypeOK, Pointer, CloseVm, slotVars
  <2>6. FdOwner'
    BY <1>2 DEF IInv, TypeOK, FdOwner, CloseVm, slotVars
  <2>7. Alive'
    BY <1>2 DEF IInv, TypeOK, Alive, CloseVm, slotVars
  <2> QED  BY <2>1, <2>2, <2>3, <2>4, <2>5, <2>6, <2>7 DEF IInv
<1>3. ASSUME VmRelease
      PROVE  IInv'
  <2>1. refs \in Nat \ {0}
    BY <1>3, <1>0, HeldFinite DEF IInv, TypeOK, VmFileHolds, VmRelease
  <2>2. TypeOK'
    BY <1>3, <2>1, PutType DEF IInv, TypeOK, VmLabels, Builders, VmRelease
  <2>3. RefsExact'
    BY <1>3, <1>0, HeldFinite, <2>1 DEF IInv, TypeOK, VmFileHolds, VmRelease,
       slotVars, Put, Unpin
  <2>4. Builders'
    BY <1>3 DEF IInv, TypeOK, Builders, VmLabels, VmRelease, slotVars, Put,
       Unpin
  <2>5. LockHeld'
    BY <1>3 DEF IInv, TypeOK, LockHeld, VmRelease, slotVars, Put, Unpin
  <2>6. Pointer'
    BY <1>3 DEF IInv, TypeOK, Pointer, VmRelease, slotVars, Put, Unpin
  <2>7. FdOwner'
    BY <1>3 DEF IInv, TypeOK, FdOwner, VmRelease, slotVars, Put, Unpin
  <2>8. Alive'
    BY <1>3, <2>1 DEF IInv, TypeOK, Alive, VmRelease, slotVars, Put, Unpin
  <2> QED  BY <2>2, <2>3, <2>4, <2>5, <2>6, <2>7, <2>8 DEF IInv
<1>4. ASSUME NEW x \in Objs, CloseVcpu(x)
      PROVE  IInv'
  <2>1. TypeOK'
    BY <1>4 DEF IInv, TypeOK, VmLabels, CloseVcpu, vmVars, slotVars
  <2>2. RefsExact'
    BY <1>4, <1>0 DEF IInv, TypeOK, VmFileHolds, CloseVcpu, vmVars, slotVars
  <2>3. Builders'
    BY <1>4 DEF IInv, TypeOK, Builders, VmLabels, CloseVcpu, vmVars, slotVars
  <2>4. LockHeld'
    BY <1>4 DEF IInv, TypeOK, LockHeld, CloseVcpu, vmVars, slotVars
  <2>5. Pointer'
    BY <1>4 DEF IInv, TypeOK, Pointer, CloseVcpu, vmVars, slotVars
  <2>6. FdOwner'
    BY <1>4 DEF IInv, TypeOK, FdOwner, CloseVcpu, vmVars, slotVars
  <2>7. Alive'
    BY <1>4 DEF IInv, TypeOK, Alive, CloseVcpu, vmVars, slotVars
  <2> QED  BY <2>1, <2>2, <2>3, <2>4, <2>5, <2>6, <2>7 DEF IInv
<1>5. ASSUME NEW x \in Objs, VcpuUnlink(x)
      PROVE  IInv'
  <2>1. /\ x \in Objs
        /\ x \in Held(obj) /\ x \in Held(obj')
        /\ \A y \in Objs : y # x => obj[y] = obj'[y]
    BY <1>5 DEF IInv, TypeOK, Held, VcpuUnlink, SetObj
  <2>2. Cardinality(Held(obj')) = Cardinality(Held(obj))
    BY <2>1, HeldStep
  <2>3. TypeOK'
    BY <1>5 DEF IInv, TypeOK, VmLabels, VcpuUnlink, slotVars, SetObj, Unlink
  <2>4. RefsExact'
    BY <1>5, <1>0, <2>2 DEF IInv, TypeOK, VmFileHolds, VcpuUnlink, slotVars,
       SetObj, Unlink
  <2>5. Builders'
    BY <1>5 DEF IInv, TypeOK, Builders, VmLabels, VcpuUnlink, slotVars,
       SetObj, Unlink
  <2>6. LockHeld'
    BY <1>5 DEF IInv, TypeOK, LockHeld, VcpuUnlink, slotVars, SetObj, Unlink
  <2>7. Pointer'
    BY <1>5 DEF IInv, TypeOK, Pointer, Builders, VmLabels, VcpuUnlink,
       slotVars, SetObj, Unlink
  <2>8. FdOwner'
    BY <1>5 DEF IInv, TypeOK, FdOwner, VcpuUnlink, slotVars, SetObj, Unlink
  <2>9. Alive'
    BY <1>5 DEF IInv, TypeOK, Alive, VcpuUnlink, slotVars, SetObj, Unlink
  <2> QED  BY <2>3, <2>4, <2>5, <2>6, <2>7, <2>8, <2>9 DEF IInv
<1>6. ASSUME NEW x \in Objs, VcpuRelease(x)
      PROVE  IInv'
  <2>1. /\ x \in Objs
        /\ x \in Held(obj) /\ x \notin Held(obj')
        /\ \A y \in Objs : y # x => obj[y] = obj'[y]
    BY <1>6 DEF IInv, TypeOK, Held, VcpuRelease, SetObj
  <2>2. Cardinality(Held(obj')) = Cardinality(Held(obj)) - 1
    BY <2>1, HeldStep
  <2>3. Cardinality(Held(obj)) \in Nat \ {0}
    BY <2>1, HeldFinite
  <2>4. refs \in Nat \ {0}
    BY <1>6, <1>0, HeldFinite, <2>3 DEF IInv, TypeOK, VmFileHolds, VcpuRelease
  <2>5. TypeOK'
    BY <1>6, <2>4, PutType DEF IInv, TypeOK, VmLabels, Builders, VcpuRelease,
       SetObj
  <2>6. RefsExact'
    BY <1>6, <1>0, <2>2, <2>3, <2>4 DEF IInv, TypeOK, VmFileHolds,
       VcpuRelease, slotVars, SetObj, Put, Unpin
  <2>7. Builders'
    BY <1>6 DEF IInv, TypeOK, Builders, VmLabels, VcpuRelease, slotVars,
       SetObj, Put, Unpin
  <2>8. LockHeld'
    BY <1>6 DEF IInv, TypeOK, LockHeld, VcpuRelease, slotVars, SetObj, Put,
       Unpin
  <2>9. Pointer'
    BY <1>6 DEF IInv, TypeOK, Pointer, VcpuRelease, slotVars, SetObj, Put,
       Unpin
  <2>10. FdOwner'
    BY <1>6 DEF IInv, TypeOK, FdOwner, VcpuRelease, slotVars, SetObj, Put,
       Unpin
  <2>11. Alive'
    BY <1>6, <2>4 DEF IInv, TypeOK, Alive, VcpuRelease, slotVars, SetObj, Put,
       Unpin
  <2> QED  BY <2>5, <2>6, <2>7, <2>8, <2>9, <2>10, <2>11 DEF IInv
<1>7. ASSUME NEW t \in Threads, NEW r \in Regions, SetCheck(t, r)
      PROVE  IInv'
  <2>1. TypeOK'
    BY <1>7 DEF IInv, TypeOK, VmLabels, SetCheck, InHands, vmVars, slotVars, Goto,
       SlotFree
  <2>2. RefsExact'
    BY <1>7, <1>0 DEF IInv, TypeOK, VmFileHolds, SetCheck, vmVars, slotVars,
       Goto, SlotFree
  <2>3. Builders'
    BY <1>7 DEF IInv, TypeOK, Builders, VmLabels, SetCheck, vmVars, slotVars,
       Goto, SlotFree
  <2>4. LockHeld'
    BY <1>7 DEF IInv, TypeOK, LockHeld, SetCheck, vmVars, slotVars, Goto,
       SlotFree
  <2>5. Pointer'
    BY <1>7 DEF IInv, TypeOK, Pointer, SetCheck, vmVars, slotVars, Goto,
       SlotFree
  <2>6. FdOwner'
    BY <1>7 DEF IInv, TypeOK, FdOwner, SetCheck, vmVars, slotVars, Goto,
       SlotFree
  <2>7. Alive'
    BY <1>7 DEF IInv, TypeOK, Alive, SetCheck, vmVars, slotVars, Goto,
       SlotFree
  <2> QED  BY <2>1, <2>2, <2>3, <2>4, <2>5, <2>6, <2>7 DEF IInv
<1>8. ASSUME NEW t \in Threads, NEW x \in Objs, CreateCheck(t, x)
      PROVE  IInv'
  <2>1. /\ x \in Objs
        /\ x \notin Held(obj) /\ x \notin Held(obj')
        /\ \A y \in Objs : y # x => obj[y] = obj'[y]
    BY <1>8 DEF IInv, TypeOK, Held, CreateCheck, SetObj
  <2>2. Cardinality(Held(obj')) = Cardinality(Held(obj))
    BY <2>1, HeldStep
  <2>3. TypeOK'
    BY <1>8 DEF IInv, TypeOK, VmLabels, CreateCheck, vmVars, slotVars, Goto,
       SetObj, SlotReady
  <2>4. RefsExact'
    BY <1>8, <1>0, <2>2 DEF IInv, TypeOK, VmFileHolds, CreateCheck, vmVars,
       slotVars, Goto, SetObj, SlotReady
  <2>5. Builders'
    BY <1>8 DEF IInv, TypeOK, Builders, VmLabels, CreateCheck, vmVars,
       slotVars, Goto, SetObj, SlotReady
  <2>6. LockHeld'
    BY <1>8 DEF IInv, TypeOK, LockHeld, CreateCheck, vmVars, slotVars, Goto,
       SetObj, SlotReady
  <2>7. Pointer'
    BY <1>8 DEF IInv, TypeOK, Pointer, CreateCheck, vmVars, slotVars, Goto,
       SetObj, SlotReady
  <2>8. FdOwner'
    BY <1>8 DEF IInv, TypeOK, FdOwner, CreateCheck, vmVars, slotVars, Goto,
       SetObj, SlotReady
  <2>9. Alive'
    BY <1>8 DEF IInv, TypeOK, Alive, CreateCheck, vmVars, slotVars, Goto,
       SetObj, SlotReady
  <2> QED  BY <2>3, <2>4, <2>5, <2>6, <2>7, <2>8, <2>9 DEF IInv
<1>9. ASSUME NEW t \in Threads, NEW x \in Objs, RunBegin(t, x)
      PROVE  IInv'
  <2>1. TypeOK'
    BY <1>9 DEF IInv, TypeOK, VmLabels, RunBegin, vmVars, slotVars, Goto
  <2>2. RefsExact'
    BY <1>9, <1>0 DEF IInv, TypeOK, VmFileHolds, RunBegin, vmVars, slotVars,
       Goto
  <2>3. Builders'
    BY <1>9 DEF IInv, TypeOK, Builders, VmLabels, FdOwner, RunBegin, vmVars,
       slotVars, Goto
  <2>4. LockHeld'
    BY <1>9 DEF IInv, TypeOK, LockHeld, RunBegin, vmVars, slotVars, Goto
  <2>5. Pointer'
    BY <1>9 DEF IInv, TypeOK, Pointer, RunBegin, vmVars, slotVars, Goto
  <2>6. FdOwner'
    BY <1>9 DEF IInv, TypeOK, FdOwner, RunBegin, vmVars, slotVars, Goto
  <2>7. Alive'
    BY <1>9, <1>0, HeldFinite DEF IInv, TypeOK, Alive, Builders, VmLabels,
       FdOwner, VmFileHolds, LockHeld, RunBegin, vmVars, slotVars, Goto
  <2> QED  BY <2>1, <2>2, <2>3, <2>4, <2>5, <2>6, <2>7 DEF IInv
<1>10. ASSUME NEW t \in Threads, SetPin(t)
       PROVE  IInv'
  <2>1. TypeOK'
    BY <1>10 DEF IInv, TypeOK, VmLabels, Builders, SetPin, vmVars, Goto
  <2>2. RefsExact'
    BY <1>10, <1>0 DEF IInv, TypeOK, VmFileHolds, SetPin, vmVars, Goto
  <2>3. Builders'
    BY <1>10 DEF IInv, TypeOK, Builders, VmLabels, SetPin, vmVars, Goto
  <2>4. LockHeld'
    BY <1>10 DEF IInv, TypeOK, LockHeld, SetPin, vmVars, Goto
  <2>5. Pointer'
    BY <1>10 DEF IInv, TypeOK, Pointer, SetPin, vmVars, Goto
  <2>6. FdOwner'
    BY <1>10 DEF IInv, TypeOK, FdOwner, SetPin, vmVars, Goto
  <2>7. Alive'
    BY <1>10 DEF IInv, TypeOK, Alive, SetPin, vmVars, Goto
  <2> QED  BY <2>1, <2>2, <2>3, <2>4, <2>5, <2>6, <2>7 DEF IInv
<1>11. ASSUME NEW t \in Threads, SetPinFail(t)
       PROVE  IInv'
  <2>1. TypeOK'
    BY <1>11 DEF IInv, TypeOK, VmLabels, SetPinFail, vmVars, slotVars, Goto
  <2>2. RefsExact'
    BY <1>11, <1>0 DEF IInv, TypeOK, VmFileHolds, SetPinFail, vmVars,
       slotVars, Goto
  <2>3. Builders'
    BY <1>11 DEF IInv, TypeOK, Builders, VmLabels, SetPinFail, vmVars,
       slotVars, Goto
  <2>4. LockHeld'
    BY <1>11 DEF IInv, TypeOK, LockHeld, SetPinFail, vmVars, slotVars, Goto
  <2>5. Pointer'
    BY <1>11 DEF IInv, TypeOK, Pointer, SetPinFail, vmVars, slotVars, Goto
  <2>6. FdOwner'
    BY <1>11 DEF IInv, TypeOK, FdOwner, SetPinFail, vmVars, slotVars, Goto
  <2>7. Alive'
    BY <1>11 DEF IInv, TypeOK, Alive, SetPinFail, vmVars, slotVars, Goto
  <2> QED  BY <2>1, <2>2, <2>3, <2>4, <2>5, <2>6, <2>7 DEF IInv
<1>12. ASSUME NEW t \in Threads, SetGeometry(t)
       PROVE  IInv'
  <2>1. TypeOK'
    BY <1>12 DEF IInv, TypeOK, VmLabels, SetGeometry, vmVars, Goto
  <2>2. RefsExact'
    BY <1>12, <1>0 DEF IInv, TypeOK, VmFileHolds, SetGeometry, vmVars, Goto
  <2>3. Builders'
    BY <1>12 DEF IInv, TypeOK, Builders, VmLabels, SetGeometry, vmVars, Goto
  <2>4. LockHeld'
    BY <1>12 DEF IInv, TypeOK, LockHeld, SetGeometry, vmVars, Goto
  <2>5. Pointer'
    BY <1>12 DEF IInv, TypeOK, Pointer, SetGeometry, vmVars, Goto
  <2>6. FdOwner'
    BY <1>12 DEF IInv, TypeOK, FdOwner, SetGeometry, vmVars, Goto
  <2>7. Alive'
    BY <1>12 DEF IInv, TypeOK, Alive, SetGeometry, vmVars, Goto
  <2> QED  BY <2>1, <2>2, <2>3, <2>4, <2>5, <2>6, <2>7 DEF IInv
<1>13. ASSUME NEW t \in Threads, SetPages(t)
       PROVE  IInv'
  <2>1. TypeOK'
    BY <1>13 DEF IInv, TypeOK, VmLabels, SetPages, vmVars, Goto
  <2>2. RefsExact'
    BY <1>13, <1>0 DEF IInv, TypeOK, VmFileHolds, SetPages, vmVars, Goto
  <2>3. Builders'
    BY <1>13 DEF IInv, TypeOK, Builders, VmLabels, SetPages, vmVars, Goto
  <2>4. LockHeld'
    BY <1>13 DEF IInv, TypeOK, LockHeld, SetPages, vmVars, Goto
  <2>5. Pointer'
    BY <1>13 DEF IInv, TypeOK, Pointer, SetPages, vmVars, Goto
  <2>6. FdOwner'
    BY <1>13 DEF IInv, TypeOK, FdOwner, SetPages, vmVars, Goto
  <2>7. Alive'
    BY <1>13 DEF IInv, TypeOK, Alive, SetPages, vmVars, Goto
  <2> QED  BY <2>1, <2>2, <2>3, <2>4, <2>5, <2>6, <2>7 DEF IInv
<1>14. ASSUME NEW t \in Threads, CreateGet(t)
       PROVE  IInv'
  <2>1. /\ mine[t] \in Objs
        /\ mine[t] \notin Held(obj) /\ mine[t] \in Held(obj')
        /\ \A y \in Objs : y # mine[t] => obj[y] = obj'[y]
    BY <1>14 DEF IInv, TypeOK, Held, CreateGet, SetObj, Builders
  <2>2. Cardinality(Held(obj')) = Cardinality(Held(obj)) + 1
    BY <2>1, HeldStep
  <2>3. Cardinality(Held(obj)) \in Nat /\ VmFileHolds' = VmFileHolds
    BY <1>14, HeldFinite DEF VmFileHolds, CreateGet
  <2>4. TypeOK'
    BY <1>14 DEF IInv, TypeOK, VmLabels, Builders, CreateGet, slotVars, Goto,
       SetObj
  <2>5. RefsExact'
    BY <1>14, <1>0, <2>2, <2>3 DEF IInv, TypeOK, VmFileHolds, CreateGet,
       slotVars, Goto, SetObj
  <2>6. Builders'
    BY <1>14 DEF IInv, TypeOK, Builders, VmLabels, CreateGet, slotVars, Goto,
       SetObj
  <2>7. LockHeld'
    BY <1>14 DEF IInv, TypeOK, LockHeld, CreateGet, slotVars, Goto, SetObj
  <2>8. Pointer'
    BY <1>14 DEF IInv, TypeOK, Pointer, Builders, VmLabels, CreateGet,
       slotVars, Goto, SetObj
  <2>9. FdOwner'
    BY <1>14 DEF IInv, TypeOK, FdOwner, Builders, VmLabels, CreateGet,
       slotVars, Goto, SetObj
  <2>10. Alive'
    BY <1>14, <1>0, HeldFinite DEF IInv, TypeOK, Alive, Builders, VmLabels,
       FdOwner, VmFileHolds, LockHeld, CreateGet, slotVars, Goto, SetObj
  <2> QED  BY <2>4, <2>5, <2>6, <2>7, <2>8, <2>9, <2>10 DEF IInv
<1>15. ASSUME NEW t \in Threads, CreateExists(t)
       PROVE  IInv'
  <2>1. /\ mine[t] \in Objs
        /\ mine[t] \in Held(obj) /\ mine[t] \notin Held(obj')
        /\ \A y \in Objs : y # mine[t] => obj[y] = obj'[y]
    BY <1>15 DEF IInv, TypeOK, Held, CreateExists, SetObj, Builders
  <2>2. Cardinality(Held(obj')) = Cardinality(Held(obj)) - 1
    BY <2>1, HeldStep
  <2>3. Cardinality(Held(obj)) \in Nat \ {0}
    BY <2>1, HeldFinite
  <2>4. refs \in Nat \ {0}
    BY <1>15, <1>0, HeldFinite, <2>3 DEF IInv, TypeOK, VmFileHolds,
       CreateExists
  <2>5. TypeOK'
    BY <1>15, <2>4, PutType DEF IInv, TypeOK, VmLabels, Builders,
       CreateExists, Goto, SetObj, Occupied
  <2>6. RefsExact'
    BY <1>15, <1>0, <2>2, <2>3, <2>4 DEF IInv, TypeOK, VmFileHolds,
       CreateExists, slotVars, Goto, SetObj, Put, Unpin, Occupied
  <2>7. Builders'
    BY <1>15 DEF IInv, TypeOK, Builders, VmLabels, CreateExists, slotVars,
       Goto, SetObj, Put, Unpin, Occupied
  <2>8. LockHeld'
    BY <1>15 DEF IInv, TypeOK, LockHeld, CreateExists, slotVars, Goto, SetObj,
       Put, Unpin, Occupied
  <2>9. Pointer'
    BY <1>15 DEF IInv, TypeOK, Pointer, Builders, VmLabels, CreateExists,
       slotVars, Goto, SetObj, Put, Unpin, Occupied
  <2>10. FdOwner'
    BY <1>15 DEF IInv, TypeOK, FdOwner, Builders, VmLabels, CreateExists,
       slotVars, Goto, SetObj, Put, Unpin, Occupied
  <2>11. Alive'
    BY <1>15, <2>4 DEF IInv, TypeOK, Alive, CreateExists, slotVars, Goto,
       SetObj, Put, Unpin, Occupied
  <2> QED  BY <2>5, <2>6, <2>7, <2>8, <2>9, <2>10, <2>11 DEF IInv
<1>16. ASSUME NEW t \in Threads, CreatePublish(t)
       PROVE  IInv'
  <2>1. TypeOK'
    BY <1>16 DEF IInv, TypeOK, VmLabels, CreatePublish, slotVars, Goto,
       Occupied
  <2>2. RefsExact'
    BY <1>16, <1>0 DEF IInv, TypeOK, VmFileHolds, CreatePublish, slotVars,
       Goto, Occupied
  <2>3. Builders'
    BY <1>16 DEF IInv, TypeOK, Builders, VmLabels, CreatePublish, slotVars,
       Goto, Occupied
  <2>4. LockHeld'
    BY <1>16 DEF IInv, TypeOK, LockHeld, CreatePublish, slotVars, Goto,
       Occupied
  <2>5. Pointer'
    BY <1>16 DEF IInv, TypeOK, Pointer, Builders, VmLabels, CreatePublish,
       slotVars, Goto, Occupied
  <2>6. FdOwner'
    BY <1>16 DEF IInv, TypeOK, FdOwner, CreatePublish, slotVars, Goto,
       Occupied
  <2>7. Alive'
    BY <1>16 DEF IInv, TypeOK, Alive, CreatePublish, slotVars, Goto, Occupied
  <2> QED  BY <2>1, <2>2, <2>3, <2>4, <2>5, <2>6, <2>7 DEF IInv
<1>17. ASSUME NEW t \in Threads, CreateInstall(t)
       PROVE  IInv'
  <2>1. /\ mine[t] \in Objs
        /\ mine[t] \in Held(obj) /\ mine[t] \in Held(obj')
        /\ \A y \in Objs : y # mine[t] => obj[y] = obj'[y]
    BY <1>17 DEF IInv, TypeOK, Held, CreateInstall, SetObj, Builders
  <2>2. Cardinality(Held(obj')) = Cardinality(Held(obj))
    BY <2>1, HeldStep
  <2>3. TypeOK'
    BY <1>17 DEF IInv, TypeOK, VmLabels, CreateInstall, vmVars, slotVars,
       Goto, SetObj
  <2>4. RefsExact'
    BY <1>17, <1>0, <2>2 DEF IInv, TypeOK, VmFileHolds, CreateInstall, vmVars,
       slotVars, Goto, SetObj
  <2>5. Builders'
    BY <1>17 DEF IInv, TypeOK, Builders, VmLabels, CreateInstall, vmVars,
       slotVars, Goto, SetObj
  <2>6. LockHeld'
    BY <1>17 DEF IInv, TypeOK, LockHeld, CreateInstall, vmVars, slotVars,
       Goto, SetObj
  <2>7. Pointer'
    BY <1>17 DEF IInv, TypeOK, Pointer, CreateInstall, vmVars, slotVars, Goto,
       SetObj
  <2>8. FdOwner'
    BY <1>17 DEF IInv, TypeOK, FdOwner, CreateInstall, vmVars, slotVars, Goto,
       SetObj
  <2>9. Alive'
    BY <1>17 DEF IInv, TypeOK, Alive, CreateInstall, vmVars, slotVars, Goto,
       SetObj
  <2> QED  BY <2>3, <2>4, <2>5, <2>6, <2>7, <2>8, <2>9 DEF IInv
<1>18. ASSUME NEW t \in Threads, CreateInstallFail(t)
       PROVE  IInv'
  <2>1. /\ mine[t] \in Objs
        /\ mine[t] \in Held(obj) /\ mine[t] \notin Held(obj')
        /\ \A y \in Objs : y # mine[t] => obj[y] = obj'[y]
    BY <1>18 DEF IInv, TypeOK, Held, CreateInstallFail, SetObj, Builders
  <2>2. Cardinality(Held(obj')) = Cardinality(Held(obj)) - 1
    BY <2>1, HeldStep
  <2>3. Cardinality(Held(obj)) \in Nat \ {0}
    BY <2>1, HeldFinite
  <2>4. refs \in Nat \ {0}
    BY <1>18, <1>0, HeldFinite, <2>3 DEF IInv, TypeOK, VmFileHolds,
       CreateInstallFail
  <2>5. TypeOK'
    BY <1>18, <2>4, PutType DEF IInv, TypeOK, VmLabels, Builders,
       CreateInstallFail, Goto, SetObj
  <2>6. RefsExact'
    BY <1>18, <1>0, <2>2, <2>3, <2>4 DEF IInv, TypeOK, VmFileHolds,
       CreateInstallFail, slotVars, Goto, SetObj, Put, Unpin
  <2>7. Builders'
    BY <1>18 DEF IInv, TypeOK, Builders, VmLabels, CreateInstallFail,
       slotVars, Goto, SetObj, Put, Unpin
  <2>8. LockHeld'
    BY <1>18 DEF IInv, TypeOK, LockHeld, CreateInstallFail, slotVars, Goto,
       SetObj, Put, Unpin
  <2>9. Pointer'
    BY <1>18 DEF IInv, TypeOK, Pointer, Builders, VmLabels, CreateInstallFail,
       slotVars, Goto, SetObj, Put, Unpin
  <2>10. FdOwner'
    BY <1>18 DEF IInv, TypeOK, FdOwner, Builders, VmLabels, CreateInstallFail,
       slotVars, Goto, SetObj, Put, Unpin
  <2>11. Alive'
    BY <1>18, <2>4 DEF IInv, TypeOK, Alive, CreateInstallFail, slotVars, Goto,
       SetObj, Put, Unpin
  <2> QED  BY <2>5, <2>6, <2>7, <2>8, <2>9, <2>10, <2>11 DEF IInv
<1>19. ASSUME NEW t \in Threads, CreateUnlock(t)
       PROVE  IInv'
  <2>1. TypeOK'
    BY <1>19 DEF IInv, TypeOK, VmLabels, CreateUnlock, slotVars, Goto
  <2>2. RefsExact'
    BY <1>19, <1>0 DEF IInv, TypeOK, VmFileHolds, CreateUnlock, slotVars, Goto
  <2>3. Builders'
    BY <1>19 DEF IInv, TypeOK, Builders, VmLabels, CreateUnlock, slotVars,
       Goto
  <2>4. LockHeld'
    BY <1>19 DEF IInv, TypeOK, LockHeld, CreateUnlock, slotVars, Goto
  <2>5. Pointer'
    BY <1>19 DEF IInv, TypeOK, Pointer, CreateUnlock, slotVars, Goto
  <2>6. FdOwner'
    BY <1>19 DEF IInv, TypeOK, FdOwner, CreateUnlock, slotVars, Goto
  <2>7. Alive'
    BY <1>19 DEF IInv, TypeOK, Alive, CreateUnlock, slotVars, Goto
  <2> QED  BY <2>1, <2>2, <2>3, <2>4, <2>5, <2>6, <2>7 DEF IInv
<1>20. ASSUME NEW t \in Threads, CreateFree(t)
       PROVE  IInv'
  <2>1. /\ mine[t] \in Objs
        /\ mine[t] \notin Held(obj) /\ mine[t] \notin Held(obj')
        /\ \A y \in Objs : y # mine[t] => obj[y] = obj'[y]
    BY <1>20 DEF IInv, TypeOK, Held, CreateFree, SetObj, Builders
  <2>2. Cardinality(Held(obj')) = Cardinality(Held(obj))
    BY <2>1, HeldStep
  <2>3. TypeOK'
    BY <1>20 DEF IInv, TypeOK, VmLabels, CreateFree, vmVars, slotVars, Goto,
       SetObj
  <2>4. RefsExact'
    BY <1>20, <1>0, <2>2 DEF IInv, TypeOK, VmFileHolds, CreateFree, vmVars,
       slotVars, Goto, SetObj
  <2>5. Builders'
    BY <1>20 DEF IInv, TypeOK, Builders, VmLabels, CreateFree, vmVars,
       slotVars, Goto, SetObj
  <2>6. LockHeld'
    BY <1>20 DEF IInv, TypeOK, LockHeld, CreateFree, vmVars, slotVars, Goto,
       SetObj
  <2>7. Pointer'
    BY <1>20 DEF IInv, TypeOK, Pointer, Builders, VmLabels, CreateFree,
       vmVars, slotVars, Goto, SetObj
  <2>8. FdOwner'
    BY <1>20 DEF IInv, TypeOK, FdOwner, Builders, VmLabels, CreateFree,
       vmVars, slotVars, Goto, SetObj
  <2>9. Alive'
    BY <1>20 DEF IInv, TypeOK, Alive, CreateFree, vmVars, slotVars, Goto,
       SetObj
  <2> QED  BY <2>3, <2>4, <2>5, <2>6, <2>7, <2>8, <2>9 DEF IInv
<1>21. ASSUME NEW t \in Threads, RunEnd(t)
       PROVE  IInv'
  <2>1. TypeOK'
    BY <1>21 DEF IInv, TypeOK, VmLabels, RunEnd, vmVars, slotVars, Goto
  <2>2. RefsExact'
    BY <1>21, <1>0 DEF IInv, TypeOK, VmFileHolds, RunEnd, vmVars, slotVars,
       Goto
  <2>3. Builders'
    BY <1>21 DEF IInv, TypeOK, Builders, VmLabels, RunEnd, vmVars, slotVars,
       Goto
  <2>4. LockHeld'
    BY <1>21 DEF IInv, TypeOK, LockHeld, RunEnd, vmVars, slotVars, Goto
  <2>5. Pointer'
    BY <1>21 DEF IInv, TypeOK, Pointer, RunEnd, vmVars, slotVars, Goto
  <2>6. FdOwner'
    BY <1>21 DEF IInv, TypeOK, FdOwner, RunEnd, vmVars, slotVars, Goto
  <2>7. Alive'
    BY <1>21 DEF IInv, TypeOK, Alive, RunEnd, vmVars, slotVars, Goto
  <2> QED  BY <2>1, <2>2, <2>3, <2>4, <2>5, <2>6, <2>7 DEF IInv
<1>22. ASSUME NEW x \in Objs, Mmap(x)
       PROVE  IInv'
  <2>1. TypeOK'
    BY <1>22 DEF IInv, TypeOK, VmLabels, Mmap, vmVars, slotVars
  <2>2. RefsExact'
    BY <1>22, <1>0 DEF IInv, TypeOK, VmFileHolds, Mmap, vmVars, slotVars
  <2>3. Builders'
    BY <1>22 DEF IInv, TypeOK, Builders, VmLabels, Mmap, vmVars, slotVars
  <2>4. LockHeld'
    BY <1>22 DEF IInv, TypeOK, LockHeld, Mmap, vmVars, slotVars
  <2>5. Pointer'
    BY <1>22 DEF IInv, TypeOK, Pointer, Mmap, vmVars, slotVars
  <2>6. FdOwner'
    BY <1>22 DEF IInv, TypeOK, FdOwner, Mmap, vmVars, slotVars
  <2>7. Alive'
    BY <1>22 DEF IInv, TypeOK, Alive, Mmap, vmVars, slotVars
  <2> QED  BY <2>1, <2>2, <2>3, <2>4, <2>5, <2>6, <2>7 DEF IInv
<1>23. ASSUME NEW x \in Objs, Munmap(x)
       PROVE  IInv'
  <2>1. TypeOK'
    BY <1>23 DEF IInv, TypeOK, VmLabels, Munmap, vmVars, slotVars
  <2>2. RefsExact'
    BY <1>23, <1>0 DEF IInv, TypeOK, VmFileHolds, Munmap, vmVars, slotVars
  <2>3. Builders'
    BY <1>23 DEF IInv, TypeOK, Builders, VmLabels, Munmap, vmVars, slotVars
  <2>4. LockHeld'
    BY <1>23 DEF IInv, TypeOK, LockHeld, Munmap, vmVars, slotVars
  <2>5. Pointer'
    BY <1>23 DEF IInv, TypeOK, Pointer, Munmap, vmVars, slotVars
  <2>6. FdOwner'
    BY <1>23 DEF IInv, TypeOK, FdOwner, Munmap, vmVars, slotVars
  <2>7. Alive'
    BY <1>23 DEF IInv, TypeOK, Alive, Munmap, vmVars, slotVars
  <2> QED  BY <2>1, <2>2, <2>3, <2>4, <2>5, <2>6, <2>7 DEF IInv
<1>24. ASSUME NEW t \in Threads, SerialBegin(t)
       PROVE  IInv'
  <2>1. TypeOK'
    BY <1>24 DEF IInv, TypeOK, VmLabels, SerialBegin, vmVars, slotVars, Goto
  <2>2. RefsExact'
    BY <1>24, <1>0 DEF IInv, TypeOK, VmFileHolds, SerialBegin, vmVars,
       slotVars, Goto
  <2>3. Builders'
    BY <1>24 DEF IInv, TypeOK, Builders, VmLabels, SerialBegin, vmVars,
       slotVars, Goto
  <2>4. LockHeld'
    BY <1>24 DEF IInv, TypeOK, LockHeld, SerialBegin, vmVars, slotVars, Goto
  <2>5. Pointer'
    BY <1>24 DEF IInv, TypeOK, Pointer, SerialBegin, vmVars, slotVars, Goto
  <2>6. FdOwner'
    BY <1>24 DEF IInv, TypeOK, FdOwner, SerialBegin, vmVars, slotVars, Goto
  <2>7. Alive'
    BY <1>24 DEF IInv, TypeOK, Alive, SerialBegin, vmVars, slotVars, Goto
  <2> QED  BY <2>1, <2>2, <2>3, <2>4, <2>5, <2>6, <2>7 DEF IInv
<1>25. ASSUME NEW t \in Threads, SerialEnd(t)
       PROVE  IInv'
  <2>1. TypeOK'
    BY <1>25 DEF IInv, TypeOK, VmLabels, SerialEnd, vmVars, slotVars, Goto
  <2>2. RefsExact'
    BY <1>25, <1>0 DEF IInv, TypeOK, VmFileHolds, SerialEnd, vmVars,
       slotVars, Goto
  <2>3. Builders'
    BY <1>25 DEF IInv, TypeOK, Builders, VmLabels, SerialEnd, vmVars,
       slotVars, Goto
  <2>4. LockHeld'
    BY <1>25 DEF IInv, TypeOK, LockHeld, SerialEnd, vmVars, slotVars, Goto
  <2>5. Pointer'
    BY <1>25 DEF IInv, TypeOK, Pointer, SerialEnd, vmVars, slotVars, Goto
  <2>6. FdOwner'
    BY <1>25 DEF IInv, TypeOK, FdOwner, SerialEnd, vmVars, slotVars, Goto
  <2>7. Alive'
    BY <1>25 DEF IInv, TypeOK, Alive, SerialEnd, vmVars, slotVars, Goto
  <2> QED  BY <2>1, <2>2, <2>3, <2>4, <2>5, <2>6, <2>7 DEF IInv
<1>26. CASE UNCHANGED vars
  BY <1>26 DEF IInv, vars, vmVars, slotVars, TypeOK, RefsExact, VmFileHolds,
     Holders, Builders, LockHeld, Pointer, FdOwner, Alive
<1> QED
  BY <1>1, <1>2, <1>3, <1>4, <1>5, <1>6, <1>7, <1>8, <1>9, <1>10, <1>11,
     <1>12, <1>13, <1>14, <1>15, <1>16, <1>17, <1>18, <1>19, <1>20, <1>21,
     <1>22, <1>23, <1>24, <1>25, <1>26 DEF Next, SetRegion, CreateVcpu

-----------------------------------------------------------------------------
(* What the invariant implies.                                             *)

\* A freed VM has no holder, hence no ioctl under way and no vCPU left.
LEMMA FreedMeansQuiet == IInv => NoUseAfterFree
<1>0. IInv => \A x \in mapped : obj[x] = "live"
  BY DEF IInv, TypeOK, FdOwner
<1> SUFFICES ASSUME IInv, vm # "live"
             PROVE  /\ \A t \in Threads : pc[t] = "idle"
                    /\ \A x \in Objs : obj[x] = "none"
  BY <1>0 DEF NoUseAfterFree
<1>1. CASE vm = "none"
  BY <1>1 DEF IInv, Alive
<1>2. CASE vm = "freed"
  <2>1. refs = 0
    BY <1>2 DEF IInv, Alive, TypeOK
  <2>2. refs = VmFileHolds + Cardinality(Held(obj))
    BY DEF IInv, RefsExact, Holders, Held
  <2>3. vmFd \notin {"open", "closed"} /\ Held(obj) = {}
    BY <2>1, <2>2, HeldFinite DEF VmFileHolds
  <2>4. \A t \in Threads : pc[t] \notin VmLabels
    BY <2>3 DEF IInv, Builders
  <2>5. \A x \in Objs : obj[x] = "none"
    BY <2>3, <2>4 DEF IInv, TypeOK, Held, Builders, VmLabels
  <2>6. \A t \in Threads : pc[t] = "idle"
    BY <2>4, <2>5 DEF IInv, TypeOK, Builders
  <2> QED  BY <2>5, <2>6
<1> QED  BY <1>1, <1>2 DEF IInv, TypeOK

\* A live vCPU is the one kvm->vcpu points to.
LEMMA OnlyOneLive == IInv => SingleVcpu
<1> SUFFICES ASSUME IInv PROVE SingleVcpu  OBVIOUS
<1>1. \A x, y \in Objs : obj[x] = "live" /\ obj[y] = "live" => x = y
  BY DEF IInv, Pointer
<1>2. vptr # NoObj => obj[vptr] \in {"ref", "live"}
  BY DEF IInv, Pointer, Builders
<1> QED  BY <1>1, <1>2 DEF SingleVcpu

-----------------------------------------------------------------------------
(* The memslot: what calls that overlap can and cannot do to it.           *)

Setting == {"set_pin", "set_geometry", "set_pages"}

\* Calls under way at the same time have raced and have a region each; a call under
\* way once a slot is valid has raced with the one that set it; what is left is whole.
SlotInv ==
  /\ \A t \in Threads :
       /\ pc[t] \in Setting => region[t] \in Regions
       /\ pc[t] \notin Setting => region[t] = NoRegion
       /\ pc[t] = "set_pin" => region[t] \notin pinned
       /\ pc[t] \in {"set_geometry", "set_pages"} => region[t] \in pinned
       /\ pc[t] = "set_pages" /\ region[t] \notin raced => slotBase = region[t]
       /\ pc[t] \in Setting /\ slotValid => slotPages \in raced /\ region[t] \in raced
  /\ \A s, t \in Threads :
       s # t /\ pc[s] \in Setting /\ pc[t] \in Setting =>
         region[s] # region[t] /\ region[s] \in raced
  /\ ~slotValid => slotPages = NoRegion
  /\ slotValid => /\ vm = "live" /\ slotPages \in pinned
                  /\ slotBase # slotPages => slotPages \in raced
  /\ \A x \in Objs : obj[x] # "none" => slotValid
  /\ PinsAccounted

\* There is no slot and no registration under way at first.
LEMMA InitSlotInv == Init => SlotInv
BY DEF Init, SlotInv, Setting, PinsAccounted, InHands

\* Every step keeps it, whoever else registers memory.
LEMMA StepSlotInv ==
  ASSUME IInv, IInv', SlotInv, [Next]_vars
  PROVE  SlotInv'
<1> USE ConstantsOK
<1>1. NoUseAfterFree'
  BY FreedMeansQuiet, PTL
<1>2. ASSUME CreateVm
      PROVE  SlotInv'
  BY <1>2, <1>1 DEF SlotInv, PinsAccounted, InHands, Setting, IInv, TypeOK, Builders,
     VmLabels, CreateVm, slotVars, Alive
<1>3. ASSUME CloseVm
      PROVE  SlotInv'
  BY <1>3, <1>1 DEF SlotInv, PinsAccounted, InHands, Setting, IInv, TypeOK, Builders,
     VmLabels, CloseVm, slotVars
<1>4. ASSUME VmRelease
      PROVE  SlotInv'
  BY <1>4, <1>1 DEF SlotInv, PinsAccounted, InHands, Setting, IInv, TypeOK, Builders,
     VmLabels, NoUseAfterFree, VmRelease, slotVars, Put, Unpin
<1>5. ASSUME NEW x \in Objs, CloseVcpu(x)
      PROVE  SlotInv'
  BY <1>5, <1>1 DEF SlotInv, PinsAccounted, InHands, Setting, IInv, TypeOK, Builders,
     VmLabels, CloseVcpu, vmVars, slotVars
<1>6. ASSUME NEW x \in Objs, VcpuUnlink(x)
      PROVE  SlotInv'
  BY <1>6, <1>1 DEF SlotInv, PinsAccounted, InHands, Setting, IInv, TypeOK, Builders,
     VmLabels, VcpuUnlink, slotVars, SetObj
<1>7. ASSUME NEW x \in Objs, VcpuRelease(x)
      PROVE  SlotInv'
  BY <1>7, <1>1 DEF SlotInv, PinsAccounted, InHands, Setting, IInv, TypeOK, Builders,
     VmLabels, NoUseAfterFree, VcpuRelease, slotVars, SetObj, Put, Unpin
<1>8. ASSUME NEW t \in Threads, NEW r \in Regions, SetCheck(t, r)
      PROVE  SlotInv'
  <2>1. /\ ~slotValid /\ pc[t] = "idle" /\ r \notin pinned /\ r \notin InHands
        /\ pc' = [pc EXCEPT ![t] = "set_pin"]
        /\ region' = [region EXCEPT ![t] = r]
        /\ UNCHANGED <<vm, slotBase, slotPages, slotValid, pinned, obj>>
    BY <1>8 DEF SetCheck, SlotFree, Goto, vmVars
  <2>2. \A s \in Threads : pc[s] \in Setting => region[s] \in InHands
    BY DEF SlotInv, InHands, ConstantsOK
  <2>3. /\ raced' \subseteq raced \cup InHands \cup {r}
        /\ \A q : q \in raced /\ q # r => q \in raced'
        /\ InHands # {} => r \in raced' /\ InHands \subseteq raced'
    BY <1>8 DEF SetCheck
  <2>4. \A s \in Threads : s # t /\ pc[s] \in Setting =>
           /\ region[s] # r
           /\ region[s] \in raced' /\ r \in raced'
    BY <2>1, <2>2, <2>3
  <2>5. PinsAccounted'
    <3>1. InHands' = InHands \cup {r}
      BY <2>1 DEF InHands, SlotInv, Setting, IInv, TypeOK, ConstantsOK
    <3> QED  BY <2>1, <2>3, <3>1 DEF SlotInv, PinsAccounted
  <2> QED
    BY <2>1, <2>2, <2>3, <2>4, <2>5 DEF SlotInv, Setting, IInv, TypeOK
<1>9. ASSUME NEW t \in Threads, NEW x \in Objs, CreateCheck(t, x)
      PROVE  SlotInv'
  BY <1>9, <1>1 DEF SlotInv, PinsAccounted, InHands, Setting, IInv, TypeOK, Builders,
     VmLabels, CreateCheck, vmVars, slotVars, Goto, SetObj, SlotReady
<1>10. ASSUME NEW t \in Threads, NEW x \in Objs, RunBegin(t, x)
      PROVE  SlotInv'
  BY <1>10, <1>1 DEF SlotInv, PinsAccounted, InHands, Setting, IInv, TypeOK, Builders,
     VmLabels, RunBegin, vmVars, slotVars, Goto
<1>11. ASSUME NEW t \in Threads, SetPin(t)
      PROVE  SlotInv'
  BY <1>11, <1>1 DEF SlotInv, PinsAccounted, InHands, Setting, IInv, TypeOK,
     Builders, VmLabels, SetPin, vmVars, Goto
<1>12. ASSUME NEW t \in Threads, SetPinFail(t)
      PROVE  SlotInv'
  BY <1>12, <1>1 DEF SlotInv, PinsAccounted, InHands, Setting, IInv, TypeOK, Builders,
     VmLabels, SetPinFail, vmVars, slotVars, Goto
<1>13. ASSUME NEW t \in Threads, SetGeometry(t)
      PROVE  SlotInv'
  BY <1>13, <1>1 DEF SlotInv, PinsAccounted, InHands, Setting, IInv, TypeOK, Builders,
     VmLabels, SetGeometry, vmVars, Goto
<1>14. ASSUME NEW t \in Threads, SetPages(t)
      PROVE  SlotInv'
  <2>1. vm = "live" /\ region[t] \in pinned /\ region[t] \in Regions
    BY <1>14, FreedMeansQuiet DEF NoUseAfterFree, SlotInv, Setting, SetPages
  <2>2. PinsAccounted'
    <3> SUFFICES ASSUME NEW r \in pinned \ raced
                 PROVE  r = region[t] \/ \E s \in Threads : s # t /\ region[s] = r
      BY <1>14, <2>1 DEF SetPages, vmVars, PinsAccounted, InHands, IInv, TypeOK
    <3>1. slotPages # r
      BY <1>14 DEF SlotInv, Setting, SetPages, IInv, TypeOK, ConstantsOK
    <3> QED  BY <3>1 DEF SlotInv, PinsAccounted, InHands
  <2> QED
    BY <1>14, <2>1, <2>2 DEF SlotInv, Setting, SetPages, vmVars, Goto, IInv, TypeOK
<1>15. ASSUME NEW t \in Threads, CreateGet(t)
      PROVE  SlotInv'
  BY <1>15, <1>1 DEF SlotInv, PinsAccounted, InHands, Setting, IInv, TypeOK, Builders,
     VmLabels, CreateGet, slotVars, Goto, SetObj
<1>16. ASSUME NEW t \in Threads, CreateExists(t)
      PROVE  SlotInv'
  BY <1>16, <1>1 DEF SlotInv, PinsAccounted, InHands, Setting, IInv, TypeOK, Builders,
     VmLabels, NoUseAfterFree, CreateExists, slotVars, Goto, SetObj, Put,
     Unpin
<1>17. ASSUME NEW t \in Threads, CreatePublish(t)
      PROVE  SlotInv'
  BY <1>17, <1>1 DEF SlotInv, PinsAccounted, InHands, Setting, IInv, TypeOK, Builders,
     VmLabels, CreatePublish, slotVars, Goto
<1>18. ASSUME NEW t \in Threads, CreateInstall(t)
      PROVE  SlotInv'
  BY <1>18, <1>1 DEF SlotInv, PinsAccounted, InHands, Setting, IInv, TypeOK, Builders,
     VmLabels, CreateInstall, vmVars, slotVars, Goto, SetObj
<1>19. ASSUME NEW t \in Threads, CreateInstallFail(t)
      PROVE  SlotInv'
  BY <1>19, <1>1 DEF SlotInv, PinsAccounted, InHands, Setting, IInv, TypeOK, Builders,
     VmLabels, NoUseAfterFree, CreateInstallFail, slotVars, Goto, SetObj, Put,
     Unpin
<1>20. ASSUME NEW t \in Threads, CreateUnlock(t)
      PROVE  SlotInv'
  BY <1>20, <1>1 DEF SlotInv, PinsAccounted, InHands, Setting, IInv, TypeOK, Builders,
     VmLabels, CreateUnlock, slotVars, Goto
<1>21. ASSUME NEW t \in Threads, CreateFree(t)
      PROVE  SlotInv'
  BY <1>21, <1>1 DEF SlotInv, PinsAccounted, InHands, Setting, IInv, TypeOK, Builders,
     VmLabels, NoUseAfterFree, CreateFree, vmVars, slotVars, Goto, SetObj
<1>22. ASSUME NEW t \in Threads, RunEnd(t)
      PROVE  SlotInv'
  BY <1>22, <1>1 DEF SlotInv, PinsAccounted, InHands, Setting, IInv, TypeOK, Builders,
     VmLabels, RunEnd, vmVars, slotVars, Goto
<1>23. ASSUME NEW x \in Objs, Mmap(x)
      PROVE  SlotInv'
  BY <1>23, <1>1 DEF SlotInv, PinsAccounted, InHands, Setting, IInv, TypeOK, Builders,
     VmLabels, Mmap, vmVars, slotVars
<1>24. ASSUME NEW x \in Objs, Munmap(x)
      PROVE  SlotInv'
  BY <1>24, <1>1 DEF SlotInv, PinsAccounted, InHands, Setting, IInv, TypeOK, Builders,
     VmLabels, Munmap, vmVars, slotVars
<1>25. ASSUME NEW t \in Threads, SerialBegin(t)
      PROVE  SlotInv'
  BY <1>25, <1>1 DEF SlotInv, PinsAccounted, InHands, Setting, IInv, TypeOK, Builders,
     VmLabels, SerialBegin, vmVars, slotVars, Goto
<1>26. ASSUME NEW t \in Threads, SerialEnd(t)
      PROVE  SlotInv'
  BY <1>26, <1>1 DEF SlotInv, PinsAccounted, InHands, Setting, IInv, TypeOK, Builders,
     VmLabels, SerialEnd, vmVars, slotVars, Goto
<1>27. CASE UNCHANGED vars
  BY <1>27 DEF SlotInv, PinsAccounted, InHands, Setting, vars, vmVars, slotVars
<1> QED
  BY <1>2, <1>3, <1>4, <1>5, <1>6, <1>7, <1>8, <1>9, <1>10, <1>11, <1>12,
     <1>13, <1>14, <1>15, <1>16, <1>17, <1>18, <1>19, <1>20, <1>21, <1>22,
     <1>23, <1>24, <1>25, <1>26, <1>27 DEF Next, SetRegion, CreateVcpu

-----------------------------------------------------------------------------
(* Theorems.                                                               *)

\* Every variable keeps its type; in particular the reference count of
\* struct mini_kvm never goes below zero.
THEOREM TypeCorrect == Spec => []TypeOK
<1>1. IInv => TypeOK
  BY DEF IInv
<1> QED  BY InitIInv, StepIInv, <1>1, PTL DEF Spec

\* kvm->refcount counts the VM fd and the vCPUs that hold the VM, whatever the
\* number of threads and the order of their ioctls and closes.
THEOREM RefsAreExact == Spec => []RefsExact
<1>1. IInv => RefsExact
  BY DEF IInv
<1> QED  BY InitIInv, StepIInv, <1>1, PTL DEF Spec

\* mini_kvm_destroy() runs only when no thread is inside an ioctl and no vCPU
\* is left, in whatever order the fds are closed.
THEOREM NothingOutlivesVm == Spec => []NoUseAfterFree
BY InitIInv, StepIInv, FreedMeansQuiet, PTL DEF Spec

\* kvm->vcpu is the vCPU being published or the live one, and there is at most
\* one live vCPU.
THEOREM AtMostOneVcpu == Spec => []SingleVcpu
BY InitIInv, StepIInv, OnlyOneLive, PTL DEF Spec

\* Both invariants hold throughout.
LEMMA SlotAlways == Spec => [](IInv /\ SlotInv)
<1>1. IInv /\ SlotInv /\ [Next]_vars => (IInv /\ SlotInv)'
  BY StepIInv, StepSlotInv
<1> QED  BY InitIInv, InitSlotInv, <1>1, PTL DEF Spec

\* Whoever registers memory: mini_kvm_unpin_memslot() knows of every pinned region,
\* those excepted whose calls overlapped.
THEOREM PinsAreAccounted == Spec => []PinsAccounted
<1>1. SlotInv => PinsAccounted
  BY DEF SlotInv
<1> QED  BY SlotAlways, <1>1, PTL

\* KVM_RUN always sees pinned pages, and with them the geometry of the same call
\* unless that call overlapped another.
THEOREM RunSeesOneCall == Spec => []RunSeesWholeSlot
<1>1. IInv /\ SlotInv => RunSeesWholeSlot
  BY DEF IInv, Builders, SlotInv, RunSeesWholeSlot
<1> QED  BY SlotAlways, <1>1, PTL

\* Only a call that overlapped the first one replaces the slot: -EEXIST is what all
\* later ones get.
THEOREM SlotIsKept == Spec => SlotKept
<1> DEFINE Once == slotValid /\ slotPages \notin raced => slotPages' \in {slotPages, NoRegion}
<1>1. ASSUME SlotInv, [Next]_vars PROVE [Once]_vars
  <2>1. ASSUME NEW t \in Threads, SetRegion(t) PROVE Once
    BY <1>1, <2>1 DEF SlotInv, Setting, SetRegion, SetPin, SetPinFail,
       SetGeometry, SetPages, slotVars
  <2>2. ASSUME NEW t \in Threads, CreateVcpu(t) PROVE Once
    BY <2>2 DEF CreateVcpu, CreateGet, CreateExists, CreatePublish,
       CreateInstall, CreateInstallFail, CreateUnlock, CreateFree, slotVars,
       Put, Unpin
  <2>3. ASSUME NEW t \in Threads, NEW r \in Regions, SetCheck(t, r) PROVE Once
    BY <2>3 DEF SetCheck, slotVars
  <2>4. ASSUME NEW t \in Threads, NEW x \in Objs,
               CreateCheck(t, x) \/ RunBegin(t, x)
        PROVE  Once
    BY <2>4 DEF CreateCheck, RunBegin, slotVars
  <2>5. ASSUME NEW x \in Objs,
               \/ Mmap(x) \/ Munmap(x) \/ CloseVcpu(x) \/ VcpuUnlink(x)
               \/ VcpuRelease(x)
        PROVE  Once
    BY <2>5 DEF Mmap, Munmap, CloseVcpu, VcpuUnlink, VcpuRelease, slotVars, Put, Unpin
  <2>6. ASSUME CreateVm \/ CloseVm \/ VmRelease PROVE Once
    BY <2>6 DEF CreateVm, CloseVm, VmRelease, slotVars, Put, Unpin
  <2>7. ASSUME NEW t \in Threads, RunEnd(t) \/ SerialBegin(t) \/ SerialEnd(t)
        PROVE  Once
    BY <2>7 DEF RunEnd, SerialBegin, SerialEnd, slotVars
  <2> QED
    BY <1>1, <2>1, <2>2, <2>3, <2>4, <2>5, <2>6, <2>7 DEF Next
<1> QED  BY SlotAlways, <1>1, PTL DEF Spec, SlotKept
=============================================================================
