------------------------- MODULE MiniKvmVmcsProofs -------------------------
(***************************************************************************)
(* Proofs about MiniKvmVmcs for any number of CPUs, vCPUs and threads: a   *)
(* VMCS is active on one CPU at a time and on none when it is freed, and   *)
(* VMs that share no CPU run on their own state.  No assumption is made of *)
(* where user space runs its threads: a vCPU whose set-up left its CPU is  *)
(* in strayed, and the statements are about the others.                    *)
(***************************************************************************)
EXTENDS MiniKvmVmcs, TLAPS

Building == {"set_clear", "set_load", "set_note", "set_write", "set_done"}
Running  == {"run_start", "run_load", "loop", "guest", "window", "leave"}
Clearing == {"clear", "clear_wait"}
InLoop   == {"loop", "guest", "window"}

\* A vCPU is in the hands of one thread: of the holder of its mutex when its
\* fd is open, and of the thread that builds or frees it otherwise.
Owned(t) ==
  /\ pc[t] = "idle" <=> work[t] = NoVcpu
  /\ pc[t] # "idle" => work[t] \in Use[t]
  /\ pc[t] = "set_done" => back[t] = "set_done"
  /\ pc[t] \in Building \/ (pc[t] \in Clearing /\ back[t] = "set_done") =>
       t \in Creators
  /\ pc[t] \in Building \cup {"free"} => vst[work[t]] = "private"
  /\ pc[t] \in Running => vst[work[t]] = "open"
  /\ pc[t] \in Clearing =>
       /\ back[t] # "none"
       /\ vst[work[t]] = IF back[t] = "run_load" THEN "open" ELSE "private"
  /\ pc[t] # "idle" /\ vst[work[t]] = "open" => mutex[work[t]] = t
  /\ \A s \in Threads : work[s] = work[t] /\ work[t] # NoVcpu => s = t

\* Where a thread may be while it cannot be preempted.
Pinned(t) ==
  /\ at[t] # NoCpu => at[t] \in Affinity[t]
  /\ pc[t] \in Building \cup {"idle", "run_start", "free"} => at[t] = NoCpu
  /\ pc[t] \in Running \ {"run_start"} => at[t] \in VmxCpus
  /\ pc[t] \in Clearing /\ back[t] = "run_load" => at[t] \in VmxCpus
  /\ pc[t] = "clear" /\ back[t] # "run_load" => at[t] = NoCpu

\* vcpu->loaded_cpu as the thread that has the vCPU knows it.
Loading(t) ==
  /\ pc[t] \in {"set_clear", "set_load", "set_note", "set_done", "run_load",
                "free"} => loaded[work[t]] = NoCpu
  /\ pc[t] = "set_note" /\ work[t] \notin strayed =>
       \E c \in VmxCpus : active[work[t]] = {c}
  /\ pc[t] = "set_write" => loaded[work[t]] \in Affinity[t]
  /\ pc[t] = "clear_wait" <=> ipi[t] # "none"
  /\ pc[t] = "clear_wait" => loaded[work[t]] # NoCpu
  /\ ipi[t] = "done" /\ work[t] \notin strayed => active[work[t]] = {}
  /\ pc[t] \in InLoop => loaded[work[t]] = at[t]

\* vcpu->loaded_cpu bounds where the VMCS is active, except between the first
\* VMPTRLD and the assignment that records it; it names a CPU in VMX operation.
\* A set-up that strayed may have recorded any CPU; its own VMCLEAR takes that
\* back before the fd exists.
Region(v) ==
  /\ \/ loaded[v] \in VmxCpus \cup {NoCpu}
     \/ v \in strayed /\ vst[v] = "private"
  /\ vst[v] = "free" => loaded[v] = NoCpu
  /\ v \notin strayed /\ (\A t \in Threads : pc[t] = "set_note" => work[t] # v) =>
       active[v] \subseteq {loaded[v]}

Ownership == \A t \in Threads : Owned(t)
Pins      == \A t \in Threads : Pinned(t)
Loads     == \A t \in Threads : Loading(t)
Regions   == \A v \in VCpus : Region(v)

IInv == TypeOK /\ Ownership /\ Pins /\ Loads /\ Regions /\ NoUndefinedOpcode

\* The CPUs on which the threads of a vCPU may run.
Home(v) == {c \in Cpus : \E t \in Threads : v \in Use[t] /\ c \in Affinity[t]}

\* A vCPU stays on its own CPUs.
AtHome(v) ==
  /\ \A c \in Cpus : current[c] = v => c \in Home(v)
  /\ loaded[v] \in Home(v) \cup {NoCpu}

\* A VMCS is current where loaded_cpu says, until the remote VMCLEAR has run.
Present(v) ==
  \/ loaded[v] = NoCpu
  \/ \E t \in Threads : work[t] = v /\ ipi[t] = "done"
  \/ current[loaded[v]] = v

\* launched and the launch state of the region are cleared together, and set
\* together but for a VMLAUNCH refused for its guest state.
Launch(v) ==
  \/ launched[v] = FALSE /\ hwLaunched[v] = FALSE
  \/ loaded[v] # NoCpu /\ (launched[v] = hwLaunched[v] \/ v \in invalid)
  \/ \E t \in Threads : work[t] = v /\ pc[t] = "clear_wait" /\ ipi[t] = "posted"

\* An open vCPU has been set up, and on the CPU it is loaded on its host state
\* and the cached mappings are good.
Contents(v) ==
  /\ vst[v] = "open" => fields[v] = v
  /\ vst[v] = "open" /\ loaded[v] # NoCpu =>
       hostCpu[v] = loaded[v] /\ tlb[loaded[v]][v] # "stale"

Progress(t) ==
  /\ pc[t] = "set_note" /\ work[t] \notin strayed =>
       \A c \in active[work[t]] : current[c] = work[t]
  /\ /\ pc[t] \in Clearing \cup {"set_done"} /\ back[t] = "set_done"
     /\ work[t] \notin strayed
     => fields[work[t]] = work[t]
  /\ pc[t] \in Building /\ work[t] \notin strayed => launched[work[t]] = FALSE
  /\ pc[t] = "clear_wait" => launched[work[t]] = FALSE /\ work[t] \notin invalid

OwnState ==
  DisjointVms =>
    /\ \A v \in VCpus : AtHome(v)
    /\ \A v \in VCpus \ strayed : Present(v) /\ Launch(v) /\ Contents(v)
    /\ \A t \in Threads : Progress(t)
\* A VM exit, or a refused entry: the thread goes on, nothing else changes but
\* the interrupt flag of its CPU.
Exit(t) == \/ EnterFail(t) \/ ExitAgain(t) \/ ExitWindow(t)
           \/ WindowClose(t) \/ ExitToUser(t)
-----------------------------------------------------------------------------
\* What ConstantsOK says of the placement in force.
LEMMA Setting ==
  ASSUME TypeOK
  PROVE  /\ Use \in [Threads -> SUBSET VCpus]
         /\ Affinity \in [Threads -> SUBSET Cpus]
         /\ VmxCpus \subseteq Cpus
  BY ConstantsOK DEF TypeOK, Placement, Use, Affinity, VmxCpus

\* What a thread has in hand at each place.
LEMMA Places ==
  ASSUME TypeOK, Ownership, Pins, NEW t \in Threads
  PROVE  /\ pc[t] # "idle" => work[t] \in VCpus
         /\ pc[t] \in Running \ {"run_start"} => at[t] \in Cpus
         /\ pc[t] \in Clearing => back[t] \in {"set_done", "run_load", "free"}
         /\ pc[t] = "clear" /\ back[t] = "run_load" => at[t] \in Cpus
<1>1. Owned(t) /\ Pinned(t)
  BY DEF Ownership, Pins
<1>2. Use[t] \subseteq VCpus /\ VmxCpus \subseteq Cpus
  BY Setting
<1>3. back[t] \in {"none", "set_done", "run_load", "free"}
  BY DEF TypeOK
<1> QED
  BY <1>1, <1>2, <1>3 DEF Owned, Pinned, Clearing

\* VMCLEAR keeps the types of what it changes.
LEMMA VmclearType ==
  ASSUME TypeOK, NEW c, NEW v \in VCpus,
         Vmclear(c, v) \/ UNCHANGED <<current, active, hwLaunched, fault>>
  PROVE  /\ current' \in [Cpus -> VCpus \cup {NoVcpu}]
         /\ active' \in [VCpus -> SUBSET Cpus]
         /\ hwLaunched' \in [VCpus -> BOOLEAN] /\ fault' \in BOOLEAN
<1>1. fault' \in BOOLEAN
  BY DEF TypeOK, Vmclear
<1>2. current' \in [Cpus -> VCpus \cup {NoVcpu}]
  BY DEF TypeOK, Vmclear
<1>3. hwLaunched' \in [VCpus -> BOOLEAN]
  BY DEF TypeOK, Vmclear
<1>4. active' \in [VCpus -> SUBSET Cpus]
  <2>1. active[v] \ {c} \in SUBSET Cpus
    BY DEF TypeOK
  <2> QED
    BY <2>1 DEF TypeOK, Vmclear
<1> QED
  BY <1>1, <1>2, <1>3, <1>4

\* What is said to have strayed or to be invalid are vCPUs.
LEMMA HistoryType ==
  ASSUME TypeOK, Ownership, Pins, [Next]_vars
  PROVE  strayed' \in SUBSET VCpus /\ invalid' \in SUBSET VCpus
<1>0. /\ strayed \in SUBSET VCpus /\ invalid \in SUBSET VCpus
      /\ \A t \in Threads : pc[t] # "idle" => work[t] \in VCpus
  BY Places DEF TypeOK
<1> USE <1>0 DEF hist
<1>1. ASSUME NEW t \in Threads, NEW v \in VCpus,
             Create(t, v) \/ RunLock(t, v) \/ Close(t, v)
      PROVE  UNCHANGED hist
  BY <1>1 DEF Create, RunLock, Close
<1>2. ASSUME NEW t \in Threads, Setup(t)
      PROVE  (strayed' = strayed \/ strayed' = strayed \cup {work[t]})
             /\ invalid' = invalid /\ pc[t] # "idle"
  BY <1>2 DEF Setup, SetupVmclear, SetupVmptrld, SetupNote, SetupWrite, SetupFail,
              SetupDone, Stray
<1>3. ASSUME NEW t \in Threads, Clear(t)
      PROVE  strayed' = strayed /\ invalid' \subseteq invalid
  BY <1>3 DEF Clear, ClearNothing, ClearLocal, ClearRemote, VmclearIpi, ClearDone,
              ResetLaunched
<1>4. ASSUME NEW t \in Threads, Run(t)
      PROVE  /\ strayed' = strayed
             /\ \/ invalid' = invalid
                \/ pc[t] # "idle" /\ invalid' = invalid \cup {work[t]}
  BY <1>4 DEF Run, RunRefuse, RunStart, RunLoad, Enter, EnterInvalid, EnterFail,
              ExitAgain, ExitWindow, WindowClose, ExitToUser, RunReturn
<1>5. ASSUME NEW t \in Threads, Free(t) PROVE UNCHANGED hist
  BY <1>5 DEF Free
<1>6. CASE UNCHANGED vars
  BY <1>6 DEF vars
<1>7. CASE Next
  <2>1. PICK t \in Threads :
          \/ \E v \in VCpus : Create(t, v) \/ RunLock(t, v) \/ Close(t, v)
          \/ Setup(t) \/ Clear(t) \/ Run(t) \/ Free(t)
    BY <1>7 DEF Next
  <2>2. CASE \E v \in VCpus : Create(t, v) \/ RunLock(t, v) \/ Close(t, v)
    BY <2>2, <1>1
  <2>3. CASE Setup(t)
    BY <2>3, <1>2
  <2>4. CASE Clear(t)
    BY <2>4, <1>3
  <2>5. CASE Run(t)
    BY <2>5, <1>4
  <2>6. CASE Free(t)
    BY <2>6, <1>5
  <2> QED
    BY <2>1, <2>2, <2>3, <2>4, <2>5, <2>6
<1> QED
  BY <1>6, <1>7

\* Types are kept.
LEMMA TypeStep ==
  ASSUME TypeOK, Ownership, Pins, Loads, [Next]_vars PROVE TypeOK'
<1>h. strayed' \in SUBSET VCpus /\ invalid' \in SUBSET VCpus
  BY HistoryType
<1> USE ConstantsOK, <1>h DEF TypeOK, Labels
<1>1. ASSUME NEW t \in Threads, NEW v \in VCpus, Create(t, v) PROVE TypeOK'
  BY <1>1 DEF Create, hwVars, Goto, Running, Clearing
<1>2. ASSUME NEW t \in Threads, NEW v \in VCpus, RunLock(t, v) PROVE TypeOK'
  BY <1>2 DEF RunLock, hwVars, Goto, Running, Clearing
<1>3. ASSUME NEW t \in Threads, NEW v \in VCpus, Close(t, v) PROVE TypeOK'
  BY <1>3 DEF Close, hwVars, Goto, Running, Clearing
<1>4. ASSUME NEW t \in Threads, NEW c \in Cpus, SetupVmclear(t, c) PROVE TypeOK'
  <2>1. work[t] \in VCpus
    BY <1>4, Places DEF SetupVmclear
  <2> QED
    BY <1>4, <2>1, VmclearType DEF SetupVmclear, modVars, hwVars, Goto
<1>5. ASSUME NEW t \in Threads, NEW c \in Cpus, SetupVmptrld(t, c) PROVE TypeOK'
  <2>1. work[t] \in VCpus
    BY <1>5, Places DEF SetupVmptrld
  <2> QED
    <3>1. active[work[t]] \cup {c} \in SUBSET Cpus
      BY <2>1
    <3>2. active' \in [VCpus -> SUBSET Cpus]
      BY <1>5, <2>1, <3>1 DEF SetupVmptrld, Vmptrld
    <3>3. current' \in [Cpus -> VCpus \cup {NoVcpu}] /\ fault' \in BOOLEAN
      BY <1>5, <2>1 DEF SetupVmptrld, Vmptrld
    <3> QED
      BY <1>5, <3>2, <3>3 DEF SetupVmptrld, modVars, Goto
<1>6. ASSUME NEW t \in Threads, NEW c \in Cpus, SetupNote(t, c) PROVE TypeOK'
  BY <1>6 DEF SetupNote, hwVars, Goto, Running, Clearing
<1>7. ASSUME NEW t \in Threads, NEW c \in Cpus, SetupWrite(t, c) PROVE TypeOK'
  <2>1. work[t] \in VCpus
    BY <1>7, Places DEF SetupWrite
  <2>2. /\ fields' \in [VCpus -> VCpus \cup {NoVcpu}]
        /\ hostCpu' \in [VCpus -> Cpus \cup {NoCpu}]
    <3>1. CASE UNCHANGED <<fields, hostCpu>>
      BY <3>1
    <3>2. CASE ~UNCHANGED <<fields, hostCpu>>
      <4>1. /\ fields' = [fields EXCEPT ![current[c]] = work[t]]
            /\ hostCpu' = [hostCpu EXCEPT ![current[c]] = c]
        BY <1>7, <3>2 DEF SetupWrite
      <4> QED
        BY <2>1, <4>1
    <3> QED
      BY <3>1, <3>2
  <2>3. /\ pc' \in [Threads -> Labels]
        /\ back' \in [Threads -> {"none", "set_done", "run_load", "free"}]
        /\ fault' \in BOOLEAN
    BY <1>7 DEF SetupWrite, Goto
  <2>4. UNCHANGED <<place, modVars, work, at, irqOff, ipi, current, active, hwLaunched,
                    tlb>>
    BY <1>7 DEF SetupWrite, Goto
  <2> QED
    BY <2>2, <2>3, <2>4 DEF modVars
<1>8. ASSUME NEW t \in Threads, SetupFail(t) PROVE TypeOK'
  BY <1>8 DEF SetupFail, modVars, hwVars, Goto, Running, Clearing
<1>9. ASSUME NEW t \in Threads, SetupDone(t) PROVE TypeOK'
  <2>1. work[t] \in VCpus
    BY <1>9, Places DEF SetupDone
  <2> QED
    BY ZenonT(60), <1>9, <2>1 DEF SetupDone, modVars, hwVars, Goto, Running, Clearing
<1>10. ASSUME NEW t \in Threads, ClearNothing(t) PROVE TypeOK'
  BY <1>10, Places DEF ClearNothing, ResetLaunched, hwVars, Goto, Running,
       Clearing
<1>11. ASSUME NEW t \in Threads, NEW c \in Cpus, ClearLocal(t, c) PROVE TypeOK'
  <2>1. work[t] \in VCpus /\ back[t] \in {"set_done", "run_load", "free"}
    BY <1>11, Places DEF ClearLocal, Clearing
  <2>2. loaded' \in [VCpus -> Cpus \cup {NoCpu}] /\ launched' \in [VCpus -> BOOLEAN]
    BY <1>11, <2>1 DEF ClearLocal, ResetLaunched
  <2>3. pc' \in [Threads -> Labels]
    BY <1>11, <2>1 DEF ClearLocal, Goto
  <2>4. /\ current' \in [Cpus -> VCpus \cup {NoVcpu}]
        /\ active' \in [VCpus -> SUBSET Cpus]
        /\ hwLaunched' \in [VCpus -> BOOLEAN] /\ fault' \in BOOLEAN
    BY <1>11, <2>1, VmclearType DEF ClearLocal
  <2> QED
    BY <1>11, <2>2, <2>3, <2>4 DEF ClearLocal, Goto
<1>12. ASSUME NEW t \in Threads, NEW c \in Cpus, ClearRemote(t, c) PROVE TypeOK'
  BY <1>12 DEF ClearRemote, ResetLaunched, hwVars, Goto, Running, Clearing
<1>13. ASSUME NEW t \in Threads, VmclearIpi(t) PROVE TypeOK'
  <2>1. pc[t] = "clear_wait" /\ work[t] \in VCpus
    BY <1>13, Places DEF VmclearIpi, Loads, Loading
  <2> QED
    BY <1>13, <2>1, VmclearType DEF VmclearIpi, InVmxOperation, ClearTarget, modVars,
         hwVars, Goto
<1>14. ASSUME NEW t \in Threads, ClearDone(t) PROVE TypeOK'
  BY <1>14, Places DEF ClearDone, hwVars, Goto, Running, Clearing
<1>15. ASSUME NEW t \in Threads, NEW c \in Cpus, RunRefuse(t, c) PROVE TypeOK'
  BY <1>15 DEF RunRefuse, Return, hwVars, Goto, Running, Clearing
<1>16. ASSUME NEW t \in Threads, NEW c \in Cpus, RunStart(t, c) PROVE TypeOK'
  BY <1>16 DEF RunStart, LoadedHere, modVars, hwVars, Goto, Running, Clearing
<1>17. ASSUME NEW t \in Threads, RunLoad(t) PROVE TypeOK'
  <2>1. work[t] \in VCpus /\ at[t] \in Cpus
    BY <1>17, Places DEF RunLoad, Running
  <2>2. active' \in [VCpus -> SUBSET Cpus]
    <3>1. active[work[t]] \cup {at[t]} \in SUBSET Cpus
      BY <2>1
    <3> QED
      BY <1>17, <2>1, <3>1 DEF RunLoad, Vmptrld
  <2>3. tlb' \in [Cpus -> [VCpus -> {"none", "live", "stale"}]]
    BY <1>17, <2>1 DEF RunLoad, Invept
  <2> QED
    BY ZenonT(60), <1>17, <2>1, <2>2, <2>3 DEF RunLoad, Vmptrld, FixupHost, Goto
<1>18. ASSUME NEW t \in Threads, Enter(t) PROVE TypeOK'
  <2>1. work[t] \in VCpus /\ at[t] \in Cpus
    BY <1>18, Places DEF Enter, Running
  <2>2. current[at[t]] \in VCpus
    BY <1>18, <2>1 DEF Enter, EntryOK
  <2>3. /\ hwLaunched' \in [VCpus -> BOOLEAN] /\ launched' \in [VCpus -> BOOLEAN]
        /\ irqOff' \in SUBSET Cpus /\ pc' \in [Threads -> Labels]
    BY <1>18, <2>1, <2>2 DEF Enter, Goto
  <2>4. tlb' \in [Cpus -> [VCpus -> {"none", "live", "stale"}]]
    BY <1>18, <2>1, <2>2 DEF Enter
  <2>5. UNCHANGED <<place, vst, loaded, mutex, work, back, at, ipi, current, active,
                    fields, hostCpu, fault>>
    BY <1>18 DEF Enter, Goto
  <2> QED
    BY <2>3, <2>4, <2>5
<1>19. ASSUME NEW t \in Threads, Exit(t) PROVE TypeOK'
  <2>1. at[t] \in Cpus
    BY <1>19, Places DEF Exit, EnterFail, ExitAgain, ExitWindow, WindowClose,
       ExitToUser, Running
  <2>2. irqOff' \in SUBSET Cpus /\ pc' \in [Threads -> Labels]
    BY <1>19, <2>1 DEF Exit, EnterFail, ExitAgain, ExitWindow, WindowClose,
       ExitToUser, Goto
  <2>3. UNCHANGED <<place, modVars, work, back, at, ipi, hwVars>>
    BY <1>19 DEF Exit, EnterFail, ExitAgain, ExitWindow, WindowClose, ExitToUser, Goto
  <2> QED
    BY <2>2, <2>3 DEF modVars, hwVars
<1>20. ASSUME NEW t \in Threads, RunReturn(t) PROVE TypeOK'
  BY <1>20 DEF RunReturn, Return, hwVars, Goto, Running, Clearing
<1>21. ASSUME NEW t \in Threads, Free(t) PROVE TypeOK'
  BY <1>21 DEF Free, Goto, Running, Clearing
<1>22. CASE UNCHANGED vars
  BY <1>22 DEF vars, modVars, thrVars, hwVars, Running, Clearing
<1>23. ASSUME NEW t \in Threads, EnterInvalid(t) PROVE TypeOK'
  <2>1. work[t] \in VCpus
    BY <1>23, Places DEF EnterInvalid
  <2> QED
    BY <1>23, <2>1 DEF EnterInvalid, hwVars, Goto
<1> QED
  BY <1>1, <1>2, <1>3, <1>4, <1>5, <1>6, <1>7, <1>8, <1>9, <1>10, <1>11, <1>12,
       <1>13, <1>14, <1>15, <1>16, <1>17, <1>18, <1>19, <1>20, <1>21,
       <1>22, <1>23 DEF Next, Setup, Clear, Run, Exit

\* No step changes who may run where.
LEMMA PlaceKept ==
  ASSUME [Next]_vars
  PROVE  Use' = Use /\ Affinity' = Affinity /\ VmxCpus' = VmxCpus
<1>1. ASSUME NEW t \in Threads, NEW v \in VCpus,
             Create(t, v) \/ RunLock(t, v) \/ Close(t, v)
      PROVE  place' = place
  BY <1>1 DEF Create, RunLock, Close, Goto
<1>2. ASSUME NEW t \in Threads, Setup(t) PROVE place' = place
  BY <1>2 DEF Setup, SetupVmclear, SetupVmptrld, SetupNote, SetupWrite, SetupFail,
              SetupDone, Goto
<1>3. ASSUME NEW t \in Threads, Clear(t) PROVE place' = place
  BY <1>3 DEF Clear, ClearNothing, ClearLocal, ClearRemote, VmclearIpi, ClearDone,
              Goto
<1>4. ASSUME NEW t \in Threads, Run(t) PROVE place' = place
  BY <1>4 DEF Run, RunRefuse, RunStart, RunLoad, Enter, EnterInvalid, EnterFail,
              ExitAgain, ExitWindow, WindowClose, ExitToUser, RunReturn, Return, Goto
<1>5. ASSUME NEW t \in Threads, Free(t) PROVE place' = place
  BY <1>5 DEF Free, Goto
<1>6. place' = place
  BY <1>1, <1>2, <1>3, <1>4, <1>5 DEF Next, vars
<1> QED
  BY <1>6 DEF Use, Affinity, VmxCpus

\* A vCPU that strayed stays marked.
LEMMA StrayedGrows ==
  ASSUME [Next]_vars
  PROVE  strayed \subseteq strayed'
<1>1. ASSUME NEW t \in Threads, NEW v \in VCpus,
             Create(t, v) \/ RunLock(t, v) \/ Close(t, v)
      PROVE  strayed' = strayed
  BY <1>1 DEF Create, RunLock, Close, hist
<1>2. ASSUME NEW t \in Threads, Setup(t) PROVE strayed \subseteq strayed'
  BY <1>2 DEF Setup, SetupVmclear, SetupVmptrld, SetupNote, SetupWrite, SetupFail,
              SetupDone, Stray, hist
<1>3. ASSUME NEW t \in Threads, Clear(t) PROVE strayed' = strayed
  BY <1>3 DEF Clear, ClearNothing, ClearLocal, ClearRemote, VmclearIpi, ClearDone,
              hist
<1>4. ASSUME NEW t \in Threads, Run(t) PROVE strayed' = strayed
  BY <1>4 DEF Run, RunRefuse, RunStart, RunLoad, Enter, EnterInvalid, EnterFail,
              ExitAgain, ExitWindow, WindowClose, ExitToUser, RunReturn, hist
<1>5. ASSUME NEW t \in Threads, Free(t) PROVE strayed' = strayed
  BY <1>5 DEF Free, hist
<1> QED
  BY <1>1, <1>2, <1>3, <1>4, <1>5 DEF Next, vars, hist

\* A vCPU changes hands only under its mutex, or before and after its fd exists.
LEMMA OwnershipStep ==
  ASSUME TypeOK, Ownership, [Next]_vars PROVE Ownership'
<1> SUFFICES ASSUME NEW s \in Threads PROVE Owned(s)'
  BY DEF Ownership
<1>0. /\ pc \in [Threads -> Labels] /\ work \in [Threads -> VCpus \cup {NoVcpu}]
      /\ vst \in [VCpus -> {"free", "private", "open"}]
      /\ mutex \in [VCpus -> Threads \cup {NoThread}]
      /\ back \in [Threads -> {"none", "set_done", "run_load", "free"}]
      /\ \A r \in Threads : Owned(r)
  BY DEF TypeOK, Ownership
<1> USE <1>0, ConstantsOK, Setting, PlaceKept
    DEF Labels, Building, Running, Clearing, hist, Stray
<1>1. ASSUME NEW t \in Threads, NEW v \in VCpus, Create(t, v) PROVE Owned(s)'
  BY <1>1 DEF Create, hwVars, Goto, Owned
<1>2. ASSUME NEW t \in Threads, NEW v \in VCpus, RunLock(t, v) PROVE Owned(s)'
  <2>1. vst[v] = "open" /\ \A r \in Threads : work[r] # v
    BY <1>2 DEF RunLock, MutexFree, Owned
  <2>2. v # NoVcpu /\ v \in Use[t] /\ pc[t] = "idle"
    BY <1>2 DEF RunLock
  <2>3. CASE s = t
    BY <1>2, <2>1, <2>2, <2>3 DEF RunLock, Goto, Owned
  <2>4. CASE s # t
    BY <1>2, <2>1, <2>2, <2>4 DEF RunLock, Goto, Owned
  <2> QED
    BY <2>3, <2>4
<1>3. ASSUME NEW t \in Threads, NEW v \in VCpus, Close(t, v) PROVE Owned(s)'
  BY <1>3 DEF Close, hwVars, Goto, Owned
<1>4. ASSUME NEW t \in Threads, NEW c \in Cpus, SetupVmclear(t, c)
      PROVE  Owned(s)'
  BY <1>4 DEF SetupVmclear, Vmclear, modVars, Goto, Owned
<1>5. ASSUME NEW t \in Threads, NEW c \in Cpus, SetupVmptrld(t, c)
      PROVE  Owned(s)'
  BY <1>5 DEF SetupVmptrld, Vmptrld, modVars, Goto, Owned
<1>6. ASSUME NEW t \in Threads, NEW c \in Cpus, SetupNote(t, c) PROVE Owned(s)'
  BY <1>6 DEF SetupNote, hwVars, Goto, Owned
<1>7. ASSUME NEW t \in Threads, NEW c \in Cpus, SetupWrite(t, c) PROVE Owned(s)'
  BY <1>7 DEF SetupWrite, modVars, Goto, Owned
<1>8. ASSUME NEW t \in Threads, SetupFail(t) PROVE Owned(s)'
  BY <1>8 DEF SetupFail, modVars, hwVars, Goto, Owned
<1>9. ASSUME NEW t \in Threads, SetupDone(t) PROVE Owned(s)'
  BY <1>9 DEF SetupDone, hwVars, Goto, Owned
<1>10. ASSUME NEW t \in Threads, ClearNothing(t) PROVE Owned(s)'
  BY <1>10 DEF ClearNothing, ResetLaunched, hwVars, Goto, Owned
<1>11. ASSUME NEW t \in Threads, NEW c \in Cpus, ClearLocal(t, c)
       PROVE  Owned(s)'
  BY <1>11 DEF ClearLocal, ResetLaunched, Vmclear, Goto, Owned
<1>12. ASSUME NEW t \in Threads, NEW c \in Cpus, ClearRemote(t, c)
       PROVE  Owned(s)'
  BY <1>12 DEF ClearRemote, ResetLaunched, hwVars, Goto, Owned
<1>13. ASSUME NEW t \in Threads, VmclearIpi(t) PROVE Owned(s)'
  BY <1>13 DEF VmclearIpi, InVmxOperation, ClearTarget, Vmclear, modVars, Owned
<1>14. ASSUME NEW t \in Threads, ClearDone(t) PROVE Owned(s)'
  BY <1>14 DEF ClearDone, hwVars, Goto, Owned
<1>15. ASSUME NEW t \in Threads, NEW c \in Cpus, RunRefuse(t, c) PROVE Owned(s)'
  BY <1>15 DEF RunRefuse, Return, hwVars, Goto, Owned
<1>16. ASSUME NEW t \in Threads, NEW c \in Cpus, RunStart(t, c) PROVE Owned(s)'
  BY <1>16 DEF RunStart, LoadedHere, modVars, hwVars, Goto, Owned
<1>17. ASSUME NEW t \in Threads, RunLoad(t) PROVE Owned(s)'
  BY <1>17 DEF RunLoad, Vmptrld, Invept, FixupHost, Goto, Owned
<1>18. ASSUME NEW t \in Threads, Enter(t) PROVE Owned(s)'
  BY <1>18 DEF Enter, Goto, Owned
<1>19. ASSUME NEW t \in Threads, Exit(t) PROVE Owned(s)'
  BY <1>19 DEF Exit, EnterFail, ExitAgain, ExitWindow, WindowClose, ExitToUser,
       modVars, hwVars, Goto, Owned
<1>20. ASSUME NEW t \in Threads, RunReturn(t) PROVE Owned(s)'
  BY <1>20 DEF RunReturn, Return, hwVars, Goto, Owned
<1>21. ASSUME NEW t \in Threads, Free(t) PROVE Owned(s)'
  BY <1>21 DEF Free, Goto, Owned
<1>22. CASE UNCHANGED vars
  BY <1>22 DEF vars, modVars, thrVars, hwVars, Owned
<1>23. ASSUME NEW t \in Threads, EnterInvalid(t) PROVE Owned(s)'
  BY <1>23 DEF EnterInvalid, hwVars, Goto, Owned
<1> QED
  BY <1>1, <1>2, <1>3, <1>4, <1>5, <1>6, <1>7, <1>8, <1>9, <1>10, <1>11, <1>12,
       <1>13, <1>14, <1>15, <1>16, <1>17, <1>18, <1>19, <1>20, <1>21,
       <1>22, <1>23 DEF Next, Setup, Clear, Run, Exit

\* No step moves a thread that cannot be preempted.
LEMMA PinsStep ==
  ASSUME TypeOK, Ownership, Pins, [Next]_vars PROVE Pins'
<1> SUFFICES ASSUME NEW s \in Threads PROVE Pinned(s)'
  BY DEF Pins
<1>0. /\ pc \in [Threads -> Labels] /\ at \in [Threads -> Cpus \cup {NoCpu}]
      /\ back \in [Threads -> {"none", "set_done", "run_load", "free"}]
      /\ \A r \in Threads : Pinned(r) /\ Owned(r)
  BY DEF TypeOK, Pins, Ownership
<1> USE <1>0, ConstantsOK, Setting, PlaceKept
    DEF Labels, Building, Running, Clearing, hist, Stray
<1>1. ASSUME NEW t \in Threads, NEW v \in VCpus, Create(t, v) PROVE Pinned(s)'
  BY <1>1 DEF Create, hwVars, Goto, Pinned
<1>2. ASSUME NEW t \in Threads, NEW v \in VCpus, RunLock(t, v) PROVE Pinned(s)'
  BY <1>2 DEF RunLock, hwVars, Goto, Pinned
<1>3. ASSUME NEW t \in Threads, NEW v \in VCpus, Close(t, v) PROVE Pinned(s)'
  BY <1>3 DEF Close, hwVars, Goto, Pinned
<1>4. ASSUME NEW t \in Threads, NEW c \in Cpus, SetupVmclear(t, c)
      PROVE  Pinned(s)'
  BY <1>4 DEF SetupVmclear, Vmclear, modVars, Goto, Pinned
<1>5. ASSUME NEW t \in Threads, NEW c \in Cpus, SetupVmptrld(t, c)
      PROVE  Pinned(s)'
  BY <1>5 DEF SetupVmptrld, Vmptrld, modVars, Goto, Pinned
<1>6. ASSUME NEW t \in Threads, NEW c \in Cpus, SetupNote(t, c) PROVE Pinned(s)'
  BY <1>6 DEF SetupNote, hwVars, Goto, Pinned
<1>7. ASSUME NEW t \in Threads, NEW c \in Cpus, SetupWrite(t, c)
      PROVE  Pinned(s)'
  BY <1>7 DEF SetupWrite, modVars, Goto, Pinned
<1>8. ASSUME NEW t \in Threads, SetupFail(t) PROVE Pinned(s)'
  BY <1>8 DEF SetupFail, modVars, hwVars, Goto, Pinned
<1>9. ASSUME NEW t \in Threads, SetupDone(t) PROVE Pinned(s)'
  BY <1>9 DEF SetupDone, hwVars, Goto, Pinned
<1>10. ASSUME NEW t \in Threads, ClearNothing(t) PROVE Pinned(s)'
  BY <1>10 DEF ClearNothing, ResetLaunched, hwVars, Goto, Pinned
<1>11. ASSUME NEW t \in Threads, NEW c \in Cpus, ClearLocal(t, c)
       PROVE  Pinned(s)'
  BY <1>11 DEF ClearLocal, ResetLaunched, Vmclear, Goto, Pinned
<1>12. ASSUME NEW t \in Threads, NEW c \in Cpus, ClearRemote(t, c)
       PROVE  Pinned(s)'
  BY <1>12 DEF ClearRemote, ResetLaunched, hwVars, Goto, Pinned, RunsOn
<1>13. ASSUME NEW t \in Threads, VmclearIpi(t) PROVE Pinned(s)'
  BY <1>13 DEF VmclearIpi, InVmxOperation, ClearTarget, Vmclear, modVars, Pinned
<1>14. ASSUME NEW t \in Threads, ClearDone(t) PROVE Pinned(s)'
  BY <1>14 DEF ClearDone, hwVars, Goto, Pinned
<1>15. ASSUME NEW t \in Threads, NEW c \in Cpus, RunRefuse(t, c)
       PROVE  Pinned(s)'
  BY <1>15 DEF RunRefuse, Return, hwVars, Goto, Pinned, InVmxOperation
<1>16. ASSUME NEW t \in Threads, NEW c \in Cpus, RunStart(t, c) PROVE Pinned(s)'
  BY <1>16 DEF RunStart, LoadedHere, modVars, hwVars, Goto, Pinned, RunsOn,
       InVmxOperation
<1>17. ASSUME NEW t \in Threads, RunLoad(t) PROVE Pinned(s)'
  BY <1>17 DEF RunLoad, Vmptrld, Invept, FixupHost, Goto, Pinned
<1>18. ASSUME NEW t \in Threads, Enter(t) PROVE Pinned(s)'
  BY <1>18 DEF Enter, Goto, Pinned
<1>19. ASSUME NEW t \in Threads, Exit(t) PROVE Pinned(s)'
  BY <1>19 DEF Exit, EnterFail, ExitAgain, ExitWindow, WindowClose, ExitToUser,
       modVars, hwVars, Goto, Pinned
<1>20. ASSUME NEW t \in Threads, RunReturn(t) PROVE Pinned(s)'
  BY <1>20 DEF RunReturn, Return, hwVars, Goto, Pinned
<1>21. ASSUME NEW t \in Threads, Free(t) PROVE Pinned(s)'
  BY <1>21 DEF Free, Goto, Pinned
<1>22. CASE UNCHANGED vars
  BY <1>22 DEF vars, modVars, thrVars, hwVars, Pinned
<1>23. ASSUME NEW t \in Threads, EnterInvalid(t) PROVE Pinned(s)'
  BY <1>23 DEF EnterInvalid, hwVars, Goto, Pinned
<1> QED
  BY <1>1, <1>2, <1>3, <1>4, <1>5, <1>6, <1>7, <1>8, <1>9, <1>10, <1>11, <1>12,
       <1>13, <1>14, <1>15, <1>16, <1>17, <1>18, <1>19, <1>20, <1>21,
       <1>22, <1>23 DEF Next, Setup, Clear, Run, Exit

\* Typing and the parts of IInv, in the form in which the steps below use them.
LEMMA Facts ==
  ASSUME TypeOK, Ownership, Pins, Loads, Regions
  PROVE  /\ pc \in [Threads -> Labels] /\ work \in [Threads -> VCpus \cup {NoVcpu}]
         /\ back \in [Threads -> {"none", "set_done", "run_load", "free"}]
         /\ at \in [Threads -> Cpus \cup {NoCpu}]
         /\ ipi \in [Threads -> {"none", "posted", "done"}]
         /\ vst \in [VCpus -> {"free", "private", "open"}]
         /\ loaded \in [VCpus -> Cpus \cup {NoCpu}] /\ active \in [VCpus -> SUBSET Cpus]
         /\ launched \in [VCpus -> BOOLEAN] /\ hwLaunched \in [VCpus -> BOOLEAN]
         /\ current \in [Cpus -> VCpus \cup {NoVcpu}]
         /\ \A t \in Threads : Owned(t) /\ Pinned(t) /\ Loading(t)
         /\ \A v \in VCpus : Region(v)
  BY DEF TypeOK, Ownership, Pins, Loads, Regions

\* loaded_cpu changes only in the hands of the thread that has the vCPU.
LEMMA LoadsStep ==
  ASSUME TypeOK, Ownership, Pins, Loads, Regions, [Next]_vars
  PROVE  Loads'
<1> SUFFICES ASSUME NEW s \in Threads PROVE Loading(s)'
  BY DEF Loads
<1> USE Facts, ConstantsOK, Setting, PlaceKept
    DEF Labels, Building, Running, Clearing, InLoop, hist, Stray
<1>1. ASSUME NEW t \in Threads, NEW v \in VCpus, Create(t, v) PROVE Loading(s)'
  BY <1>1 DEF Create, hwVars, Goto, Loading, Region
<1>2. ASSUME NEW t \in Threads, NEW v \in VCpus, RunLock(t, v) PROVE Loading(s)'
  BY <1>2 DEF RunLock, hwVars, Goto, Loading
<1>3. ASSUME NEW t \in Threads, NEW v \in VCpus, Close(t, v) PROVE Loading(s)'
  BY <1>3 DEF Close, hwVars, Goto, Loading
<1>4. ASSUME NEW t \in Threads, NEW c \in Cpus, SetupVmclear(t, c)
      PROVE  Loading(s)'
  BY <1>4 DEF SetupVmclear, Vmclear, modVars, Goto, Owned, Loading
<1>5. ASSUME NEW t \in Threads, NEW c \in Cpus, SetupVmptrld(t, c)
      PROVE  Loading(s)'
  BY <1>5 DEF SetupVmptrld, Vmptrld, modVars, Goto, Owned, Pinned, Loading,
       Region, RunsOn
<1>6. ASSUME NEW t \in Threads, NEW c \in Cpus, SetupNote(t, c)
      PROVE  Loading(s)'
  BY <1>6 DEF SetupNote, hwVars, Goto, Owned, Pinned, Loading, RunsOn
<1>7. ASSUME NEW t \in Threads, NEW c \in Cpus, SetupWrite(t, c)
      PROVE  Loading(s)'
  BY <1>7 DEF SetupWrite, modVars, Goto, Loading
<1>8. ASSUME NEW t \in Threads, SetupFail(t) PROVE Loading(s)'
  BY <1>8 DEF SetupFail, modVars, hwVars, Goto, Loading
<1>9. ASSUME NEW t \in Threads, SetupDone(t) PROVE Loading(s)'
  BY <1>9 DEF SetupDone, hwVars, Goto, Loading
<1>10. ASSUME NEW t \in Threads, ClearNothing(t) PROVE Loading(s)'
  BY <1>10 DEF ClearNothing, ResetLaunched, hwVars, Goto, Loading
<1>11. ASSUME NEW t \in Threads, NEW c \in Cpus, ClearLocal(t, c)
       PROVE  Loading(s)'
  BY SMTT(30), <1>11 DEF ClearLocal, ResetLaunched, Vmclear, Goto, Owned, Loading
<1>12. ASSUME NEW t \in Threads, NEW c \in Cpus, ClearRemote(t, c)
       PROVE  Loading(s)'
  BY <1>12 DEF ClearRemote, ResetLaunched, hwVars, Goto, Loading
<1>13. ASSUME NEW t \in Threads, VmclearIpi(t) PROVE Loading(s)'
  BY SMTT(30), <1>13 DEF VmclearIpi, InVmxOperation, ClearTarget, Vmclear, modVars, Owned,
       Loading, Region
<1>14. ASSUME NEW t \in Threads, ClearDone(t) PROVE Loading(s)'
  BY <1>14 DEF ClearDone, hwVars, Goto, Owned, Loading
<1>15. ASSUME NEW t \in Threads, NEW c \in Cpus, RunRefuse(t, c)
       PROVE  Loading(s)'
  BY <1>15 DEF RunRefuse, Return, hwVars, Goto, Loading
<1>16. ASSUME NEW t \in Threads, NEW c \in Cpus, RunStart(t, c)
       PROVE  Loading(s)'
  BY <1>16 DEF RunStart, LoadedHere, modVars, hwVars, Goto, Loading
<1>17. ASSUME NEW t \in Threads, RunLoad(t) PROVE Loading(s)'
  BY <1>17 DEF RunLoad, Vmptrld, Invept, FixupHost, Goto, Owned, Loading
<1>18. ASSUME NEW t \in Threads, Enter(t) PROVE Loading(s)'
  BY <1>18 DEF Enter, Goto, Loading
<1>19. ASSUME NEW t \in Threads, Exit(t) PROVE Loading(s)'
  BY <1>19 DEF Exit, EnterFail, ExitAgain, ExitWindow, WindowClose, ExitToUser,
       modVars, hwVars, Goto, Loading
<1>20. ASSUME NEW t \in Threads, RunReturn(t) PROVE Loading(s)'
  BY <1>20 DEF RunReturn, Return, hwVars, Goto, Loading
<1>21. ASSUME NEW t \in Threads, Free(t) PROVE Loading(s)'
  BY <1>21 DEF Free, Goto, Loading
<1>22. CASE UNCHANGED vars
  BY <1>22 DEF vars, modVars, thrVars, hwVars, Loading
<1>23. ASSUME NEW t \in Threads, EnterInvalid(t) PROVE Loading(s)'
  BY <1>23 DEF EnterInvalid, hwVars, Goto, Loading
<1> QED
  BY <1>1, <1>2, <1>3, <1>4, <1>5, <1>6, <1>7, <1>8, <1>9, <1>10, <1>11, <1>12,
       <1>13, <1>14, <1>15, <1>16, <1>17, <1>18, <1>19, <1>20, <1>21,
       <1>22, <1>23 DEF Next, Setup, Clear, Run, Exit

\* A VMCS becomes active only where loaded_cpu says, or will say.
LEMMA RegionsStep ==
  ASSUME TypeOK, Ownership, Pins, Loads, Regions, [Next]_vars
  PROVE  Regions'
<1> SUFFICES ASSUME NEW u \in VCpus PROVE Region(u)'
  BY DEF Regions
<1> USE Facts, ConstantsOK, Setting, PlaceKept
    DEF Labels, Building, Running, Clearing, InLoop, hist, Stray
<1>1. ASSUME NEW t \in Threads, NEW v \in VCpus, Create(t, v) PROVE Region(u)'
  BY <1>1 DEF Create, hwVars, Goto, Region
<1>2. ASSUME NEW t \in Threads, NEW v \in VCpus, RunLock(t, v) PROVE Region(u)'
  BY <1>2 DEF RunLock, hwVars, Goto, Region
<1>3. ASSUME NEW t \in Threads, NEW v \in VCpus, Close(t, v) PROVE Region(u)'
  BY <1>3 DEF Close, hwVars, Goto, Region
<1>4. ASSUME NEW t \in Threads, NEW c \in Cpus, SetupVmclear(t, c)
      PROVE  Region(u)'
  BY SMTT(20), <1>4 DEF SetupVmclear, Vmclear, modVars, Goto, Region
<1>5. ASSUME NEW t \in Threads, NEW c \in Cpus, SetupVmptrld(t, c)
      PROVE  Region(u)'
  BY <1>5 DEF SetupVmptrld, Vmptrld, modVars, Goto, Region
<1>6. ASSUME NEW t \in Threads, NEW c \in Cpus, SetupNote(t, c) PROVE Region(u)'
  BY <1>6 DEF SetupNote, hwVars, Goto, Owned, Pinned, Loading, Region, RunsOn
<1>7. ASSUME NEW t \in Threads, NEW c \in Cpus, SetupWrite(t, c)
      PROVE  Region(u)'
  BY <1>7 DEF SetupWrite, modVars, Goto, Region
<1>8. ASSUME NEW t \in Threads, SetupFail(t) PROVE Region(u)'
  BY <1>8 DEF SetupFail, modVars, hwVars, Goto, Region
<1>9. ASSUME NEW t \in Threads, SetupDone(t) PROVE Region(u)'
  BY SMTT(20), <1>9 DEF SetupDone, hwVars, Goto, Loading, Owned, Region
<1>10. ASSUME NEW t \in Threads, ClearNothing(t) PROVE Region(u)'
  BY <1>10 DEF ClearNothing, ResetLaunched, hwVars, Goto, Region
<1>11. ASSUME NEW t \in Threads, NEW c \in Cpus, ClearLocal(t, c)
       PROVE  Region(u)'
  BY <1>11 DEF ClearLocal, ResetLaunched, Vmclear, Goto, Region
<1>12. ASSUME NEW t \in Threads, NEW c \in Cpus, ClearRemote(t, c)
       PROVE  Region(u)'
  BY <1>12 DEF ClearRemote, ResetLaunched, hwVars, Goto, Region
<1>13. ASSUME NEW t \in Threads, VmclearIpi(t) PROVE Region(u)'
  BY <1>13 DEF VmclearIpi, InVmxOperation, ClearTarget, Vmclear, modVars, Region
<1>14. ASSUME NEW t \in Threads, ClearDone(t) PROVE Region(u)'
  BY <1>14 DEF ClearDone, hwVars, Goto, Loading, Region
<1>15. ASSUME NEW t \in Threads, NEW c \in Cpus, RunRefuse(t, c)
       PROVE  Region(u)'
  BY <1>15 DEF RunRefuse, Return, hwVars, Goto, Region
<1>16. ASSUME NEW t \in Threads, NEW c \in Cpus, RunStart(t, c) PROVE Region(u)'
  BY <1>16 DEF RunStart, LoadedHere, modVars, hwVars, Goto, Region
<1>17. ASSUME NEW t \in Threads, RunLoad(t) PROVE Region(u)'
  BY <1>17 DEF RunLoad, Vmptrld, Invept, FixupHost, Goto, Owned, Pinned, Loading,
       Region
<1>18. ASSUME NEW t \in Threads, Enter(t) PROVE Region(u)'
  BY <1>18 DEF Enter, Goto, Region
<1>19. ASSUME NEW t \in Threads, Exit(t) PROVE Region(u)'
  BY <1>19 DEF Exit, EnterFail, ExitAgain, ExitWindow, WindowClose, ExitToUser,
       modVars, hwVars, Goto, Region
<1>20. ASSUME NEW t \in Threads, RunReturn(t) PROVE Region(u)'
  BY <1>20 DEF RunReturn, Return, hwVars, Goto, Region
<1>21. ASSUME NEW t \in Threads, Free(t) PROVE Region(u)'
  BY SMTT(30), <1>21 DEF Free, Goto, Pinned, Owned, Loading, Region
<1>22. CASE UNCHANGED vars
  BY <1>22 DEF vars, modVars, thrVars, hwVars, Region
<1>23. ASSUME NEW t \in Threads, EnterInvalid(t) PROVE Region(u)'
  BY <1>23 DEF EnterInvalid, hwVars, Goto, Region
<1> QED
  BY <1>1, <1>2, <1>3, <1>4, <1>5, <1>6, <1>7, <1>8, <1>9, <1>10, <1>11, <1>12,
       <1>13, <1>14, <1>15, <1>16, <1>17, <1>18, <1>19, <1>20, <1>21,
       <1>22, <1>23 DEF Next, Setup, Clear, Run, Exit

\* VMX instructions execute on CPUs in VMX operation.
LEMMA FaultStep ==
  ASSUME TypeOK, Ownership, Pins, Loads, Regions, NoUndefinedOpcode, [Next]_vars
  PROVE  NoUndefinedOpcode'
<1>0. CASE UNCHANGED vars
  BY <1>0 DEF vars, modVars, thrVars, hwVars, hist, NoUndefinedOpcode
<1> SUFFICES ASSUME Next, ~fault PROVE NoUndefinedOpcode'
  BY <1>0 DEF Next
<1> USE Facts, ConstantsOK, Setting, PlaceKept
    DEF Labels, Building, Running, Clearing, InLoop, hist, Stray
<1>1. ASSUME NEW t \in Threads, NEW v \in VCpus, Create(t, v) PROVE ~fault'
  BY <1>1 DEF Create, hwVars, Goto
<1>2. ASSUME NEW t \in Threads, NEW v \in VCpus, RunLock(t, v) PROVE ~fault'
  BY <1>2 DEF RunLock, hwVars, Goto
<1>3. ASSUME NEW t \in Threads, NEW v \in VCpus, Close(t, v) PROVE ~fault'
  BY <1>3 DEF Close, hwVars, Goto
<1>4. ASSUME NEW t \in Threads, NEW c \in Cpus, SetupVmclear(t, c)
      PROVE  NoUndefinedOpcode'
  <2>1. /\ vst' = vst /\ work' = work
        /\ vst[work[t]] = "private" \/ c \in VmxCpus
        /\ fault' = (c \notin VmxCpus)
    BY <1>4 DEF SetupVmclear, Vmclear, modVars, Owned
  <2>2. c \notin VmxCpus => work[t] \in strayed'
    BY <1>4 DEF SetupVmclear, Pinned, RunsOn
  <2> QED
    BY <2>1, <2>2 DEF NoUndefinedOpcode
<1>5. ASSUME NEW t \in Threads, NEW c \in Cpus, SetupVmptrld(t, c)
      PROVE  NoUndefinedOpcode'
  <2>1. /\ vst' = vst /\ work' = work
        /\ vst[work[t]] = "private" \/ c \in VmxCpus
        /\ fault' = (c \notin VmxCpus)
    BY <1>5 DEF SetupVmptrld, Vmptrld, modVars, Owned
  <2>2. c \notin VmxCpus => work[t] \in strayed'
    BY <1>5 DEF SetupVmptrld, Pinned, RunsOn
  <2> QED
    BY <2>1, <2>2 DEF NoUndefinedOpcode
<1>6. ASSUME NEW t \in Threads, NEW c \in Cpus, SetupNote(t, c) PROVE ~fault'
  BY <1>6 DEF SetupNote, hwVars, Goto
<1>7. ASSUME NEW t \in Threads, NEW c \in Cpus, SetupWrite(t, c)
      PROVE  NoUndefinedOpcode'
  <2>1. /\ vst' = vst /\ work' = work
        /\ vst[work[t]] = "private" \/ c \in VmxCpus
        /\ fault' = (c \notin VmxCpus)
    BY <1>7 DEF SetupWrite, modVars, Owned
  <2>2. c \notin VmxCpus => work[t] \in strayed'
    BY <1>7 DEF SetupWrite, Owned, Region
  <2> QED
    BY <2>1, <2>2 DEF NoUndefinedOpcode
<1>8. ASSUME NEW t \in Threads, SetupFail(t) PROVE ~fault'
  BY <1>8 DEF SetupFail, modVars, hwVars, Goto
<1>9. ASSUME NEW t \in Threads, SetupDone(t) PROVE ~fault'
  BY <1>9 DEF SetupDone, hwVars, Goto
<1>10. ASSUME NEW t \in Threads, ClearNothing(t) PROVE ~fault'
  BY <1>10 DEF ClearNothing, ResetLaunched, hwVars, Goto
<1>11. ASSUME NEW t \in Threads, NEW c \in Cpus, ClearLocal(t, c)
      PROVE  NoUndefinedOpcode'
  <2>1. /\ vst' = vst /\ work' = work
        /\ vst[work[t]] = "private" \/ c \in VmxCpus
        /\ fault' = (c \notin VmxCpus)
    BY <1>11 DEF ClearLocal, Vmclear, modVars, Owned, Pinned, RunsOn
  <2>2. c \notin VmxCpus => work[t] \in strayed'
    BY <1>11 DEF ClearLocal, Owned, Region
  <2> QED
    BY <2>1, <2>2 DEF NoUndefinedOpcode
<1>12. ASSUME NEW t \in Threads, NEW c \in Cpus, ClearRemote(t, c) PROVE ~fault'
  BY <1>12 DEF ClearRemote, ResetLaunched, hwVars, Goto
<1>13. ASSUME NEW t \in Threads, VmclearIpi(t) PROVE ~fault'
  <2>1. CASE ClearTarget(t) \in VmxCpus
    <3>1. fault' = (ClearTarget(t) \notin VmxCpus)
      BY <1>13, <2>1 DEF VmclearIpi, InVmxOperation, Vmclear
    <3> QED
      BY ONLY <2>1, <3>1
  <2>2. CASE ClearTarget(t) \notin VmxCpus
    BY <1>13, <2>2 DEF VmclearIpi, InVmxOperation
  <2> QED
    BY <2>1, <2>2
<1>14. ASSUME NEW t \in Threads, ClearDone(t) PROVE ~fault'
  BY <1>14 DEF ClearDone, hwVars, Goto
<1>15. ASSUME NEW t \in Threads, NEW c \in Cpus, RunRefuse(t, c) PROVE ~fault'
  BY <1>15 DEF RunRefuse, Return, hwVars, Goto
<1>16. ASSUME NEW t \in Threads, NEW c \in Cpus, RunStart(t, c) PROVE ~fault'
  BY <1>16 DEF RunStart, LoadedHere, modVars, hwVars, Goto
<1>17. ASSUME NEW t \in Threads, RunLoad(t) PROVE ~fault'
  <2>1. at[t] \in VmxCpus
    BY <1>17 DEF RunLoad, Pinned
  <2>2. fault' = (at[t] \notin VmxCpus)
    BY <1>17 DEF RunLoad, Vmptrld
  <2> QED
    BY ONLY <2>1, <2>2
<1>18. ASSUME NEW t \in Threads, Enter(t) PROVE ~fault'
  BY <1>18 DEF Enter, Goto
<1>19. ASSUME NEW t \in Threads, Exit(t) PROVE ~fault'
  BY <1>19 DEF Exit, EnterFail, ExitAgain, ExitWindow, WindowClose, ExitToUser,
       modVars, hwVars, Goto
<1>20. ASSUME NEW t \in Threads, RunReturn(t) PROVE ~fault'
  BY <1>20 DEF RunReturn, Return, hwVars, Goto
<1>21. ASSUME NEW t \in Threads, Free(t) PROVE ~fault'
  BY <1>21 DEF Free, Goto
<1>23. ASSUME NEW t \in Threads, EnterInvalid(t) PROVE ~fault'
  BY <1>23 DEF EnterInvalid, hwVars, Goto
<1> QED
  BY <1>1, <1>2, <1>3, <1>4, <1>5, <1>6, <1>7, <1>8, <1>9, <1>10, <1>11, <1>12,
       <1>13, <1>14, <1>15, <1>16, <1>17, <1>18, <1>19, <1>20, <1>21,
       <1>23 DEF NoUndefinedOpcode, Next, Setup, Clear, Run, Exit

\* Without a shared CPU, a CPU is the home of one vCPU, and the thread that has a
\* vCPU in hand is at its home.
LEMMA HomesApart ==
  ASSUME TypeOK, Ownership, DisjointVms
  PROVE  /\ \A u, v \in VCpus : \A c \in Home(u) : c \in Home(v) => u = v
         /\ \A t \in Threads : pc[t] # "idle" =>
              \A c \in Affinity[t] : c \in Home(work[t])
<1>1. ASSUME NEW u \in VCpus, NEW v \in VCpus, NEW c \in Home(u), c \in Home(v)
      PROVE  u = v
  BY <1>1 DEF Home, DisjointVms
<1>2. ASSUME NEW t \in Threads, pc[t] # "idle", NEW c \in Affinity[t]
      PROVE  c \in Home(work[t])
  <2>1. work[t] \in Use[t] /\ c \in Cpus
    BY <1>2, Setting DEF Ownership, Owned
  <2> QED
    BY <2>1 DEF Home
<1> QED
  BY <1>1, <1>2

\* Homes do not change.
LEMMA HomeKept ==
  ASSUME [Next]_vars
  PROVE  (\A v \in VCpus : Home(v)' = Home(v)) /\ DisjointVms' = DisjointVms
  BY PlaceKept DEF Home, DisjointVms

\* A VMPTRLD happens at home.
LEMMA AtHomeStep ==
  ASSUME TypeOK, Ownership, Pins, Loads, Regions,
         OwnState, DisjointVms, [Next]_vars
  PROVE  \A v \in VCpus : AtHome(v)'
<1> SUFFICES ASSUME NEW u \in VCpus PROVE AtHome(u)'
  OBVIOUS
<1>h. Home(u)' = Home(u)
  BY HomeKept
<1>c. /\ \A v \in VCpus : AtHome(v)
      /\ \A v \in VCpus \ strayed : Present(v)
  BY DEF OwnState
<1>p. \A r \in Threads : Progress(r)
  BY DEF OwnState
<1> USE Facts, ConstantsOK, Setting, PlaceKept, HomesApart
    DEF Labels, Building, Running, Clearing, InLoop, hist, Stray
<1>1. ASSUME NEW t \in Threads, NEW v \in VCpus, Create(t, v) PROVE AtHome(u)'
  BY <1>1, <1>c, <1>h DEF Create, hwVars, Goto, AtHome
<1>2. ASSUME NEW t \in Threads, NEW v \in VCpus, RunLock(t, v) PROVE AtHome(u)'
  BY <1>2, <1>c, <1>h DEF RunLock, hwVars, Goto, AtHome
<1>3. ASSUME NEW t \in Threads, NEW v \in VCpus, Close(t, v) PROVE AtHome(u)'
  BY <1>3, <1>c, <1>h DEF Close, hwVars, Goto, AtHome
<1>4. ASSUME NEW t \in Threads, NEW c \in Cpus, SetupVmclear(t, c)
      PROVE  AtHome(u)'
  BY <1>4, <1>c, <1>h DEF SetupVmclear, Vmclear, modVars, Goto, AtHome
<1>5. ASSUME NEW t \in Threads, NEW c \in Cpus, SetupVmptrld(t, c)
      PROVE  AtHome(u)'
  BY <1>5, <1>c, <1>h DEF SetupVmptrld, Vmptrld, modVars, Goto, Pinned, RunsOn,
       AtHome
<1>6. ASSUME NEW t \in Threads, NEW c \in Cpus, SetupNote(t, c) PROVE AtHome(u)'
  BY <1>6, <1>c, <1>h DEF SetupNote, hwVars, Goto, Pinned, RunsOn, AtHome
<1>7. ASSUME NEW t \in Threads, NEW c \in Cpus, SetupWrite(t, c)
      PROVE  AtHome(u)'
  BY <1>7, <1>c, <1>h DEF SetupWrite, modVars, Goto, AtHome
<1>8. ASSUME NEW t \in Threads, SetupFail(t) PROVE AtHome(u)'
  BY <1>8, <1>c, <1>h DEF SetupFail, modVars, hwVars, Goto, AtHome
<1>9. ASSUME NEW t \in Threads, SetupDone(t) PROVE AtHome(u)'
  BY <1>9, <1>c, <1>h DEF SetupDone, hwVars, Goto, AtHome
<1>10. ASSUME NEW t \in Threads, ClearNothing(t) PROVE AtHome(u)'
  BY <1>10, <1>c, <1>h DEF ClearNothing, ResetLaunched, hwVars, Goto, AtHome
<1>11. ASSUME NEW t \in Threads, NEW c \in Cpus, ClearLocal(t, c)
       PROVE  AtHome(u)'
  BY <1>11, <1>c, <1>h DEF ClearLocal, ResetLaunched, Vmclear, Goto, AtHome
<1>12. ASSUME NEW t \in Threads, NEW c \in Cpus, ClearRemote(t, c)
       PROVE  AtHome(u)'
  BY <1>12, <1>c, <1>h DEF ClearRemote, ResetLaunched, hwVars, Goto, AtHome
<1>13. ASSUME NEW t \in Threads, VmclearIpi(t) PROVE AtHome(u)'
  BY <1>13, <1>c, <1>h DEF VmclearIpi, InVmxOperation, ClearTarget, Vmclear,
       modVars, AtHome
<1>14. ASSUME NEW t \in Threads, ClearDone(t) PROVE AtHome(u)'
  BY <1>14, <1>c, <1>h DEF ClearDone, hwVars, Goto, AtHome
<1>15. ASSUME NEW t \in Threads, NEW c \in Cpus, RunRefuse(t, c)
       PROVE  AtHome(u)'
  BY <1>15, <1>c, <1>h DEF RunRefuse, Return, hwVars, Goto, AtHome
<1>16. ASSUME NEW t \in Threads, NEW c \in Cpus, RunStart(t, c) PROVE AtHome(u)'
  BY <1>16, <1>c, <1>h DEF RunStart, LoadedHere, modVars, hwVars, Goto, AtHome
<1>17. ASSUME NEW t \in Threads, RunLoad(t) PROVE AtHome(u)'
  BY <1>17, <1>c, <1>h DEF RunLoad, Vmptrld, Invept, FixupHost, Goto, Pinned,
       AtHome
<1>18. ASSUME NEW t \in Threads, Enter(t) PROVE AtHome(u)'
  BY <1>18, <1>c, <1>h DEF Enter, Goto, AtHome
<1>19. ASSUME NEW t \in Threads, Exit(t) PROVE AtHome(u)'
  BY <1>19, <1>c, <1>h DEF Exit, EnterFail, ExitAgain, ExitWindow, WindowClose,
       ExitToUser, modVars, hwVars, Goto, AtHome
<1>20. ASSUME NEW t \in Threads, RunReturn(t) PROVE AtHome(u)'
  BY <1>20, <1>c, <1>h DEF RunReturn, Return, hwVars, Goto, AtHome
<1>21. ASSUME NEW t \in Threads, Free(t) PROVE AtHome(u)'
  BY <1>21, <1>c, <1>h DEF Free, Goto, AtHome
<1>22. CASE UNCHANGED vars
  BY <1>22, <1>c, <1>h DEF vars, modVars, thrVars, hwVars, AtHome
<1>23. ASSUME NEW t \in Threads, EnterInvalid(t) PROVE AtHome(u)'
  BY <1>23, <1>c, <1>h DEF EnterInvalid, hwVars, Goto, AtHome
<1> QED
  BY <1>1, <1>2, <1>3, <1>4, <1>5, <1>6, <1>7, <1>8, <1>9, <1>10, <1>11, <1>12,
       <1>13, <1>14, <1>15, <1>16, <1>17, <1>18, <1>19, <1>20, <1>21,
       <1>22, <1>23 DEF Next, Setup, Clear, Run, Exit

\* No other vCPU's VMPTRLD or VMCLEAR replaces the current VMCS of a home.
LEMMA PresentStep ==
  ASSUME TypeOK, Ownership, Pins, Loads, Regions,
         OwnState, DisjointVms, [Next]_vars
  PROVE  \A v \in VCpus \ strayed' : Present(v)'
<1> SUFFICES ASSUME NEW u \in VCpus, u \notin strayed' PROVE Present(u)'
  OBVIOUS
<1>s. u \notin strayed
  BY StrayedGrows
<1>c. /\ \A v \in VCpus : AtHome(v)
      /\ \A v \in VCpus \ strayed : Present(v)
  BY DEF OwnState
<1>p. \A r \in Threads : Progress(r)
  BY DEF OwnState
<1> USE Facts, ConstantsOK, Setting, PlaceKept, HomesApart
    DEF Labels, Building, Running, Clearing, InLoop, hist, Stray
<1>1. ASSUME NEW t \in Threads, NEW v \in VCpus, Create(t, v) PROVE Present(u)'
  BY <1>1, <1>c DEF Create, hwVars, Goto, Loading, Present
<1>2. ASSUME NEW t \in Threads, NEW v \in VCpus, RunLock(t, v) PROVE Present(u)'
  BY <1>2, <1>c DEF RunLock, hwVars, Goto, Loading, Present
<1>3. ASSUME NEW t \in Threads, NEW v \in VCpus, Close(t, v) PROVE Present(u)'
  BY <1>3, <1>c DEF Close, hwVars, Goto, Loading, Present
<1>4. ASSUME NEW t \in Threads, NEW c \in Cpus, SetupVmclear(t, c)
      PROVE  Present(u)'
  BY <1>4, <1>c DEF SetupVmclear, Vmclear, modVars, Goto, Loading, Present
<1>5. ASSUME NEW t \in Threads, NEW c \in Cpus, SetupVmptrld(t, c)
      PROVE  Present(u)'
  BY <1>5, <1>c DEF SetupVmptrld, Vmptrld, modVars, Goto, Owned, Pinned, RunsOn,
       AtHome, Present
<1>6. ASSUME NEW t \in Threads, NEW c \in Cpus, SetupNote(t, c)
      PROVE  Present(u)'
  BY <1>6, <1>c, <1>p DEF SetupNote, hwVars, Goto, Pinned, RunsOn, Present,
       Progress
<1>7. ASSUME NEW t \in Threads, NEW c \in Cpus, SetupWrite(t, c)
      PROVE  Present(u)'
  BY <1>7, <1>c DEF SetupWrite, modVars, Goto, Present
<1>8. ASSUME NEW t \in Threads, SetupFail(t) PROVE Present(u)'
  BY <1>8, <1>c DEF SetupFail, modVars, hwVars, Goto, Present
<1>9. ASSUME NEW t \in Threads, SetupDone(t) PROVE Present(u)'
  BY <1>9, <1>c DEF SetupDone, hwVars, Goto, Loading, Present
<1>10. ASSUME NEW t \in Threads, ClearNothing(t) PROVE Present(u)'
  BY <1>10, <1>c DEF ClearNothing, ResetLaunched, hwVars, Goto, Present
<1>11. ASSUME NEW t \in Threads, NEW c \in Cpus, ClearLocal(t, c)
       PROVE  Present(u)'
  BY <1>11, <1>c DEF ClearLocal, ResetLaunched, Vmclear, Goto, Present
<1>12. ASSUME NEW t \in Threads, NEW c \in Cpus, ClearRemote(t, c)
       PROVE  Present(u)'
  BY <1>12, <1>c DEF ClearRemote, ResetLaunched, hwVars, Goto, Loading, Present
<1>13. ASSUME NEW t \in Threads, VmclearIpi(t) PROVE Present(u)'
  BY <1>13, <1>c DEF VmclearIpi, InVmxOperation, ClearTarget, Vmclear, modVars,
       Present
<1>14. ASSUME NEW t \in Threads, ClearDone(t) PROVE Present(u)'
  BY <1>14, <1>c DEF ClearDone, hwVars, Goto, Present
<1>15. ASSUME NEW t \in Threads, NEW c \in Cpus, RunRefuse(t, c)
       PROVE  Present(u)'
  BY <1>15, <1>c DEF RunRefuse, Return, hwVars, Goto, Loading, Present,
       InVmxOperation
<1>16. ASSUME NEW t \in Threads, NEW c \in Cpus, RunStart(t, c)
       PROVE  Present(u)'
  BY <1>16, <1>c DEF RunStart, LoadedHere, modVars, hwVars, Goto, Present,
       InVmxOperation
<1>17. ASSUME NEW t \in Threads, RunLoad(t) PROVE Present(u)'
  BY <1>17, <1>c DEF RunLoad, Vmptrld, Invept, FixupHost, Goto, Owned, Pinned,
       AtHome, Present
<1>18. ASSUME NEW t \in Threads, Enter(t) PROVE Present(u)'
  BY <1>18, <1>c DEF Enter, Goto, Present
<1>19. ASSUME NEW t \in Threads, Exit(t) PROVE Present(u)'
  BY <1>19, <1>c DEF Exit, EnterFail, ExitAgain, ExitWindow, WindowClose,
       ExitToUser, modVars, hwVars, Goto, Present
<1>20. ASSUME NEW t \in Threads, RunReturn(t) PROVE Present(u)'
  BY <1>20, <1>c DEF RunReturn, Return, hwVars, Goto, Loading, Present
<1>21. ASSUME NEW t \in Threads, Free(t) PROVE Present(u)'
  BY <1>21, <1>c DEF Free, Goto, Loading, Present
<1>22. CASE UNCHANGED vars
  BY <1>22, <1>c DEF vars, modVars, thrVars, hwVars, Present
<1>23. ASSUME NEW t \in Threads, EnterInvalid(t) PROVE Present(u)'
  BY <1>23, <1>c DEF EnterInvalid, hwVars, Goto, Present
<1> QED
  BY <1>1, <1>2, <1>3, <1>4, <1>5, <1>6, <1>7, <1>8, <1>9, <1>10, <1>11, <1>12,
       <1>13, <1>14, <1>15, <1>16, <1>17, <1>18, <1>19, <1>20, <1>21,
       <1>22, <1>23 DEF Next, Setup, Clear, Run, Exit

\* VMCLEAR and launched = 0 come together, VMLAUNCH and launched = 1 too.
LEMMA LaunchStep ==
  ASSUME TypeOK, Ownership, Pins, Loads, Regions,
         OwnState, DisjointVms, [Next]_vars
  PROVE  \A v \in VCpus \ strayed' : Launch(v)'
<1> SUFFICES ASSUME NEW u \in VCpus, u \notin strayed' PROVE Launch(u)'
  OBVIOUS
<1>s. u \notin strayed
  BY StrayedGrows
<1>l. Launch(u)
  BY <1>s DEF OwnState
<1>c. /\ \A v \in VCpus : AtHome(v)
      /\ \A v \in VCpus \ strayed : Present(v)
  BY DEF OwnState
<1>p. \A r \in Threads : Progress(r)
  BY DEF OwnState
<1> USE Facts, ConstantsOK, Setting, PlaceKept, HomesApart
    DEF Labels, Building, Running, Clearing, InLoop, hist, Stray
<1>1. ASSUME NEW t \in Threads, NEW v \in VCpus, Create(t, v) PROVE Launch(u)'
  BY <1>1, <1>l DEF Create, hwVars, Goto, Launch
<1>2. ASSUME NEW t \in Threads, NEW v \in VCpus, RunLock(t, v) PROVE Launch(u)'
  BY <1>2, <1>l DEF RunLock, hwVars, Goto, Launch
<1>3. ASSUME NEW t \in Threads, NEW v \in VCpus, Close(t, v) PROVE Launch(u)'
  BY <1>3, <1>l DEF Close, hwVars, Goto, Launch
<1>4. ASSUME NEW t \in Threads, NEW c \in Cpus, SetupVmclear(t, c)
      PROVE  Launch(u)'
  BY <1>4, <1>p, <1>l DEF SetupVmclear, Vmclear, modVars, Goto, Progress, Launch
<1>5. ASSUME NEW t \in Threads, NEW c \in Cpus, SetupVmptrld(t, c)
      PROVE  Launch(u)'
  BY <1>5, <1>l DEF SetupVmptrld, Vmptrld, modVars, Goto, Launch
<1>6. ASSUME NEW t \in Threads, NEW c \in Cpus, SetupNote(t, c) PROVE Launch(u)'
  BY <1>6, <1>l DEF SetupNote, hwVars, Goto, Launch
<1>7. ASSUME NEW t \in Threads, NEW c \in Cpus, SetupWrite(t, c)
      PROVE  Launch(u)'
  BY <1>7, <1>l DEF SetupWrite, modVars, Goto, Launch
<1>8. ASSUME NEW t \in Threads, SetupFail(t) PROVE Launch(u)'
  BY <1>8, <1>l DEF SetupFail, modVars, hwVars, Goto, Launch
<1>9. ASSUME NEW t \in Threads, SetupDone(t) PROVE Launch(u)'
  BY <1>9, <1>l DEF SetupDone, hwVars, Goto, Launch
<1>10. ASSUME NEW t \in Threads, ClearNothing(t) PROVE Launch(u)'
  <2>1. /\ work[t] \in VCpus /\ pc[t] = "clear" /\ ipi[t] = "none"
        /\ launched' = [launched EXCEPT ![work[t]] = FALSE]
    BY <1>10 DEF ClearNothing, ResetLaunched, Owned, Loading
  <2>2. CASE work[t] = u
    <3>1. launched'[u] = FALSE
      BY <2>1, <2>2
    <3>2. hwLaunched'[u] = FALSE
      BY <1>10, <1>l, <2>1, <2>2 DEF ClearNothing, hwVars, Launch, Loading
    <3> QED
      BY <3>1, <3>2, <2>2 DEF Launch
  <2>3. CASE work[t] # u
    <3>1. launched'[u] = launched[u]
      BY <2>1, <2>3
    <3>2. hwLaunched'[u] = hwLaunched[u] /\ loaded'[u] = loaded[u]
      BY <1>10, <2>1, <2>3 DEF ClearNothing, Vmclear, hwVars
    <3>3. ASSUME NEW r \in Threads, work[r] = u
          PROVE  work'[r] = u /\ pc'[r] = pc[r] /\ ipi'[r] = ipi[r]
      BY <1>10, <2>3, <3>3 DEF ClearNothing, Goto
    <3>4. u \in invalid => u \in invalid'
      BY <1>10, <2>3 DEF ClearNothing, ResetLaunched
    <3> QED
      BY <1>l, <3>1, <3>2, <3>3, <3>4 DEF Launch
  <2> QED
    BY <2>2, <2>3
<1>11. ASSUME NEW t \in Threads, NEW c \in Cpus, ClearLocal(t, c)
       PROVE  Launch(u)'
  <2>1. /\ work[t] \in VCpus /\ pc[t] = "clear" /\ ipi[t] = "none"
        /\ launched' = [launched EXCEPT ![work[t]] = FALSE]
    BY <1>11 DEF ClearLocal, ResetLaunched, Owned, Loading
  <2>2. CASE work[t] = u
    <3>1. launched'[u] = FALSE
      BY <2>1, <2>2
    <3>2. hwLaunched'[u] = FALSE
      BY <1>11, <2>1, <2>2 DEF ClearLocal, Vmclear, Region
    <3> QED
      BY <3>1, <3>2, <2>2 DEF Launch
  <2>3. CASE work[t] # u
    <3>1. launched'[u] = launched[u]
      BY <2>1, <2>3
    <3>2. hwLaunched'[u] = hwLaunched[u] /\ loaded'[u] = loaded[u]
      BY <1>11, <2>1, <2>3 DEF ClearLocal, Vmclear, hwVars
    <3>3. ASSUME NEW r \in Threads, work[r] = u
          PROVE  work'[r] = u /\ pc'[r] = pc[r] /\ ipi'[r] = ipi[r]
      BY <1>11, <2>3, <3>3 DEF ClearLocal, Goto
    <3>4. u \in invalid => u \in invalid'
      BY <1>11, <2>3 DEF ClearLocal, ResetLaunched
    <3> QED
      BY <1>l, <3>1, <3>2, <3>3, <3>4 DEF Launch
  <2> QED
    BY <2>2, <2>3
<1>12. ASSUME NEW t \in Threads, NEW c \in Cpus, ClearRemote(t, c)
       PROVE  Launch(u)'
  <2>1. /\ work[t] \in VCpus /\ pc[t] = "clear" /\ ipi[t] = "none"
        /\ launched' = [launched EXCEPT ![work[t]] = FALSE]
    BY <1>12 DEF ClearRemote, ResetLaunched, Owned, Loading
  <2>2. CASE work[t] = u
    <3>1. launched'[u] = FALSE
      BY <2>1, <2>2
    <3>2. work'[t] = u /\ pc'[t] = "clear_wait" /\ ipi'[t] = "posted"
      BY <1>12, <2>1, <2>2 DEF ClearRemote, Goto
    <3> QED
      BY <3>1, <3>2, <2>2 DEF Launch
  <2>3. CASE work[t] # u
    <3>1. launched'[u] = launched[u]
      BY <2>1, <2>3
    <3>2. hwLaunched'[u] = hwLaunched[u] /\ loaded'[u] = loaded[u]
      BY <1>12, <2>1, <2>3 DEF ClearRemote, Vmclear, hwVars
    <3>3. ASSUME NEW r \in Threads, work[r] = u
          PROVE  work'[r] = u /\ pc'[r] = pc[r] /\ ipi'[r] = ipi[r]
      BY <1>12, <2>3, <3>3 DEF ClearRemote, Goto
    <3>4. u \in invalid => u \in invalid'
      BY <1>12, <2>3 DEF ClearRemote, ResetLaunched
    <3> QED
      BY <1>l, <3>1, <3>2, <3>3, <3>4 DEF Launch
  <2> QED
    BY <2>2, <2>3
<1>13. ASSUME NEW t \in Threads, VmclearIpi(t) PROVE Launch(u)'
  BY <1>13, <1>p, <1>l DEF VmclearIpi, InVmxOperation, ClearTarget, Vmclear,
       modVars, Loading, Region, Progress, Launch
<1>14. ASSUME NEW t \in Threads, ClearDone(t) PROVE Launch(u)'
  BY <1>14, <1>p, <1>l DEF ClearDone, hwVars, Goto, Progress, Launch
<1>15. ASSUME NEW t \in Threads, NEW c \in Cpus, RunRefuse(t, c)
       PROVE  Launch(u)'
  BY <1>15, <1>l DEF RunRefuse, Return, hwVars, Goto, Launch, InVmxOperation
<1>16. ASSUME NEW t \in Threads, NEW c \in Cpus, RunStart(t, c) PROVE Launch(u)'
  BY <1>16, <1>l DEF RunStart, LoadedHere, modVars, hwVars, Goto, Launch,
       InVmxOperation
<1>17. ASSUME NEW t \in Threads, RunLoad(t) PROVE Launch(u)'
  BY <1>17, <1>l DEF RunLoad, Vmptrld, Invept, FixupHost, Goto, Loading, Launch
<1>18. ASSUME NEW t \in Threads, Enter(t) PROVE Launch(u)'
  <2>1. /\ work[t] \in VCpus /\ at[t] \in Cpus /\ at[t] = loaded[work[t]]
        /\ ipi[t] = "none" /\ pc[t] = "loop" /\ at[t] \in Home(work[t])
    BY <1>18 DEF Enter, Owned, Pinned, Loading
  <2>2. current[at[t]] = u <=> work[t] = u
    BY <1>c, <1>s, <2>1 DEF AtHome, Present, Owned, Loading
  <2>3. /\ hwLaunched' = [hwLaunched EXCEPT ![current[at[t]]] = TRUE]
        /\ launched' = [launched EXCEPT ![work[t]] = TRUE]
        /\ loaded' = loaded /\ work' = work /\ ipi' = ipi /\ invalid' = invalid
        /\ pc' = [pc EXCEPT ![t] = "guest"]
    BY <1>18 DEF Enter, Goto
  <2>4. CASE work[t] = u
    BY <2>1, <2>2, <2>3, <2>4 DEF Launch
  <2>5. CASE work[t] # u
    <3>1. launched'[u] = launched[u] /\ hwLaunched'[u] = hwLaunched[u]
      BY ZenonT(60), <2>1, <2>2, <2>3, <2>5
    <3>2. ASSUME NEW r \in Threads, work[r] = u PROVE pc'[r] = pc[r]
      BY <2>3, <2>5, <3>2
    <3> QED
      BY <1>l, <2>3, <3>1, <3>2 DEF Launch
  <2> QED
    BY <2>4, <2>5
<1>19. ASSUME NEW t \in Threads, Exit(t) PROVE Launch(u)'
  BY <1>19, <1>l DEF Exit, EnterFail, ExitAgain, ExitWindow, WindowClose,
       ExitToUser, modVars, hwVars, Goto, Launch
<1>20. ASSUME NEW t \in Threads, RunReturn(t) PROVE Launch(u)'
  BY <1>20, <1>l DEF RunReturn, Return, hwVars, Goto, Launch
<1>21. ASSUME NEW t \in Threads, Free(t) PROVE Launch(u)'
  BY <1>21, <1>l DEF Free, Goto, Launch
<1>22. CASE UNCHANGED vars
  BY <1>22, <1>l DEF vars, modVars, thrVars, hwVars, Launch
<1>23. ASSUME NEW t \in Threads, EnterInvalid(t) PROVE Launch(u)'
  <2>1. /\ work[t] \in VCpus /\ loaded[work[t]] # NoCpu /\ pc[t] = "loop"
        /\ launched' = [launched EXCEPT ![work[t]] = TRUE]
        /\ invalid' = IF launched[work[t]] THEN invalid ELSE invalid \cup {work[t]}
        /\ loaded' = loaded /\ hwLaunched' = hwLaunched /\ work' = work /\ ipi' = ipi
        /\ pc' = [pc EXCEPT ![t] = "leave"]
    BY <1>23 DEF EnterInvalid, hwVars, Goto, Owned, Pinned, Loading
  <2>2. CASE work[t] = u /\ launched[u] = FALSE
    BY <2>1, <2>2 DEF Launch
  <2>3. CASE launched'[u] = launched[u]
    <3>1. u \in invalid => u \in invalid'
      BY <2>1
    <3>2. ASSUME NEW r \in Threads, pc[r] = "clear_wait" PROVE pc'[r] = pc[r]
      BY <2>1, <3>2
    <3> QED
      BY <1>l, <2>1, <2>3, <3>1, <3>2 DEF Launch
  <2>4. (work[t] = u /\ launched[u] = FALSE) \/ launched'[u] = launched[u]
    BY <2>1
  <2> QED
    BY <2>2, <2>3, <2>4
<1> QED
  BY <1>1, <1>2, <1>3, <1>4, <1>5, <1>6, <1>7, <1>8, <1>9, <1>10, <1>11, <1>12,
       <1>13, <1>14, <1>15, <1>16, <1>17, <1>18, <1>19, <1>20, <1>21,
       <1>22, <1>23 DEF Next, Setup, Clear, Run, Exit

\* Set-up, host fixup and INVEPT come before the first entry on a CPU.
LEMMA ContentsStep ==
  ASSUME TypeOK, Ownership, Pins, Loads, Regions,
         OwnState, DisjointVms, [Next]_vars
  PROVE  \A v \in VCpus \ strayed' : Contents(v)'
<1> SUFFICES ASSUME NEW u \in VCpus, u \notin strayed' PROVE Contents(u)'
  OBVIOUS
<1>s. u \notin strayed
  BY StrayedGrows
<1>l. /\ Contents(u) /\ u \notin strayed
      /\ tlb \in [Cpus -> [VCpus -> {"none", "live", "stale"}]]
      /\ fields \in [VCpus -> VCpus \cup {NoVcpu}]
      /\ hostCpu \in [VCpus -> Cpus \cup {NoCpu}]
  BY <1>s DEF OwnState, TypeOK
<1>c. /\ \A v \in VCpus : AtHome(v)
      /\ \A v \in VCpus \ strayed : Present(v)
  BY DEF OwnState
<1>p. \A r \in Threads : Progress(r)
  BY DEF OwnState
<1> USE Facts, ConstantsOK, Setting, PlaceKept, HomesApart
    DEF Labels, Building, Running, Clearing, InLoop, hist, Stray
<1>1. ASSUME NEW t \in Threads, NEW v \in VCpus, Create(t, v) PROVE Contents(u)'
  BY <1>1, <1>l DEF Create, hwVars, Goto, Contents
<1>2. ASSUME NEW t \in Threads, NEW v \in VCpus, RunLock(t, v)
      PROVE  Contents(u)'
  BY <1>2, <1>l DEF RunLock, hwVars, Goto, Contents
<1>3. ASSUME NEW t \in Threads, NEW v \in VCpus, Close(t, v) PROVE Contents(u)'
  BY <1>3, <1>l DEF Close, hwVars, Goto, Contents
<1>4. ASSUME NEW t \in Threads, NEW c \in Cpus, SetupVmclear(t, c)
      PROVE  Contents(u)'
  BY <1>4, <1>l DEF SetupVmclear, Vmclear, modVars, Goto, Contents
<1>5. ASSUME NEW t \in Threads, NEW c \in Cpus, SetupVmptrld(t, c)
      PROVE  Contents(u)'
  BY <1>5, <1>l DEF SetupVmptrld, Vmptrld, modVars, Goto, Contents
<1>6. ASSUME NEW t \in Threads, NEW c \in Cpus, SetupNote(t, c)
      PROVE  Contents(u)'
  BY <1>6, <1>l DEF SetupNote, hwVars, Goto, Owned, Contents
<1>7. ASSUME NEW t \in Threads, NEW c \in Cpus, SetupWrite(t, c)
      PROVE  Contents(u)'
  BY <1>7, <1>c, <1>l DEF SetupWrite, modVars, Goto, Owned, Pinned, RunsOn,
       AtHome, Contents
<1>8. ASSUME NEW t \in Threads, SetupFail(t) PROVE Contents(u)'
  BY <1>8, <1>l DEF SetupFail, modVars, hwVars, Goto, Contents
<1>9. ASSUME NEW t \in Threads, SetupDone(t) PROVE Contents(u)'
  BY <1>9, <1>p, <1>l DEF SetupDone, hwVars, Goto, Owned, Loading, Progress,
       Contents
<1>10. ASSUME NEW t \in Threads, ClearNothing(t) PROVE Contents(u)'
  BY <1>10, <1>l DEF ClearNothing, ResetLaunched, hwVars, Goto, Contents
<1>11. ASSUME NEW t \in Threads, NEW c \in Cpus, ClearLocal(t, c)
       PROVE  Contents(u)'
  BY <1>11, <1>l DEF ClearLocal, ResetLaunched, Vmclear, Goto, Contents
<1>12. ASSUME NEW t \in Threads, NEW c \in Cpus, ClearRemote(t, c)
       PROVE  Contents(u)'
  BY <1>12, <1>l DEF ClearRemote, ResetLaunched, hwVars, Goto, Contents
<1>13. ASSUME NEW t \in Threads, VmclearIpi(t) PROVE Contents(u)'
  BY <1>13, <1>l DEF VmclearIpi, InVmxOperation, ClearTarget, Vmclear, modVars,
       Contents
<1>14. ASSUME NEW t \in Threads, ClearDone(t) PROVE Contents(u)'
  BY <1>14, <1>l DEF ClearDone, hwVars, Goto, Contents
<1>15. ASSUME NEW t \in Threads, NEW c \in Cpus, RunRefuse(t, c)
       PROVE  Contents(u)'
  BY <1>15, <1>l DEF RunRefuse, Return, hwVars, Goto, Contents, InVmxOperation
<1>16. ASSUME NEW t \in Threads, NEW c \in Cpus, RunStart(t, c)
       PROVE  Contents(u)'
  BY <1>16, <1>l DEF RunStart, LoadedHere, modVars, hwVars, Goto, Contents,
       InVmxOperation
<1>17. ASSUME NEW t \in Threads, RunLoad(t) PROVE Contents(u)'
  BY <1>17, <1>l DEF RunLoad, Vmptrld, Invept, FixupHost, Goto, Contents
<1>18. ASSUME NEW t \in Threads, Enter(t) PROVE Contents(u)'
  BY <1>18, <1>l DEF Enter, Goto, Contents
<1>19. ASSUME NEW t \in Threads, Exit(t) PROVE Contents(u)'
  BY <1>19, <1>l DEF Exit, EnterFail, ExitAgain, ExitWindow, WindowClose,
       ExitToUser, modVars, hwVars, Goto, Contents
<1>20. ASSUME NEW t \in Threads, RunReturn(t) PROVE Contents(u)'
  BY <1>20, <1>l DEF RunReturn, Return, hwVars, Goto, Contents
<1>21. ASSUME NEW t \in Threads, Free(t) PROVE Contents(u)'
  BY <1>21, <1>l DEF Free, Goto, Contents
<1>22. CASE UNCHANGED vars
  BY <1>22, <1>l DEF vars, modVars, thrVars, hwVars, Contents
<1>23. ASSUME NEW t \in Threads, EnterInvalid(t) PROVE Contents(u)'
  BY <1>23, <1>l DEF EnterInvalid, hwVars, Goto, Contents
<1> QED
  BY <1>1, <1>2, <1>3, <1>4, <1>5, <1>6, <1>7, <1>8, <1>9, <1>10, <1>11, <1>12,
       <1>13, <1>14, <1>15, <1>16, <1>17, <1>18, <1>19, <1>20, <1>21,
       <1>22, <1>23 DEF Next, Setup, Clear, Run, Exit

\* What the steps of the set-up and of a migration have established.
LEMMA ProgressStep ==
  ASSUME TypeOK, Ownership, Pins, Loads, Regions,
         OwnState, DisjointVms, [Next]_vars
  PROVE  \A t \in Threads : Progress(t)'
<1> SUFFICES ASSUME NEW s \in Threads PROVE Progress(s)'
  OBVIOUS
<1>l. /\ \A v \in VCpus \ strayed : Launch(v)
      /\ fields \in [VCpus -> VCpus \cup {NoVcpu}]
  BY DEF OwnState, TypeOK
<1>c. /\ \A v \in VCpus : AtHome(v)
      /\ \A v \in VCpus \ strayed : Present(v)
  BY DEF OwnState
<1>p. \A r \in Threads : Progress(r)
  BY DEF OwnState
<1> USE Facts, ConstantsOK, Setting, PlaceKept, HomesApart
    DEF Labels, Building, Running, Clearing, InLoop, hist, Stray
<1>1. ASSUME NEW t \in Threads, NEW v \in VCpus, Create(t, v) PROVE Progress(s)'
  BY <1>1, <1>p, <1>l DEF Create, hwVars, Goto, Region, Progress, Launch
<1>2. ASSUME NEW t \in Threads, NEW v \in VCpus, RunLock(t, v)
      PROVE  Progress(s)'
  BY <1>2, <1>p DEF RunLock, hwVars, Goto, Progress
<1>3. ASSUME NEW t \in Threads, NEW v \in VCpus, Close(t, v) PROVE Progress(s)'
  BY <1>3, <1>p DEF Close, hwVars, Goto, Progress
<1>4. ASSUME NEW t \in Threads, NEW c \in Cpus, SetupVmclear(t, c)
      PROVE  Progress(s)'
  BY <1>4, <1>p DEF SetupVmclear, Vmclear, modVars, Goto, Owned, Progress
<1>5. ASSUME NEW t \in Threads, NEW c \in Cpus, SetupVmptrld(t, c)
      PROVE  Progress(s)'
  <2>1. /\ work[t] \in VCpus /\ c \in Home(work[t])
        /\ work[t] \notin strayed => active[work[t]] = {}
    BY <1>5 DEF SetupVmptrld, RunsOn, Owned, Pinned, Loading, Region
  <2>2. CASE s = t
    BY <1>5, <1>p, <2>1, <2>2 DEF SetupVmptrld, Vmptrld, modVars, Goto, Progress
  <2>3. CASE s # t
    BY <1>5, <1>c, <1>p, <2>1, <2>3 DEF SetupVmptrld, Vmptrld, modVars, Goto, Owned,
         AtHome, Progress
  <2> QED
    BY <2>2, <2>3
<1>6. ASSUME NEW t \in Threads, NEW c \in Cpus, SetupNote(t, c)
      PROVE  Progress(s)'
  BY <1>6, <1>p DEF SetupNote, hwVars, Goto, Progress
<1>7. ASSUME NEW t \in Threads, NEW c \in Cpus, SetupWrite(t, c)
      PROVE  Progress(s)'
  <2>1. /\ work[t] \in VCpus /\ c \in Home(work[t]) /\ ipi[t] = "none"
        /\ pc[t] = "set_write" /\ pc' = [pc EXCEPT ![t] = "clear"]
        /\ work' = work /\ launched' = launched /\ active' = active
        /\ current' = current /\ invalid' = invalid
        /\ back' = [back EXCEPT ![t] = "set_done"]
    BY <1>7 DEF SetupWrite, modVars, Goto, RunsOn, Owned, Pinned, Loading
  <2>2. CASE s = t
    <3>1. ASSUME work[t] \notin strayed' PROVE fields'[work[t]] = work[t]
      <4>1. work[t] \notin strayed /\ loaded[work[t]] = c
        BY <1>7, <3>1 DEF SetupWrite
      <4>2. current[c] = work[t] /\ c \in VmxCpus
        BY <1>c, <2>1, <4>1 DEF Present, Owned, Region
      <4> QED
        BY <1>7, <1>l, <2>1, <4>2 DEF SetupWrite
    <3> QED
      BY <1>p, <2>1, <2>2, <3>1 DEF Progress
  <2>3. CASE s # t
    BY <1>7, <1>c, <1>p, <1>l, <2>1, <2>3 DEF SetupWrite, Owned, AtHome, Progress
  <2> QED
    BY <2>2, <2>3
<1>8. ASSUME NEW t \in Threads, SetupFail(t) PROVE Progress(s)'
  BY <1>8, <1>p DEF SetupFail, modVars, hwVars, Goto, Progress
<1>9. ASSUME NEW t \in Threads, SetupDone(t) PROVE Progress(s)'
  BY <1>9, <1>p DEF SetupDone, hwVars, Goto, Progress
<1>10. ASSUME NEW t \in Threads, ClearNothing(t) PROVE Progress(s)'
  <2>1. /\ work[t] \in VCpus /\ launched'[work[t]] = FALSE
        /\ work' = work /\ fields' = fields
    BY <1>10, <1>l, <1>p DEF ClearNothing, ResetLaunched, hwVars, Owned, Loading,
         Launch,
         Progress
  <2>2. CASE s = t
    <3>1. back[t] # "set_done" => pc'[t] \notin Building
      BY <1>10, <1>l, <2>2 DEF ClearNothing, Goto, Owned
    <3>4. back' = back /\ pc' = [pc EXCEPT ![t] = back[t]]
      BY <1>10 DEF ClearNothing, Goto
    <3>2. back' = back /\ pc'[t] # "set_note"
      BY <1>l, <3>4
    <3>3. /\ pc[t] \in Clearing /\ back[t] = "set_done" /\ work[t] \notin strayed
          => fields[work[t]] = work[t]
      BY <1>p DEF Progress
    <3> QED
      BY <1>10, <2>1, <2>2, <3>1, <3>2, <3>3 DEF ClearNothing, Goto, Progress
  <2>3. CASE s # t
    BY <1>10, <1>p, <2>3 DEF ClearNothing, ResetLaunched, hwVars, Goto, Owned,
         Progress
  <2> QED
    BY <2>2, <2>3
<1>11. ASSUME NEW t \in Threads, NEW c \in Cpus, ClearLocal(t, c)
       PROVE  Progress(s)'
  <2>1. /\ work[t] \in VCpus /\ launched'[work[t]] = FALSE
        /\ work' = work /\ fields' = fields
    BY <1>11, <1>l, <1>p DEF ClearLocal, ResetLaunched, hwVars, Owned, Loading,
         Launch,
         Progress
  <2>2. CASE s = t
    <3>1. back[t] # "set_done" => pc'[t] \notin Building
      BY <1>11, <1>l, <2>2 DEF ClearLocal, Goto, Owned
    <3>4. back' = back /\ pc' = [pc EXCEPT ![t] = back[t]]
      BY <1>11 DEF ClearLocal, Goto
    <3>2. back' = back /\ pc'[t] # "set_note"
      BY <1>l, <3>4
    <3>3. /\ pc[t] \in Clearing /\ back[t] = "set_done" /\ work[t] \notin strayed
          => fields[work[t]] = work[t]
      BY <1>p DEF Progress
    <3> QED
      BY <1>11, <2>1, <2>2, <3>1, <3>2, <3>3 DEF ClearLocal, Goto, Progress
  <2>3. CASE s # t
    BY <1>11, <1>c, <1>p, <2>3 DEF ClearLocal, ResetLaunched, Vmclear, Goto, Owned,
         Pinned, AtHome, Progress
  <2> QED
    BY <2>2, <2>3
<1>12. ASSUME NEW t \in Threads, NEW c \in Cpus, ClearRemote(t, c)
       PROVE  Progress(s)'
  BY <1>12, <1>p DEF ClearRemote, ResetLaunched, hwVars, Goto, Owned, Progress
<1>13. ASSUME NEW t \in Threads, VmclearIpi(t) PROVE Progress(s)'
  BY SMTT(30), <1>13, <1>p DEF VmclearIpi, InVmxOperation, ClearTarget, Vmclear,
       modVars, Owned, Loading, Progress
<1>14. ASSUME NEW t \in Threads, ClearDone(t) PROVE Progress(s)'
  <2>1. /\ work[t] \in VCpus /\ launched'[work[t]] = FALSE
        /\ work' = work /\ fields' = fields
    BY <1>14, <1>l, <1>p DEF ClearDone, ResetLaunched, hwVars, Owned, Loading, Launch,
         Progress
  <2>2. CASE s = t
    <3>1. back[t] # "set_done" => pc'[t] \notin Building
      BY <1>14, <1>l, <2>2 DEF ClearDone, Goto, Owned
    <3>4. back' = back /\ pc' = [pc EXCEPT ![t] = back[t]]
      BY <1>14 DEF ClearDone, Goto
    <3>2. back' = back /\ pc'[t] # "set_note"
      BY <1>l, <3>4
    <3>3. /\ pc[t] \in Clearing /\ back[t] = "set_done" /\ work[t] \notin strayed
          => fields[work[t]] = work[t]
      BY <1>p DEF Progress
    <3> QED
      BY <1>14, <2>1, <2>2, <3>1, <3>2, <3>3 DEF ClearDone, Goto, Progress
  <2>3. CASE s # t
    BY <1>14, <1>p, <2>3 DEF ClearDone, hwVars, Goto, Owned, Progress
  <2> QED
    BY <2>2, <2>3
<1>15. ASSUME NEW t \in Threads, NEW c \in Cpus, RunRefuse(t, c)
       PROVE  Progress(s)'
  BY <1>15, <1>p DEF RunRefuse, Return, hwVars, Goto, Progress, InVmxOperation
<1>16. ASSUME NEW t \in Threads, NEW c \in Cpus, RunStart(t, c)
       PROVE  Progress(s)'
  <2>1. /\ work' = work /\ fields' = fields /\ launched' = launched
        /\ current' = current /\ active' = active /\ UNCHANGED hist
    BY <1>16 DEF RunStart, modVars, hwVars
  <2>2. CASE LoadedHere(work[t], c)
    <3>1. back' = back /\ pc' = [pc EXCEPT ![t] = "loop"]
      BY <1>16, <2>2 DEF RunStart, Goto
    <3> QED
      BY <1>p, <2>1, <3>1 DEF Progress
  <2>3. CASE ~LoadedHere(work[t], c)
    <3>1. /\ back' = [back EXCEPT ![t] = "run_load"]
          /\ pc' = [pc EXCEPT ![t] = "clear"]
      BY <1>16, <2>3 DEF RunStart, Goto
    <3> QED
      BY <1>l, <1>p, <2>1, <3>1 DEF Progress
  <2> QED
    BY <2>2, <2>3
<1>17. ASSUME NEW t \in Threads, RunLoad(t) PROVE Progress(s)'
  BY <1>17, <1>c, <1>p DEF RunLoad, Vmptrld, Invept, FixupHost, Goto, Owned, Pinned,
       AtHome, Progress
<1>18. ASSUME NEW t \in Threads, Enter(t) PROVE Progress(s)'
  BY <1>18, <1>p DEF Enter, Goto, Owned, Progress
<1>19. ASSUME NEW t \in Threads, Exit(t) PROVE Progress(s)'
  BY <1>19, <1>p DEF Exit, EnterFail, ExitAgain, ExitWindow, WindowClose,
       ExitToUser, modVars, hwVars, Goto, Progress
<1>20. ASSUME NEW t \in Threads, RunReturn(t) PROVE Progress(s)'
  BY <1>20, <1>p DEF RunReturn, Return, hwVars, Goto, Progress
<1>21. ASSUME NEW t \in Threads, Free(t) PROVE Progress(s)'
  BY <1>21, <1>p DEF Free, Goto, Owned, Progress
<1>22. CASE UNCHANGED vars
  BY <1>22, <1>p DEF vars, modVars, thrVars, hwVars, Progress
<1>23. ASSUME NEW t \in Threads, EnterInvalid(t) PROVE Progress(s)'
  BY <1>23, <1>p DEF EnterInvalid, hwVars, Goto, Owned, Progress
<1> QED
  BY <1>1, <1>2, <1>3, <1>4, <1>5, <1>6, <1>7, <1>8, <1>9, <1>10, <1>11, <1>12,
       <1>13, <1>14, <1>15, <1>16, <1>17, <1>18, <1>19, <1>20, <1>21,
       <1>22, <1>23 DEF Next, Setup, Clear, Run, Exit

\* Nothing is loaded, current or active at module load.
LEMMA InitHolds == Init => IInv /\ OwnState
<1> SUFFICES ASSUME Init PROVE IInv /\ OwnState
  OBVIOUS
<1>1. /\ \A t \in Threads : /\ pc[t] = "idle" /\ work[t] = NoVcpu /\ at[t] = NoCpu
                            /\ ipi[t] = "none"
      /\ \A v \in VCpus : /\ vst[v] = "free" /\ loaded[v] = NoCpu /\ active[v] = {}
                          /\ launched[v] = FALSE /\ hwLaunched[v] = FALSE
      /\ \A c \in Cpus : current[c] = NoVcpu
  BY DEF Init
<1>2. TypeOK /\ NoUndefinedOpcode
  BY ConstantsOK DEF Init, TypeOK, Labels, NoUndefinedOpcode
<1>3. Ownership
  BY <1>1 DEF Ownership, Owned, Building, Running, Clearing
<1>4. Pins
  BY <1>1 DEF Pins, Pinned, Building, Running, Clearing
<1>5. Loads
  BY <1>1 DEF Loads, Loading, InLoop
<1>6. Regions
  BY <1>1, ConstantsOK DEF Regions, Region
<1>7. \A v \in VCpus : AtHome(v) /\ Present(v) /\ Launch(v) /\ Contents(v)
  BY <1>1, ConstantsOK DEF AtHome, Present, Launch, Contents
<1>8. \A t \in Threads : Progress(t)
  BY <1>1 DEF Progress, Building, Clearing
<1> QED
  BY <1>2, <1>3, <1>4, <1>5, <1>6, <1>7, <1>8 DEF IInv, OwnState

\* IInv is inductive.
LEMMA InvStep ==
  ASSUME IInv, [Next]_vars PROVE IInv'
<1>1. TypeOK' /\ Ownership'
  BY TypeStep, OwnershipStep DEF IInv
<1>2. Pins' /\ Loads'
  BY PinsStep, LoadsStep DEF IInv
<1>3. Regions' /\ NoUndefinedOpcode'
  BY RegionsStep, FaultStep DEF IInv
<1> QED
  BY <1>1, <1>2, <1>3 DEF IInv

\* OwnState is inductive relative to it.
LEMMA OwnStep ==
  ASSUME IInv, OwnState, [Next]_vars PROVE OwnState'
<1> SUFFICES ASSUME DisjointVms
             PROVE  /\ \A v \in VCpus : AtHome(v)'
                    /\ \A v \in VCpus \ strayed' :
                         Present(v)' /\ Launch(v)' /\ Contents(v)'
                    /\ \A t \in Threads : Progress(t)'
  BY HomeKept DEF OwnState
<1> USE DEF IInv
<1>1. \A v \in VCpus : AtHome(v)'
  BY AtHomeStep
<1>2. \A v \in VCpus \ strayed' : Present(v)' /\ Launch(v)' /\ Contents(v)'
  BY PresentStep, LaunchStep, ContentsStep
<1>3. \A t \in Threads : Progress(t)'
  BY ProgressStep
<1> QED
  BY <1>1, <1>2, <1>3

\* Both invariants hold throughout.
LEMMA Always == Spec => [](IInv /\ OwnState)
<1>1. IInv /\ OwnState /\ [Next]_vars => (IInv /\ OwnState)'
  BY InvStep, OwnStep
<1> QED
  BY InitHolds, <1>1, PTL DEF Spec

\* A thread in the run loop is on the CPU where its own VMCS is current.
LEMMA InGuest ==
  ASSUME IInv, OwnState, DisjointVms, NEW t \in Threads, pc[t] \in InLoop,
         work[t] \notin strayed
  PROVE  /\ work[t] \in VCpus /\ vst[work[t]] = "open"
         /\ at[t] = loaded[work[t]] /\ loaded[work[t]] \in Cpus
         /\ current[at[t]] = work[t]
<1>1. /\ Owned(t) /\ Pinned(t) /\ Loading(t)
      /\ \A s \in Threads : Owned(s) /\ work[s] \in VCpus \cup {NoVcpu}
      /\ VmxCpus \subseteq Cpus
  BY Setting DEF IInv, TypeOK, Ownership, Pins, Loads
<1>2. /\ pc[t] \in Running \ {"run_start"} /\ pc[t] # "idle" /\ pc[t] # "clear_wait"
      /\ work[t] # NoVcpu
  BY <1>1 DEF Owned, InLoop, Running
<1>3. work[t] \in VCpus /\ vst[work[t]] = "open"
  BY <1>1, <1>2 DEF Owned
<1>4. at[t] = loaded[work[t]] /\ loaded[work[t]] \in Cpus
  BY <1>1, <1>2 DEF Pinned, Loading
<1>5. ipi[t] = "none"
  BY <1>1, <1>2 DEF Loading, IInv, TypeOK
<1>6. Present(work[t])
  BY <1>3 DEF OwnState
<1> QED
  BY <1>1, <1>2, <1>3, <1>4, <1>5, <1>6, ConstantsOK DEF Owned, Present

-----------------------------------------------------------------------------
(* Theorems.                                                               *)

\* Every variable keeps its type: a thread never carries on with a vCPU or a CPU
\* it does not have.
THEOREM TypeCorrect == Spec => []TypeOK
<1>1. IInv => TypeOK
  BY DEF IInv
<1> QED
  BY Always, <1>1, PTL

\* No VMCS is active on two CPUs, and the page of a freed vCPU is active on
\* none, however threads of one vCPU migrate and however its fd is closed, unless
\* a set-up of that vCPU strayed.
THEOREM VmcsIsExclusive == Spec => []VmcsExclusive
<1>1. ASSUME IInv, NEW v \in VCpus, v \notin strayed
      PROVE  /\ \A c, d \in active[v] : c = d
             /\ vst[v] = "free" => active[v] = {}
  <2>1. /\ \A t \in Threads : Owned(t) /\ Loading(t)
        /\ Region(v) /\ active[v] \subseteq Cpus
    BY <1>1 DEF IInv, TypeOK, Ownership, Loads, Regions
  <2>2. CASE \A t \in Threads : pc[t] = "set_note" => work[t] # v
    <3>1. active[v] \subseteq {loaded[v]} /\ (vst[v] = "free" => loaded[v] = NoCpu)
      BY <1>1, <2>1, <2>2 DEF Region
    <3> QED
      BY <3>1, <2>1, ConstantsOK
  <2>3. ASSUME NEW t \in Threads, pc[t] = "set_note", work[t] = v
        PROVE  /\ \A c, d \in active[v] : c = d
               /\ vst[v] # "free"
    <3>1. vst[v] = "private" /\ \E c \in VmxCpus : active[v] = {c}
      BY <1>1, <2>1, <2>3 DEF Owned, Loading, Building
    <3> QED
      BY <3>1
  <2> QED
    BY <2>2, <2>3
<1>2. IInv => VmcsExclusive
  BY <1>1 DEF VmcsExclusive
<1> QED
  BY Always, <1>2, PTL

\* VMCLEAR, VMPTRLD, VMLAUNCH and INVEPT execute only on CPUs where VMXON did, but
\* for a KVM_CREATE_VCPU that found itself on another.
THEOREM NoneUndefined == Spec => []NoUndefinedOpcode
<1>1. IInv => NoUndefinedOpcode
  BY DEF IInv
<1> QED
  BY Always, <1>1, PTL

\* VMs that share no CPU: the guest that runs is the one its thread set up, on
\* the CPU whose TR and GDTR its host-state area holds.
THEOREM OwnStateIsUsed == Spec => []GuestUsesOwnState
<1>1. ASSUME IInv, OwnState, DisjointVms PROVE LoadedIsCurrent
  BY <1>1, InGuest DEF LoadedIsCurrent, InLoop
<1>2. ASSUME IInv, OwnState, DisjointVms, NEW t \in Threads, pc[t] = "guest",
             work[t] \notin strayed
      PROVE  fields[work[t]] = work[t] /\ hostCpu[work[t]] = at[t]
  <2>1. /\ work[t] \in VCpus /\ vst[work[t]] = "open"
        /\ at[t] = loaded[work[t]] /\ loaded[work[t]] \in Cpus
    BY <1>2, InGuest DEF InLoop
  <2> QED
    BY <1>2, <2>1, ConstantsOK DEF OwnState, Contents
<1>3. IInv /\ OwnState => GuestUsesOwnState
  BY <1>1, <1>2 DEF GuestUsesOwnState
<1> QED
  BY Always, <1>3, PTL

\* VMs that share no CPU: vcpu->launched chooses VMLAUNCH or VMRESUME as the
\* launch state of the VMCS requires, at every entry but those that follow a
\* VMLAUNCH refused for its guest state.
THEOREM LaunchAgrees == Spec => []LaunchStateAgrees
<1>1. ASSUME IInv, OwnState, DisjointVms, NEW t \in Threads, pc[t] = "loop",
             work[t] \notin strayed \cup invalid
      PROVE  EntryOK(t)
  <2>1. /\ work[t] \in VCpus /\ loaded[work[t]] \in Cpus /\ current[at[t]] = work[t]
    BY <1>1, InGuest DEF InLoop
  <2>2. \A s \in Threads : work[s] = work[t] => s = t
    BY <1>1, <2>1, ConstantsOK DEF IInv, Ownership, Owned
  <2>3. Launch(work[t])
    BY <1>1, <2>1 DEF OwnState
  <2> QED
    BY <1>1, <2>1, <2>2, <2>3, ConstantsOK DEF Launch, EntryOK
<1>2. IInv /\ OwnState => LaunchStateAgrees
  BY <1>1 DEF LaunchStateAgrees
<1> QED
  BY Always, <1>2, PTL

\* VMs that share no CPU: no guest runs over mappings cached for an earlier VM
\* whose EPT root had the same address.
THEOREM NothingStale == Spec => []NoStaleMapping
<1>1. ASSUME IInv, OwnState, DisjointVms, NEW t \in Threads, pc[t] = "guest",
             work[t] \notin strayed
      PROVE  tlb[at[t]][work[t]] # "stale"
  <2>1. /\ work[t] \in VCpus /\ vst[work[t]] = "open"
        /\ at[t] = loaded[work[t]] /\ loaded[work[t]] \in Cpus
    BY <1>1, InGuest DEF InLoop
  <2> QED
    BY <1>1, <2>1, ConstantsOK DEF OwnState, Contents
<1>2. IInv /\ OwnState => NoStaleMapping
  BY <1>1 DEF NoStaleMapping
<1> QED
  BY Always, <1>2, PTL
=============================================================================
