------------------------------- MODULE Minivmm -------------------------------
(***************************************************************************)
(* minivmm from main() to its end (minivmm.c): what it asks of KVM and in  *)
(* which order, where it puts a bzImage, an initramfs and its tables in    *)
(* guest memory, the run loop, and the signals that stop it.               *)
(*                                                                         *)
(* Addresses and sizes count units of 256 bytes, in which every fixed      *)
(* address of the program is a whole number.  KVM is its private memory    *)
(* slots and the state that a vCPU needs before it can run.                *)
(***************************************************************************)
EXTENDS Naturals, Sequences, SequencesExt, FiniteSets

CONSTANTS
  MemSizes,    \* values of -m
  Kernels,     \* bzImages: [image, pref, init, v2_10]: the size of the protected-mode
               \* part and what the header copied into the zero page says; pref_address
               \* and init_size came with protocol 2.10, and are 0 before it
  InitrdSizes,
  CmdLens,     \* lengths of the command line with its terminator
  HostCpuids,   \* CPUID features that the host's KVM may report
  MaxSignals   \* bound: signals sent

Page == 16
MB == 4096
FourGB == 16777216
Wrap == 64 * FourGB             \* 2^64 bytes; smaller, and no sum comes near it
Suffix == 1                     \* the two virtio_mmio.device= parameters
CMDLINE_MAX == 16

ASSUME ConfigurationsOK ==
  /\ \A m \in MemSizes : m \in Nat /\ m % MB = 0 /\ 64 * MB <= m /\ m < Wrap
  /\ Kernels \subseteq [image : Nat, pref : Nat, init : Nat, v2_10 : BOOLEAN]
  /\ \A k \in Kernels : IF k.v2_10 THEN k.image <= k.init /\ k.pref + k.init < Wrap
                        ELSE k.pref = 0 /\ k.init = 0 /\ k.image < Wrap
  /\ InitrdSizes \subseteq Nat /\ CmdLens \subseteq Nat
  /\ \A i \in InitrdSizes : i < Wrap
  /\ \A c \in CmdLens : c + Suffix <= CMDLINE_MAX

Region(from, len) == [from |-> from, len |-> len]
End(r) == r.from + r.len
Apart(r, s) == End(r) <= s.from \/ End(s) <= r.from
Inside(r, s) == s.from <= r.from /\ End(r) <= End(s)

ZeroPage == Region(112, Page)            \* BOOT_PARAMS_GPA 0x7000
Gdt == Region(128, 1)                    \* GDT_GPA 0x8000
Tss == Region(129, 1)                    \* TSS_GPA 0x8100
CmdLine(len) == Region(144, len)         \* CMDLINE_GPA 0x9000
MpFloat == Region(2556, 1)               \* MP_FLOAT_GPA 0x9fc00
MpTable == Region(2557, 1)               \* MP_TABLE_GPA 0x9fd00
VirtioWindows == Region(13631488, 4)     \* 0xd0000000, two of 0x200
PrivateSlots == Region(16776128, 4 * Page) \* IDENTITY_MAP_ADDR and TSS_ADDR

VARIABLES
  conf,              \* command line, fixed
  pc,                \* main: "setup", the run loop's places, "ended"
  todo,              \* calls that main() has yet to make
  kvm,               \* what has been set up in KVM
  memory,            \* regions written, in the order they were written
  zero_page,         \* code32_start, ramdisk_image, e820_table
  vcpu,              \* what the vCPU starts with
  died,              \* the reason, when DIE() ended the process
  handlers, raw,     \* signal handlers installed, terminal in raw mode
  exit,              \* what KVM_RUN returned for
  hist,              \* the console's last bytes
  running, stats_requested,
  missed,            \* history: a request to stop came between the test of
                     \* running and KVM_RUN
  late,              \* history: how often KVM_RUN began with running = 0;
                     \* bound: counted up to 2
  signals            \* bound: signals still to come

machine == <<kvm, memory, zero_page, vcpu>>
guest == <<exit, hist>>
process == <<handlers, raw>>
history == <<missed, late>>
mainVars == <<conf, pc, todo, machine, died, process, guest, running, stats_requested,
              history, signals>>

Configurations ==
  [mem : MemSizes, kernel : Kernels, initrd : InitrdSizes, cmd : CmdLens,
   blob : BOOLEAN, e : BOOLEAN, p : BOOLEAN]

VmSetup == <<"create_vm", "irqchip", "pit", "memory">>
VcpuSetup == <<"create_vcpu", "cpuid", "sregs", "regs", "mp_state">>
Start_raw_first == <<"termios_raw", "signal", "threads">>
Start == <<"signal", "termios_raw", "threads">>

\* main()
Calls(c) ==
  VmSetup
  \o (IF c.blob THEN <<"blob", "gdt">>
      ELSE <<"disk">> \o (IF c.e THEN <<"eventfds">> ELSE <<>>)
           \o <<"kernel", "cmdline", "initrd", "gdt">>
           \o (IF c.p THEN <<"mptable", "vfio">> ELSE <<>>))
  \o VcpuSetup \o Start

Exit(reason, port, val) == [reason |-> reason, port |-> port, val |-> val]
NoExit == Exit("none", 0, 0)    \* handled: run->exit_reason is not looked at again

MainInit ==
  /\ conf \in Configurations
  /\ pc = "setup" /\ todo = Calls(conf)
  /\ kvm = {} /\ memory = <<>>
  /\ zero_page = [code32_start |-> 0, ramdisk_image |-> 0, e820_table |-> {}]
  /\ vcpu = [cpuid |-> {}, gdt |-> Region(0, 0), tr |-> Region(0, 0), rip |-> 0,
             rsi |-> 0]
  /\ died = "no" /\ handlers = FALSE /\ raw = FALSE
  /\ exit = NoExit /\ hist = <<0, 0>>
  /\ running = TRUE /\ stats_requested = FALSE /\ signals = MaxSignals
  /\ missed = FALSE /\ late = 0

-----------------------------------------------------------------------------
(* Setting up.                                                             *)

Ram == Region(0, conf.mem)

\* load_bzimage(): pref_address where the protocol has one and it fits, else 1 MB.
Fits(k) == k.v2_10 /\ k.pref # 0 /\ k.pref + k.init <= conf.mem
LoadAddr == IF Fits(conf.kernel) THEN conf.kernel.pref ELSE MB

\* The initramfs: as high as it can be, where unsigned arithmetic puts it.
Rounded(n) == n - (n % Page)
InitrdAddr(mem, size) == Rounded((mem + Wrap - size) % Wrap)
Initrd == Region(InitrdAddr(conf.mem, conf.initrd), conf.initrd)

\* What the call writes into guest memory.
Writes(call) ==
  CASE call = "blob" -> <<Region(MB, 1)>>
    [] call = "kernel" -> <<ZeroPage, Region(LoadAddr, conf.kernel.image)>>
    [] call = "cmdline" -> <<CmdLine(conf.cmd + Suffix)>>
    [] call = "initrd" -> <<Initrd>>
    [] call = "gdt" -> <<Gdt, Tss>>
    [] call = "mptable" -> <<MpTable, MpFloat>>
    [] OTHER -> <<>>

\* Why a call ends the process, "no" when it does not.  The memory slot must not
\* cover KVM's private ones; the initramfs must start above load_addr + init_size,
\* which is load_addr before protocol 2.10.
InitrdTooLow_image == Initrd.from <= LoadAddr + conf.kernel.image
InitrdTooLow == Initrd.from <= LoadAddr + conf.kernel.init

Fails(call) ==
  CASE call = "memory" /\ ~Apart(Ram, PrivateSlots) -> "memory too large"
    [] call = "kernel" /\ ~Fits(conf.kernel) /\ MB + conf.kernel.image > conf.mem ->
         "memory too small"
    [] call = "initrd" /\ InitrdTooLow -> "memory too small"
    [] OTHER -> "no"

\* The fields of the zero page that the guest finds its memory by have 32 bits.
ZeroPageAfter(call) ==
  CASE call = "kernel" -> [zero_page EXCEPT !.code32_start = LoadAddr % FourGB]
    [] call = "initrd" ->
         [zero_page EXCEPT !.ramdisk_image = Initrd.from % FourGB,
            !.e820_table = {Region(0, 2556), Region(MB, conf.mem - MB)}]
    [] OTHER -> zero_page

\* setup_cpuid(): no x2APIC, and KVM's own leaves even where the host has none.
GuestCpuid(host) ==
  (host \ {"x2apic"}) \cup {"hypervisor", "kvm_signature", "kvm_features"}

\* setup_sregs(): the flat segments of the 32-bit boot protocol and its TSS.
GuestSregs == [vcpu EXCEPT !.gdt = Gdt, !.tr = Tss]

Entry == IF conf.blob THEN MB ELSE LoadAddr

VcpuAfter(call) ==
  CASE call = "cpuid" -> {[vcpu EXCEPT !.cpuid = GuestCpuid(h)] : h \in HostCpuids}
    [] call = "sregs" -> {GuestSregs}
    [] call = "regs" -> {[vcpu EXCEPT !.rip = Entry, !.rsi = ZeroPage.from]}
    [] OTHER -> {vcpu}

\* Calls that end the process when a file or the kernel lets them down.
FilesRead == {"disk", "kernel", "initrd"}
SystemCalls ==
  {"eventfds", "vfio", "threads"} \cup ToSet(VmSetup) \cup ToSet(VcpuSetup)

\* DIE() is exit(): what termios_raw() registered with atexit() runs.
Die(reason) == died' = reason /\ pc' = "ended" /\ raw' = FALSE

\* So does an initramfs larger than memory, if nothing is mapped below guest_mem:
\* the terminal is not yet raw.
SetupDies ==
  /\ pc = "setup" /\ todo # <<>>
  /\ \/ Fails(Head(todo)) # "no" /\ Die(Fails(Head(todo)))
     \/ /\ Head(todo) = "initrd" /\ ~InitrdTooLow /\ ~Inside(Initrd, Ram)
        /\ Die("SIGSEGV")
     \/ Head(todo) \in FilesRead \cup SystemCalls /\ Die("errno")
  /\ UNCHANGED <<conf, todo, machine, handlers, guest, running, stats_requested,
                 history, signals>>

Setup ==
  /\ pc = "setup" /\ todo # <<>>
  /\ LET call == Head(todo) IN
     /\ Fails(call) = "no"
     /\ todo' = Tail(todo)
     /\ pc' = IF Tail(todo) = <<>> THEN "loop" ELSE "setup"
     /\ kvm' = kvm \cup {call}
     /\ memory' = memory \o Writes(call)
     /\ zero_page' = ZeroPageAfter(call)
     /\ handlers' = (handlers \/ call = "signal")
     /\ raw' = (raw \/ call = "termios_raw")
     /\ vcpu' \in VcpuAfter(call)
  /\ UNCHANGED <<conf, died, guest, running, stats_requested, history, signals>>

-----------------------------------------------------------------------------
(* run_loop()                                                              *)

Check ==
  /\ pc = "loop"
  /\ pc' = IF running THEN "enter" ELSE "leave"
  /\ UNCHANGED <<conf, todo, machine, died, process, guest, running, stats_requested,
                 history, signals>>

\* A signal handled before KVM_RUN is under way does not interrupt it.
KvmRun ==
  /\ pc = "enter" /\ pc' = "guest"
  /\ late' = IF running \/ late = 2 THEN late ELSE late + 1
  /\ UNCHANGED <<conf, todo, machine, died, process, guest, running, stats_requested,
                 missed, signals>>

Runnable == {"mp_state", "sregs", "regs", "cpuid", "memory"} \subseteq kvm
Marker == <<77, 89>>            \* bound: MINIVMM_READY has 13 bytes
Console == 1016                 \* 0x3f8
PowerPorts == {100, 3321}       \* 0x64 and 0xcf9

Exits ==
  {Exit(r, 0, 0) : r \in {"hlt", "mmio", "shutdown", "internal error"}}
    \cup {Exit("io", p, v) : p \in PowerPorts, v \in {0, 2, 6, 254}}
    \cup {Exit("io", Console, v) : v \in ToSet(Marker)}

GuestExit ==
  /\ pc = "guest" /\ Runnable
  /\ exit' \in Exits
  /\ pc' = "exit"
  /\ UNCHANGED <<conf, todo, machine, died, process, hist, running, stats_requested,
                 history, signals>>

\* -EINTR: the condition of the loop is looked at again.
AfterEintr_retry == "enter"
AfterEintr == "loop"

Eintr ==
  /\ pc = "eintr"
  /\ stats_requested' = FALSE
  /\ pc' = AfterEintr
  /\ UNCHANGED <<conf, todo, machine, died, process, guest, running, history, signals>>

\* Where the switch over the exit reasons leads.
AfterExit_halted(reason) ==
  CASE reason = "shutdown" -> "leave"
    [] reason = "internal error" -> "ended"
    [] reason = "hlt" -> "enter"
    [] OTHER -> "loop"
AfterExit(reason) ==
  CASE reason = "shutdown" -> "leave"
    [] reason = "internal error" -> "ended"
    [] OTHER -> "loop"

\* console_output(): the ready marker, at whatever place in the output.
OnConsole == exit.reason = "io" /\ exit.port = Console
ConsoleOutput == IF OnConsole THEN <<hist[2], exit.val>> ELSE hist

\* power_io(): a pulse on the reset line, a hard reset through 0xcf9.
PowerIo ==
  /\ exit.reason = "io"
  /\ \/ exit.port = 100 /\ exit.val = 254
     \/ exit.port = 3321 /\ (exit.val \div 2) % 2 = 1

\* The console and the reset ports end the loop as a triple fault does.
HandleExit ==
  /\ pc = "exit"
  /\ stats_requested' = FALSE
  /\ hist' = ConsoleOutput
  /\ running' = (running /\ ~PowerIo /\ ~(OnConsole /\ hist' = Marker))
  /\ IF AfterExit(exit.reason) = "ended"
     THEN Die(exit.reason)
     ELSE pc' = AfterExit(exit.reason) /\ UNCHANGED <<died, raw>>
  /\ exit' = NoExit
  /\ UNCHANGED <<conf, todo, machine, handlers, history, signals>>

\* The end of main().
Leave ==
  /\ pc = "leave" /\ pc' = "ended"
  /\ running' = FALSE /\ raw' = FALSE
  /\ UNCHANGED <<conf, todo, machine, died, handlers, guest, stats_requested, history,
                 signals>>

-----------------------------------------------------------------------------
(* Signals.                                                                *)

\* SIGINT and SIGTERM, or SIGUSR1; a thread other than the vCPU's may get it.
\* Without handler they end the process and nothing is restored.
Signal(sig, toVcpu) ==
  /\ pc # "ended" /\ signals > 0 /\ signals' = signals - 1
  /\ toVcpu \/ "threads" \in kvm
  /\ IF ~handlers
     THEN pc' = "ended" /\ UNCHANGED <<running, stats_requested>>
     ELSE /\ pc' = IF toVcpu /\ pc = "guest" THEN "eintr" ELSE pc
          /\ running' = (running /\ sig # "stop")
          /\ stats_requested' = (stats_requested \/ sig = "stats")
  /\ missed' = (missed \/ (handlers /\ sig = "stop" /\ pc = "enter"))
  /\ UNCHANGED <<conf, todo, machine, died, process, guest, late>>

MainNext ==
  \/ Setup \/ SetupDies \/ Check \/ KvmRun \/ GuestExit \/ Eintr \/ HandleExit \/ Leave
  \/ \E sig \in {"stop", "stats"}, toVcpu \in BOOLEAN : Signal(sig, toVcpu)

\* The thread of main() runs.  A guest need never come back to user space: one
\* that halts or computes is left to the in-kernel interrupt controller.
Fairness ==
  /\ WF_mainVars(Setup \/ SetupDies) /\ WF_mainVars(Check) /\ WF_mainVars(KvmRun)
  /\ WF_mainVars(Eintr) /\ WF_mainVars(HandleExit) /\ WF_mainVars(Leave)

MainSpec == MainInit /\ [][MainNext]_mainVars /\ Fairness

-----------------------------------------------------------------------------
(* Properties.                                                             *)

\* What load_bzimage() takes for granted: that the initramfs is not larger than
\* memory, so that mem_size - isize does not wrap around, and that a kernel asks to be
\* loaded above the first megabyte.
Granted == conf.blob \/ (conf.initrd <= conf.mem /\ MB <= LoadAddr)

\* What a kernel needs from where it is loaded.  Before protocol 2.10 it does not say,
\* and load_bzimage() makes sure of nothing: the initramfs may lie over its image.
Needs(k) == IF k.v2_10 THEN k.init ELSE k.image
InitrdOverOldKernel(r, s) ==
  ~conf.kernel.v2_10 /\ {r, s} = {Region(LoadAddr, conf.kernel.image), Initrd}

\* At the first VM entry all of guest memory is as it was written: nothing lies
\* over anything else or outside of RAM, the zero page finds the kernel, the
\* initramfs and memory for both, no device window or MP table is in what it calls
\* RAM, and the vCPU starts at the kernel with descriptors that are still there.
\* There are two exceptions: the initramfs over an old kernel, and the virtio windows
\* when -m reaches beyond them, where RAM hides them.
GuestFindsItsMemory ==
  pc = "loop" /\ Granted =>
    /\ \A i, j \in DOMAIN memory :
         i # j => \/ Apart(memory[i], memory[j])
                  \/ InitrdOverOldKernel(memory[i], memory[j])
    /\ \A i \in DOMAIN memory : Inside(memory[i], Ram)
    /\ Contains(memory, vcpu.gdt) /\ Contains(memory, vcpu.tr)
    /\ \E i \in DOMAIN memory : memory[i].from = vcpu.rip
    /\ ~conf.blob =>
         LET kernel == Region(zero_page.code32_start, Needs(conf.kernel))
             initrd == Region(zero_page.ramdisk_image, conf.initrd)
         IN /\ Contains(memory, Region(LoadAddr, conf.kernel.image))
            /\ kernel.from = vcpu.rip /\ Contains(memory, Region(vcpu.rsi, Page))
            /\ Contains(memory, initrd)
            /\ conf.kernel.v2_10 => Apart(kernel, initrd)
            /\ \A r \in {kernel, initrd} :
                 \E a \in zero_page.e820_table : Inside(r, a)
            /\ \A a \in zero_page.e820_table :
                 /\ Apart(a, MpFloat) /\ Apart(a, MpTable)
                 /\ conf.mem <= VirtioWindows.from => Apart(a, VirtioWindows)

\* However and whenever the process ends, by a signal during setup too, it leaves
\* the terminal as it was.
TerminalRestored == pc = "ended" => ~raw

\* Once it is to stop, the program enters the guest again only if the request came
\* between the test of running and KVM_RUN, and then once.
StopsAfterOneExit == late <= IF missed THEN 1 ELSE 0

\* A request to stop ends the process whatever the guest does, once it has been
\* made anywhere but between the test of running and the next exit, or has
\* interrupted KVM_RUN.
StopRequestEnds == ~running /\ pc \notin {"enter", "guest"} ~> pc = "ended"
=============================================================================
