# Verification of mini-kvm and minivmm

The repository is a course on KVM internals. Most of it is prose; its programs
are small, except for two that are real systems, and these are what this
project models:

* **mini-kvm** (`src/phase9-capstone/practice/mini-kvm/`): a kernel module that
  runs guests with VMX. It turns VMX on for every CPU, hands out VM and vCPU
  file descriptors, builds a VMCS and an EPT per VM, moves vCPUs between CPUs,
  emulates a serial port and delivers interrupts.
* **minivmm** (`src/phase9-capstone/practice/minivmm.c`): a user-space VMM on top
  of `/dev/kvm`. It boots a Linux kernel and emulates a 16550A serial port,
  virtio-mmio console and block devices (with an ioeventfd worker thread), PCI
  configuration space and a VFIO device with MSI-X.

## Inventory

| Component | State it keeps | Operations | Interacts with |
|---|---|---|---|
| VMX enable (`main.c`) | per-CPU VMXON page, `enabled`, count, CR4.VMXE, open files | module load (IPI to all CPUs), rollback, unload | CPU hotplug, other hypervisors, every fd |
| VMCS and CPU migration (`vmx.c`, `vcpu.c`, `vmx_entry.S`) | VMCS current per CPU, loaded CPU, launched flag, VPID, TLB tags | setup, load, clear by IPI, entry, exit, teardown | scheduler, other vCPUs, EPT |
| VMCS fields (`vmx.c`, `vmx_entry.S`) | control, guest-state and host-state fields, `IA32_KERNEL_GS_BASE` | read capabilities, negotiate controls, set up, refresh, fix up, enter | processor, scheduler, kernel PCIDs |
| VM/vCPU/memslot lifetime (`vcpu.c`) | kref, `kvm->vcpu`, slot, pinned pages, fds, mappings | create VM, set memory, create vCPU, run, query, map, close | every ioctl thread |
| EPT (`ept.c`) | page tables, list of table pages | init, walk, violation, destroy | memslot, KVM_RUN, page allocator |
| Interrupt injection (`interrupt.c`) | pending event | inject, take, complete, re-inject NMI | KVM_RUN, INJECT_IRQ |
| Serial capture (`device.c`) | output buffer | OUT to 0x3f8, KVM_GET_SERIAL | KVM_RUN |
| 16550A (`minivmm.c`) | registers, RX FIFO, THRI pending, IRQ level | receive thread, register reads and writes | KVM IRQ line, stdin, vCPU thread |
| virtqueues (`minivmm.c`) | cursors, interrupt status, eventfds | queue service, notification, acknowledgement, reset | worker thread, guest driver |
| virtio registers, console, disk (`minivmm.c`) | device status, queue registers, console FIFO, disk file | MMIO reads and writes, chains, echo, block requests | virtqueues, guest driver |
| PCI and VFIO (`minivmm.c`) | shadow BARs, MSI-X table, eventfds, routes | config access, MSI-X updates, slow path | KVM routing, VFIO, guest driver |
| Boot (`minivmm.c`) | guest memory layout, zero page, vCPU state | load bzImage, initramfs, command line, tables | KVM set-up calls |
| Run loop and signals (`minivmm.c`) | `running`, `stats_requested`, terminal mode | KVM_RUN, SIGINT, SIGTERM, SIGUSR1 | all devices, main() |

What is hard in this code: a VMCS is current on at most one CPU while threads
migrate at any preemption point; `release()` of the fds and ioctls in flight
come in any order; one lock protects some of the VM's fields and not others;
host-state fields are right only for the CPU, the task and the PCID they were
written for; a walk of the EPT may fail at any level and leave tables behind; the
serial port and the virtio queues are shared by two threads; interrupts are level
signals recomputed from several conditions, or events that must be neither lost nor
repeated; mask bits and messages of MSI-X live in a shadow, in VFIO, in KVM's routes
and in the device at once; a signal may come between any two instructions;
hotplug changes the set of CPUs between load and unload.

What makes each component correct:

* VMX enable: VMX is on exactly on the CPUs that were enabled, an interrupted
  load undoes itself, the module stays while a file is open, and after unload no
  CPU is left in VMX operation.
* VMCS: exclusive to a CPU, used with its own guest state and translations,
  launched and resumed in the right state, inactive when freed.
* VMCS fields: every VM exit gives the host back its own state, and a vCPU that
  could be created can be entered.
* Lifetime: reference counting is exact, nothing is used after it is freed, a
  registration is all or nothing, an abandoned VM is freed.
* EPT: a translation maps a guest page to the host page of the slot that holds
  it, and every table page is freed.
* Interrupts: an accepted vector is delivered exactly once.
* 16550A: the interrupt line says what the registers say, no byte is lost
  without an overrun report, the order of bytes is kept.
* virtqueues: every buffer made available is returned once, with a notification
  the guest sees; a reset leaves nothing of the old queue in use.
* virtio devices: a driver can always bring the device up, the echo is the stream
  that was sent, the status of a request is the truth.
* PCI and VFIO: an address reaches the BAR the guest put there, an interrupt
  arrives once with the message of its vector, a masked vector stays masked.
* Boot and run loop: nothing in guest memory overlaps, the guest's tables say
  where it all is, a request to stop ends the program, the terminal is restored.

## Modules

| Module | Models | Uses |
|---|---|---|
| `MiniKvmLoad` | VMXON/VMXOFF on every CPU at load and unload, open files | |
| `MiniKvmVmcs` | VMCS ownership, migration, TLB tags, launch state, the KVM_RUN loop | |
| `MCMiniKvmVmcs` | who holds which fd and runs where, for TLC | extends `MiniKvmVmcs` |
| `MiniKvmVmcsProofs` | proofs | extends `MiniKvmVmcs` |
| `MiniKvmFields` | control negotiation, guest and host fields, KERNEL_GS_BASE | |
| `MCMiniKvmSetup` | the two above as halves of one specification, for TLC | extends `MiniKvmLoad`, `MiniKvmFields` |
| `MiniKvmSetupProofs` | proofs | extends `MiniKvmLoad`, `MiniKvmFields` |
| `MiniKvmLifecycle` | the VM fd, vCPU fds, kref, memslot and its pins | |
| `MiniKvmLifecycleProofs` | proofs | extends `MiniKvmLifecycle` |
| `GuestMap` | abstract: a map of guest pages that only grows | |
| `MiniKvmEpt` | the walk that builds page tables, their list, tear-down | instantiates `GuestMap` |
| `MCMiniKvmEpt` | guest pages and a slot for TLC | extends `MiniKvmEpt` |
| `MiniKvmEptProofs` | proofs, refinement of `GuestMap` included | extends `MiniKvmEpt` |
| `MiniKvmEvents` | event injection, VM exits, serial capture, demand mapping | |
| `MiniKvmEventsProofs` | proofs | extends `MiniKvmEvents` |
| `ByteChannel` | abstract: a bounded FIFO that admits refusing a byte | |
| `Serial16550` | the 16550A: registers, input thread, IRQ line | instantiates `ByteChannel` |
| `Serial8250` | the port with a guest: any, or Linux's 8250 driver | extends `Serial16550` |
| `VirtioQueue` | one virtqueue, served in the exit or by the worker thread, with its driver | |
| `VirtioQueueProofs` | proofs | extends `VirtioQueue` |
| `VirtioDevices` | virtio-mmio registers, descriptor chains, console, disk | |
| `MCVirtioDevices` | chains for TLC | extends `VirtioDevices` |
| `VfioMsix` | configuration mechanism 1, BARs, MSI-X, slow path, with a guest | |
| `MCVfioMsix` | a device with three BARs for TLC | extends `VfioMsix` |
| `MinivmmDevicesProofs` | proofs | extends `VirtioDevices`, `VfioMsix` |
| `Minivmm` | main(): KVM set-up, memory layout, run loop, signals | |
| `MCMinivmm` | memory sizes, kernels, initramfs for TLC | extends `Minivmm` |
| `MinivmmProofs` | proofs, refinement of `ByteChannel` included | extends `Minivmm`, `Serial16550` |

The mini-kvm modules about vCPUs look at the same code from several sides.
`MiniKvmVmcs` keeps the processor and forgets reference counts, events and the
contents of fields; `MiniKvmFields` keeps the contents of one VMCS;
`MiniKvmLifecycle` keeps the objects and forgets CPUs; `MiniKvmEvents` follows one
thread in KVM_RUN, and `MiniKvmEpt` the walks of such a thread, which
`vcpu->mutex` (modelled in `MiniKvmVmcs`) allows. The assumptions they hand each
other are checked where they arise: that at most one vCPU of a VM is live is
`SingleVcpu` of `MiniKvmLifecycle`; that the page tables are torn down when nobody
walks them is `NoUseAfterFree` there; that KVM_RUN sees one whole memslot, unless two
registrations overlapped, is the theorem `RunSeesOneCall`; that VMWRITEs reach the
vCPU's own VMCS is `GuestUsesOwnState` of `MiniKvmVmcs`; that CPUs which run vCPUs
are in VMX operation is the theorem `LoadCoversTargets`. In the same way `VirtioQueue` takes a request
as a number and `VirtioDevices` says what handling it means; there, a chain that is
returned is gone.

A proof module is about one component, or about two that share lemmas or a program.
Where two specifications meet in one module their names differ: `LoadSpec` and `loader` in
`MiniKvmLoad`, `MsixSpec` in `VfioMsix`, `MainSpec` in `Minivmm`; elsewhere the
specification is `Spec` and the place of the thread `pc`.

Operators named `Definition_variant` stand before the definition they vary. They
are plausible mistakes in that code, and no specification uses them;
`PROJECT.json` pairs each with the property that catches it.

No module assumes away what the code permits. Where the code does not keep a property in some
case, the model has the case, a history variable records that it happened, and the
property makes an exception of exactly what it touched: `strayed` and `invalid`
(`MiniKvmVmcs`), `raced` (`MiniKvmLifecycle`), `left` (`MiniKvmLoad`, and another in
`VirtioDevices`), `unasked` (`MiniKvmEvents`), `cut` (`VirtioQueue`), `bare`
(`VfioMsix`), `overrun` (`VirtioDevices`). "Where the code and its documentation disagree"
lists these cases. Dropping an exception makes TLC show what happens.

### MiniKvmLoad

`on_each_cpu()` is a set `ipi` of CPUs whose callback is still to run, in any
order; `EnableOne(c)` and `DisableOne(c)` are the callbacks, atomic because they run
with interrupts off. `done` and `page` are the per-CPU variables, `vmxe` and `vmx` the
machine. Another hypervisor takes CPUs whose CR4.VMXE is clear and gives them
back; CPUs come online, and go offline when no callback is due on them, also while
the module is loaded. One that comes back has been reset: it is in VMX operation no
more, whatever `mini_vmxon_done` says of it. `left` holds the CPUs that this concerns. Every
failure of the load (region, firmware, VMX in use, VMXON, misc_register) is a
branch. `files` counts the open files of the three kinds; each holds the module
because its `file_operations` name an owner (`Owned`), and a VM or vCPU file is
opened through one of the kind above it, which may then be closed first.

### MiniKvmVmcs

A *thread* is a user thread inside an ioctl or close(); `pc[t]` is its place in
`mini_vcpu_vmx_setup()` ("set_..."), `mini_vmcs_clear()` ("clear", "clear_wait"),
`mini_vcpu_run_loop()` ("run_start" ... "leave") or the teardown ("free"). `at[t]`
is the CPU it pinned with `preempt_disable()`; without one, each step may execute on
any CPU of its affinity that nobody has pinned, which is how migration between
two instructions is modelled. `loaded`, `launched` and `mutex` are the fields of `struct
mini_kvm_vcpu`; `current`, `active`, `hwLaunched` and `tlb` are the processor's side
of VMPTRLD, VMCLEAR, VMLAUNCH and INVEPT, taken from the instructions the module
executes and from the SDM rules its comments quote. `fields` and `hostCpu` record
whose setup last wrote a VMCS and for which CPU. A remote VMCLEAR is
`ClearRemote` (`smp_call_function_single()`), `VmclearIpi` on the target when it
takes interrupts, `ClearDone`. A vCPU is identified with its page frame, so that
closing and creating re-uses frames. `place`, chosen in `Init`, says which fds and
CPUs each thread has and which CPUs executed VMXON. A thread in KVM_CREATE_VCPU is
neither pinned nor asked for VMX operation; `strayed` keeps the vCPUs whose set-up moved
between the VMPTRLD and the assignment of `loaded_cpu`, or executed where VMX is off. A VM
entry succeeds (`Enter`), fails because of the launch state (`EnterFail`) or exits with bit 31
for its guest state (`EnterInvalid`): the last sets `launched`, as the code does before it looks
at the bit, and leaves the launch state of the VMCS alone; `invalid` keeps the vCPUs to
which this happened on a VMLAUNCH, until their VMCS is cleared.

### MiniKvmFields

The processor `hw` is any that the SDM allows: whether it has TRUE capability MSRs,
which controls it supports and demands, what its EPT can do. A control is a name and a
control word a set; a host field is known by whose value it holds (of which CPU, which
task, which PCID). `AdjustControl` is the arithmetic of `mini_vmx_adjust_control()`
on sets. The run loop's order is kept: fixup of the per-CPU fields when the VMCS
migrates, refresh at the head of each iteration, HOST_RSP in the entry code, and the
software save and restore of KERNEL_GS_BASE around the entry, which SWAPGS in the
guest changes without an exit. The thread that creates a vCPU is taken to stay on
its CPU, as in the proofs about `MiniKvmVmcs`.

### MiniKvmLifecycle

`vm`, `refs`, `lock`, `vptr` and the `slot...` variables are `struct mini_kvm`; `vmFd` and
`ofd` are the fds, which are closed by any thread at any moment and released when
no ioctl on them is in flight. A mapping of the `kvm_run` page holds the vCPU's file
like an open fd (`Mmap`, `Munmap`). Every ioctl is cut at the points where another
thread can observe or change the VM: `KVM_SET_USER_MEMORY_REGION` takes no lock and
is four actions, which any number of `Setters` may be in at once (`raced` keeps the regions of
calls that overlapped), `KVM_CREATE_VCPU` takes its reference, then `kvm->lock`, publishes
`kvm->vcpu`, installs the fd and unlocks, each with its failure; `KVM_GET_SERIAL`
copies under the lock (`SerialBegin`, `SerialEnd`). `Put` is `kref_put()` with the
destructor. The VMCS, the EPT and the copy of the arguments are left out.

### MiniKvmEpt, GuestMap

A guest page is the tuple of its four table indices. `mem` holds the frames as
entries; a frame that is not allocated holds junk, so that a table used without
`__GFP_ZERO` would send the processor there. `Descend`, `AddTable`, `WalkFails` and
`SetLeaf` are the iterations of `mini_ept_walk()`; `Table2` ... `Translate` are what the
processor makes of the tables. `GuestMap` is the promise: pages are mapped one at a
time, each to the slot's page, and all go together.

### MiniKvmEvents

`slot` is `pending_intr_info`; `entry` and `idtv` are the VM-entry interruption field
and the IDT-vectoring field of the VMCS. `pc` walks the run loop: "take" (head of
the loop), "enter", "deliver" (the processor delivers the event), "guest", "exit"
(the switch of the loop). `at`, `intr`, `shadow`, `nmiBlocked`, `idt` and `frames` are the
guest of `guest/guest.S`: lidt, a greeting, sti, hlt, the handlers with their
interrupt frames. User space may inject whenever the vCPU is not running, before `sti` too; `own`
and `unasked` are history variables: the value RFLAGS.IF would have if mini-kvm did
not force it, and whether the last injection was into a guest that had not halted. A delivery touches guest memory, so `DeliveryFaults`
interrupts it with an EPT violation as long as a page is not mapped, or with an
exception as long as there is no IDT; a host interrupt, a host NMI and a failed page
allocation come at any moment. Every path back to user space, the I/O exit and
the window of the external-interrupt exit enable interrupts and take what is
pending. The captured output is a buffer that saturates (`SerialOut`).

### Serial16550, ByteChannel, Serial8250

The record `serial` is `struct serial_state`; `line` and `irr` are KVM's side of the pin.
The input thread is four actions (`InputRead` without the lock, `InputLock`, one
`InputRecv` per byte, `InputUnlock`), a register access of the guest is one action,
because it holds `serial.lock` from beginning to end. `Guest` accesses any register
in any order. `IsByteChannel` maps the ring and LSR.OE to the abstract channel, which refuses
a byte only when it is full and then admits it until the reader has looked.
`Serial8250` adds a guest, chosen at the start: one that does what it likes, or
Linux's 8250 driver (start-up, printing, the handler that repeats until IIR
reports nothing), on one CPU.

### VirtioQueue

`service_vq()` is cut at every access to memory that the other side reads: the
snapshot of the avail index, the chain, the used element, the used index, the
cursor, `int_status`, the signal. With `use_eventfd = FALSE` the guest stands still while
it runs; with `TRUE` the worker thread runs it next to the guest and to the
vCPU thread's own register accesses, with no lock, as the code does. A reset comes
at any moment, in the middle of a service too: the worker then goes on with the address of the
avail ring it had located (`at`, `Located`: anything may be there once the driver has set
the queue up elsewhere) and with the cursor at zero, and `cut` records it. `Submit`,
`Kick`, `Interrupt`, `ReadStatus`, `AckLoad`, `AckStore`, `Reap` are the driver and the exits it
causes; the acknowledgement is a load and a store because `dev->int_status &= ~val`
is one. A request is a number; the contents of a buffer are left out.

### VirtioDevices

`Probe` is one register access of a driver that follows the specification, `Access`
what the register file does with it; `Rebind` lets another driver reset and bring up the idle
device with rings of its own. `Gather` is `gather_chain()`: a descriptor has an address and a
length, the sum of which wraps at `Wrap`, an index may be out of the table, a chain
may loop; `Walk` is its loop as a recursive function, one `Follow` per descriptor. What is
beyond `MaxSegs` segments (VQ_MAX_SEGS) is left out in silence (`LeftOut`), and `left` counts the
bytes of console output that this cost. `srv` is the stack of `service_vq()` calls, because the console's transmit queue
serves the receive queue from inside its handler. `con_in` keeps the free-running counters and
the slots of the FIFO, and a byte is its number in the stream. A block request is
`BlkStart`, a `BlkSegment` per segment and `BlkDone`; `pread()` is short at the end of the file,
`pwrite()` fails or is short anywhere (`blk.short`). A sector holds the number of the
request that wrote it, and `may` is what it may hold after writes that failed half way.

### VfioMsix

The guest finds the BARs as the PCI specification says (all ones, read back, the
address), in registers of 4 bits that stand for 32 with their type bits cut off: `Half` is
4 GB. A 64-bit BAR may be larger than that; `pt_config_read()` cuts the size to 32 bits
and leaves the upper half unmasked, so that the guest takes it for one of 4 GB (`Shown`).
`Decode` is `handle_pt_mmio()`. The MSI-X table exists three times: `shadow` (what the
guest wrote), `route` (KVM), `phys` (the mask bits of the real device); `armed` are VFIO's
triggers and `pba` what the device keeps while masked. `msix_setup_irqs()` is `SetupRoutes`,
`SetIrqs`, `SetupSync`, with the device completing requests between them. Arming unmasks the
vectors and lets out what `pba` holds. A message
has two halves, written one after the other at any time, and may be set back to zero;
`bare` holds the vectors that were armed, with the eventfd of an earlier attempt,
when their address was zero again; `torn` those of which a message was injected
that the guest had not programmed.

### Minivmm

`Calls` is main() as a sequence of calls, which depends on the options; each may fail
(`SetupDies`), and what it writes into guest memory is a list of regions in units of 256
bytes, on sizes of memory, kernel and initramfs from the configuration (-m is at least
64 MB, minivmm.c:2608). A kernel of a protocol before 2.10 has `init` 0, what `init_size` is in the
zero page when the copied header ends before it. The place of the initramfs is computed with
the unsigned arithmetic of the code; where that wraps, the copy faults. `zero_page` has
32-bit fields. `KvmRun`, `GuestExit`, `Eintr`, `HandleExit` are the run loop; a signal goes to the
vCPU's thread or another, and interrupts KVM_RUN only when it goes to the first while it is
in the guest. `missed` and `late` are history variables about the window between the test
of `running` and KVM_RUN. CPUID bits, segment registers and the MP table
are named, not computed.

## Runs

| Run | What it asks | Bounds | States |
|---|---|---|---|
| `vmcs` | is a VMCS ever active twice or freed while active, does a VMX instruction run outside VMX operation, are remote VMCLEARs served; on disjoint CPUs, does every VM entry use its own, correctly launched VMCS, the host state of the executing CPU, and no stale translation | 3 CPUs, 2 VMs, 3 threads, in three placements: disjoint CPUs; shared ones; one VM whose creating thread is free to move, also to a CPU that came online late | 177,779 |
| `vm_lifecycle` | kref, use after free, one vCPU, pins, abandoned VMs | 2 threads, both may register memory, 2 regions, 3 vCPU allocations | 64,861 |
| `vm_second_region` | violation: a second registration succeeds | the same with 1 allocation | |
| `setup` | clean unload, other hypervisors; and: does the host get its own state back from every exit, can every vCPU that could be created be entered | 3 CPUs that come and go, one without VMX, 1 open file of each kind, any number of loads; all processors of `Hardware`, 2 CPUs, 2 tasks, 2 PCIDs, one vCPU | 27,011 |
| `ept_walk` | do the tables implement the map, is every table page returned | 7 frames, 5 guest pages that part at every level, list of 5 | 1,861 |
| `events` | conservation of events, accepted entries, respected IF, every interrupt is delivered | 2 vectors, 2 pages, 3 injections, 1 NMI, 1 host interrupt, 1 failed allocation | 146,904 |
| `serial` | truthful line, refinement of `ByteChannel`; with the driver, bytes delivered and output drained | ring of 3 bytes, bursts of 2, 4 bytes, 2 characters printed | 172,402 |
| `virtio_queue` | order, at most once, cursors, every request served, and returned without -e | queue of 2, indices modulo 4, 4 requests (3 once a reset cut a service short), 1 reset | 249,343 |
| `virtio_lost_interrupt` | violation: with -e a completion can go unnoticed | 3 requests, no reset | |
| `virtio_devices` | bring-up, echo in order and not stuck, truthful status | 5 descriptors, 4 segments, 7 chains per console queue and 5 for the disk, FIFO of 3 bytes, file of 5 half sectors, 3 requests, 2 drivers | 1,548,880 |
| `vfio_msix` | do BARs decode, do masks agree, no half message, no lost interrupt | 3 BARs, two of them 64-bit, one of 2 GB or 8 GB, 2 vectors, 2 messages with irqfds, 1 with the slow path | 440,950 |
| `minivmm` | is guest memory laid out soundly, is the terminal restored, does a request to stop end the program | 5 memory sizes, 3 kernels, 4 initramfs sizes, 2 hosts, 2 signals | 519,524 |

`setup` checks two specifications that share no variable in one run; a behaviour is of one
of them while the other stands still (`MCMiniKvmSetup`).

Why the bounds are enough. Three CPUs and three threads let a VMCS move twice, a
third party use the CPU it left, and a close race a run; no code looks at more
than two CPUs at a time. Two tasks and two PCIDs make every host field of the wrong
kind differ. The lifetime model has one more allocation than a VM may have vCPUs, so that
one is live, one is refused and one is being freed. The five guest pages share
three, two, one and no table below the root, and the list of tables is too short for
all of them. Three injections fill the slot, the entry field and a delivery that
is interrupted twice. The rings of the serial port and of the console overflow
within one burst. Four requests on a queue of two with indices modulo 4 wrap every
counter. The chains cover one segment, two, one more than the array holds, a loop, an index out
of the table, an address out of memory and a sum that wraps. The memory sizes lie on both sides
of the virtio windows and of 4 GB, the initramfs sizes on both sides of the smallest memory, and
one fits it only over the old kernel. The 8 GB BAR has another both above and below it. The file ends in half a sector. Two
signals are enough for one in each window. Symmetry is used once, for the
`Frames` of `ept_walk`: any free frame will do for a table, and that run checks no
liveness.

`CHECK_DEADLOCK FALSE` stands where the system really may stop: when the bounds end
the run (no region, request or chain left) and user space may stop calling
(`MiniKvmLifecycle`, `Serial8250`, `VirtioQueue`, `VirtioDevices`), when the host has oopsed
on an instruction outside VMX operation (`MiniKvmVmcs`), when the program has ended
(`Minivmm`). The others never stop and are checked for deadlock.

### Fairness

* `MiniKvmVmcs.FairSpec`: a thread inside an ioctl is executed, an interrupt that
  is enabled is taken. No user thread has to issue another ioctl.
* `MiniKvmLifecycle.FairSpec`: ioctls other than KVM_RUN, and releases, run to
  completion. `kvm->lock` is a kernel mutex, which hands itself to its waiters;
  hence strong fairness for the steps that take it. A guest need not stop and
  nobody need close anything.
* `MiniKvmEvents.FairSpec`: user space calls KVM_RUN again (as the test program's
  loop does), the processor and the run loop proceed. Nothing is assumed of host
  interrupts and NMIs, which are bounded. `EveryIrqDelivered` starts when the guest has
  loaded its IDT: before that a delivery faults for ever.
* `Serial8250.DrvFairSpec`: the input thread and the virtual CPU run. The terminal
  may be silent and the guest need not print.
* `VirtioQueue.FairSpec`: the server of the queue runs, and the driver finishes
  what it began (a kick, an interrupt handler, a set-up).
* `VfioMsix.MsixSpec`: minivmm's threads run, and the device completes the requests it has
  accepted. Nothing is assumed of the guest.
* `Minivmm.MainSpec`: main()'s thread runs. A guest need never exit to user space: the interrupt
  controller is in the kernel and takes its HLTs. So what a signal that was missed in
  the window before KVM_RUN does is left to the guest's next exit, and
  `StopRequestEnds` does not promise more.

The other modules state safety only.

## Where the code and its documentation disagree

Two runs fail:

* `virtio_lost_interrupt`: `dev->int_status` is modified by the vCPU thread and by the worker
  without a lock (minivmm.c:1373), and the acknowledgement may overwrite the bit the worker
  has just set; the comment at 1477-1478 declares the split of work acceptable.
* `vm_second_region`: mini-kvm's README.md:151 says that a region can be registered once only
  and a second registration returns -EEXIST. The handler takes no lock: `slot.valid` is tested
  at vcpu.c:529 and set at 561, so two calls that overlap both succeed, and the second
  replaces the slot and loses the pins of the first. `PinsAccounted` and the theorem
  `SlotIsKept` say that nothing but such a call does so.

In the following cases the models do what the code does, and a property of a passing run
excepts them; without the exception TLC finds it violated.

* `launched` is documented as set after a successful VMLAUNCH (mini-kvm.h:195), but vcpu.c:216
  sets it before bit 31 of the exit reason is tested at 234. After an entry that was
  refused for its guest state, every KVM_RUN executes VMRESUME on a VMCS that is clear,
  until it is next cleared (`invalid` in `LaunchStateAgrees`).
* A creating thread is not bound to a CPU while `mini_vcpu_vmx_setup()` runs (vmx.c:704-756); if
  it moves after its VMPTRLD, `loaded_cpu` names a CPU that does not hold the VMCS, and
  VMCLEARs go to the wrong one. And KVM_CREATE_VCPU, unlike KVM_RUN, does not check
  `mini_cpu_in_vmx_operation()`: on a CPU that came online late its VMX instructions raise
  #UD (`strayed`, in `VmcsExclusive`, `NoUndefinedOpcode` and the properties about entries).
* Unloading must be clean (main.c:311-312), but VMXOFF reaches online CPUs only, and nothing
  follows hotplug: a CPU that went offline in VMX operation stays in it without its region, and one
  that comes back from a reset is claimed by a `mini_vmxon_done` that is stale; VMXOFF there
  would end the VMX operation of whoever has taken it since (`left`).
* Forcing RFLAGS.IF on injection is called equivalent for this guest (interrupt.c:27-28),
  which holds of a guest that has halted; INJECT_IRQ does not ask, and before `sti` it
  is not (`unasked` in `IfRespected`).
* A reset of a virtio device while the worker is in service_vq() (minivmm.c:1336): the worker
  advances the cursor the reset has just zeroed and takes chains from a ring that is gone.
  `ServedOnceInOrder` and `CursorsInOrder` except it (`cut`).
* `gather_chain()` leaves out what a chain has beyond VQ_MAX_SEGS segments (minivmm.c:1074) and
  reports nothing: the console loses bytes, a disk request reports OK for a part of its data.
  The console's FIFO is never asked whether it is full. A `pwrite()` that stops
  short ends the request with VIRTIO_BLK_S_OK. (`left` and `overrun` in `EchoInOrder`;
  `LeftOut` and `blk.short` in `StatusIsTrue`.)
* `pt_config_read()` does not mask the upper half of a 64-bit BAR and cuts the size to 32 bits
  (minivmm.c:2122-2123): a BAR of 8 GB looks like one of 4 GB, and the guest may put
  another into what it does not see (`Shown` and `Beyond` in `BarsDecode`).
* A vector that has an eventfd from an arming that failed is armed, and thereby unmasked, by
  the next attempt (minivmm.c:2404), even if the guest has set its address back to zero in
  between; the loop that restores the masks passes over it (2433). The device then
  has it unmasked while the guest has it masked (`bare` in `MaskAgrees`,
  `MessagesAsProgrammed`).
* For a boot protocol before 2.10 the header that is copied ends before `init_size`, so that
  line 666 compares the initramfs with 1 MB only: it may lie over the kernel
  (`InitrdOverOldKernel`). The comment at minivmm.c:962-964 puts the virtio windows outside RAM;
  with -m between 3328 MB and about 4095 MB RAM covers them (above that
  KVM_SET_USER_MEMORY_REGION fails). An initramfs larger than memory wraps the subtraction
  at 665, and a kernel that prefers an address below 1 MB is loaded over the tables there
  (`Granted`). All in `GuestFindsItsMemory`.

Two more are the same kind of thing with no exception to drop:

* `vcpu->loaded_cpu` is documented as the CPU that holds the VMCS (mini-kvm.h:196), but
  KVM_RUN or KVM_CREATE_VCPU of another VM on that CPU replaces the current VMCS and
  nothing resets the field; several VMs may be open (vcpu.c:16). `LoadedIsCurrent` as an
  invariant of `vmcs` fails in the placement `Shared`; what depends on it is stated for VMs that
  share no CPU (`DisjointVms`).
* An NMI that `mini_vcpu_reinject_nmi()` injected is dropped when its delivery
  exits; interrupt.c:139 says that the module injects nothing but external
  interrupts.

And what reading showed that no property here is about: the RDMSR of
IA32_VMX_EPT_VPID_CAP (main.c:178) is unchecked and raises #GP on a processor without
secondary controls, although mini-kvm.h:41-42 says that every MSR is checked; host
and guest fields that are never written rely on a zeroed page, contrary to vmx.c:459-463;
the Function Mask and Enable bits of MSI-X are not forwarded to the device; a vector
whose address is still zero when MSI-X is set up is never armed; on the slow path an
interrupt may be injected with a message the guest has half rewritten; `snprintf()` truncates a
long command line, so that the check after it cannot fail; a stop signal in the window at
1656, or one delivered to another thread, is seen at the guest's next exit only; the
terminal is raw but for its signals, and SIGQUIT, which has no handler, ends minivmm
without restoring it.

## Proofs

Each theorem holds for every value of the constants that the module's ASSUME admits. The
bounds on environment events (`MaxInject`, `MaxBytes`, ...) are constants too, so
the theorems hold for any of them. No theorem has a hypothesis beyond its specification:
what the code does not keep is an exception in the property, through the
history variables above.

* **MiniKvmVmcsProofs.** `TypeCorrect`, `VmcsIsExclusive`, `NoneUndefined`, `OwnStateIsUsed`,
  `LaunchAgrees` and `NothingStale`, for any CPUs, vCPUs, threads and placements; creating
  threads move as they like, and what is excepted are the vCPUs whose set-up did so in the
  window (`strayed`) and, in `LaunchAgrees`, those with a refused VMLAUNCH (`invalid`). `VmcsExclusive` is not inductive because `loaded_cpu`, which every later
  VMCLEAR relies on, is assigned after the VMPTRLD. `IInv` says who has a vCPU in hand
  (`Owned`), where a thread may be when it cannot be preempted (`Pinned`), what it
  knows of `loaded_cpu` (`Loading`), and that `loaded_cpu` bounds where the VMCS is active
  but in that window (`Region`). The last three theorems are about VMs that share no CPU and
  need a second invariant, `OwnState`: a vCPU stays at home (`AtHome`), its VMCS is current
  where `loaded_cpu` says until a remote VMCLEAR has run (`Present`), `launched` and the
  launch state of the region change together (`Launch`), the contents are right where
  it is loaded (`Contents`), and what the steps in between have established (`Progress`).
* **MiniKvmLifecycleProofs.** `TypeCorrect`, `RefsAreExact`, `NothingOutlivesVm`,
  `AtMostOneVcpu`, for any threads, regions and (finitely many) allocations. `RefsExact` alone
  is not inductive: a step of `KVM_CREATE_VCPU` changes the count on behalf of an
  allocation known only to the thread that builds it. `IInv` adds who builds what
  (`Builders`), who has the lock (`LockHeld`), what `kvm->vcpu` and the fds point to
  (`Pointer`, `FdOwner`) and that the VM lives exactly while the count is positive
  (`Alive`). `HeldStep` does the arithmetic of the cardinality, once.
  `PinsAreAccounted`, `RunSeesOneCall` and `SlotIsKept` hold for any number of registering
  threads, with the regions of overlapping calls (`raced`) excepted, and need a second
  invariant, `SlotInv`.
* **MiniKvmEptProofs.** `TypeCorrect`, `EveryPageAccounted` and the refinement
  `TablesImplementMap`, for tables, slots and lists of any size. That a table page is
  tracked once says nothing of what entries point to: `IInv` adds that the tables are
  a tree (`Tree`), that leaves are in last-level tables (`LeavesLast`) and that a walk
  stands where the processor's would (`WalkInv`). `OnePath` says that two guest pages that meet in a
  table agree in the indices above it; so a new table or leaf changes the translation of one
  page at most (`AddTableStep`, `SetLeafStep`), which is the step of `GuestMap`.
* **MiniKvmEventsProofs.** `TypeCorrect`, `EventsAreConserved`, `EntriesAreAccepted`. `IInv`
  says that the event in flight is in one place, which `pc` tells (`OnePlace`), and that
  iretq finds a frame (`FramesMatch`); `InFlightIsHolder` reduces the concatenation in
  `Conserved` to that place, so that a step has to keep one event, not three.
  `IfIsRespected` adds that the guest is at hlt only with its interrupts enabled, also
  when it returns there (`HaltedOpen`).
* **MiniKvmSetupProofs**, about `MiniKvmLoad`. `TypeCorrect`, `UnloadIsClean`, `RegionIsHeld`, `LoadCoversTargets`,
  `OthersAreUndisturbed`, with CPUs that come and go at any time. `LoadInv` says that the per-CPU flags are exact
  (`Exact`), when the regions exist (`Allocation`), that the callbacks still due cover every
  CPU they must reach (`Callbacks`), and that open files keep the module (`FilesHold`).
* **MiniKvmSetupProofs**, about `MiniKvmFields`. `HostIsRestored`, `GsIsRestored`, `CreatedMeansRunnable`, for any
  CPUs, tasks, PCIDs and processors. `HostFresh` says up to which step which class of
  host field is current: fields of the boot from the set-up on, fields of the CPU from the
  fixup on, fields of the task and its PCID from the refresh to the next preemption,
  HOST_RSP inside the entry; `GsKept` follows both copies of KERNEL_GS_BASE through
  SWAPGS, and `ControlsFixed` what negotiation promises of the control words.
* **MinivmmProofs**, about `Serial16550`. `TypeCorrect`, `LineIsTruthful`, `DataReadyIsExact`,
  `OverrunIsReported`, `ImplementsByteChannel`, for every ring size. Each register access is
  a composition of functions on the record `serial`; a lemma per function (`UpdateIrqWorks`,
  `RecvWorks`, `SetFcrWorks`, ...) says what it keeps of `Sound`, `Ready` and `Truth`, and
  `Step` combines them into the invariant and into the step of the abstract channel at
  once.
* **VirtioQueueProofs.** `TypeCorrect`, `EachIsServedOnce`, `CursorsAgree`, for any queue size,
  any index width that is a multiple of it, any number of requests, and resets at any
  moment; after one that cut a service short the last two say nothing, and `TypeCorrect` still
  holds. The lemmas on indices that wrap (`DistanceTo`, `DistanceFrom`,
  `DistanceSum`, `SlotOf`, `NextSlot`, `Apart`) are all the modular arithmetic there is; the
  rest sees a line of outstanding requests, the k-th of which is in `InLine(k)`: first
  those on the used ring, then those on the avail ring. `Contents` gives each its
  number, so no descriptor is in the line twice; `Cursors` bounds how far the worker may go,
  `InHand` says that it holds the first that is not returned, and `Histories` relates what was
  served and reaped to the line. With that, submitting, returning and reaping move one end
  of the line by one.

* **MinivmmProofs**, about `Minivmm`. `MinivmmInvariant`, `MemoryIsFound`, `EndsRestored`,
  `OneExitAtMost`, for any sizes of memory, kernel, initramfs and command line. That
  nothing overlaps at the first VM entry says nothing of the calls before it: `MvInv`
  follows the list of calls still to make (`Order`: each once, the handlers before the
  raw terminal) and says of those made that none of them failed, that memory holds what
  they write and nothing else (`Written`), and that the zero page and the registers hold
  what they said (`Told`). `CallsApart` compares any two calls of main(); only the kernel
  and the initramfs lie above 1 MB, and the test in load_bzimage() keeps those apart by the
  kernel's run-time size, if it has one. What main() does not test is in the property:
  `Granted` (the initramfs is not larger than memory, the kernel's address not
  below 1 MB), `InitrdOverOldKernel`, and the windows when RAM covers them. `Stopping` relates the stop flag to the window before
  KVM_RUN; with `Restorable` it needs no assumption.
* **MinivmmDevicesProofs**, about `VfioMsix`. `BarsReached`, `MasksAgree`,
  `MessagesAreWhole`, for any BARs up to 16 GB, vectors and messages. `BarsInv` says what each
  register holds before each step of a guest that sizes and places a BAR (`Before`), and
  that the addresses given out are disjoint (`Disjoint`), whatever the order of the BARs'
  steps. `MaskAgrees` is not inductive because arming unmasks a vector behind the
  guest's back: `MsixInv` adds which vectors are armed at each step of
  msix_setup_irqs() (`Phases`), that every vector is masked while it runs
  (`Quiescent`), that KVM's routes are those of the shadow table (`RoutesFollow`) and that what
  is armed is masked, was armed without an address or has a whole message (`Unmasked`), so
  that what is injected is whole (`InjectIsWhole`).
* **MinivmmDevicesProofs**, about `VirtioDevices`. `EveryBringUpSucceeds`, `EchoIsInOrder`,
  `EchoIsNotStuck`, `StatusIsTruthful`, for any chains, queue size, FIFO and file.
  `DevicesInv` has four parts. `RegsInv` says what each queue register holds before the k-th
  access of the bring-up, whatever an earlier driver left. `ServeInv` says which stacks
  of service_vq() calls there can be and that each counts chains that are still
  there. `EchoInv` says in which slot of the FIFO each byte waits (two bytes in one slot are a
  FIFO's size apart, `OneSlot`). `Covered` says that where input and room for it wait
  there is a notification, or a call whose count takes in all the room: that is why
  the nested service_vq() is needed. `DiskInv`, for the last theorem, follows a request
  through its segments: what was moved so far is what the sums of the lengths say
  (`Moved`, `Filled`) unless a pwrite() was short, and an offset within the announced capacity
  is within the file. What the recursive functions `Sums` and `Walk` compute is shown by induction
  over sets of numbers (`Least`, `Induct`), and that they exist at all by `Iterate`:
  so `GatherFits` holds of every table a guest can write, not of the chains of the run alone.

Only model-checked are the liveness properties, which the proof system does not
reach: `ClearCompletes`, `AbandonedIsFreed`, `EveryIrqDelivered`, `BytesDelivered`,
`OutputDrains`, `Served`, `EveryInterruptArrives`, `StopRequestEnds`. Every safety property that
a passing run checks is stated by a theorem.

## Not modelled

* What CPUID leaves, segment descriptors and the MP table contain, bit by bit:
  straight-line initialisation without choice.
* In `MiniKvmEvents`: CPUID exits, triple faults and unknown exit reasons, which end or
  step the loop without touching an event.
* In `VirtioQueue`: the contents of buffers and malformed chains, which are in
  `VirtioDevices`; there, the used ring and interrupts, which are in `VirtioQueue`.
* In `Minivmm`: signals without a handler, of which SIGQUIT can come from the terminal.
* In `VfioMsix`: the order of VFIO's set-up ioctls, which are made once at the start
  and are the initial state; at most 32 vectors are assumed, as the masks of the
  code have 32 bits.
* In `MiniKvmFields`: values of fields that no choice of the module depends on.
* Benchmarks, logs, `msixdump`, the reference checker: they print or measure.
* The KVM API demos and the minimal VMX module: single-threaded predecessors of
  minivmm and mini-kvm.
* The course text, shell scripts, tracing programs and the single-shot exercises
  of the other phases: they run once from top to bottom and keep no state.

## What is left

1. A composition of `VirtioQueue` and `VirtioDevices`: the two share the queue's cursors,
   and a product at the present bounds is too large for TLC.
2. A guest that never exits: KVM_RUN of mini-kvm keeps its CPU until the next host
   interrupt and does not look at signals (vcpu.c:150).
