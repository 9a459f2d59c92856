------------------------------- MODULE VfioMsix -------------------------------
(***************************************************************************)
(* minivmm's pass-through PCI device (minivmm.c): configuration mechanism  *)
(* 1, the shadows of its BARs, of MSI-X Message Control and of the MSI-X   *)
(* table, the routing of its interrupts into the guest, and the slow path  *)
(* thread.  The guest finds the BARs as the PCI specification says, then   *)
(* uses MSI-X in any order that specification allows.                      *)
(*                                                                         *)
(* A register half holds 0..15, which stands for its 32 bits without the   *)
(* type bits, so that Half stands for 4 GB; a message is its address and   *)
(* its data, equal numbers when both halves are of one message, 0 when     *)
(* never written or cleared.                                               *)
(***************************************************************************)
EXTENDS Naturals, Sequences

CONSTANTS
  Bars,       \* indices of the implemented BARs
  BarSizes,   \* the sizes VFIO's regions for them may have
  Is64,       \* those that take two registers
  TableBar,   \* the BAR with the MSI-X table
  Vectors,    \* msix_nr of them, at most 32
  Messages,   \* for each value of msix_slowpath, those a guest gives to a vector
  SlowPaths,  \* values of msix_slowpath
  NoVector

Half == 16
Ones == Half - 1

ASSUME BarsOK ==
  /\ Bars \subseteq 0..5 /\ Is64 \subseteq Bars /\ TableBar \in Bars
  /\ BarSizes \subseteq [Bars -> {1, 2, 4, 8, Half, 2 * Half, 4 * Half}]
  /\ \A f \in BarSizes : \A b \in Bars \ Is64 : f[b] < Half
  /\ \A b \in Is64 : b + 1 \notin Bars
  /\ Messages \in [BOOLEAN -> SUBSET (Nat \ {0})] /\ NoVector \notin Vectors
  /\ SlowPaths \subseteq BOOLEAN

VARIABLES
  msix_slowpath,
  bar_size,      \* VFIO's region sizes; they never change
  pci_cfg_addr,  \* the BAR register that 0xcf8 selects
  bar_val,
  gpc,           \* the guest: what is left to do to find its BARs
  found,         \* the base and the size it found for each
  msgctl, shadow, efd, msix_routing_done,
  pc,            \* the vCPU thread: in the guest, or a step of msix_setup_irqs()
  route,         \* KVM's MSI routes
  armed, phys,   \* VFIO: vectors with a trigger; mask bits of the real table
  devvec, busy,  \* the device: the vector of its queue, requests not completed
  pba, count,    \* pending bits of the device, eventfds signalled
  bare,          \* history: the vectors armed without an address
  torn           \* history: those injected with a message that the guest had not
                 \* programmed

bars == <<bar_size, pci_cfg_addr, bar_val, gpc, found>>
table == <<msgctl, shadow>>
arming == <<efd, msix_routing_done, route, armed, bare>>
device == <<devvec, busy>>
wires == <<pba, count, torn>>
msixVars == <<msix_slowpath, bars, table, arming, pc, phys, device, wires>>

ToDo == <<"ones_lo", "ones_hi", "read", "base_lo", "base_hi">>

MsixInit ==
  /\ msix_slowpath \in SlowPaths
  /\ bar_size \in BarSizes
  /\ pci_cfg_addr = 0
  /\ bar_val = [b \in Bars |-> [lo |-> 0, hi |-> 0]]
  /\ gpc = [b \in Bars |-> ToDo]
  /\ found = [b \in Bars |-> [base |-> 0, size |-> 0]]
  /\ msgctl = [enable |-> FALSE, funcmask |-> FALSE]
  /\ shadow = [v \in Vectors |-> [addr |-> 0, data |-> 0, masked |-> FALSE]]
  /\ efd = {} /\ msix_routing_done = FALSE
  /\ pc = "guest"
  /\ route = [v \in Vectors |-> <<0, 0>>]
  /\ armed = {} /\ phys = [v \in Vectors |-> TRUE]
  /\ devvec = NoVector /\ busy = FALSE
  /\ pba = {} /\ count = {} /\ bare = {} /\ torn = {}

-----------------------------------------------------------------------------
(* Configuration space.                                                    *)

\* Which BAR, and which half of it, the register at 0x10 + 4 * i belongs to.
BarOf(i) ==
  IF i \in Bars THEN <<i, "lo">>
  ELSE IF i > 0 /\ i - 1 \in Is64 THEN <<i - 1, "hi">> ELSE <<>>

\* pt_config_read(): the low half without the bits of (uint32_t)(size - 1), and
\* the high half as it is.
ReadBar_raw(b, half) == bar_val[b][half]
ReadBar(b, half) ==
  IF half = "hi" THEN bar_val[b].hi
  ELSE bar_val[b].lo - (bar_val[b].lo % (((bar_size[b] - 1) % Half) + 1))

\* pt_config_write(): the other half is kept.
WriteBar(i, val) ==
  bar_val' = IF BarOf(i) = <<>> THEN bar_val
             ELSE [bar_val EXCEPT ![BarOf(i)[1]][BarOf(i)[2]] = val]

\* pci_config_io(): the guest selects a register ...
CfgAddr(b, i) ==
  /\ pc = "guest" /\ gpc[b] # <<>>
  /\ \A a \in Bars : a < b => gpc[a] = <<>>
  /\ i = IF Head(gpc[b]) \in {"ones_hi", "base_hi"} THEN b + 1 ELSE b
  /\ pci_cfg_addr # i
  /\ pci_cfg_addr' = i
  /\ UNCHANGED <<bar_size, bar_val, gpc, found, msix_slowpath, table, arming, pc, phys,
                 device, wires>>

Span(a, n) == a..(a + n - 1)

\* The addresses a guest may give to a BAR of the size it found: those of two
\* registers above 4 GB.
Top == Half * Half - 1
Bases(b, size) ==
  {a \in 1..Top :
     /\ a % size = 0
     /\ b \in Is64 <=> a + size > Half
     /\ \A o \in Bars \ {b} : found[o].base # 0 =>
          Span(a, size) \cap Span(found[o].base, found[o].size) = {}}

Value(b) == ReadBar(b, "lo") + IF b \in Is64 THEN Half * ReadBar(b, "hi") ELSE 0
Width(b) == IF b \in Is64 THEN Half * Half ELSE Half

\* ... and reads or writes it: all ones, read back, the address.  A BAR of one
\* register skips the steps for the other.
CfgData(b) ==
  /\ pc = "guest" /\ gpc[b] # <<>>
  /\ gpc' = [gpc EXCEPT ![b] = Tail(@)]
  /\ LET step == Head(gpc[b]) IN
     \/ /\ step \in {"ones_hi", "base_hi"} /\ b \notin Is64
        /\ UNCHANGED <<bar_val, found>>
     \/ /\ step = "ones_lo" /\ pci_cfg_addr = b
        /\ WriteBar(b, Ones) /\ UNCHANGED found
     \/ /\ step = "ones_hi" /\ pci_cfg_addr = b + 1 /\ b \in Is64
        /\ WriteBar(b + 1, Ones) /\ UNCHANGED found
     \/ /\ step = "read" /\ pci_cfg_addr = b
        /\ LET size == Width(b) - Value(b) IN
           \E a \in Bases(b, size) :
             /\ \A o \in Bases(b, size) : a <= o
             /\ found' = [found EXCEPT ![b] = [base |-> a, size |-> size]]
        /\ UNCHANGED bar_val
     \/ /\ step = "base_lo" /\ pci_cfg_addr = b
        /\ WriteBar(b, found[b].base % Half) /\ UNCHANGED found
     \/ /\ step = "base_hi" /\ pci_cfg_addr = b + 1 /\ b \in Is64
        /\ WriteBar(b + 1, found[b].base \div Half) /\ UNCHANGED found
  /\ UNCHANGED <<bar_size, pci_cfg_addr, msix_slowpath, table, arming, pc, phys, device,
                 wires>>

-----------------------------------------------------------------------------
(* handle_pt_mmio(): the first BAR with an address that holds the access.  *)

Base(b) == bar_val[b].lo + Half * bar_val[b].hi
Hits(pa) == {b \in Bars : Base(b) # 0 /\ pa \in Span(Base(b), bar_size[b])}
Decode(pa) ==
  IF Hits(pa) = {} THEN <<>>
  ELSE LET b == CHOOSE x \in Hits(pa) : \A y \in Hits(pa) : x <= y
       IN <<b, pa - Base(b)>>

Driving == pc = "guest" /\ \A b \in Bars : gpc[b] = <<>>
Reaches(b) == Decode(found[b].base) = <<b, 0>>

\* KVM_SET_GSI_ROUTING: an entry without address has no route.
UpdateRoutes_once(s) ==
  IF msix_routing_done THEN route ELSE [v \in Vectors |-> <<s[v].addr, s[v].data>>]
UpdateRoutes(s) ==
  [v \in Vectors |-> IF s[v].addr = 0 THEN <<0, 0>> ELSE <<s[v].addr, s[v].data>>]

Complete(v) == shadow[v].addr = shadow[v].data /\ shadow[v].addr # 0

\* The guest writes a vector's address, then its data: only while it is masked, or
\* for the first time.  KVM's routes follow once they have been set up.
WriteMessage(v, f, m) ==
  /\ Driving /\ Reaches(TableBar)
  /\ shadow[v].masked \/ ~Complete(v)
  /\ IF f = "addr" THEN Complete(v) \/ shadow[v].addr = 0 ELSE m = shadow[v].addr
  /\ shadow' = [shadow EXCEPT ![v][f] = m]
  /\ route' = IF msix_routing_done THEN UpdateRoutes(shadow') ELSE route
  /\ UNCHANGED <<msix_slowpath, bars, msgctl, efd, msix_routing_done, armed, bare, pc,
                 phys, device, wires>>

\* Signals of eventfds: KVM injects the messages that the routes hold; on the
\* slow path the eventfds keep them for the thread.
Inject(vs) ==
  torn' = torn \cup {v \in vs :
            /\ route[v] # <<0, 0>>
            /\ route[v] # <<shadow[v].addr, shadow[v].data>> \/ ~Complete(v)}
Signal(vs) ==
  IF msix_slowpath THEN count' = count \cup vs /\ UNCHANGED torn
  ELSE Inject(vs) /\ UNCHANGED count

\* The write to the real table: an interrupt kept by the device comes out.
Forward_kept(v, m) == UNCHANGED <<phys, wires>>
Forward(v, m) ==
  /\ phys' = [phys EXCEPT ![v] = m]
  /\ IF ~m /\ v \in pba \cap armed
     THEN pba' = pba \ {v} /\ Signal({v})
     ELSE UNCHANGED wires

\* The guest writes Vector Control; it unmasks only what is complete.
WriteControl(v, m) ==
  /\ Driving /\ Reaches(TableBar)
  /\ m \/ Complete(v)
  /\ shadow[v].masked # m
  /\ shadow' = [shadow EXCEPT ![v].masked = m]
  /\ Forward(v, m)
  /\ UNCHANGED <<msix_slowpath, bars, msgctl, arming, pc, device>>

\* Message Control, which is not forwarded.  The guest enables the function
\* under the function mask and lifts that when it has masked every vector and
\* written no half message.
WriteMsgctl(e, f) ==
  /\ Driving
  /\ msgctl # [enable |-> e, funcmask |-> f]
  /\ e /\ ~msgctl.enable => f
  /\ e /\ ~f => \A v \in Vectors : shadow[v].masked /\ shadow[v].addr = shadow[v].data
  /\ msgctl' = [enable |-> e, funcmask |-> f]
  /\ pc' = IF e /\ ~f /\ ~msix_routing_done THEN "routes" ELSE pc
  /\ UNCHANGED <<msix_slowpath, bars, shadow, arming, phys, device, wires>>

-----------------------------------------------------------------------------
(* msix_setup_irqs()                                                       *)

\* Routes first, then an eventfd for each vector with an address; an earlier
\* attempt's are replaced.
SetupRoutes ==
  /\ pc = "routes"
  /\ route' = UpdateRoutes(shadow)
  /\ efd' = {v \in Vectors : shadow[v].addr # 0} \cup efd
  /\ pc' = "set_irqs"
  /\ UNCHANGED <<msix_slowpath, bars, table, msix_routing_done, armed, bare, phys,
                 device, wires>>

\* VFIO enables MSI-X and unmasks what it arms, which lets out what the device
\* kept pending; or it fails, and the next write to Message Control tries again.
\* A vector keeps the eventfd of an earlier attempt when the guest has cleared its
\* address since.
SetIrqs ==
  /\ pc = "set_irqs"
  /\ \/ /\ armed' = efd /\ msix_routing_done' = TRUE
        /\ bare' = {v \in efd : shadow[v].addr = 0}
        /\ phys' = [v \in Vectors |-> v \notin efd]
        /\ pba' = pba \ efd /\ Signal(pba \cap efd)
        /\ pc' = "sync"
     \/ pc' = "guest" /\ UNCHANGED <<armed, msix_routing_done, bare, phys, wires>>
  /\ UNCHANGED <<msix_slowpath, bars, table, efd, route, device>>

\* The guest's mask bits into the real table; the slow path's thread starts with
\* the eventfds there are.
SyncMasks_none == phys
SyncMasks == [v \in Vectors |->
                IF shadow[v].addr # 0 THEN shadow[v].masked ELSE phys[v]]

SetupSync ==
  /\ pc = "sync"
  /\ phys' = SyncMasks
  /\ pc' = "guest"
  /\ UNCHANGED <<msix_slowpath, bars, table, arming, device, wires>>

-----------------------------------------------------------------------------
(* The device and the slow path's thread.                                  *)

\* handle_bar0_legacy() passes the vector registers and notifications through.
\* The driver notifies when its interrupt can come.
WriteVector(v) ==
  /\ Driving /\ Reaches(0)
  /\ devvec # v /\ devvec' = v
  /\ UNCHANGED <<msix_slowpath, bars, table, arming, pc, phys, busy, wires>>

Open(v) == msgctl.enable /\ ~msgctl.funcmask /\ ~shadow[v].masked

Notify ==
  /\ Driving /\ Reaches(0)
  /\ ~busy /\ devvec # NoVector /\ Open(devvec) /\ busy' = TRUE
  /\ UNCHANGED <<msix_slowpath, bars, table, arming, pc, phys, devvec, wires>>

\* The device completes a request and raises its vector.
CompleteRequest ==
  /\ busy /\ busy' = FALSE
  /\ IF devvec \in armed /\ ~phys[devvec]
     THEN Signal({devvec}) /\ UNCHANGED pba
     ELSE pba' = pba \cup {devvec} /\ UNCHANGED <<count, torn>>
  /\ UNCHANGED <<msix_slowpath, bars, table, arming, pc, phys, devvec>>

\* msix_slowpath_thread(): poll(), read(), KVM_IRQ_LINE.
SlowPath(v) ==
  /\ v \in count
  /\ count' = count \ {v}
  /\ Inject({v})
  /\ UNCHANGED <<msix_slowpath, bars, table, arming, pc, phys, device, pba>>

MsixNext ==
  \/ \E b \in Bars : CfgData(b) \/ \E i \in {b, b + 1} : CfgAddr(b, i)
  \/ \E v \in Vectors :
       \/ \E f \in {"addr", "data"}, m \in Messages[msix_slowpath] \cup {0} :
            WriteMessage(v, f, m)
       \/ \E m \in BOOLEAN : WriteControl(v, m)
       \/ WriteVector(v)
       \/ SlowPath(v)
  \/ \E e, f \in BOOLEAN : WriteMsgctl(e, f)
  \/ SetupRoutes \/ SetIrqs \/ SetupSync
  \/ Notify \/ CompleteRequest

\* The threads run, and the device completes what it was given.
Fairness ==
  /\ WF_msixVars(SetupRoutes) /\ WF_msixVars(SetIrqs) /\ WF_msixVars(SetupSync)
  /\ WF_msixVars(CompleteRequest)
  /\ \A v \in Vectors : WF_msixVars(SlowPath(v))

MsixSpec == MsixInit /\ [][MsixNext]_msixVars /\ Fairness

-----------------------------------------------------------------------------
(* Properties.                                                             *)

\* Once the guest has placed the BARs by the sizes it read, those are VFIO's up to
\* 4 GB (pt_config_read() does not mask the high half: it takes a larger BAR for one
\* of 4 GB), and an address in a BAR reaches that BAR at the right offset and no
\* other.  The exception is an address that the guest, deceived, gave out within a
\* larger BAR of a lower index, beyond its first 4 GB.
Shown(b) == IF bar_size[b] < Half THEN bar_size[b] ELSE Half
Beyond(o) == Span(found[o].base + Half, bar_size[o] - Half)

BarsDecode ==
  Driving => \A b \in Bars :
    /\ found[b].size = Shown(b)
    /\ \A off \in 0..(Shown(b) - 1) :
         \/ Decode(found[b].base + off) = <<b, off>>
         \/ \E o \in Bars : /\ o < b /\ bar_size[o] > Half
                            /\ found[b].base + off \in Beyond(o)

\* While the guest runs, an armed vector is masked in the device exactly when
\* the guest has masked it: arming, which unmasks it, leaves no trace, but on a
\* vector that had lost its address since an earlier attempt to arm it.
MaskAgrees ==
  pc = "guest" /\ msix_routing_done =>
    \A v \in armed \ bare : phys[v] = shadow[v].masked

\* A message that KVM_IRQFD injects is the one the guest has programmed for the
\* vector now, both halves of it, unless the vector was armed without an address
\* and stayed unmasked in the device.  (The slow path injects later: the guest may
\* by then have rewritten one half.)
MessagesAsProgrammed == ~msix_slowpath => torn \subseteq bare

\* An interrupt of a vector that had its message when MSI-X was set up reaches
\* the guest, unless the guest closes the vector.
EveryInterruptArrives ==
  \A v \in Vectors :
    v \in armed \cap (pba \cup count) /\ Open(v)
      ~> v \notin pba \cup count \/ ~Open(v)
=============================================================================
