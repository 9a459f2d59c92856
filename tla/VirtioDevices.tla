---------------------------- MODULE VirtioDevices ----------------------------
(***************************************************************************)
(* minivmm's two virtio-mmio devices behind their registers (minivmm.c):   *)
(* how a driver brings one up, the walk of a descriptor chain, the console *)
(* that echoes what it is sent, and the disk.  VirtioQueue models the used *)
(* ring and the interrupts; here a chain that is returned is gone.         *)
(*                                                                         *)
(* A behaviour has one of the devices, with or without -e.  A byte of the  *)
(* console is its number in the stream; a sector holds the number of the   *)
(* request that wrote it, and lengths on the disk count half sectors.      *)
(***************************************************************************)
EXTENDS Naturals, Sequences, SequencesExt, FiniteSetsExt

CONSTANTS
  Num,        \* descriptors of a queue
  MaxSegs,    \* VQ_MAX_SEGS
  MemSize,    \* mem_size
  Wrap,       \* number of addresses: 2^64
  Chains,     \* the descriptor chains a driver of each device builds
  CON_IN_SZ,
  FileSize,   \* of the disk's file, in half sectors
  MaxOps,     \* bound: requests to the disk, or chains for the console to print
  MaxPosted,  \* bound: chains that wait in one queue
  MaxProbes   \* bound: how often a driver takes the device over

ASSUME SizesOK ==
  /\ {Num, MaxSegs, CON_IN_SZ, MemSize} \subseteq Nat \ {0}
  /\ Wrap \in Nat /\ Wrap > MemSize
  /\ {FileSize, MaxOps, MaxPosted, MaxProbes} \subseteq Nat
  /\ \A c \in Chains["console"] \cup Chains["blk"] :
       c.head \in Nat /\ c.table \in
         [0..(Num - 1) -> [addr : 0..(Wrap - 1), len : Nat, more : BOOLEAN, next : Nat]]

VARIABLES
  id, use_eventfd,       \* which device; -e
  status, queue_sel, vq, \* its registers
  todo, probes,          \* the driver's bring-up: steps left, which time
  posted,                \* avail rings: chains not yet taken
  notified, srv,         \* eventfds; calls of service_vq(), the innermost last
  con_in, order,         \* the FIFO; all bytes so far came back in order
  overrun, left,         \* history: it held more than its size; bytes to print that
                         \* were in segments beyond MaxSegs
  disk, blk,             \* the file; the request in blk_handle()
  ops, may               \* requests so far; history: what each sector may hold

regs == <<status, queue_sel, vq>>
console == <<con_in, order, overrun, left>>
file == <<disk, blk, ops, may>>
vars ==
  <<id, use_eventfd, regs, todo, probes, posted, notified, srv, console, file>>

Queues == IF id = "console" THEN {0, 1} ELSE {0}
Sectors == 0..((FileSize + 1) \div 2 - 1)

\* virtio-mmio and the core of a Linux driver: one step per register access.
SetUp(q) ==
  <<<<"sel", q>>, <<"unused", q>>, <<"num", q>>, <<"low", q>>, <<"high", q>>,
    <<"ready", q>>>>
BringUp ==
  <<<<"reset", 0>>, <<"features_ok", 0>>, <<"confirm", 0>>>>
  \o SetUp(0) \o (IF id = "console" THEN SetUp(1) ELSE <<>>) \o <<<<"driver_ok", 0>>>>

EmptyFifo == [buf |-> [i \in 0..(CON_IN_SZ - 1) |-> 0], head |-> 0, tail |-> 0]
NoBlk == [lens |-> <<>>, i |-> 0, off |-> 0, data |-> <<>>, status |-> "ok",
          short |-> FALSE]

Init ==
  /\ id \in {"console", "blk"} /\ use_eventfd \in BOOLEAN
  /\ status = {} /\ queue_sel = 0
  /\ vq = [q \in 0..1 |-> [num |-> 0, low |-> <<>>, high |-> <<>>, ready |-> FALSE]]
  /\ todo = BringUp /\ probes = 1
  /\ posted = [q \in 0..1 |-> <<>>]
  /\ notified = {} /\ srv = <<>>
  /\ con_in = EmptyFifo
  /\ order = TRUE /\ overrun = FALSE /\ left = 0
  /\ disk = [s \in Sectors |-> 0] /\ blk = NoBlk /\ ops = 0
  /\ may = [s \in Sectors |-> {0}]

\* Without -e the guest stands still while its exit is handled.
GuestRuns == use_eventfd \/ srv = <<>>
Ready == todo = <<>> /\ GuestRuns

-----------------------------------------------------------------------------
(* The registers.                                                          *)

\* virtio_reset()
ResetQueues_ready == vq
ResetQueues ==
  [q \in DOMAIN vq |-> IF q \in Queues THEN [vq[q] EXCEPT !.ready = FALSE] ELSE vq[q]]

\* What the driver gives as the address of q's rings.
Rings(q) == <<q, probes>>

\* virtio_mmio_write() and virtio_mmio_read().  A driver that finds the queue in
\* use, or FEATURES_OK not kept, gives up.
Access(step, q) ==
  /\ status' = CASE step = "reset" -> {}
                 [] step \in {"features_ok", "driver_ok"} -> status \cup {step}
                 [] OTHER -> status
  /\ queue_sel' = IF step = "sel" THEN q ELSE queue_sel
  /\ vq' = CASE step = "reset" -> ResetQueues
             [] step = "num" -> [vq EXCEPT ![queue_sel].num = Num]
             [] step \in {"low", "high"} -> [vq EXCEPT ![queue_sel][step] = Rings(q)]
             [] step = "ready" -> [vq EXCEPT ![queue_sel].ready = TRUE]
             [] OTHER -> vq
GivesUp(step) ==
  \/ step = "unused" /\ vq[queue_sel].ready
  \/ step = "confirm" /\ "features_ok" \notin status

Failed == <<<<"failed", 0>>>>

Probe ==
  /\ todo \notin {<<>>, Failed} /\ GuestRuns
  /\ Access(Head(todo)[1], Head(todo)[2])
  /\ todo' = IF GivesUp(Head(todo)[1]) THEN Failed ELSE Tail(todo)
  /\ UNCHANGED <<id, use_eventfd, probes, posted, notified, srv, console, file>>

\* Another driver takes the device over while it is idle, with memory of its own.
Rebind ==
  /\ Ready /\ srv = <<>> /\ notified = {} /\ probes < MaxProbes
  /\ probes' = probes + 1
  /\ todo' = BringUp
  /\ posted' = [q \in 0..1 |-> <<>>]
  /\ UNCHANGED <<id, use_eventfd, regs, notified, srv, console, file>>

-----------------------------------------------------------------------------
(* Chains.                                                                 *)

\* gpa2hva(): the sum may wrap.
InMemory(addr, len) == (addr + len) % Wrap \in addr..MemSize

Bad == <<>>

\* gather_chain(): the lengths of the segments, or Bad: an index out of the table,
\* a segment out of memory, or more than Num + 1 descriptors.
Follow(table, w) ==
  LET d == table[w.idx]
  IN IF ~w.more \/ w.bad THEN w
     ELSE IF w.idx \notin 0..(Num - 1) \/ ~InMemory(d.addr, d.len)
     THEN [w EXCEPT !.bad = TRUE]
     ELSE [w EXCEPT !.idx = d.next, !.more = d.more,
            !.segs = Append(@, d.len)]
Walk(head, table) ==
  LET walk[k \in 0..(Num + 1)] ==
        IF k = 0 THEN [idx |-> head, segs |-> <<>>, more |-> TRUE, bad |-> FALSE]
        ELSE Follow(table, walk[k - 1])
  IN walk
Lengths(c) ==
  LET end == Walk(c.head, c.table)[Num + 1]
  IN IF end.more \/ end.bad THEN Bad ELSE end.segs

\* The array has room for MaxSegs; the rest of the chain is left out in silence.
Gather(c) == SubSeq(Lengths(c), 1, Min({MaxSegs, Len(Lengths(c))}))
LeftOut(c) == SubSeq(Lengths(c), MaxSegs + 1, Len(Lengths(c)))

\* The lengths of the first k segments, for every k, and of all.
Sums(segs) ==
  LET sum[k \in 0..Len(segs)] == IF k = 0 THEN 0 ELSE sum[k - 1] + segs[k]
  IN sum
Total(segs) == Sums(segs)[Len(segs)]

\* service_vq() starts where the queue is ready and its rings are in memory; it
\* serves what the avail index counts now.
Callable(q) ==
  vq[q].ready /\ vq[q].num = Num /\ vq[q].low = Rings(q) /\ vq[q].high = Rings(q)
Call(q, waiting, stack) ==
  IF Callable(q) THEN Append(stack, <<q, Len(waiting)>>) ELSE stack

\* The driver adds a chain and writes QUEUE_NOTIFY.  KVM_IOEVENTFD makes that an
\* eventfd; without -e it exits through handle_virtio_mmio() into service_vq().
Post(q, c) ==
  /\ Ready /\ Len(posted[q]) < MaxPosted
  /\ posted' = [posted EXCEPT ![q] = Append(@, c)]
  /\ IF use_eventfd THEN notified' = notified \cup {q} /\ UNCHANGED srv
     ELSE srv' = Call(q, posted'[q], <<>>) /\ UNCHANGED notified
  /\ UNCHANGED <<id, use_eventfd, regs, todo, probes, console, disk, blk, may>>

\* virtio_worker(): one queue after the other, and the eventfd is read first.
Worker(q) ==
  /\ use_eventfd /\ q \in notified /\ srv = <<>>
  /\ notified' = notified \ {q}
  /\ srv' = Call(q, posted[q], <<>>)
  /\ UNCHANGED <<id, use_eventfd, regs, todo, probes, posted, console, file>>

Queue == Last(srv)[1]
Remaining == Last(srv)[2]
Chain == Head(posted[Queue])

\* dev_can_consume()
Input == con_in.head - con_in.tail
CanConsume == id = "console" /\ Queue = 0 => Input > 0

Return ==
  /\ srv # <<>> /\ (Remaining = 0 \/ ~CanConsume)
  /\ srv' = Front(srv)
  /\ UNCHANGED <<id, use_eventfd, regs, todo, probes, posted, notified, console,
                 file>>

\* The next chain goes to the device; last_avail_idx moves past it.
Serving == srv # <<>> /\ Remaining > 0 /\ CanConsume /\ blk = NoBlk
Taken == [srv EXCEPT ![Len(srv)][2] = @ - 1]
Take ==
  /\ posted' = [posted EXCEPT ![Queue] = Tail(@)]
  /\ UNCHANGED <<id, use_eventfd, regs, todo, probes, notified>>

\* A malformed chain is not returned; a request without a status byte is, as it is.
Skip ==
  /\ Serving
  /\ Gather(Chain) = Bad \/ (id = "blk" /\ Len(Gather(Chain)) < 2)
  /\ Take /\ srv' = Taken
  /\ UNCHANGED <<console, file>>

-----------------------------------------------------------------------------
(* The console.                                                            *)

\* Room for input is queue 0, bytes to print are queue 1.
PostConsole(q, c) ==
  /\ id = "console" /\ Post(q, c)
  /\ q = 1 => ops < MaxOps
  /\ ops' = ops + q

\* con_in_push(): the n-th byte pushed goes to slot n % CON_IN_SZ; bytes that were
\* left out before put it further on in the stream.
Push(n) ==
  LET to == con_in.head + n
      Newest(i) == {j \in con_in.head..(to - 1) : j % CON_IN_SZ = i}
  IN [con_in EXCEPT !.head = to,
        !.buf = [i \in DOMAIN @ |->
                   IF Newest(i) = {} THEN @[i] ELSE Max(Newest(i)) + 1 + left]]

\* console_handle(), transmit: the echo goes at once into the buffers that wait.
NestedService_none(stack) == stack
NestedService(stack) == Call(0, posted[0], stack)

Transmit ==
  /\ Serving /\ id = "console" /\ Queue = 1 /\ Gather(Chain) # Bad
  /\ con_in' = Push(Total(Gather(Chain)))
  /\ overrun' = (overrun \/ con_in'.head - con_in'.tail > CON_IN_SZ)
  /\ left' = left + Total(LeftOut(Chain))
  /\ Take /\ srv' = NestedService(Taken)
  /\ UNCHANGED <<order, file>>

\* con_in_pop()
PopSlot_fixed(i) == i % CON_IN_SZ
PopSlot(i) == (con_in.tail + i) % CON_IN_SZ

\* console_handle(), receive: as many bytes as there are and as fit.
Receive ==
  /\ Serving /\ id = "console" /\ Queue = 0 /\ Gather(Chain) # Bad
  /\ LET n == Min({Total(Gather(Chain)), Input}) IN
     /\ con_in' = [con_in EXCEPT !.tail = @ + n]
     /\ order' = (order /\ \A i \in 0..(n - 1) :
                               con_in.buf[PopSlot(i)] = con_in.tail + i + 1)
  /\ Take /\ srv' = Taken
  /\ UNCHANGED <<overrun, left, file>>

-----------------------------------------------------------------------------
(* The disk.                                                               *)

\* blk_open(): the capacity in the configuration space counts whole sectors.
Capacity_up == (FileSize + 1) \div 2
Capacity == FileSize \div 2

Data(lens) == Total(SubSeq(lens, 2, Len(lens) - 1))
Extent(c) == c.sector..(c.sector + Data(Gather(c)) - 1)

\* The driver stays within the capacity that it has read, by what is gathered.
PostRequest(c, type, sector) ==
  /\ id = "blk" /\ ops < MaxOps /\ ops' = ops + 1
  /\ Gather(c) # Bad => sector + Data(Gather(c)) <= Capacity
  /\ Post(0, [head |-> c.head, table |-> c.table, type |-> type, sector |-> sector,
              tag |-> ops + 1])

\* blk_handle(): the first segment is the header, the last one the status.
BlkStart ==
  /\ Serving /\ id = "blk" /\ Gather(Chain) # Bad
  /\ LET lens == Gather(Chain) IN
     /\ Len(lens) >= 2
     /\ blk' = [lens |-> lens, off |-> 2 * Chain.sector, data |-> <<>>,
                i |-> IF Chain.type \in {"in", "out"} THEN 2 ELSE Len(lens),
                short |-> FALSE,
                status |-> IF Chain.type \in {"in", "out", "flush"} THEN "ok"
                           ELSE "unsupp"]
  /\ may' = [s \in Sectors |-> IF Chain.type = "out" /\ s \in Extent(Chain)
                               THEN may[s] \cup {Chain.tag} ELSE may[s]]
  /\ UNCHANGED <<id, use_eventfd, regs, todo, probes, posted, notified, srv, console,
                 disk, ops>>

\* pread() is short at the end of the file only, pwrite() (of whole sectors) where
\* the host's disk is full.
Transfers(len) ==
  IF Chain.type = "in" THEN {Min({len, Max({0, FileSize - blk.off})})}
  ELSE {r \in 0..len : r % 2 = 0}

\* One data segment: pread() or pwrite() at the running offset, or its failure.
BlkSegment ==
  /\ blk # NoBlk /\ blk.i < Len(blk.lens)
  /\ LET len == 2 * blk.lens[blk.i]
         first == blk.off \div 2
         out == Chain.type = "out"
     IN \/ /\ blk' = [blk EXCEPT !.status = "ioerr", !.i = Len(blk.lens)]
           /\ UNCHANGED disk
        \/ \E n \in Transfers(len) :
             /\ blk' = [blk EXCEPT
                  !.off = @ + n,
                  !.data = IF out THEN @
                           ELSE @ \o [k \in 1..(n \div 2) |-> disk[first + k - 1]],
                  !.short = @ \/ (out /\ n < len),
                  !.i = IF n < len THEN Len(blk.lens) ELSE @ + 1]
             /\ disk' = [s \in Sectors |-> IF out /\ s \in first..(first + n \div 2 - 1)
                                           THEN Chain.tag ELSE disk[s]]
  /\ UNCHANGED <<id, use_eventfd, regs, todo, probes, posted, notified, srv, console,
                 ops, may>>

Done == blk # NoBlk /\ blk.i = Len(blk.lens)
Whole == blk.status = "ok" /\ ~blk.short

BlkDone ==
  /\ Done /\ blk' = NoBlk
  /\ may' = [s \in Sectors |->
               IF Whole /\ Chain.type = "out" /\ s \in Extent(Chain)
               THEN {Chain.tag} ELSE may[s]]
  /\ Take /\ srv' = Taken
  /\ UNCHANGED <<console, disk, ops>>

Next ==
  \/ Probe \/ Rebind
  \/ \E q \in {0, 1} : Worker(q) \/ \E c \in Chains["console"] : PostConsole(q, c)
  \/ \E c \in Chains["blk"], t \in {"in", "out", "flush", "other"}, s \in Sectors :
       PostRequest(c, t, s)
  \/ Return \/ Skip \/ Transmit \/ Receive
  \/ BlkStart \/ BlkSegment \/ BlkDone

Spec == Init /\ [][Next]_vars

-----------------------------------------------------------------------------
(* Properties.                                                             *)

\* A driver that brings the device up in the order of the specification never
\* has to give up, however often another one did so before, and what it wrote to
\* the queue registers is what the device uses.
BringUpSucceeds == todo # Failed /\ (todo = <<>> => \A q \in Queues : Callable(q))

\* The echo has the bytes in the order they were sent, none lost or repeated,
\* across drivers too, as long as the FIFO was never asked to hold more than its
\* size and no byte was in a segment beyond MaxSegs.
EchoInOrder == ~overrun /\ left = 0 => order

\* Input and a buffer for it are never both left waiting: when nothing is being
\* served and no notification is pending, one of the two is used up.
EchoNotStuck ==
  id = "console" /\ todo = <<>> /\ srv = <<>> /\ notified = {} =>
    Input = 0 \/ posted[0] = <<>>

\* VIRTIO_BLK_S_OK is the truth, for every request within the capacity that the
\* device announces and of at most MaxSegs segments: a read has filled all of its
\* data segments with what was written last, a write is all in the file unless a
\* pwrite() was short, which blk_handle() reports as OK too.
StatusIsTrue ==
  Done /\ blk.status = "ok" /\ LeftOut(Chain) = <<>> =>
    LET sectors == Data(Lengths(Chain))
    IN /\ Chain.type = "in" => /\ Len(blk.data) = sectors
                               /\ \A k \in 1..sectors :
                                    blk.data[k] \in may[Chain.sector + k - 1]
       /\ Chain.type = "out" /\ ~blk.short =>
            \A s \in Chain.sector..(Chain.sector + sectors - 1) : disk[s] = Chain.tag
=============================================================================
