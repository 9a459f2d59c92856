---------------------------- MODULE VirtioQueue ----------------------------
(***************************************************************************)
(* One virtqueue of a virtio-mmio device of minivmm with the guest driver  *)
(* that uses it (phase9-capstone/practice/minivmm.c, virtio-mmio section). *)
(*                                                                         *)
(* Without -e (use_eventfd = FALSE) the vCPU thread runs service_vq() inside*)
(* the exit of the guest's QUEUE_NOTIFY write.  With -e, KVM turns that    *)
(* write into an eventfd and a worker thread runs service_vq() while the   *)
(* vCPU thread goes on executing the guest and the other registers; no     *)
(* lock orders the two.  The driver is Linux's virtio_mmio, which is not   *)
(* part of the repository: a buffer is published with its avail index, and *)
(* the interrupt handler reads INTERRUPT_STATUS, acknowledges what it read *)
(* and then walks the used ring.                                           *)
(***************************************************************************)
EXTENDS Naturals, Sequences

CONSTANTS
  Num,         \* size of the queue
  IdxMod,      \* the ring indices count modulo this (2^16)
  MaxReq,      \* bound: requests the driver submits
  MaxCut,      \* bound: the same, once a reset has cut a service short
  MaxResets    \* bound: device resets by the driver

ASSUME SizesOK ==
  /\ Num \in Nat \ {0} /\ IdxMod \in Nat /\ IdxMod % Num = 0 /\ IdxMod > Num
  /\ MaxReq \in Nat /\ MaxCut \in Nat /\ MaxResets \in Nat

VARIABLES
  use_eventfd,                           \* -e, fixed at the start
  desc, avail, availIdx, used, usedIdx,  \* the rings, in guest memory
  ready, last, int_status,               \* vq->ready, last_avail_idx, int_status
  notify, line, irr,                     \* eventfd, IRQ line, latched interrupt
  pc, idx, at, head, did,                \* the thread in service_vq(), and the
                                         \* initialisation whose avail ring it uses
  gpc, free, lastUsed, status, loaded,   \* the driver, and its exits
  submitted, epoch,                      \* requests and device initialisations
  handled, returned,                     \* history: requests served, reaped
  cut                                    \* history: a reset cut a service short

rings  == <<desc, avail, availIdx, used, usedIdx>>
dev    == <<ready, last, int_status>>
kvm    == <<notify, line, irr>>
server == <<pc, idx, at, head, did>>
driver == <<gpc, free, lastUsed, status, loaded, submitted, epoch>>
vars   == <<use_eventfd, rings, dev, kvm, server, driver, handled, returned, cut>>

Slots == 0..(Num - 1)
Idx == 0..(IdxMod - 1)
Plus(i) == (i + 1) % IdxMod
Requests == 1..MaxReq

TypeOK ==
  /\ use_eventfd \in BOOLEAN
  /\ desc \in [Slots -> 0..MaxReq]
  /\ avail \in [Slots -> Slots] /\ used \in [Slots -> Slots]
  /\ availIdx \in Idx /\ usedIdx \in Idx /\ last \in Idx /\ idx \in Idx
  /\ lastUsed \in Idx
  /\ ready \in BOOLEAN /\ int_status \in BOOLEAN
  /\ notify \in BOOLEAN /\ line \in BOOLEAN /\ irr \in BOOLEAN
  /\ pc \in {"wait", "snap", "loop", "handle", "elem", "publish", "advance",
             "raise", "signal"}
  /\ gpc \in {"idle", "kick", "isr", "ack", "store", "reap", "reset"}
  /\ head \in Slots /\ did \in BOOLEAN /\ free \in SUBSET Slots
  /\ status \in BOOLEAN /\ loaded \in BOOLEAN
  /\ submitted \in 0..MaxReq
  /\ epoch \in 0..MaxResets
  /\ at \in 0..MaxResets /\ cut \in BOOLEAN
  /\ handled \in Seq(Requests) /\ returned \in Seq(0..MaxReq)

EmptyRing == [s \in Slots |-> 0]

Init ==
  /\ use_eventfd \in BOOLEAN
  /\ desc = EmptyRing /\ avail = EmptyRing /\ availIdx = 0
  /\ used = EmptyRing /\ usedIdx = 0
  /\ ready = TRUE /\ last = 0 /\ int_status = FALSE
  /\ notify = FALSE /\ line = FALSE /\ irr = FALSE
  /\ pc = "wait" /\ idx = 0 /\ at = 0 /\ head = 0 /\ did = FALSE
  /\ gpc = "idle" /\ free = Slots /\ lastUsed = 0
  /\ status = FALSE /\ loaded = FALSE /\ submitted = 0 /\ epoch = 0
  /\ handled = <<>> /\ returned = <<>> /\ cut = FALSE

-----------------------------------------------------------------------------
(* service_vq().                                                           *)

\* virtio_worker(): the eventfd is read before the queue is looked at.
WorkerWake ==
  /\ use_eventfd /\ pc = "wait" /\ notify
  /\ notify' = FALSE
  /\ pc' = "snap"
  /\ UNCHANGED <<rings, dev, line, irr, idx, at, head, did, driver,
                 handled, returned>>

\* A queue that is not ready is left alone; else the avail ring is located and
\* avail->idx read, both once.
Snapshot ==
  /\ pc = "snap"
  /\ IF ready THEN pc' = "loop" /\ idx' = availIdx /\ at' = epoch
              ELSE pc' = "wait" /\ UNCHANGED <<idx, at>>
  /\ did' = FALSE
  /\ UNCHANGED <<rings, dev, kvm, head, driver, handled, returned>>

\* The ring that was located holds anything once the driver has set the queue up
\* elsewhere; the other two rings are located anew for every chain.
Located(h) == IF at = epoch THEN {h} ELSE Slots

Take_newest ==
  /\ pc = "loop" /\ last # idx
  /\ head' \in Located(avail[(idx + IdxMod - 1) % Num])
  /\ pc' = "handle"
  /\ UNCHANGED <<rings, dev, kvm, idx, at, did, driver, handled, returned>>
Take ==
  /\ pc = "loop" /\ last # idx
  /\ head' \in Located(avail[last % Num])
  /\ pc' = "handle"
  /\ UNCHANGED <<rings, dev, kvm, idx, at, did, driver, handled, returned>>

\* gather_chain() and dev_handle(): a chain that is not one is skipped.
Handle ==
  /\ pc = "handle"
  /\ IF desc[head] \in Requests
     THEN handled' = Append(handled, desc[head]) /\ pc' = "elem"
     ELSE pc' = "advance" /\ UNCHANGED handled
  /\ UNCHANGED <<rings, dev, kvm, idx, at, head, did, driver, returned>>

UsedSlot == usedIdx % Num

\* push_used(): the element first, ...
UsedElement ==
  /\ pc = "elem"
  /\ used' = [used EXCEPT ![UsedSlot] = head]
  /\ pc' = "publish"
  /\ UNCHANGED <<desc, avail, availIdx, usedIdx, dev, kvm, idx, at, head, did, driver,
                 handled, returned>>

\* ... then, behind a barrier, the index.
UsedIndex ==
  /\ pc = "publish"
  /\ usedIdx' = Plus(usedIdx)
  /\ did' = TRUE
  /\ pc' = "advance"
  /\ UNCHANGED <<desc, avail, availIdx, used, dev, kvm, idx, at, head,
                 driver, handled, returned>>

Advance ==
  /\ pc = "advance"
  /\ last' = Plus(last)
  /\ pc' = "loop"
  /\ UNCHANGED <<rings, ready, int_status, kvm, idx, at, head, did,
                 driver, handled, returned>>

\* The locals of service_vq() are no more; the test of did is its last use.
Return == idx' = 0 /\ at' = 0 /\ head' = 0 /\ did' = FALSE

Finish_reading_late ==
  /\ pc = "loop" /\ last = idx
  /\ pc' = IF did THEN "raise" ELSE "wait"
  /\ notify' = FALSE /\ Return
  /\ UNCHANGED <<rings, dev, line, irr, driver, handled, returned>>
Finish ==
  /\ pc = "loop" /\ last = idx
  /\ pc' = IF did THEN "raise" ELSE "wait"
  /\ Return
  /\ UNCHANGED <<rings, dev, kvm, driver, handled, returned>>

\* virtio_raise_irq(): int_status first, ...
RaiseStatus ==
  /\ pc = "raise"
  /\ int_status' = TRUE
  /\ pc' = "signal"
  /\ UNCHANGED <<rings, ready, last, kvm, idx, at, head, did, driver,
                 handled, returned>>

\* ... then the irqfd, which pulses the edge-triggered pin, or the line.
RaiseSignal ==
  /\ pc = "signal"
  /\ IF use_eventfd
     THEN irr' = TRUE /\ UNCHANGED line
     ELSE line' = TRUE /\ irr' = (irr \/ ~line)
  /\ pc' = "wait"
  /\ UNCHANGED <<rings, dev, notify, idx, at, head, did, driver,
                 handled, returned>>

Service ==
  /\ \/ WorkerWake \/ Snapshot \/ Take \/ Handle \/ UsedElement \/ UsedIndex
     \/ Advance \/ Finish \/ RaiseStatus \/ RaiseSignal
  /\ UNCHANGED <<use_eventfd, cut>>

-----------------------------------------------------------------------------
(* The guest and the exits its vCPU thread handles.                        *)

\* Without -e the virtual CPU stands still while its exit is handled.
GuestRuns == use_eventfd \/ pc = "wait"

Submit ==
  /\ GuestRuns /\ gpc = "idle" /\ submitted < MaxReq
  /\ cut => submitted < MaxCut
  /\ \E h \in free :
       /\ desc' = [desc EXCEPT ![h] = submitted + 1]
       /\ avail' = [avail EXCEPT ![availIdx % Num] = h]
       /\ free' = free \ {h}
  /\ availIdx' = Plus(availIdx)
  /\ submitted' = submitted + 1
  /\ gpc' = "kick"
  /\ UNCHANGED <<used, usedIdx, dev, kvm, server, lastUsed, status, loaded,
                 epoch, handled, returned>>

\* QUEUE_NOTIFY
Kick ==
  /\ GuestRuns /\ gpc = "kick"
  /\ IF use_eventfd THEN notify' = TRUE /\ UNCHANGED pc
                   ELSE pc' = "snap" /\ UNCHANGED notify
  /\ gpc' = "idle"
  /\ UNCHANGED <<rings, dev, line, irr, idx, at, head, did, free, lastUsed,
                 status, loaded, submitted, epoch, handled, returned>>

Interrupt ==
  /\ GuestRuns /\ gpc = "idle" /\ irr
  /\ irr' = FALSE
  /\ gpc' = "isr"
  /\ UNCHANGED <<rings, dev, notify, line, server, free, lastUsed, status, loaded,
                 submitted, epoch, handled, returned>>

\* INTERRUPT_STATUS
ReadStatus ==
  /\ GuestRuns /\ gpc = "isr"
  /\ status' = int_status
  /\ gpc' = "ack"
  /\ UNCHANGED <<rings, dev, kvm, server, free, lastUsed, loaded, submitted,
                 epoch, handled, returned>>

\* INTERRUPT_ACK: int_status &= ~val is a load and a store.
AckLoad ==
  /\ GuestRuns /\ gpc = "ack"
  /\ loaded' = int_status
  /\ gpc' = "store"
  /\ UNCHANGED <<rings, dev, kvm, server, free, lastUsed, status, submitted,
                 epoch, handled, returned>>

\* virtio_lower_irq() lowers the line when nothing is left.
Lower(left) == line' = (line /\ (use_eventfd \/ left))

AckStore ==
  /\ GuestRuns /\ gpc = "store"
  /\ int_status' = (loaded /\ ~status)
  /\ Lower(loaded /\ ~status)
  /\ gpc' = IF status THEN "reap" ELSE "idle"
  /\ UNCHANGED <<rings, ready, last, notify, irr, server, free, lastUsed, status,
                 loaded, submitted, epoch, handled, returned>>

Reap ==
  /\ GuestRuns /\ gpc = "reap" /\ lastUsed # usedIdx
  /\ LET h == used[lastUsed % Num] IN
       /\ returned' = Append(returned, desc[h])
       /\ free' = free \cup {h}
  /\ lastUsed' = Plus(lastUsed)
  /\ UNCHANGED <<rings, dev, kvm, server, gpc, status, loaded, submitted, epoch,
                 handled>>

ReapDone ==
  /\ GuestRuns /\ gpc = "reap" /\ lastUsed = usedIdx
  /\ gpc' = "idle"
  /\ UNCHANGED <<rings, dev, kvm, server, free, lastUsed, status, loaded,
                 submitted, epoch, handled, returned>>

\* service_vq() between locating the avail ring and the last chain.
Serving == {"loop", "handle", "elem", "publish", "advance"}

\* STATUS = 0: virtio_reset(), which does not wait for the worker.
ResetCursor_kept == last
ResetCursor == 0

Reset ==
  /\ GuestRuns /\ gpc = "idle" /\ epoch < MaxResets
  /\ int_status' = FALSE /\ line' = FALSE
  /\ ready' = FALSE /\ last' = ResetCursor
  /\ gpc' = "reset"
  /\ cut' = (cut \/ pc \in Serving)
  /\ UNCHANGED <<rings, notify, irr, server, free, lastUsed, status, loaded,
                 submitted, epoch, handled, returned>>

\* The driver sets the queue up again in fresh memory; what was in flight is
\* given up.
Setup ==
  /\ GuestRuns /\ gpc = "reset"
  /\ desc' = EmptyRing /\ avail' = EmptyRing /\ availIdx' = 0
  /\ used' = EmptyRing /\ usedIdx' = 0
  /\ ready' = TRUE
  /\ free' = Slots /\ lastUsed' = 0
  /\ epoch' = epoch + 1
  /\ gpc' = "idle"
  /\ UNCHANGED <<last, int_status, kvm, server, status, loaded, submitted,
                 handled, returned>>

\* What the driver finishes once it has begun, and what it may begin.
Proceed ==
  /\ \/ Kick \/ Interrupt \/ ReadStatus \/ AckLoad \/ AckStore \/ Reap \/ ReapDone
     \/ Setup
  /\ UNCHANGED <<use_eventfd, cut>>
Begin ==
  /\ \/ Submit /\ UNCHANGED cut
     \/ Reset
  /\ UNCHANGED use_eventfd

Next == Service \/ Proceed \/ Begin

Spec == Init /\ [][Next]_vars

\* The worker and the virtual CPU run; the guest need not submit or reset.
Fairness == WF_vars(Service) /\ WF_vars(Proceed)

FairSpec == Spec /\ Fairness
-----------------------------------------------------------------------------
(* Properties.                                                             *)

Increasing(s) == \A i, j \in 1..Len(s) : i < j => s[i] < s[j]

\* The device serves every request at most once, in the order of submission;
\* the driver gets back, in that order, only what was served.  Resets do not
\* disturb it, wherever they fall, except one that cuts a service short: the
\* worker goes on with the cursor at zero and an avail ring that is gone.
ServedOnceInOrder == ~cut =>
  /\ Increasing(handled) /\ Increasing(returned)
  /\ \A i \in 1..Len(returned) : \E j \in 1..Len(handled) : returned[i] = handled[j]

\* The three free-running indices stay consistent across the wrap of the
\* 16-bit counters: every chain the device consumed is on the used ring, the
\* driver reaped no more than the device returned, the device returned no more
\* than was submitted, and no more than a queue of chains is outstanding.  Again
\* a reset keeps this unless it cuts a service short.
Distance(from, to) == (to + IdxMod - from) % IdxMod
CursorsInOrder ==
  ~cut /\ gpc # "reset" =>
    /\ usedIdx = IF pc = "advance" THEN Plus(last) ELSE last
    /\ Distance(lastUsed, usedIdx) <= Distance(lastUsed, availIdx)
    /\ Distance(lastUsed, availIdx) <= Num

\* What is submitted reaches the given history, unless the driver resets the
\* device.
Arrives(r, history) ==
  epoch > 0 \/ gpc = "reset" \/ r \in {history[i] : i \in 1..Len(history)}

\* Every request is served, and without -e it comes back to the driver.
Served == \A r \in Requests :
  submitted >= r ~> Arrives(r, handled) /\ (use_eventfd \/ Arrives(r, returned))

\* With -e too every request comes back to the driver.
Completed == \A r \in Requests : submitted >= r ~> Arrives(r, returned)
=============================================================================
