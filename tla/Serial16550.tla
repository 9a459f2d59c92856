---------------------------- MODULE Serial16550 ----------------------------
(***************************************************************************)
(* The 16550A serial port of minivmm                                       *)
(* (phase9-capstone/practice/minivmm.c, 16550A section): the input thread  *)
(* moves stdin into the receive ring, the vCPU thread executes the guest's *)
(* register accesses, and serial.lock orders the two.                      *)
(*                                                                         *)
(* The record "serial" is struct serial_state.  No code sets the PE, FE or *)
(* BI bits of LSR or a delta bit of MSR, and THRE and TEMT are set again   *)
(* before the lock is released, so these bits have no field.  IIR's        *)
(* FIFO_ENABLED bit always equals the enable bit of FCR.  The divisor and  *)
(* the scratch register store what the guest writes.                       *)
(***************************************************************************)
EXTENDS Naturals, Sequences

CONSTANTS
  RxSize,     \* SER_RX_SZ
  BatchMax,   \* size of the input thread's buffer
  MaxBytes    \* bound: bytes that arrive on stdin

ASSUME SizesOK == /\ RxSize \in Nat \ {0} /\ BatchMax \in Nat \ {0}
                  /\ MaxBytes \in Nat

VARIABLES
  serial,     \* struct serial_state, and KVM's side of the IRQ line
  held,       \* the input thread holds serial.lock
  buf,        \* bytes read from stdin and not yet handed to the port
  taken,      \* number of bytes read from stdin
  unreported, \* a byte was dropped since the guest last read LSR
  last        \* the byte of stdin that the guest read last

inputVars == <<held, buf, taken>>
vars == <<serial, inputVars, unreported, last>>

\* Bytes are numbered as they arrive on stdin; 0 is a byte the guest sent.
Byte == 0..MaxBytes
Sources == {"RLSI", "RDI", "THRI"}
Capacity == RxSize - 1

SerialState ==
  [ier : SUBSET Sources, fifo : BOOLEAN, dlab : BOOLEAN, loop : BOOLEAN,
   rx : Seq(Byte), dr : BOOLEAN, oe : BOOLEAN, thr_ipending : BOOLEAN,
   iir : Sources \cup {"NO_INT"}, irq_level : BOOLEAN,
   line : BOOLEAN, irr : BOOLEAN]

TypeOK ==
  /\ serial \in SerialState /\ Len(serial.rx) <= Capacity
  /\ held \in BOOLEAN
  /\ buf \in Seq(Byte)
  /\ taken \in 0..MaxBytes
  /\ unreported \in BOOLEAN
  /\ last \in Byte

Init ==
  /\ serial = [ier |-> {}, fifo |-> FALSE, dlab |-> FALSE, loop |-> FALSE,
               rx |-> <<>>, dr |-> FALSE, oe |-> FALSE,
               thr_ipending |-> FALSE, iir |-> "NO_INT",
               irq_level |-> FALSE, line |-> FALSE, irr |-> FALSE]
  /\ held = FALSE /\ buf = <<>> /\ taken = 0 /\ unreported = FALSE /\ last = 0

-----------------------------------------------------------------------------
(* The interrupt line.                                                     *)

\* KVM_IRQ_LINE on an edge-triggered pin: a rising edge latches a request.
KvmIrqLine(s, level) ==
  [s EXCEPT !.line = level, !.irr = s.irr \/ (level /\ ~s.line)]

\* The conditions that are present, whether or not IER enables them.
Conditions(s) ==
  {i \in Sources : \/ i = "RLSI" /\ s.oe
                   \/ i = "RDI" /\ s.dr
                   \/ i = "THRI" /\ s.thr_ipending}

Highest(on) ==
  CASE "RLSI" \in on -> "RLSI"
    [] "RLSI" \notin on /\ "RDI" \in on -> "RDI"
    [] on = {"THRI"} -> "THRI"
    [] OTHER -> "NO_INT"

\* serial_update_irq_locked(): the line is driven only when it changes.
UpdateIrq(s) ==
  LET id    == Highest(s.ier \cap Conditions(s))
      level == id # "NO_INT"
      t     == [s EXCEPT !.iir = id, !.irq_level = level]
  IN  IF level = s.irq_level THEN t ELSE KvmIrqLine(t, level)

-----------------------------------------------------------------------------
(* The receive side.                                                       *)

Full_early(s) == Len(s.rx) + 1 >= Capacity
Full(s) == Len(s.rx) >= Capacity

\* serial_recv_locked(): a full ring drops the new byte.
Recv(s, c) ==
  UpdateIrq(IF Full(s)
            THEN [s EXCEPT !.oe = TRUE]
            ELSE [s EXCEPT !.rx = Append(s.rx, c), !.dr = TRUE])

\* read(STDIN_FILENO) returns up to BatchMax bytes.
InputRead ==
  /\ ~held /\ buf = <<>>
  /\ \E n \in 1..BatchMax :
       /\ taken + n <= MaxBytes
       /\ buf' = [i \in 1..n |-> taken + i]
       /\ taken' = taken + n
  /\ UNCHANGED <<serial, held, unreported, last>>

InputLock ==
  /\ ~held /\ buf # <<>>
  /\ held' = TRUE
  /\ UNCHANGED <<serial, buf, taken, unreported, last>>

InputRecv ==
  /\ held /\ buf # <<>>
  /\ serial' = Recv(serial, Head(buf))
  /\ unreported' = (unreported \/ Full(serial))
  /\ buf' = Tail(buf)
  /\ UNCHANGED <<held, taken, last>>

InputUnlock ==
  /\ held /\ buf = <<>>
  /\ held' = FALSE
  /\ UNCHANGED <<serial, buf, taken, unreported, last>>

InputThread == InputRead \/ InputLock \/ InputRecv \/ InputUnlock

-----------------------------------------------------------------------------
(* serial_write_reg(), under the lock.                                     *)

\* THR: sent at once, to the console or, in loopback, to the receive ring;
\* the THRI latch falls and rises again.
Transmit_unlatched(s) ==
  UpdateIrq(IF s.loop THEN Recv([s EXCEPT !.thr_ipending = FALSE], 0)
                      ELSE [s EXCEPT !.thr_ipending = FALSE])
Transmit(s) ==
  LET t == [s EXCEPT !.thr_ipending = FALSE]
      u == IF s.loop THEN Recv(t, 0) ELSE t
  IN  UpdateIrq([u EXCEPT !.thr_ipending = TRUE])

WriteThr ==
  /\ ~held /\ ~serial.dlab
  /\ serial' = Transmit(serial)
  /\ unreported' = (unreported \/ (serial.loop /\ Full(serial)))
  /\ UNCHANGED <<inputVars, last>>

\* IER: enabling THRI while the transmitter is empty raises it.
SetIer(s, enable) ==
  UpdateIrq([s EXCEPT !.ier = enable,
                      !.thr_ipending = s.thr_ipending \/ "THRI" \in enable])

WriteIer(enable) ==
  /\ ~held /\ ~serial.dlab
  /\ serial' = SetIer(serial, enable)
  /\ UNCHANGED <<inputVars, unreported, last>>

\* FCR: switching the FIFO on or off clears both directions.
ClearRcvr(s) == [s EXCEPT !.rx = <<>>, !.dr = FALSE]

SetFcr(s, enable, rcvr, xmit) ==
  LET toggled == enable # s.fifo
      t == IF rcvr \/ toggled THEN ClearRcvr(s) ELSE s
      u == IF xmit \/ toggled THEN [t EXCEPT !.thr_ipending = TRUE] ELSE t
  IN  UpdateIrq([u EXCEPT !.fifo = enable])

WriteFcr(enable, rcvr, xmit) ==
  /\ ~held
  /\ serial' = SetFcr(serial, enable, rcvr, xmit)
  /\ UNCHANGED <<inputVars, unreported, last>>

WriteLcr(dlab) ==
  /\ ~held
  /\ serial' = [serial EXCEPT !.dlab = dlab]
  /\ UNCHANGED <<inputVars, unreported, last>>

WriteMcr(loop) ==
  /\ ~held
  /\ serial' = [serial EXCEPT !.loop = loop]
  /\ UNCHANGED <<inputVars, unreported, last>>

-----------------------------------------------------------------------------
(* serial_read_reg(); reads that change nothing are left out.              *)

\* RBR: an empty ring reads as 0.
PopRx(s) == IF s.rx = <<>> THEN s.rx ELSE Tail(s.rx)

AfterPop_dr_once(s) == [s EXCEPT !.rx = PopRx(s), !.dr = FALSE]
AfterPop(s) ==
  [s EXCEPT !.rx = PopRx(s), !.dr = s.dr /\ PopRx(s) # <<>>]

ReadRbr ==
  /\ ~held /\ ~serial.dlab
  /\ serial' = UpdateIrq(AfterPop(serial))
  /\ last' = IF serial.rx # <<>> /\ Head(serial.rx) # 0 THEN Head(serial.rx)
                                                       ELSE last
  /\ UNCHANGED <<inputVars, unreported>>

\* IIR: reading THRI acknowledges it.
AckThri(s) ==
  IF s.iir = "THRI" THEN UpdateIrq([s EXCEPT !.thr_ipending = FALSE]) ELSE s

ReadIir ==
  /\ ~held
  /\ serial' = AckThri(serial)
  /\ UNCHANGED <<inputVars, unreported, last>>

\* LSR: reading it acknowledges the overrun.
AckOverrun_silent(s) == [s EXCEPT !.oe = FALSE]
AckOverrun(s) == IF s.oe THEN UpdateIrq([s EXCEPT !.oe = FALSE]) ELSE s

ReadLsr ==
  /\ ~held
  /\ serial' = AckOverrun(serial)
  /\ unreported' = FALSE
  /\ UNCHANGED <<inputVars, last>>

\* The guest's virtual CPU takes the interrupt.
TakeInterrupt ==
  /\ serial.irr
  /\ serial' = [serial EXCEPT !.irr = FALSE]
  /\ UNCHANGED <<inputVars, unreported, last>>

-----------------------------------------------------------------------------
(* A guest that accesses the registers in any order.                       *)

Guest ==
  \/ WriteThr \/ ReadRbr \/ ReadIir \/ ReadLsr \/ TakeInterrupt
  \/ \E enable \in SUBSET Sources : WriteIer(enable)
  \/ \E enable, rcvr, xmit \in BOOLEAN : WriteFcr(enable, rcvr, xmit)
  \/ \E b \in BOOLEAN : WriteLcr(b) \/ WriteMcr(b)

Next == InputThread \/ Guest

Spec == Init /\ [][Next]_vars
-----------------------------------------------------------------------------
(* Properties.                                                             *)

\* The IRQ line KVM sees is up exactly when a condition that IER enables is
\* present, and IIR names the one of highest priority: no register access and
\* no received byte leaves a stale level behind.
LineTellsTruth ==
  /\ serial.line = serial.irq_level
  /\ serial.irq_level <=> serial.ier \cap Conditions(serial) # {}
  /\ serial.iir = Highest(serial.ier \cap Conditions(serial))

\* LSR.DR tells the guest whether there is a byte to read.
DataReadyExact == serial.dr <=> serial.rx # <<>>

\* A dropped byte shows as LSR.OE until the guest has read LSR, whatever it
\* does to the FIFO in between.
OverrunReported == unreported => serial.oe

\* The receive ring behaves as a bounded FIFO with an overrun report.
Channel == INSTANCE ByteChannel WITH queue <- serial.rx, overrun <- serial.oe
IsByteChannel == Channel!Spec
=============================================================================
