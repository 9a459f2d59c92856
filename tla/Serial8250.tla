----------------------------- MODULE Serial8250 -----------------------------
(***************************************************************************)
(* The serial port of minivmm with either of two guests, chosen at the     *)
(* start: one that accesses the registers in any order, and the one the    *)
(* port is written for, Linux's 8250 driver on one virtual CPU with the    *)
(* edge-triggered IRQ 4.  The driver is not part of the repository; its    *)
(* steps are the register accesses the comments of minivmm.c count on.     *)
(***************************************************************************)
EXTENDS Serial16550

CONSTANT MaxTx   \* bound: characters the guest prints

VARIABLES
  drv,      \* the driver's position; "none": the guest has no driver
  txq,      \* characters printed and not yet written to THR
  printed   \* characters printed so far

drvVars == <<drv, txq, printed>>
allVars == <<vars, drvVars>>

DrvInit ==
  /\ Init
  /\ drv \in {"none", "closed"} /\ txq = 0 /\ printed = 0

Goto(label) == drv' = label

\* Start-up enables the FIFO and the receive interrupts.
DrvStartFifo ==
  /\ drv = "closed" /\ ~serial.fifo
  /\ WriteFcr(TRUE, TRUE, TRUE)
  /\ UNCHANGED drvVars

DrvStartIer ==
  /\ drv = "closed" /\ serial.fifo
  /\ WriteIer({"RLSI", "RDI"})
  /\ Goto("idle")
  /\ UNCHANGED <<txq, printed>>

\* Printing enables THRI unless it is enabled already.
DrvPrint ==
  /\ drv = "idle" /\ printed < MaxTx
  /\ printed' = printed + 1
  /\ txq' = txq + 1
  /\ IF "THRI" \in serial.ier
     THEN UNCHANGED vars
     ELSE WriteIer(serial.ier \cup {"THRI"})
  /\ UNCHANGED drv

DrvInterrupt ==
  /\ drv = "idle" /\ TakeInterrupt
  /\ Goto("iir")
  /\ UNCHANGED <<txq, printed>>

\* The handler repeats until IIR says that there is nothing left.
DrvReadIir ==
  /\ drv = "iir" /\ ReadIir
  /\ Goto(IF serial.iir = "NO_INT" THEN "idle" ELSE "lsr")
  /\ UNCHANGED <<txq, printed>>

DrvReadLsr ==
  /\ drv \in {"lsr", "again"} /\ ReadLsr
  /\ Goto(IF serial.dr THEN "rx" ELSE "tx")
  /\ UNCHANGED <<txq, printed>>

DrvReadRx ==
  /\ drv = "rx" /\ ReadRbr
  /\ Goto("again")
  /\ UNCHANGED <<txq, printed>>

\* THRE always reads as 1: send one character, or disable THRI.
DrvTx ==
  /\ drv = "tx" /\ Goto("iir")
  /\ IF "THRI" \notin serial.ier THEN UNCHANGED <<vars, txq>>
     ELSE IF txq > 0 THEN WriteThr /\ txq' = txq - 1
     ELSE WriteIer(serial.ier \ {"THRI"}) /\ UNCHANGED txq
  /\ UNCHANGED printed

Driver ==
  \/ DrvStartFifo \/ DrvStartIer \/ DrvInterrupt
  \/ DrvReadIir \/ DrvReadLsr \/ DrvReadRx \/ DrvTx

DrvNext ==
  \/ InputThread /\ UNCHANGED drvVars
  \/ drv = "none" /\ Guest /\ UNCHANGED drvVars
  \/ DrvPrint
  \/ Driver

DrvSpec == DrvInit /\ [][DrvNext]_allVars

\* The input thread never blocks with the lock held and the virtual CPU runs;
\* the terminal and the guest may fall silent.
DrvFairness ==
  /\ WF_allVars((InputLock \/ InputRecv \/ InputUnlock) /\ UNCHANGED drvVars)
  /\ WF_allVars(Driver)

DrvFairSpec == DrvSpec /\ DrvFairness
-----------------------------------------------------------------------------
\* Every byte that the ring accepted once the driver runs reaches the guest.
BytesDelivered ==
  \A b \in 1..MaxBytes :
    (drv \notin {"none", "closed"} /\ \E i \in 1..Len(serial.rx) : serial.rx[i] = b)
      ~> (last >= b)

\* Everything the guest prints is sent.
OutputDrains == (txq > 0) ~> (txq = 0)
=============================================================================
