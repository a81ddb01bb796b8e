-------------------------------- MODULE Uart --------------------------------
(***************************************************************************)
(* The UART driver of kernel/uart.c: consolewrite() and uartwrite() by     *)
(* several processes, uartputc_sync() by the kernel's printf() and by the  *)
(* echo, and uartintr() with the PLIC's claim and completion.              *)
(*                                                                         *)
(* tx_lock is held for one step at a time, since sleep() releases it.  A   *)
(* byte to be sent is named by its origin.  The PLIC gives the interrupt   *)
(* to one CPU at a time, so one handler stands for any number of CPUs.     *)
(***************************************************************************)
EXTENDS Integers, Sequences

CONSTANTS Writers,           \* processes that write the console
          BATCH,             \* bytes consolewrite() hands to uartwrite()
          WriteSizes,        \* arguments of write()
          MaxIn,             \* bound: characters typed
          MaxPrint           \* bound: bytes printed by the kernel

\* What is assumed of the constants; a write() of no bytes does nothing.
UartAssumption == BATCH \in Nat \ {0} /\ WriteSizes \subseteq Nat \ {0}

Origin == {"write", "print", "echo"}

VARIABLES
  \* each writer: where it is, bytes left of the batch and after it
  wpc, batch, rest,
  \* the kernel's printf(): is it about to store a byte
  kpc, printed,
  tx_busy,
  \* the UART: transmit FIFO, transmit interrupt condition, receive FIFO
  fifo, thr_ip, rx, typed,
  \* the PLIC's state of the UART interrupt and the handler: where it is, bytes
  \* left to echo
  plic, hpc, echo

writevars == <<wpc, batch, rest, kpc, printed, tx_busy>>
uart == <<fifo, thr_ip, rx, typed>>
handler == <<plic, hpc, echo>>
vars == <<writevars, uart, handler>>

\* uartinit(): FIFOs empty and enabled, both interrupts enabled.
Init ==
  /\ wpc = [p \in Writers |-> "idle"]
  /\ batch = [p \in Writers |-> 0]
  /\ rest = [p \in Writers |-> 0]
  /\ kpc = "idle" /\ printed = 0
  /\ tx_busy = 0
  /\ fifo = <<>> /\ thr_ip = FALSE /\ rx = 0 /\ typed = 0
  /\ plic = "idle" /\ hpc = "idle" /\ echo = 0

---------------------------------------------------------------------------
(* The device.                                                             *)

\* A store to THR; it withdraws the transmit interrupt.
WriteTHR(b) == fifo' = Append(fifo, b) /\ thr_ip' = FALSE

\* LSR_TX_IDLE: the transmit FIFO is empty.
txIdle == fifo = <<>>

\* The device sends a byte and asks for an interrupt when none is left.
Transmit ==
  /\ fifo # <<>>
  /\ fifo' = Tail(fifo)
  /\ thr_ip' = (fifo' = <<>>)
  /\ UNCHANGED <<writevars, rx, typed, handler>>

\* A character arrives.
Receive ==
  /\ typed < MaxIn /\ rx = 0
  /\ rx' = 1 /\ typed' = typed + 1
  /\ UNCHANGED <<writevars, fifo, thr_ip, handler>>

\* The PLIC latches the level of the interrupt line.
Raise ==
  /\ plic = "idle" /\ (thr_ip \/ rx = 1)
  /\ plic' = "pending"
  /\ UNCHANGED <<writevars, uart, hpc, echo>>

---------------------------------------------------------------------------
(* Output.                                                                 *)

smaller(a, b) == IF a < b THEN a ELSE b

\* consolewrite(): the first batch; a bad address ends the call.
Write(p) ==
  /\ wpc[p] = "idle"
  /\ \E k \in WriteSizes :
       /\ batch' = [batch EXCEPT ![p] = smaller(k, BATCH)]
       /\ rest' = [rest EXCEPT ![p] = k - smaller(k, BATCH)]
  /\ wpc' = [wpc EXCEPT ![p] = "ready"]
  /\ UNCHANGED <<kpc, printed, tx_busy, uart, handler>>

\* uartwrite()'s wait is over.
mayStore(p) == tx_busy = 0

UartSleep(p) ==
  /\ wpc[p] \in {"ready", "woken"} /\ ~ mayStore(p)
  /\ wpc' = [wpc EXCEPT ![p] = "asleep"]
  /\ UNCHANGED <<batch, rest, kpc, printed, tx_busy, uart, handler>>

\* One byte; tx_busy then makes the rest of the batch wait, under the same
\* tx_lock, and a new batch takes the lock again.
UartStore(p) ==
  LET next == smaller(rest[p], BATCH) IN
  /\ wpc[p] \in {"ready", "woken"} /\ mayStore(p)
  /\ WriteTHR("write")
  /\ tx_busy' = 1
  /\ \/ /\ batch[p] > 1
        /\ batch' = [batch EXCEPT ![p] = @ - 1]
        /\ wpc' = [wpc EXCEPT ![p] = "asleep"]
        /\ UNCHANGED rest
     \/ /\ batch[p] = 1
        /\ batch' = [batch EXCEPT ![p] = next]
        /\ rest' = [rest EXCEPT ![p] = @ - next]
        /\ wpc' = [wpc EXCEPT ![p] = IF next = 0 THEN "idle" ELSE "ready"]
  /\ UNCHANGED <<kpc, printed, rx, typed, handler>>

\* either_copyin() of the next batch fails.
WriteFault(p) ==
  /\ wpc[p] = "ready"
  /\ wpc' = [wpc EXCEPT ![p] = "idle"]
  /\ batch' = [batch EXCEPT ![p] = 0]
  /\ rest' = [rest EXCEPT ![p] = 0]
  /\ UNCHANGED <<kpc, printed, tx_busy, uart, handler>>

\* printf() of the kernel, under pr.lock: uartputc_sync() waits for LSR_TX_IDLE
\* and then stores, with no lock shared with uartwrite().
PrintWait ==
  /\ kpc = "idle" /\ txIdle /\ printed < MaxPrint
  /\ kpc' = "store" /\ printed' = printed + 1
  /\ UNCHANGED <<wpc, batch, rest, tx_busy, uart, handler>>

PrintStore ==
  /\ kpc = "store"
  /\ kpc' = "idle"
  /\ WriteTHR("print")
  /\ UNCHANGED <<wpc, batch, rest, printed, tx_busy, rx, typed, handler>>

---------------------------------------------------------------------------
(* uartintr(), on the CPU that claimed the interrupt.                      *)

moveH(l) == hpc' = l

\* devintr(): plic_claim().
Claim ==
  /\ plic = "pending" /\ hpc = "idle"
  /\ plic' = "claimed"
  /\ moveH("ack")
  /\ UNCHANGED <<writevars, uart, echo>>

\* ReadReg(ISR) withdraws the transmit interrupt.
Ack ==
  /\ hpc = "ack"
  /\ thr_ip' = FALSE
  /\ moveH("tx")
  /\ UNCHANGED <<writevars, fifo, rx, typed, plic, echo>>

\* Under tx_lock: LSR says whether the UART is idle.
TxDone ==
  /\ hpc = "tx"
  /\ IF txIdle
     THEN /\ tx_busy' = 0
          /\ wpc' = [p \in Writers |-> IF wpc[p] = "asleep" THEN "woken" ELSE wpc[p]]
     ELSE UNCHANGED <<tx_busy, wpc>>
  /\ moveH("getc")
  /\ UNCHANGED <<batch, rest, kpc, printed, uart, plic, echo>>

\* Mutant: the interrupt is acknowledged when the handler leaves, and one raised
\* in between goes with it.
GetChar_acksLast ==
  /\ hpc = "getc" /\ echo = 0
  /\ \/ rx = 1 /\ rx' = 0 /\ echo' \in {0, 1, 3} /\ UNCHANGED <<plic, hpc, thr_ip>>
     \/ rx = 0 /\ plic' = "idle" /\ moveH("idle") /\ thr_ip' = FALSE /\ UNCHANGED <<rx, echo>>
  /\ UNCHANGED <<writevars, fifo, typed>>

\* uartgetc() finds a character and consoleintr() echoes it, not at all, as one
\* byte or, a BACKSPACE, as three; or the handler is done: plic_complete().
GetChar ==
  /\ hpc = "getc" /\ echo = 0
  /\ \/ rx = 1 /\ rx' = 0 /\ echo' \in {0, 1, 3} /\ UNCHANGED <<plic, hpc>>
     \/ rx = 0 /\ plic' = "idle" /\ moveH("idle") /\ UNCHANGED <<rx, echo>>
  /\ UNCHANGED <<writevars, fifo, thr_ip, typed>>

\* consputc() of the echo: wait for the UART to be idle ...
EchoWait ==
  /\ hpc = "getc" /\ echo > 0 /\ txIdle
  /\ moveH("store")
  /\ UNCHANGED <<writevars, uart, plic, echo>>

\* ... then store.
EchoStore ==
  /\ hpc = "store"
  /\ WriteTHR("echo")
  /\ echo' = echo - 1
  /\ moveH("getc")
  /\ UNCHANGED <<writevars, rx, typed, plic>>

---------------------------------------------------------------------------
Handler == Claim \/ Ack \/ TxDone \/ GetChar \/ EchoWait \/ EchoStore

Writer(p) == UartSleep(p) \/ UartStore(p)

Next ==
  \/ Transmit \/ Receive \/ Raise \/ Handler \/ PrintWait \/ PrintStore
  \/ \E p \in Writers : Writer(p) \/ Write(p) \/ WriteFault(p)

Spec == Init /\ [][Next]_vars

\* The device works, interrupts are delivered, CPUs keep executing, and a spin
\* loop that finds the UART idle again and again gets through.
Fairness ==
  /\ WF_vars(Transmit) /\ WF_vars(Raise) /\ WF_vars(PrintStore)
  /\ WF_vars(Claim \/ Ack \/ TxDone \/ GetChar \/ EchoStore)
  /\ SF_vars(EchoWait)

FairSpec == Spec /\ Fairness

---------------------------------------------------------------------------
(* Properties.                                                             *)

\* Types of the driver, the device and the handler.
TypeOK ==
  /\ wpc \in [Writers -> {"idle", "ready", "woken", "asleep"}]
  /\ \A p \in Writers : batch[p] \in 0..BATCH /\ (wpc[p] = "idle") = (batch[p] = 0)
  /\ kpc \in {"idle", "store"}
  /\ tx_busy \in {0, 1}
  /\ fifo \in Seq(Origin) /\ rx \in {0, 1} /\ thr_ip \in BOOLEAN
  /\ plic \in {"idle", "pending", "claimed"}
  /\ hpc \in {"idle", "ack", "tx", "getc", "store"}
  /\ (hpc = "idle") = (plic # "claimed")
  /\ echo \in 0..3

\* tx_busy is 1 only while a byte of uartwrite() is in the UART or the interrupt
\* for it is still to be handled: a writer never sleeps for an interrupt that has
\* been and gone.
TxNotForgotten ==
  tx_busy = 1 =>
    \/ fifo # <<>>
    \/ thr_ip
    \/ hpc = "tx"

\* uartwrite() has at most one byte in the UART, although several processes wait
\* for the same wakeup, and the FIFO never holds more than one byte from each of
\* uartwrite(), printf() and the echo.
OneByteEach ==
  \A i, j \in 1..Len(fifo) : fifo[i] = fifo[j] => i = j

\* A process in write() gets its turn: the device finishes, the handler runs
\* although it may have to echo first, and it wakes the writers.
WritersWake ==
  \A p \in Writers : wpc[p] = "asleep" ~> wpc[p] # "asleep"

\* The driver and the UART agree: a busy transmitter will interrupt, and no
\* byte is stored before the previous one of its origin has gone.
UartConsistent == TypeOK /\ TxNotForgotten /\ OneByteEach
=============================================================================
