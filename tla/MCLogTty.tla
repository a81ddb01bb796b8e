------------------------------ MODULE MCLogTty ------------------------------
(***************************************************************************)
(* The log, the console's input and the UART for TLC: three places where   *)
(* processes sleep until another process or an interrupt wakes them.  They *)
(* share no state, so that in each behaviour one of them moves and the     *)
(* others stay as they were initialised, where no fair action is enabled.  *)
(***************************************************************************)
EXTENDS Log

CONSTANTS Writers, BATCH, WriteSizes, MaxIn, MaxPrint,
          Readers, INPUT_BUF_SIZE, UINT, ReadSizes, Keys, None

VARIABLES
  unit,        \* the component that moves
  \* Uart
  wpc, batch, rest, kpc, printed, tx_busy, fifo, thr_ip, rx, typed, plic, hpc, echo,
  \* Console
  buf, r, w, e, lock, rpc, n, target, killed, ret

Tty == INSTANCE Uart
Cons == INSTANCE Console

ASSUME TtyAssumption == Tty!UartAssumption /\ Cons!ConsoleAssumption

ttyvars == <<wpc, batch, rest, kpc, printed, tx_busy, fifo, thr_ip, rx, typed, plic, hpc, echo>>
consvars == <<buf, r, w, e, lock, rpc, n, target, killed, ret>>
everything == <<unit, vars, ttyvars, consvars>>

\* mkfs has written zeroes to the blocks of the log; where the log does not move,
\* one content of the home blocks is enough.
InitUnit ==
  /\ unit \in {"log", "uart", "console"}
  /\ Init /\ Tty!Init /\ Cons!Init
  /\ \A i, j \in 1..LOGBLOCKS : logblock[i] = logblock[j]
  /\ unit # "log" => \A b \in Blocks, i \in 1..LOGBLOCKS : home[b] = logblock[i]

NextUnit ==
  /\ UNCHANGED unit
  /\ \/ unit = "log" /\ Next /\ UNCHANGED <<ttyvars, consvars>>
     \/ unit = "uart" /\ Tty!Next /\ UNCHANGED <<vars, consvars>>
     \/ unit = "console" /\ Cons!Next /\ UNCHANGED <<vars, ttyvars>>

SpecUnit == InitUnit /\ [][NextUnit]_everything /\ Fairness /\ Tty!Fairness

---------------------------------------------------------------------------
(* Properties of the parts, under names of this module.                     *)

\* uart.c: a busy transmitter will interrupt, and uartwrite(), printf() and the
\* echo have at most one byte each in the UART.
UartConsistent == Tty!UartConsistent

\* console.c: the ring's indices stay in order across their wrap-around, and a
\* sleeping reader has nothing to read.
ConsoleConsistent == Cons!ConsoleConsistent

\* Whoever sleeps is woken: in begin_op() by an end_op(), in uartwrite() by the
\* interrupt, although the handler may have to echo first.
SleepersWake == NoLostWakeup /\ Tty!WritersWake

\* The console's ring is a line editor: erasing never reaches committed input,
\* nothing is overwritten when the ring is full, readers take what was typed in
\* order, and an end of file makes exactly one read return 0.
ReadsLines == Cons!ReadsLines
=============================================================================
