----------------------------- MODULE TtyProofs ------------------------------
(***************************************************************************)
(* Proofs about the UART, for any number of writers, any size of their     *)
(* writes and of a batch, and any number of characters typed and bytes     *)
(* printed; and about the console, for any number of readers, any sizes of *)
(* their reads and every size of the ring that divides the range of its    *)
(* indices.  That the ring is a line editor needs the arithmetic of the    *)
(* indices across their wrap-around, which comes before its invariant.     *)
(***************************************************************************)
EXTENDS MCLogTty, TLAPS

\* The origins of the bytes in the transmit FIFO.
inFifo == {fifo[i] : i \in 1..Len(fifo)}

\* Writers have bytes left, the handler has a claimed interrupt, and an echo under
\* way has a byte to store.
WriterInv ==
  /\ batch \in [Writers -> Nat] /\ rest \in [Writers -> Nat]
  /\ hpc = "store" => echo > 0

\* Who is about to store a byte, or may, has none in the FIFO.
FifoInv ==
  /\ tx_busy = 0 => "write" \notin inFifo
  /\ kpc = "store" => "print" \notin inFifo
  /\ hpc = "store" => "echo" \notin inFifo

\* The inductive invariant.
UartInv == Tty!TypeOK /\ WriterInv /\ Tty!TxNotForgotten /\ Tty!OneByteEach /\ FifoInv

\* The labels of a writer.
WPCs == {"idle", "ready", "woken", "asleep"}

---------------------------------------------------------------------------
(* The FIFO.                                                               *)

\* A store to THR by somebody with no byte in the FIFO.
LEMMA StoreFacts ==
  ASSUME fifo \in Seq(Tty!Origin), Tty!OneByteEach, NEW b \in Tty!Origin, b \notin inFifo, Tty!WriteTHR(b)
  PROVE  /\ fifo' \in Seq(Tty!Origin) /\ fifo' # <<>> /\ Tty!OneByteEach'
         /\ inFifo' = inFifo \cup {b} /\ thr_ip' = FALSE
<1>1. fifo' = Append(fifo, b) /\ thr_ip' = FALSE
  BY DEF Tty!WriteTHR
<1>2. /\ fifo' \in Seq(Tty!Origin) /\ Len(fifo) \in Nat /\ Len(fifo') = Len(fifo) + 1
      /\ fifo'[Len(fifo) + 1] = b /\ \A i \in 1..Len(fifo) : fifo'[i] = fifo[i]
  BY <1>1
<1>3. 1..Len(fifo') = (1..Len(fifo)) \cup {Len(fifo) + 1}
  BY <1>2
<1>4. inFifo' = inFifo \cup {b}
  BY <1>2, <1>3 DEF inFifo
<1>5. \A i \in 1..Len(fifo) : fifo[i] # b
  BY DEF inFifo
<1>6. Tty!OneByteEach'
  BY <1>2, <1>3, <1>5 DEF Tty!OneByteEach
<1>7. fifo' # <<>>
  <2>1. Len(fifo') # 0
    BY <1>2
  <2>2. QED
    BY <2>1
<1>8. QED
  BY <1>1, <1>2, <1>4, <1>6, <1>7

\* Sending the first byte.
LEMMA SendFacts ==
  ASSUME fifo \in Seq(Tty!Origin), Tty!OneByteEach, fifo # <<>>, fifo' = Tail(fifo)
  PROVE  fifo' \in Seq(Tty!Origin) /\ Tty!OneByteEach' /\ inFifo' \subseteq inFifo
<1>1. /\ fifo' \in Seq(Tty!Origin) /\ Len(fifo) \in Nat /\ Len(fifo') = Len(fifo) - 1 /\ Len(fifo) # 0
      /\ \A i \in 1..Len(fifo') : fifo'[i] = fifo[i + 1]
  OBVIOUS
<1>2. \A i \in 1..Len(fifo') : i + 1 \in 1..Len(fifo)
  BY <1>1
<1>3. inFifo' \subseteq inFifo
  BY <1>1, <1>2 DEF inFifo
<1>4. ASSUME NEW i \in 1..Len(fifo'), NEW j \in 1..Len(fifo'), fifo'[i] = fifo'[j] PROVE i = j
  <2>1. i + 1 = j + 1
    BY <1>1, <1>2, <1>4 DEF Tty!OneByteEach
  <2>2. QED
    BY <1>1, <2>1
<1>5. QED
  BY <1>1, <1>3, <1>4 DEF Tty!OneByteEach

---------------------------------------------------------------------------
(* The invariant.                                                          *)

\* The invariant holds after uartinit().
LEMMA UartInvInit == ASSUME Tty!UartAssumption PROVE Tty!Init => UartInv
<1> SUFFICES ASSUME Tty!Init PROVE UartInv
  OBVIOUS
<1>1. fifo = <<>> /\ fifo \in Seq(Tty!Origin) /\ 1..Len(fifo) = {}
  BY DEF Tty!Init
<1>2. /\ wpc \in [Writers -> WPCs] /\ batch \in [Writers -> Nat] /\ rest \in [Writers -> Nat]
      /\ \A p \in Writers : wpc[p] = "idle" /\ batch[p] = 0 /\ 0 \in 0..BATCH
  BY DEF Tty!Init, Tty!UartAssumption, WPCs
<1>4. Tty!TypeOK /\ WriterInv
  <2>1. hpc = "idle" /\ plic = "idle" /\ echo = 0 /\ kpc = "idle" /\ tx_busy = 0 /\ rx = 0 /\ thr_ip = FALSE
    BY DEF Tty!Init
  <2>2. /\ \A p \in Writers : batch[p] \in 0..BATCH /\ (wpc[p] = "idle") = (batch[p] = 0)
        /\ (hpc = "idle") = (plic # "claimed") /\ echo \in 0..3
    BY <1>2, <2>1
  <2>3. QED
    BY <1>1, <1>2, <2>1, <2>2, Zenon DEF Tty!TypeOK, WriterInv, WPCs
<1>5. QED
  BY <1>1, <1>4 DEF Tty!Init, UartInv, Tty!TxNotForgotten, Tty!OneByteEach, FifoInv, inFifo

\* Every step preserves the invariant, and so does stuttering.
LEMMA UartInvNext == ASSUME Tty!UartAssumption PROVE UartInv /\ [Tty!Next]_(Tty!vars) => UartInv'
<1> SUFFICES ASSUME UartInv, [Tty!Next]_(Tty!vars) PROVE UartInv'
  OBVIOUS
<1>0. Tty!TypeOK /\ WriterInv /\ Tty!TxNotForgotten /\ Tty!OneByteEach /\ FifoInv /\ fifo \in Seq(Tty!Origin)
  BY DEF UartInv, Tty!TypeOK
<1>t. /\ wpc \in [Writers -> WPCs] /\ batch \in [Writers -> Nat] /\ rest \in [Writers -> Nat]
      /\ \A p \in Writers : batch[p] \in 0..BATCH /\ (wpc[p] = "idle") = (batch[p] = 0)
      /\ BATCH \in Nat \ {0} /\ WriteSizes \subseteq Nat \ {0}
  BY <1>0 DEF Tty!TypeOK, WriterInv, Tty!UartAssumption, WPCs
<1> USE DEF Tty!writevars, Tty!uart, Tty!handler
\* Steps of the device and the handler that leave the writers' batches.
<1>w. ASSUME UNCHANGED <<batch, rest>>, \A p \in Writers : wpc'[p] = "idle" <=> wpc[p] = "idle",
             wpc' \in [Writers -> WPCs]
      PROVE  \A p \in Writers : batch'[p] \in 0..BATCH /\ (wpc'[p] = "idle") = (batch'[p] = 0)
  BY <1>t, <1>w
\* The FIFO and the origins in it do not change.
<1>f. ASSUME UNCHANGED fifo PROVE inFifo' = inFifo /\ Tty!OneByteEach'
  BY <1>0, <1>f DEF inFifo, Tty!OneByteEach
<1>1. CASE Tty!Transmit
  <2>1. /\ fifo # <<>> /\ fifo' = Tail(fifo) /\ thr_ip' = (fifo' = <<>>)
        /\ UNCHANGED <<wpc, batch, rest, kpc, printed, tx_busy, rx, typed, plic, hpc, echo>>
    BY <1>1 DEF Tty!Transmit
  <2>2. fifo' \in Seq(Tty!Origin) /\ Tty!OneByteEach' /\ inFifo' \subseteq inFifo
    BY <1>0, <2>1, SendFacts
  <2>3. Tty!TypeOK' /\ WriterInv'
    BY <1>0, <2>1, <2>2 DEF Tty!TypeOK, WriterInv
  <2>4. QED
    BY <1>0, <2>1, <2>2, <2>3, Zenon DEF UartInv, Tty!TxNotForgotten, FifoInv
<1>2. CASE Tty!Receive \/ Tty!Raise \/ Tty!PrintWait \/ Tty!Claim \/ Tty!EchoWait \/ Tty!GetChar
  <2>1. UNCHANGED <<wpc, batch, rest, tx_busy, fifo, thr_ip>>
    BY <1>2 DEF Tty!Receive, Tty!Raise, Tty!PrintWait, Tty!Claim, Tty!EchoWait, Tty!GetChar
  <2>2. inFifo' = inFifo /\ Tty!OneByteEach'
    BY <1>f, <2>1
  <2>3. /\ kpc' \in {"idle", "store"} /\ rx' \in {0, 1} /\ plic' \in {"idle", "pending", "claimed"}
        /\ hpc' \in {"idle", "ack", "tx", "getc", "store"} /\ (hpc' = "idle") = (plic' # "claimed")
        /\ echo' \in 0..3 /\ (hpc' = "store" => echo' > 0)
    BY <1>0, <1>2 DEF Tty!Receive, Tty!Raise, Tty!PrintWait, Tty!Claim, Tty!EchoWait, Tty!GetChar, Tty!moveH, Tty!TypeOK, WriterInv
  <2>4. hpc = "tx" => hpc' = "tx"
    BY <1>2 DEF Tty!Receive, Tty!Raise, Tty!PrintWait, Tty!Claim, Tty!EchoWait, Tty!GetChar, Tty!moveH
  <2>5. /\ kpc' = "store" => kpc = "store" \/ fifo = <<>>
        /\ hpc' = "store" => hpc = "store" \/ fifo = <<>>
    BY <1>2 DEF Tty!Receive, Tty!Raise, Tty!PrintWait, Tty!Claim, Tty!EchoWait, Tty!GetChar, Tty!moveH, Tty!txIdle
  <2>6. fifo = <<>> => inFifo = {}
    BY DEF inFifo
  <2>7. Tty!TypeOK' /\ WriterInv'
    BY <1>0, <2>1, <2>3 DEF Tty!TypeOK, WriterInv
  <2>8. QED
    BY <1>0, <2>1, <2>2, <2>4, <2>5, <2>6, <2>7 DEF UartInv, Tty!TxNotForgotten, FifoInv
<1>3. CASE Tty!Ack
  <2>1. /\ hpc = "ack" /\ hpc' = "tx" /\ thr_ip' = FALSE
        /\ UNCHANGED <<wpc, batch, rest, kpc, printed, tx_busy, fifo, rx, typed, plic, echo>>
    BY <1>3 DEF Tty!Ack, Tty!moveH
  <2>2. Tty!TypeOK' /\ WriterInv'
    BY <1>0, <2>1, Zenon DEF Tty!TypeOK, WriterInv
  <2>3. QED
    BY <1>0, <1>f, <2>1, <2>2 DEF UartInv, Tty!TxNotForgotten, FifoInv
<1>4. CASE Tty!TxDone
  <2>1. hpc = "tx" /\ hpc' = "getc" /\ UNCHANGED <<batch, rest, kpc, printed, fifo, thr_ip, rx, typed, plic, echo>>
    BY <1>4 DEF Tty!TxDone, Tty!moveH
  <2>2. CASE Tty!txIdle
    <3>1. /\ tx_busy' = 0 /\ fifo = <<>>
          /\ wpc' = [p \in Writers |-> IF wpc[p] = "asleep" THEN "woken" ELSE wpc[p]]
      BY <1>4, <2>2 DEF Tty!TxDone, Tty!txIdle
    <3>2. wpc' \in [Writers -> WPCs] /\ \A p \in Writers : wpc'[p] = "idle" <=> wpc[p] = "idle"
      BY <1>t, <3>1 DEF WPCs
    <3>3. \A p \in Writers : batch'[p] \in 0..BATCH /\ (wpc'[p] = "idle") = (batch'[p] = 0)
      BY <1>w, <2>1, <3>2
    <3>4. Tty!TypeOK' /\ WriterInv'
      BY <1>0, <2>1, <3>1, <3>2, <3>3 DEF Tty!TypeOK, WriterInv, WPCs
    <3>5. inFifo' = {}
      BY <2>1, <3>1 DEF inFifo
    <3>6. QED
      BY <1>f, <2>1, <3>1, <3>4, <3>5 DEF UartInv, Tty!TxNotForgotten, FifoInv
  <2>3. CASE ~ Tty!txIdle
    <3>1. UNCHANGED <<tx_busy, wpc>> /\ fifo # <<>>
      BY <1>4, <2>3 DEF Tty!TxDone, Tty!txIdle
    <3>2. Tty!TypeOK' /\ WriterInv'
      BY <1>0, <2>1, <3>1 DEF Tty!TypeOK, WriterInv
    <3>3. QED
      BY <1>0, <1>f, <2>1, <3>1, <3>2 DEF UartInv, Tty!TxNotForgotten, FifoInv
  <2>4. QED
    BY <2>2, <2>3
<1>5. CASE Tty!EchoStore
  <2>1. /\ hpc = "store" /\ hpc' = "getc" /\ echo' = echo - 1 /\ Tty!WriteTHR("echo")
        /\ UNCHANGED <<wpc, batch, rest, kpc, printed, tx_busy, rx, typed, plic>>
    BY <1>5 DEF Tty!EchoStore, Tty!moveH
  <2>2. /\ fifo' \in Seq(Tty!Origin) /\ fifo' # <<>> /\ Tty!OneByteEach'
        /\ inFifo' = inFifo \cup {"echo"} /\ thr_ip' = FALSE
    BY <1>0, <2>1, StoreFacts DEF FifoInv, Tty!Origin
  <2>3. echo' \in 0..3 /\ plic = "claimed"
    BY <1>0, <2>1 DEF Tty!TypeOK, WriterInv
  <2>4. Tty!TypeOK' /\ WriterInv'
    BY <1>0, <2>1, <2>2, <2>3, Zenon DEF Tty!TypeOK, WriterInv
  <2>5. QED
    BY <1>0, <2>1, <2>2, <2>4 DEF UartInv, Tty!TxNotForgotten, FifoInv
<1>6. CASE Tty!PrintStore
  <2>1. /\ kpc = "store" /\ kpc' = "idle" /\ Tty!WriteTHR("print")
        /\ UNCHANGED <<wpc, batch, rest, printed, tx_busy, rx, typed, plic, hpc, echo>>
    BY <1>6 DEF Tty!PrintStore
  <2>2. /\ fifo' \in Seq(Tty!Origin) /\ fifo' # <<>> /\ Tty!OneByteEach'
        /\ inFifo' = inFifo \cup {"print"} /\ thr_ip' = FALSE
    BY <1>0, <2>1, StoreFacts DEF FifoInv, Tty!Origin
  <2>3. Tty!TypeOK' /\ WriterInv'
    BY <1>0, <2>1, <2>2, Zenon DEF Tty!TypeOK, WriterInv
  <2>4. QED
    BY <1>0, <2>1, <2>2, <2>3 DEF UartInv, Tty!TxNotForgotten, FifoInv
\* The writers' own steps that leave the device alone.
<1>d. ASSUME UNCHANGED <<kpc, printed, tx_busy, fifo, thr_ip, rx, typed, plic, hpc, echo>>,
             wpc' \in [Writers -> WPCs], batch' \in [Writers -> Nat], rest' \in [Writers -> Nat],
             \A p \in Writers : batch'[p] \in 0..BATCH /\ (wpc'[p] = "idle") = (batch'[p] = 0)
      PROVE  UartInv'
  <2>1. Tty!TypeOK' /\ WriterInv'
    BY <1>0, <1>d DEF Tty!TypeOK, WriterInv, WPCs
  <2>2. QED
    BY <1>0, <1>d, <1>f, <2>1 DEF UartInv, Tty!TxNotForgotten, FifoInv
<1>7. ASSUME NEW p \in Writers, Tty!Write(p) PROVE UartInv'
  <2>1. PICK k \in WriteSizes : /\ batch' = [batch EXCEPT ![p] = Tty!smaller(k, BATCH)]
                                /\ rest' = [rest EXCEPT ![p] = k - Tty!smaller(k, BATCH)]
    BY <1>7, Zenon DEF Tty!Write
  <2>2. wpc' = [wpc EXCEPT ![p] = "ready"] /\ UNCHANGED <<kpc, printed, tx_busy, fifo, thr_ip, rx, typed, plic, hpc, echo>>
    BY <1>7 DEF Tty!Write
  <2>3. Tty!smaller(k, BATCH) \in 1..BATCH /\ k - Tty!smaller(k, BATCH) \in Nat
    BY <1>t DEF Tty!smaller
  <2>4. batch' \in [Writers -> Nat] /\ rest' \in [Writers -> Nat] /\ wpc' \in [Writers -> WPCs]
    BY <1>t, <2>1, <2>2, <2>3 DEF WPCs
  <2>5. \A q \in Writers : batch'[q] \in 0..BATCH /\ (wpc'[q] = "idle") = (batch'[q] = 0)
    BY <1>t, <2>1, <2>2, <2>3
  <2>6. QED
    BY <1>d, <2>2, <2>4, <2>5
<1>8. ASSUME NEW p \in Writers, Tty!UartSleep(p) PROVE UartInv'
  <2>1. /\ wpc[p] \in {"ready", "woken"} /\ wpc' = [wpc EXCEPT ![p] = "asleep"]
        /\ UNCHANGED <<batch, rest, kpc, printed, tx_busy, fifo, thr_ip, rx, typed, plic, hpc, echo>>
    BY <1>8 DEF Tty!UartSleep
  <2>2. wpc' \in [Writers -> WPCs] /\ \A q \in Writers : wpc'[q] = "idle" <=> wpc[q] = "idle"
    BY <1>t, <2>1 DEF WPCs
  <2>3. QED
    BY <1>d, <1>t, <1>w, <2>1, <2>2
<1>9. ASSUME NEW p \in Writers, Tty!WriteFault(p) PROVE UartInv'
  <2>1. /\ wpc' = [wpc EXCEPT ![p] = "idle"] /\ batch' = [batch EXCEPT ![p] = 0] /\ rest' = [rest EXCEPT ![p] = 0]
        /\ UNCHANGED <<kpc, printed, tx_busy, fifo, thr_ip, rx, typed, plic, hpc, echo>>
    BY <1>9 DEF Tty!WriteFault
  <2>2. wpc' \in [Writers -> WPCs] /\ batch' \in [Writers -> Nat] /\ rest' \in [Writers -> Nat]
    BY <1>t, <2>1 DEF WPCs
  <2>3. \A q \in Writers : batch'[q] \in 0..BATCH /\ (wpc'[q] = "idle") = (batch'[q] = 0)
    BY <1>t, <2>1
  <2>4. QED
    BY <1>d, <2>1, <2>2, <2>3
<1>10. ASSUME NEW p \in Writers, Tty!UartStore(p) PROVE UartInv'
  <2> DEFINE nxt == Tty!smaller(rest[p], BATCH)
  <2>1. /\ wpc[p] \in {"ready", "woken"} /\ tx_busy = 0 /\ Tty!WriteTHR("write") /\ tx_busy' = 1
        /\ UNCHANGED <<kpc, printed, rx, typed, plic, hpc, echo>>
    BY <1>10 DEF Tty!UartStore, Tty!mayStore
  <2>2. /\ fifo' \in Seq(Tty!Origin) /\ fifo' # <<>> /\ Tty!OneByteEach'
        /\ inFifo' = inFifo \cup {"write"} /\ thr_ip' = FALSE
    BY <1>0, <2>1, StoreFacts DEF FifoInv, Tty!Origin
  <2>3. \/ /\ batch[p] > 1 /\ batch' = [batch EXCEPT ![p] = @ - 1]
           /\ wpc' = [wpc EXCEPT ![p] = "asleep"] /\ rest' = rest
        \/ /\ batch[p] = 1 /\ batch' = [batch EXCEPT ![p] = nxt]
           /\ rest' = [rest EXCEPT ![p] = @ - nxt]
           /\ wpc' = [wpc EXCEPT ![p] = IF nxt = 0 THEN "idle" ELSE "ready"]
    BY <1>10 DEF Tty!UartStore
  <2>4. nxt \in 0..BATCH /\ rest[p] - nxt \in Nat
    BY <1>t DEF Tty!smaller
  <2> HIDE DEF nxt
  <2>5. /\ wpc' \in [Writers -> WPCs] /\ batch' \in [Writers -> Nat] /\ rest' \in [Writers -> Nat]
        /\ \A q \in Writers : batch'[q] \in 0..BATCH /\ (wpc'[q] = "idle") = (batch'[q] = 0)
    <3>1. CASE /\ batch[p] > 1 /\ batch' = [batch EXCEPT ![p] = @ - 1]
               /\ wpc' = [wpc EXCEPT ![p] = "asleep"] /\ rest' = rest
      BY <1>t, <3>1 DEF WPCs
    <3>2. CASE /\ batch[p] = 1 /\ batch' = [batch EXCEPT ![p] = nxt]
               /\ rest' = [rest EXCEPT ![p] = @ - nxt]
               /\ wpc' = [wpc EXCEPT ![p] = IF nxt = 0 THEN "idle" ELSE "ready"]
      <4>1. wpc' \in [Writers -> WPCs] /\ batch' \in [Writers -> Nat] /\ rest' \in [Writers -> Nat]
        BY <1>t, <2>4, <3>2 DEF WPCs
      <4>2. \A q \in Writers : batch'[q] \in 0..BATCH /\ (wpc'[q] = "idle") = (batch'[q] = 0)
        BY <1>t, <2>4, <3>2
      <4>3. QED
        BY <4>1, <4>2
    <3>3. QED
      BY <2>3, <3>1, <3>2
  <2>6. Tty!TypeOK' /\ WriterInv'
    BY <1>0, <2>1, <2>2, <2>5, Zenon DEF Tty!TypeOK, WriterInv, WPCs
  <2>7. QED
    BY <1>0, <2>1, <2>2, <2>6 DEF UartInv, Tty!TxNotForgotten, FifoInv
<1>11. CASE UNCHANGED Tty!vars
  <2>1. UNCHANGED <<wpc, batch, rest, kpc, printed, tx_busy, fifo, thr_ip, rx, typed, plic, hpc, echo>>
    BY <1>11 DEF Tty!vars
  <2>2. QED
    BY <1>0, <1>d, <1>t, <2>1
<1>12. QED
  BY <1>1, <1>2, <1>3, <1>4, <1>5, <1>6, <1>7, <1>8, <1>9, <1>10, <1>11 DEF Tty!Next, Tty!Handler, Tty!Writer

\* A busy transmitter will interrupt: tx_busy is 1 only while a byte is in the
\* UART, its interrupt is raised or the handler is about to see it; and
\* uartwrite(), printf() and the echo never have two bytes in the FIFO.
THEOREM UartSound == SpecUnit => []UartConsistent
<1>1. Tty!UartAssumption
  BY TtyAssumption
<1>2. InitUnit => UartInv
  BY <1>1, UartInvInit, Zenon DEF InitUnit
<1>3. [NextUnit]_everything => [Tty!Next]_(Tty!vars)
  BY Zenon DEF NextUnit, everything, ttyvars, Tty!vars, Tty!writevars, Tty!uart, Tty!handler
<1>4. UartInv /\ [NextUnit]_everything => UartInv'
  BY <1>1, <1>3, UartInvNext, Zenon
<1>5. UartInv => UartConsistent
  BY Zenon DEF UartInv, UartConsistent, Tty!UartConsistent
<1>6. QED
  BY <1>2, <1>4, <1>5, PTL DEF SpecUnit


---------------------------------------------------------------------------
(* Sequences.                                                              *)

\* Sequences of the same length with the same elements are equal.
LEMMA SameSeq ==
  ASSUME NEW S, NEW s \in Seq(S), NEW t \in Seq(S),
         Len(s) = Len(t), \A i \in 1..Len(s) : s[i] = t[i]
  PROVE  s = t
  OBVIOUS

\* The elements of a concatenation.
LEMMA Joined ==
  ASSUME NEW S, NEW s \in Seq(S), NEW t \in Seq(S)
  PROVE  /\ s \o t \in Seq(S) /\ Len(s \o t) = Len(s) + Len(t)
         /\ \A i \in 1..(Len(s) + Len(t)) : (s \o t)[i] = IF i <= Len(s) THEN s[i] ELSE t[i - Len(s)]
<1>1. s \o t \in Seq(S) /\ Len(s \o t) = Len(s) + Len(t)
  OBVIOUS
<1>2. ASSUME NEW i \in 1..(Len(s) + Len(t))
      PROVE  (s \o t)[i] = IF i <= Len(s) THEN s[i] ELSE t[i - Len(s)]
  OBVIOUS
<1>3. QED
  BY <1>1, <1>2

---------------------------------------------------------------------------
(* Remainders.                                                             *)

\* A remainder is smaller than its divisor.
LEMMA ModRange == \A a \in Int, m \in Nat \ {0} : a % m \in 0..(m - 1)
  OBVIOUS

\* A number is its own remainder, one turn below or one turn above it is not.
LEMMA ModSmall == \A a \in Int, m \in Nat \ {0} : 0 <= a /\ a < m => a % m = a
  OBVIOUS

\* A negative difference of two values of a counter.
LEMMA ModNegative == \A a \in Int, m \in Nat \ {0} : a < 0 /\ 0 <= a + m => a % m = a + m
  OBVIOUS

\* A sum beyond the wrap.
LEMMA ModBig == \A a \in Int, m \in Nat \ {0} : a >= m /\ a < m + m => a % m = a - m
  OBVIOUS

\* Quotient and remainder.
LEMMA DivMod ==
  ASSUME NEW m \in Int, m > 0, NEW a \in Int
  PROVE  a = m * (a \div m) + (a % m)
  BY Z3

\* The quotient is an integer.
LEMMA DivType == \A a \in Int, m \in Nat \ {0} : (a \div m) \in Int
  OBVIOUS

\* The only multiple of m nearer to 0 than m is 0.
LEMMA MultipleZero ==
  ASSUME NEW m \in Nat \ {0}, NEW z \in Int, 0 - m < m * z, m * z < m
  PROVE  m * z = 0
<1>1. z >= 1 => m * z >= m
  OBVIOUS
<1>2. z <= 0 - 1 => m * z <= 0 - m
  OBVIOUS
<1>3. z = 0
  BY <1>1, <1>2
<1>4. QED
  BY <1>3

\* Numbers that differ by a multiple of m have the same remainder, and others
\* nearer to each other than m have not.
LEMMA Remainders ==
  ASSUME NEW m \in Nat \ {0}, NEW a \in Int, NEW b \in Int, NEW z \in Int
  PROVE  /\ a - b = m * z => a % m = b % m
         /\ a % m = b % m /\ a < b + m /\ b < a + m => a = b
<1> DEFINE x == a \div m
           y == b \div m
           u == a % m
           v == b % m
<1>1. x \in Int /\ y \in Int /\ a = m * x + u /\ b = m * y + v
  <2>1. m \in Int /\ m > 0
    OBVIOUS
  <2>2. a = m * x + u /\ b = m * y + v
    BY <2>1, DivMod
  <2>3. x \in Int /\ y \in Int
    BY DivType
  <2>4. QED
    BY <2>2, <2>3
<1>2. u \in 0..(m - 1) /\ v \in 0..(m - 1)
  BY ModRange
<1> HIDE DEF x, y, u, v
<1>3. ASSUME a - b = m * z PROVE u = v
  <2>1. m * x \in Int /\ m * y \in Int /\ m * z \in Int
    BY <1>1
  <2>2. u - v = m * z - m * x + m * y
    BY <1>1, <1>2, <1>3, <2>1
  <2>3. m * z - m * x + m * y = m * (z - x + y)
    BY <1>1
  <2>4. z - x + y \in Int /\ 0 - m < m * (z - x + y) /\ m * (z - x + y) < m
    BY <1>1, <1>2, <2>2, <2>3
  <2>5. m * (z - x + y) = 0
    BY <2>4, MultipleZero
  <2>6. QED
    BY <1>2, <2>2, <2>3, <2>5
<1>4. ASSUME u = v, a < b + m, b < a + m PROVE a = b
  <2>1. m * x \in Int /\ m * y \in Int
    BY <1>1
  <2>2. a - b = m * x - m * y
    BY <1>1, <1>2, <1>4, <2>1
  <2>3. m * x - m * y = m * (x - y)
    BY <1>1
  <2>4. x - y \in Int /\ 0 - m < m * (x - y) /\ m * (x - y) < m
    BY <1>1, <1>4, <2>2, <2>3
  <2>5. m * (x - y) = 0
    BY <2>4, MultipleZero
  <2>6. QED
    BY <2>2, <2>3, <2>5
<1>5. QED
  BY <1>3, <1>4 DEF u, v

---------------------------------------------------------------------------
(* The indices and the slots of the ring.                                  *)

Index == 0..(UINT - 1)

\* The characters between the indices a and b.
dist(a, b) == (b - a) % UINT

\* A whole turn of an index does not change its slot.
LEMMA SlotWrap ==
  ASSUME Cons!ConsoleAssumption
  PROVE  \A a \in Int : (a - UINT) % INPUT_BUF_SIZE = a % INPUT_BUF_SIZE
<1> USE DEF Cons!ConsoleAssumption
<1> TAKE a \in Int
<1> DEFINE z == UINT \div INPUT_BUF_SIZE
<1>1. z \in Int /\ UINT = INPUT_BUF_SIZE * z
  <2>1. UINT = INPUT_BUF_SIZE * z + (UINT % INPUT_BUF_SIZE)
    BY DivMod
  <2>2. z \in Int /\ UINT % INPUT_BUF_SIZE = 0
    BY DivType
  <2> HIDE DEF z
  <2>3. QED
    BY <2>1, <2>2
<1> HIDE DEF z
<1> DEFINE b == a - UINT
<1>2. b \in Int /\ a - b = UINT
  OBVIOUS
<1> HIDE DEF b
<1>3. INPUT_BUF_SIZE \in Nat \ {0} /\ a - b = INPUT_BUF_SIZE * z
  BY <1>1, <1>2
<1>4. a % INPUT_BUF_SIZE = b % INPUT_BUF_SIZE
  BY <1>1, <1>2, <1>3, Remainders, ZenonT(30)
<1>5. QED
  BY <1>4 DEF b

\* The number of characters from one index to another.
LEMMA Dist ==
  ASSUME Cons!ConsoleAssumption, NEW a \in Index, NEW b \in Index
  PROVE  dist(a, b) = (IF b >= a THEN b - a ELSE b - a + UINT) /\ dist(a, b) \in Index
<1>1. UINT \in Nat \ {0}
  BY DEF Cons!ConsoleAssumption
<1>2. QED
  BY <1>1, ModSmall, ModNegative DEF dist, Index

\* An index moved forward by less than a turn.
LEMMA Plus ==
  ASSUME Cons!ConsoleAssumption, NEW a \in Index, NEW k \in Index
  PROVE  /\ Cons!plus(a, k) = (IF a + k < UINT THEN a + k ELSE a + k - UINT) /\ Cons!plus(a, k) \in Index
         /\ Cons!slot(Cons!plus(a, k)) = (a + k) % INPUT_BUF_SIZE
         /\ Cons!slot(Cons!plus(a, k)) \in 0..(INPUT_BUF_SIZE - 1)
<1>1. UINT \in Nat \ {0} /\ INPUT_BUF_SIZE \in Nat \ {0}
  BY DEF Cons!ConsoleAssumption
<1> DEFINE t == a + k
<1>2. t \in Int /\ 0 <= t /\ t < UINT + UINT
  BY <1>1 DEF Index
<1>3. Cons!plus(a, k) = t % UINT
  BY DEF Cons!plus
<1> HIDE DEF t
<1>4. t < UINT => t % UINT = t
  BY <1>1, <1>2, ModSmall
<1>a. ~ (t < UINT) => t % UINT = t - UINT
  <2>1. ~ (t < UINT) => t >= UINT
    BY <1>1, <1>2
  <2>2. t >= UINT => t % UINT = t - UINT
    BY <1>1, <1>2, ModBig, Zenon
  <2>3. QED
    BY <2>1, <2>2, Zenon
<1>5. Cons!plus(a, k) = (IF t < UINT THEN t ELSE t - UINT) /\ Cons!plus(a, k) \in Index
  BY <1>1, <1>2, <1>3, <1>4, <1>a DEF Index
<1>6. Cons!plus(a, k) % INPUT_BUF_SIZE = t % INPUT_BUF_SIZE
  <2>1. (t - UINT) % INPUT_BUF_SIZE = t % INPUT_BUF_SIZE
    BY <1>2, SlotWrap
  <2>2. Cons!plus(a, k) = t \/ Cons!plus(a, k) = t - UINT
    BY <1>5
  <2>3. QED
    BY <2>1, <2>2
<1>7. t % INPUT_BUF_SIZE \in 0..(INPUT_BUF_SIZE - 1)
  BY <1>1, <1>2, ModRange
<1>8. Cons!slot(Cons!plus(a, k)) = t % INPUT_BUF_SIZE
  BY <1>6, Zenon DEF Cons!slot
<1>b. Cons!slot(Cons!plus(a, k)) \in 0..(INPUT_BUF_SIZE - 1)
  BY <1>7, <1>8, Zenon
<1>9. Cons!slot(Cons!plus(a, k)) = (a + k) % INPUT_BUF_SIZE
  BY <1>8, Zenon DEF t
<1>10. Cons!plus(a, k) = (IF a + k < UINT THEN a + k ELSE a + k - UINT)
  BY <1>1, <1>2, <1>5 DEF t, Index
<1>11. QED
  BY <1>5, <1>9, <1>10, <1>b, Zenon

\* An index moved back.
LEMMA Minus ==
  ASSUME Cons!ConsoleAssumption, NEW a \in Index, NEW k \in Index
  PROVE  Cons!plus(a, 0 - k) = (IF a >= k THEN a - k ELSE a - k + UINT) /\ Cons!plus(a, 0 - k) \in Index
<1>1. UINT \in Nat \ {0}
  BY DEF Cons!ConsoleAssumption
<1> DEFINE t == a + (0 - k)
<1>2. t \in Int /\ t < UINT /\ 0 <= t + UINT /\ t = a - k
  BY <1>1 DEF Index
<1>3. Cons!plus(a, 0 - k) = t % UINT
  BY DEF Cons!plus
<1> HIDE DEF t
<1>4. t % UINT = IF t < 0 THEN t + UINT ELSE t
  BY <1>1, <1>2, ModSmall, ModNegative
<1>5. QED
  BY <1>1, <1>2, <1>3, <1>4 DEF Index

\* Moving twice, and the way from an index to the one it has moved to.
LEMMA PlusPlus ==
  ASSUME Cons!ConsoleAssumption, NEW a \in Index, NEW k \in Index, NEW j \in Index, k + j \in Index
  PROVE  Cons!plus(Cons!plus(a, k), j) = Cons!plus(a, k + j) /\ dist(a, Cons!plus(a, k)) = k
<1>1. UINT \in Nat \ {0}
  BY DEF Cons!ConsoleAssumption
<1>2. /\ Cons!plus(a, k) = (IF a + k < UINT THEN a + k ELSE a + k - UINT) /\ Cons!plus(a, k) \in Index
  BY Plus
<1>3. Cons!plus(a, k + j) = (IF a + (k + j) < UINT THEN a + (k + j) ELSE a + (k + j) - UINT)
  BY Plus
<1>4. Cons!plus(Cons!plus(a, k), j) = (IF Cons!plus(a, k) + j < UINT THEN Cons!plus(a, k) + j ELSE Cons!plus(a, k) + j - UINT)
  BY <1>2, Plus
<1>5. dist(a, Cons!plus(a, k)) = (IF Cons!plus(a, k) >= a THEN Cons!plus(a, k) - a ELSE Cons!plus(a, k) - a + UINT)
  BY <1>2, Dist
<1>6. QED
  BY <1>1, <1>2, <1>3, <1>4, <1>5 DEF Index

\* Every index is reached from every other.
LEMMA PlusDist ==
  ASSUME Cons!ConsoleAssumption, NEW a \in Index, NEW b \in Index
  PROVE  b = Cons!plus(a, dist(a, b)) /\ (dist(a, b) = 0 <=> a = b)
<1>1. UINT \in Nat \ {0}
  BY DEF Cons!ConsoleAssumption
<1>2. dist(a, b) = (IF b >= a THEN b - a ELSE b - a + UINT) /\ dist(a, b) \in Index
  BY Dist
<1>3. Cons!plus(a, dist(a, b)) = (IF a + dist(a, b) < UINT THEN a + dist(a, b) ELSE a + dist(a, b) - UINT)
  BY <1>2, Plus
<1>4. QED
  BY <1>1, <1>2, <1>3 DEF Index

\* Positions within one length of the ring have different slots.
LEMMA SlotsApart ==
  ASSUME Cons!ConsoleAssumption, NEW a \in Index,
         NEW i \in 0..(INPUT_BUF_SIZE - 1), NEW j \in 0..(INPUT_BUF_SIZE - 1), i # j
  PROVE  Cons!slot(Cons!plus(a, i)) # Cons!slot(Cons!plus(a, j))
<1>1. UINT \in Nat \ {0} /\ INPUT_BUF_SIZE \in Nat \ {0} /\ INPUT_BUF_SIZE < UINT
  BY DEF Cons!ConsoleAssumption
<1>2. i \in Index /\ j \in Index
  BY <1>1 DEF Index
<1> DEFINE b == a + i
           c == a + j
<1>3. /\ b \in Int /\ c \in Int /\ b # c /\ b < c + INPUT_BUF_SIZE /\ c < b + INPUT_BUF_SIZE
      /\ Cons!slot(Cons!plus(a, i)) = b % INPUT_BUF_SIZE /\ Cons!slot(Cons!plus(a, j)) = c % INPUT_BUF_SIZE
  BY <1>1, <1>2, Plus DEF Index
<1> HIDE DEF b, c
<1>4. 0 \in Int
  OBVIOUS
<1>5. QED
  BY <1>1, <1>3, <1>4, Remainders, Zenon

---------------------------------------------------------------------------
(* The indices r, w and e, in this order within one length of the ring.    *)

\* The way from r to e goes through w.
LEMMA Between ==
  ASSUME Cons!ConsoleAssumption, NEW a \in Index, NEW b \in Index, NEW c \in Index,
         dist(a, b) <= dist(a, c)
  PROVE  dist(b, c) = dist(a, c) - dist(a, b)
<1>1. UINT \in Nat \ {0}
  BY DEF Cons!ConsoleAssumption
<1>2. dist(a, b) = (IF b >= a THEN b - a ELSE b - a + UINT)
  BY Dist, Zenon
<1>3. dist(a, c) = (IF c >= a THEN c - a ELSE c - a + UINT)
  BY Dist, Zenon
<1>4. dist(b, c) = (IF c >= b THEN c - b ELSE c - b + UINT)
  BY Dist, Zenon
<1>5. QED
  BY <1>1, <1>2, <1>3, <1>4 DEF Index

\* An index that moves by one towards another, or away from it.
LEMMA OneStep ==
  ASSUME Cons!ConsoleAssumption, NEW a \in Index, NEW b \in Index
  PROVE  /\ Cons!plus(a, 1) \in Index
         /\ a # b => dist(Cons!plus(a, 1), b) = dist(a, b) - 1
         /\ dist(a, b) < UINT - 1 => dist(a, Cons!plus(b, 1)) = dist(a, b) + 1
         /\ Cons!plus(b, 0 - 1) \in Index
         /\ a # b => dist(a, Cons!plus(b, 0 - 1)) = dist(a, b) - 1
<1>1. UINT \in Nat \ {0} /\ 1 \in Index
  BY DEF Cons!ConsoleAssumption, Index
<1>2. dist(a, b) = (IF b >= a THEN b - a ELSE b - a + UINT)
  BY Dist, Zenon
<1>3. Cons!plus(a, 1) = (IF a + 1 < UINT THEN a + 1 ELSE a + 1 - UINT) /\ Cons!plus(a, 1) \in Index
  BY <1>1, Plus, Zenon
<1>4. Cons!plus(b, 1) = (IF b + 1 < UINT THEN b + 1 ELSE b + 1 - UINT) /\ Cons!plus(b, 1) \in Index
  BY <1>1, Plus, Zenon
<1>5. Cons!plus(b, 0 - 1) = (IF b >= 1 THEN b - 1 ELSE b - 1 + UINT) /\ Cons!plus(b, 0 - 1) \in Index
  BY <1>1, Minus, Zenon
<1>6. dist(Cons!plus(a, 1), b) = (IF b >= Cons!plus(a, 1) THEN b - Cons!plus(a, 1) ELSE b - Cons!plus(a, 1) + UINT)
  BY <1>3, Dist, Zenon
<1>7. dist(a, Cons!plus(b, 1)) = (IF Cons!plus(b, 1) >= a THEN Cons!plus(b, 1) - a ELSE Cons!plus(b, 1) - a + UINT)
  BY <1>4, Dist, Zenon
<1>8. dist(a, Cons!plus(b, 0 - 1)) =
        (IF Cons!plus(b, 0 - 1) >= a THEN Cons!plus(b, 0 - 1) - a ELSE Cons!plus(b, 0 - 1) - a + UINT)
  BY <1>5, Dist, Zenon
<1>9. a # b => dist(Cons!plus(a, 1), b) = dist(a, b) - 1
  BY <1>1, <1>2, <1>3, <1>6 DEF Index
<1>10. dist(a, b) < UINT - 1 => dist(a, Cons!plus(b, 1)) = dist(a, b) + 1
  BY <1>1, <1>2, <1>4, <1>7 DEF Index
<1>11. a # b => dist(a, Cons!plus(b, 0 - 1)) = dist(a, b) - 1
  BY <1>1, <1>2, <1>5, <1>8 DEF Index
<1>12. QED
  BY <1>3, <1>5, <1>9, <1>10, <1>11, Zenon

\* Going back from b by k, no further than a, is going forward from a.
LEMMA Back ==
  ASSUME Cons!ConsoleAssumption, NEW a \in Index, NEW b \in Index, NEW k \in 0..dist(a, b)
  PROVE  /\ Cons!plus(b, 0 - k) = Cons!plus(a, dist(a, b) - k)
         /\ Cons!plus(b, 0 - k) = a <=> k = dist(a, b)
<1>1. UINT \in Nat \ {0}
  BY DEF Cons!ConsoleAssumption
<1>2. dist(a, b) = (IF b >= a THEN b - a ELSE b - a + UINT) /\ dist(a, b) \in Index
  BY Dist, Zenon
<1>3. k \in Index /\ dist(a, b) - k \in Index
  BY <1>1, <1>2 DEF Index
<1>4. Cons!plus(b, 0 - k) = (IF b >= k THEN b - k ELSE b - k + UINT)
  BY <1>3, Minus, Zenon
<1> DEFINE j == dist(a, b) - k
<1>5. Cons!plus(a, j) = (IF a + j < UINT THEN a + j ELSE a + j - UINT)
  BY <1>3, Plus, Zenon
<1>6. QED
  BY <1>1, <1>2, <1>3, <1>4, <1>5 DEF Index

---------------------------------------------------------------------------
(* The characters of the ring as sequences.                                *)

Slots == 0..(INPUT_BUF_SIZE - 1)

\* Characters, and buffers of them.
Chars == Cons!AllKeys \ {"cr"}
Buffer(b) == b \in [Slots -> Chars]

\* The m characters of the buffer b from the index a on.
ring(a, m, b) == [i \in 1..m |-> b[Cons!slot(Cons!plus(a, i - 1))]]

\* Positions of the ring are indices, and their slots are slots of the buffer.
LEMMA Positions ==
  ASSUME Cons!ConsoleAssumption, NEW a \in Index, NEW k \in 0..INPUT_BUF_SIZE
  PROVE  k \in Index /\ Cons!slot(Cons!plus(a, k)) \in Slots /\ Cons!plus(a, k) \in Index
<1>1. k \in Index
  BY DEF Cons!ConsoleAssumption, Index
<1>2. QED
  BY <1>1, Plus, Zenon DEF Slots

\* What is read from the ring is a sequence.
LEMMA RingType ==
  ASSUME Cons!ConsoleAssumption, NEW a \in Index, NEW m \in 0..INPUT_BUF_SIZE, NEW b, Buffer(b)
  PROVE  ring(a, m, b) \in Seq(Chars)
<1>1. ASSUME NEW i \in 1..m PROVE b[Cons!slot(Cons!plus(a, i - 1))] \in Chars
  <2>1. i - 1 \in 0..INPUT_BUF_SIZE
    BY DEF Cons!ConsoleAssumption
  <2>2. Cons!slot(Cons!plus(a, i - 1)) \in Slots
    BY <2>1, Positions, Zenon
  <2>3. QED
    BY <2>2, Zenon DEF Buffer
<1>2. ring(a, m, b) \in [1..m -> Chars]
  BY <1>1, Zenon DEF ring
<1>3. m \in Nat
  BY DEF Cons!ConsoleAssumption
<1> HIDE DEF ring
<1>4. QED
  BY <1>2, <1>3

\* Its length.
LEMMA RingLen ==
  ASSUME NEW a, NEW m \in Nat, NEW b
  PROVE  Len(ring(a, m, b)) = m
  BY DEF ring

\* A reader that takes a character leaves the rest.
LEMMA RingTail ==
  ASSUME Cons!ConsoleAssumption, NEW a \in Index, NEW m \in 1..INPUT_BUF_SIZE, NEW b, Buffer(b)
  PROVE  ring(Cons!plus(a, 1), m - 1, b) = Tail(ring(a, m, b)) /\ ring(a, m, b) # <<>>
<1>1. m \in Nat /\ m \in 0..INPUT_BUF_SIZE /\ m - 1 \in 0..INPUT_BUF_SIZE /\ m - 1 \in Nat /\ 1 \in 0..INPUT_BUF_SIZE
  BY DEF Cons!ConsoleAssumption
<1>2. Cons!plus(a, 1) \in Index
  BY <1>1, Positions, Zenon
<1> DEFINE s == ring(a, m, b)
           t == ring(Cons!plus(a, 1), m - 1, b)
<1>3. s \in Seq(Chars) /\ Len(s) = m /\ \A i \in 1..m : s[i] = b[Cons!slot(Cons!plus(a, i - 1))]
  <2>1. s \in Seq(Chars)
    BY <1>1, RingType, Zenon
  <2>2. Len(s) = m
    BY <1>1, RingLen, Zenon
  <2>3. \A i \in 1..m : s[i] = b[Cons!slot(Cons!plus(a, i - 1))]
    BY Zenon DEF ring
  <2>4. QED
    BY <2>1, <2>2, <2>3, Zenon
<1>4. t \in Seq(Chars) /\ Len(t) = m - 1 /\ \A i \in 1..(m - 1) : t[i] = b[Cons!slot(Cons!plus(Cons!plus(a, 1), i - 1))]
  <2>1. t \in Seq(Chars)
    BY <1>1, <1>2, RingType, Zenon
  <2>2. Len(t) = m - 1
    BY <1>1, RingLen, Zenon
  <2>3. \A i \in 1..(m - 1) : t[i] = b[Cons!slot(Cons!plus(Cons!plus(a, 1), i - 1))]
    BY Zenon DEF ring
  <2>4. QED
    BY <2>1, <2>2, <2>3, Zenon
<1> HIDE DEF s, t
<1>5. ASSUME NEW i \in 1..(m - 1) PROVE t[i] = s[i + 1]
  <2>1. i + 1 \in 1..m /\ i + 1 - 1 = i /\ 1 + (i - 1) = i
    BY <1>1
  <2>2. 1 \in Index /\ i - 1 \in Index /\ 1 + (i - 1) \in Index
    BY DEF Cons!ConsoleAssumption, Index
  <2>3. Cons!plus(Cons!plus(a, 1), i - 1) = Cons!plus(a, 1 + (i - 1))
    BY <2>2, PlusPlus, Zenon
  <2>4. Cons!plus(a, 1 + (i - 1)) = Cons!plus(a, i + 1 - 1)
    BY <2>1, Zenon
  <2>5. s[i + 1] = b[Cons!slot(Cons!plus(a, i + 1 - 1))]
    BY <1>3, <2>1
  <2>6. QED
    BY <1>4, <2>3, <2>4, <2>5, Zenon
<1>6. s # <<>> /\ Tail(s) \in Seq(Chars) /\ Len(Tail(s)) = m - 1 /\ \A i \in 1..(m - 1) : Tail(s)[i] = s[i + 1]
  BY <1>1, <1>3
<1>7. t = Tail(s)
  BY <1>4, <1>5, <1>6, SameSeq, Zenon
<1>8. QED
  BY <1>6, <1>7, Zenon DEF s, t

\* Reading one character less.
LEMMA RingFront ==
  ASSUME Cons!ConsoleAssumption, NEW a \in Index, NEW m \in 1..INPUT_BUF_SIZE, NEW b, Buffer(b)
  PROVE  ring(a, m - 1, b) = SubSeq(ring(a, m, b), 1, Len(ring(a, m, b)) - 1) /\ ring(a, m, b) # <<>>
<1>1. m \in Nat /\ m \in 0..INPUT_BUF_SIZE /\ m - 1 \in 0..INPUT_BUF_SIZE /\ m - 1 \in Nat
  BY DEF Cons!ConsoleAssumption
<1> DEFINE s == ring(a, m, b)
           t == ring(a, m - 1, b)
<1>2. s \in Seq(Chars) /\ Len(s) = m /\ \A i \in 1..m : s[i] = b[Cons!slot(Cons!plus(a, i - 1))]
  <2>1. s \in Seq(Chars)
    BY <1>1, RingType, Zenon
  <2>2. Len(s) = m
    BY <1>1, RingLen, Zenon
  <2>3. \A i \in 1..m : s[i] = b[Cons!slot(Cons!plus(a, i - 1))]
    BY Zenon DEF ring
  <2>4. QED
    BY <2>1, <2>2, <2>3, Zenon
<1>3. t \in Seq(Chars) /\ Len(t) = m - 1 /\ \A i \in 1..(m - 1) : t[i] = b[Cons!slot(Cons!plus(a, i - 1))]
  <2>1. t \in Seq(Chars)
    BY <1>1, RingType, Zenon
  <2>2. Len(t) = m - 1
    BY <1>1, RingLen, Zenon
  <2>3. \A i \in 1..(m - 1) : t[i] = b[Cons!slot(Cons!plus(a, i - 1))]
    BY Zenon DEF ring
  <2>4. QED
    BY <2>1, <2>2, <2>3, Zenon
<1> HIDE DEF s, t
<1>4. /\ s # <<>> /\ SubSeq(s, 1, m - 1) \in Seq(Chars) /\ Len(SubSeq(s, 1, m - 1)) = m - 1
      /\ \A i \in 1..(m - 1) : SubSeq(s, 1, m - 1)[i] = s[i]
  BY <1>1, <1>2
<1>5. \A i \in 1..(m - 1) : i \in 1..m
  BY <1>1
<1>6. \A i \in 1..(m - 1) : SubSeq(s, 1, m - 1)[i] = t[i]
  BY <1>2, <1>3, <1>4, <1>5, Zenon
<1>7. t = SubSeq(s, 1, m - 1)
  BY <1>3, <1>4, <1>6, SameSeq, Zenon
<1>8. QED
  BY <1>2, <1>4, <1>7, Zenon DEF s, t

\* Two readings that follow each other.
LEMMA RingJoin ==
  ASSUME Cons!ConsoleAssumption, NEW a \in Index, NEW k \in Nat, NEW m \in Nat,
         k + m <= INPUT_BUF_SIZE, NEW b, Buffer(b)
  PROVE  ring(a, k, b) \o ring(Cons!plus(a, k), m, b) = ring(a, k + m, b)
<1>1. k \in 0..INPUT_BUF_SIZE /\ m \in 0..INPUT_BUF_SIZE /\ k + m \in 0..INPUT_BUF_SIZE /\ k + m \in Nat
  BY DEF Cons!ConsoleAssumption
<1>2. Cons!plus(a, k) \in Index
  BY <1>1, Positions, Zenon
<1> DEFINE s == ring(a, k, b)
           t == ring(Cons!plus(a, k), m, b)
           u == ring(a, k + m, b)
<1>3. s \in Seq(Chars) /\ Len(s) = k /\ \A i \in 1..k : s[i] = b[Cons!slot(Cons!plus(a, i - 1))]
  <2>1. s \in Seq(Chars)
    BY <1>1, RingType, Zenon
  <2>2. Len(s) = k
    BY <1>1, RingLen, Zenon
  <2>3. \A i \in 1..k : s[i] = b[Cons!slot(Cons!plus(a, i - 1))]
    BY Zenon DEF ring
  <2>4. QED
    BY <2>1, <2>2, <2>3, Zenon
<1>4. t \in Seq(Chars) /\ Len(t) = m /\ \A i \in 1..m : t[i] = b[Cons!slot(Cons!plus(Cons!plus(a, k), i - 1))]
  <2>1. t \in Seq(Chars)
    BY <1>1, <1>2, RingType, Zenon
  <2>2. Len(t) = m
    BY <1>1, RingLen, Zenon
  <2>3. \A i \in 1..m : t[i] = b[Cons!slot(Cons!plus(Cons!plus(a, k), i - 1))]
    BY Zenon DEF ring
  <2>4. QED
    BY <2>1, <2>2, <2>3, Zenon
<1>5. u \in Seq(Chars) /\ Len(u) = k + m /\ \A i \in 1..(k + m) : u[i] = b[Cons!slot(Cons!plus(a, i - 1))]
  <2>1. u \in Seq(Chars)
    BY <1>1, RingType, Zenon
  <2>2. Len(u) = k + m
    BY <1>1, RingLen, Zenon
  <2>3. \A i \in 1..(k + m) : u[i] = b[Cons!slot(Cons!plus(a, i - 1))]
    BY Zenon DEF ring
  <2>4. QED
    BY <2>1, <2>2, <2>3, Zenon
<1> HIDE DEF s, t, u
<1>6. /\ s \o t \in Seq(Chars) /\ Len(s \o t) = k + m
      /\ \A i \in 1..(k + m) : (s \o t)[i] = IF i <= k THEN s[i] ELSE t[i - k]
  <2>1. /\ s \o t \in Seq(Chars) /\ Len(s \o t) = Len(s) + Len(t)
        /\ \A i \in 1..(Len(s) + Len(t)) : (s \o t)[i] = IF i <= Len(s) THEN s[i] ELSE t[i - Len(s)]
    BY <1>3, <1>4, Joined, Zenon
  <2>2. Len(s) = k /\ Len(t) = m
    BY <1>3, <1>4, Zenon
  <2>3. QED
    BY <2>1, <2>2, Zenon
<1>7. ASSUME NEW i \in 1..(k + m) PROVE (s \o t)[i] = u[i]
  <2>1. CASE i <= k
    <3>1. i \in 1..k
      BY <2>1
    <3>2. QED
      BY <1>3, <1>5, <1>6, <2>1, <3>1, Zenon
  <2>2. CASE ~ (i <= k)
    <3>1. i - k \in 1..m /\ k + (i - k - 1) = i - 1
      BY <2>2
    <3>2. k \in Index /\ i - k - 1 \in Index /\ k + (i - k - 1) \in Index
      BY <2>2 DEF Cons!ConsoleAssumption, Index
    <3>3. Cons!plus(Cons!plus(a, k), i - k - 1) = Cons!plus(a, k + (i - k - 1))
      BY <3>2, PlusPlus, ZenonT(30)
    <3>4. Cons!plus(a, k + (i - k - 1)) = Cons!plus(a, i - 1)
      BY <3>1, Zenon
    <3>5. (s \o t)[i] = t[i - k]
      BY <1>6, <2>2, Zenon
    <3>6. t[i - k] = b[Cons!slot(Cons!plus(Cons!plus(a, k), i - k - 1))]
      BY <1>4, <3>1, Zenon
    <3>7. u[i] = b[Cons!slot(Cons!plus(a, i - 1))]
      BY <1>5, Zenon
    <3>8. QED
      BY <3>3, <3>4, <3>5, <3>6, <3>7, Zenon
  <2>3. QED
    BY <2>1, <2>2, Zenon
<1>8. s \o t = u
  BY <1>5, <1>6, <1>7, SameSeq, Zenon
<1>9. QED
  BY <1>8, Zenon DEF s, t, u

\* The buffer b with the character c in the slot i.
put(b, i, c) == [b EXCEPT ![i] = c]

\* Storing a character behind the ones that are there keeps them.
LEMMA PutKeeps ==
  ASSUME Cons!ConsoleAssumption, NEW a \in Index, NEW m \in Nat, m < INPUT_BUF_SIZE, NEW b, Buffer(b), NEW c,
         NEW i \in 1..m
  PROVE  put(b, Cons!slot(Cons!plus(a, m)), c)[Cons!slot(Cons!plus(a, i - 1))] = b[Cons!slot(Cons!plus(a, i - 1))]
<1>1. m \in 0..(INPUT_BUF_SIZE - 1)
  BY DEF Cons!ConsoleAssumption
<1>2. i - 1 \in 0..(INPUT_BUF_SIZE - 1) /\ i - 1 \in 0..INPUT_BUF_SIZE /\ i - 1 # m
  BY <1>1 DEF Cons!ConsoleAssumption
<1>3. Cons!slot(Cons!plus(a, i - 1)) # Cons!slot(Cons!plus(a, m))
  BY <1>1, <1>2, SlotsApart, Zenon
<1>4. Cons!slot(Cons!plus(a, i - 1)) \in Slots
  BY <1>2, Positions, Zenon
<1>5. QED
  BY <1>3, <1>4, Zenon DEF put, Buffer

\* So a part of them is read as before.
Kept(a, k, b, d) == ring(a, k, d) = ring(a, k, b)

\* Storing a character behind m others keeps the first k.
LEMMA RingKeep ==
  ASSUME Cons!ConsoleAssumption, NEW a \in Index, NEW k \in Nat, NEW m \in Nat, k <= m, m < INPUT_BUF_SIZE,
         NEW b, Buffer(b), NEW c
  PROVE  Kept(a, k, b, put(b, Cons!slot(Cons!plus(a, m)), c))
<1> DEFINE d == put(b, Cons!slot(Cons!plus(a, m)), c)
<1>1. \A i \in 1..k : i \in 1..m
  OBVIOUS
<1>2. \A i \in 1..m : d[Cons!slot(Cons!plus(a, i - 1))] = b[Cons!slot(Cons!plus(a, i - 1))]
  BY PutKeeps, ZenonT(30)
<1>3. \A i \in 1..k : d[Cons!slot(Cons!plus(a, i - 1))] = b[Cons!slot(Cons!plus(a, i - 1))]
  BY <1>1, <1>2, Zenon
<1> HIDE DEF d
<1>4. ring(a, k, d) = ring(a, k, b)
  BY <1>3, Zenon DEF ring
<1>5. QED
  BY <1>4, Zenon DEF d, Kept

\* And it comes behind them.
LEMMA RingPut ==
  ASSUME Cons!ConsoleAssumption, NEW a \in Index, NEW m \in Nat,
         m < INPUT_BUF_SIZE, NEW b, Buffer(b), NEW c \in Chars
  PROVE  /\ Buffer(put(b, Cons!slot(Cons!plus(a, m)), c))
         /\ ring(a, m + 1, put(b, Cons!slot(Cons!plus(a, m)), c)) = Append(ring(a, m, b), c)
<1> DEFINE d == put(b, Cons!slot(Cons!plus(a, m)), c)
<1>1. /\ m \in 0..INPUT_BUF_SIZE /\ m + 1 \in 0..INPUT_BUF_SIZE
      /\ m \in 0..(INPUT_BUF_SIZE - 1) /\ m + 1 \in Nat
  BY DEF Cons!ConsoleAssumption
<1>2. Cons!slot(Cons!plus(a, m)) \in Slots
  BY <1>1, Positions, Zenon
<1>3. Buffer(d)
  BY <1>2, Zenon DEF put, Buffer
<1>4. ASSUME NEW i \in 1..m PROVE d[Cons!slot(Cons!plus(a, i - 1))] = b[Cons!slot(Cons!plus(a, i - 1))]
  BY Zenon, PutKeeps
<1>6. d[Cons!slot(Cons!plus(a, m))] = c
  BY <1>2, Zenon DEF put, Buffer
<1> HIDE DEF d
<1> DEFINE s == ring(a, m, b)
           t == ring(a, m + 1, d)
<1>7. s \in Seq(Chars) /\ Len(s) = m /\ \A i \in 1..m : s[i] = b[Cons!slot(Cons!plus(a, i - 1))]
  <2>1. s \in Seq(Chars)
    BY <1>1, RingType, Zenon
  <2>2. Len(s) = m
    BY <1>1, RingLen, Zenon
  <2>3. \A i \in 1..m : s[i] = b[Cons!slot(Cons!plus(a, i - 1))]
    BY Zenon DEF ring
  <2>4. QED
    BY <2>1, <2>2, <2>3, Zenon
<1>8. t \in Seq(Chars) /\ Len(t) = m + 1 /\ \A i \in 1..(m + 1) : t[i] = d[Cons!slot(Cons!plus(a, i - 1))]
  <2>1. t \in Seq(Chars)
    BY <1>1, <1>3, RingType, Zenon
  <2>2. Len(t) = m + 1
    BY <1>1, RingLen, Zenon
  <2>3. \A i \in 1..(m + 1) : t[i] = d[Cons!slot(Cons!plus(a, i - 1))]
    BY Zenon DEF ring
  <2>4. QED
    BY <2>1, <2>2, <2>3, Zenon
<1> HIDE DEF s, t
<1>9. /\ Append(s, c) \in Seq(Chars) /\ Len(Append(s, c)) = m + 1 /\ Append(s, c)[m + 1] = c
      /\ \A i \in 1..m : Append(s, c)[i] = s[i]
  BY <1>7
<1>10. ASSUME NEW i \in 1..(m + 1) PROVE t[i] = Append(s, c)[i]
  <2>1. i \in 1..m \/ (i = m + 1 /\ i - 1 = m)
    OBVIOUS
  <2>2. ASSUME i \in 1..m PROVE t[i] = Append(s, c)[i]
    BY <1>4, <1>7, <1>8, <1>9, <2>2, Zenon
  <2>3. ASSUME i = m + 1, i - 1 = m PROVE t[i] = Append(s, c)[i]
    BY <1>6, <1>8, <1>9, <2>3, Zenon
  <2>4. QED
    BY <2>1, <2>2, <2>3, Zenon
<1>11. t = Append(s, c)
  BY <1>8, <1>9, <1>10, SameSeq, Zenon
<1>12. QED
  BY <1>3, <1>11, Zenon DEF s, t, d
---------------------------------------------------------------------------
(* The order of the three indices.                                         *)

\* The indices a, b, c of the read, write and edit ends.
Ordered(a, b, c) ==
  /\ a \in Index /\ b \in Index /\ c \in Index
  /\ dist(a, b) <= dist(a, c) /\ dist(a, c) <= INPUT_BUF_SIZE

\* What the order says of the two parts of the ring.
LEMMA Parts ==
  ASSUME Cons!ConsoleAssumption, NEW a, NEW b, NEW c, Ordered(a, b, c)
  PROVE  /\ dist(a, b) \in 0..INPUT_BUF_SIZE /\ dist(a, c) \in 0..INPUT_BUF_SIZE
         /\ dist(b, c) \in 0..INPUT_BUF_SIZE /\ dist(b, c) = dist(a, c) - dist(a, b)
         /\ b = Cons!plus(a, dist(a, b)) /\ c = Cons!plus(b, dist(b, c)) /\ c = Cons!plus(a, dist(a, c))
         /\ dist(a, b) = 0 <=> a = b
         /\ dist(b, c) = 0 <=> b = c
<1>1. a \in Index /\ b \in Index /\ c \in Index
  BY Zenon DEF Ordered
<1>2. dist(a, b) \in Index /\ dist(a, c) \in Index
  BY <1>1, Dist, Zenon
<1>3. dist(b, c) = dist(a, c) - dist(a, b)
  BY <1>1, Between, Zenon DEF Ordered
<1>4. /\ dist(a, b) \in 0..INPUT_BUF_SIZE /\ dist(a, c) \in 0..INPUT_BUF_SIZE
      /\ dist(b, c) \in 0..INPUT_BUF_SIZE
  BY <1>2, <1>3 DEF Ordered, Cons!ConsoleAssumption, Index
<1>5. b = Cons!plus(a, dist(a, b)) /\ c = Cons!plus(b, dist(b, c)) /\ c = Cons!plus(a, dist(a, c))
  BY <1>1, PlusDist, Zenon
<1>6. (dist(a, b) = 0 <=> a = b) /\ (dist(b, c) = 0 <=> b = c)
  BY <1>1, PlusDist, Zenon
<1>7. QED
  BY <1>3, <1>4, <1>5, <1>6, Zenon

\* A reader takes a character.
LEMMA TakeOrdered ==
  ASSUME Cons!ConsoleAssumption, NEW a, NEW b, NEW c, Ordered(a, b, c), a # b
  PROVE  Ordered(Cons!plus(a, 1), b, c) /\ dist(Cons!plus(a, 1), b) = dist(a, b) - 1 /\ dist(a, b) \in 1..INPUT_BUF_SIZE
<1>1. a \in Index /\ b \in Index /\ c \in Index
  BY Zenon DEF Ordered
<1>2. dist(a, b) \in 0..INPUT_BUF_SIZE /\ dist(a, c) \in 0..INPUT_BUF_SIZE /\ dist(a, b) # 0
  BY Parts, Zenon
<1>3. dist(a, b) \in 1..INPUT_BUF_SIZE /\ dist(a, c) # 0
  BY <1>2 DEF Ordered, Cons!ConsoleAssumption
<1>4. a # c
  BY <1>1, <1>3, PlusDist, Zenon
<1>5. /\ Cons!plus(a, 1) \in Index /\ dist(Cons!plus(a, 1), b) = dist(a, b) - 1
      /\ dist(Cons!plus(a, 1), c) = dist(a, c) - 1
  BY <1>1, <1>4, OneStep, Zenon
<1>6. dist(a, b) - 1 <= dist(a, c) - 1 /\ dist(a, c) - 1 <= INPUT_BUF_SIZE
  BY <1>2 DEF Ordered, Cons!ConsoleAssumption
<1>7. QED
  BY <1>1, <1>3, <1>5, <1>6, Zenon DEF Ordered

\* consoleintr() stores a character, and may commit the line.
LEMMA StoreOrdered ==
  ASSUME Cons!ConsoleAssumption, NEW a, NEW b, NEW c, Ordered(a, b, c), dist(a, c) < INPUT_BUF_SIZE
  PROVE  /\ Ordered(a, b, Cons!plus(c, 1)) /\ Ordered(a, Cons!plus(c, 1), Cons!plus(c, 1))
         /\ dist(a, Cons!plus(c, 1)) = dist(a, c) + 1 /\ dist(b, Cons!plus(c, 1)) = dist(b, c) + 1
<1>1. a \in Index /\ b \in Index /\ c \in Index
  BY Zenon DEF Ordered
<1>2. /\ dist(a, b) \in 0..INPUT_BUF_SIZE /\ dist(a, c) \in 0..INPUT_BUF_SIZE
      /\ dist(b, c) = dist(a, c) - dist(a, b)
  <2>1. dist(a, b) \in 0..INPUT_BUF_SIZE /\ dist(a, c) \in 0..INPUT_BUF_SIZE
    BY Parts, Zenon
  <2>2. dist(b, c) = dist(a, c) - dist(a, b)
    BY <1>1, Between, Zenon DEF Ordered
  <2>3. QED
    BY <2>1, <2>2, Zenon
<1>3. dist(a, c) < UINT - 1 /\ dist(b, c) < UINT - 1
  BY <1>2 DEF Cons!ConsoleAssumption
<1>4. /\ Cons!plus(c, 1) \in Index /\ dist(a, Cons!plus(c, 1)) = dist(a, c) + 1
      /\ dist(b, Cons!plus(c, 1)) = dist(b, c) + 1
  BY <1>1, <1>3, OneStep, Zenon
<1>5. /\ dist(a, b) <= dist(a, c) + 1 /\ dist(a, c) + 1 <= INPUT_BUF_SIZE /\ dist(a, c) + 1 <= dist(a, c) + 1
  BY <1>2 DEF Ordered, Cons!ConsoleAssumption
<1>6. QED
  BY <1>1, <1>4, <1>5, Zenon DEF Ordered

\* consoleintr() takes a character back.
LEMMA EraseOrdered ==
  ASSUME Cons!ConsoleAssumption, NEW a, NEW b, NEW c, Ordered(a, b, c), b # c
  PROVE  /\ Ordered(a, b, Cons!plus(c, 0 - 1)) /\ dist(b, Cons!plus(c, 0 - 1)) = dist(b, c) - 1
         /\ dist(b, c) \in 1..INPUT_BUF_SIZE
<1>1. a \in Index /\ b \in Index /\ c \in Index
  BY Zenon DEF Ordered
<1>2. /\ dist(a, b) \in 0..INPUT_BUF_SIZE /\ dist(a, c) \in 0..INPUT_BUF_SIZE
      /\ dist(b, c) \in 0..INPUT_BUF_SIZE /\ dist(b, c) = dist(a, c) - dist(a, b) /\ dist(b, c) # 0
  <2>1. dist(a, b) \in 0..INPUT_BUF_SIZE /\ dist(a, c) \in 0..INPUT_BUF_SIZE
    BY Parts, Zenon
  <2>2. dist(b, c) \in 0..INPUT_BUF_SIZE
    BY Parts, Zenon
  <2>3. dist(b, c) = dist(a, c) - dist(a, b)
    BY <1>1, Between, Zenon DEF Ordered
  <2>4. dist(b, c) # 0
    BY <1>1, PlusDist, Zenon
  <2>5. QED
    BY <2>1, <2>2, <2>3, <2>4, Zenon
<1>3. dist(a, c) # 0 /\ dist(b, c) \in 1..INPUT_BUF_SIZE
  BY <1>2 DEF Cons!ConsoleAssumption
<1>4. a # c
  BY <1>1, <1>3, PlusDist, Zenon
<1>5. /\ Cons!plus(c, 0 - 1) \in Index /\ dist(a, Cons!plus(c, 0 - 1)) = dist(a, c) - 1
      /\ dist(b, Cons!plus(c, 0 - 1)) = dist(b, c) - 1
  BY <1>1, <1>4, OneStep, Zenon
<1>6. dist(a, b) <= dist(a, c) - 1 /\ dist(a, c) - 1 <= INPUT_BUF_SIZE
  BY <1>2, <1>3 DEF Cons!ConsoleAssumption
<1>7. QED
  BY <1>1, <1>3, <1>5, <1>6, Zenon DEF Ordered

\* consoleintr() takes the line back.
LEMMA KillOrdered ==
  ASSUME Cons!ConsoleAssumption, NEW a, NEW b, NEW c, Ordered(a, b, c)
  PROVE  Ordered(a, b, b) /\ dist(b, b) = 0
<1>1. a \in Index /\ b \in Index
  BY Zenon DEF Ordered
<1>2. dist(a, b) <= dist(a, b) /\ dist(a, b) <= INPUT_BUF_SIZE
  <2>1. dist(a, b) \in 0..INPUT_BUF_SIZE
    BY Parts, Zenon
  <2>2. QED
    BY <2>1 DEF Cons!ConsoleAssumption
<1>3. QED
  BY <1>1, <1>2, PlusDist, Zenon DEF Ordered

---------------------------------------------------------------------------
(* The inductive invariant.                                                *)

\* The buffer, and the readers with their arguments and results.
BufOK == Buffer(buf)
ReadersOK ==
  /\ rpc \in [Readers -> {"idle", "acquire", "loop", "sleep", "asleep"}]
  /\ target \in [Readers -> ReadSizes \cup {0}]
  /\ n \in [Readers -> Nat] /\ \A p \in Readers : n[p] <= target[p]
  /\ killed \in [Readers -> BOOLEAN]
  /\ ret \in [Readers -> Int]
Legal(v) == v \in {-1, 0} \/ \E k \in ReadSizes : v \in 0..k
Results == \A p \in Readers : Legal(ret[p])

\* A reader holds cons.lock from its acquire() to its release() or sleep().
LockHeld ==
  /\ lock \in Readers \cup {None}
  /\ \A p \in Readers : rpc[p] \in {"loop", "sleep"} <=> lock = p

\* A reader that has decided to sleep has nothing to read.
NothingToRead == \A p \in Readers : rpc[p] \in {"sleep", "asleep"} => r = w

\* The line being edited has no end of line in it: ^U erases all of it.
OneLine == \A i \in Nat : i < dist(w, e) => buf[Cons!slot(Cons!plus(w, i))] # "nl"

ConsoleInv ==
  BufOK /\ Ordered(r, w, e) /\ ReadersOK /\ Results /\ LockHeld /\ NothingToRead /\ OneLine

\* The invariant implies the properties that the runs check.
LEMMA InvGives == ConsoleInv => Cons!ConsoleConsistent
<1> SUFFICES ASSUME ConsoleInv PROVE Cons!ConsoleConsistent
  OBVIOUS
<1>1. buf \in [0..(INPUT_BUF_SIZE - 1) -> Cons!AllKeys \ {"cr"}]
  BY Zenon DEF ConsoleInv, BufOK, Buffer, Chars, Slots
<1>2. {r, w, e} \subseteq 0..(UINT - 1)
  BY Zenon DEF ConsoleInv, Ordered, Index
<1>3. Cons!used(w) <= Cons!used(e) /\ Cons!used(e) <= INPUT_BUF_SIZE
  BY Zenon DEF ConsoleInv, Ordered, dist, Cons!used
<1>4. Cons!TypeOK
  BY <1>1, <1>2, <1>3, Zenon DEF ConsoleInv, Cons!TypeOK, ReadersOK, Results, Legal, LockHeld
<1>5. Cons!SleepersHaveNoInput
  BY Zenon DEF ConsoleInv, NothingToRead, Cons!SleepersHaveNoInput
<1>6. QED
  BY <1>4, <1>5, Zenon DEF Cons!ConsoleConsistent

\* consoleinit() establishes it.
LEMMA InvInit == ASSUME Cons!ConsoleAssumption PROVE Cons!Init => ConsoleInv
<1> SUFFICES ASSUME Cons!Init PROVE ConsoleInv
  OBVIOUS
<1>1. BufOK
  <2>1. "nul" \in Cons!AllKeys \ {"cr"}
    BY DEF Cons!AllKeys
  <2>2. QED
    BY <2>1, Zenon DEF Cons!Init, BufOK, Buffer, Chars, Slots
<1>2. 0 \in Index /\ 0 <= 0 /\ 0 <= INPUT_BUF_SIZE
  BY DEF Cons!ConsoleAssumption, Index
<1>3. dist(0, 0) = 0
  BY <1>2, PlusDist, Zenon
<1>4. Ordered(r, w, e)
  BY <1>2, <1>3, Zenon DEF Cons!Init, Ordered
<1>5. ReadersOK
  <2>1. 0 \in Nat /\ 0 \in Int /\ 0 <= 0
    OBVIOUS
  <2>2. QED
    BY <2>1, Zenon DEF Cons!Init, ReadersOK
<1>6. Results
  BY Zenon DEF Cons!Init, Results, Legal
<1>7. LockHeld
  BY DEF Cons!Init, LockHeld, Cons!ConsoleAssumption
<1>8. NothingToRead
  BY Zenon DEF Cons!Init, NothingToRead
<1>9. OneLine
  <2>1. \A i \in Nat : ~ (i < 0)
    OBVIOUS
  <2>2. QED
    BY <1>3, <2>1, Zenon DEF Cons!Init, OneLine
<1>10. QED
  BY <1>1, <1>4, <1>5, <1>6, <1>7, <1>8, <1>9, Zenon DEF ConsoleInv

\* ^U stops at the start of the line that is being edited.
LEMMA LineLength ==
  ASSUME Cons!ConsoleAssumption, Ordered(r, w, e), OneLine
  PROVE  Cons!plus(e, 0 - Cons!lineLength) = w
<1> DEFINE d == dist(w, e)
           Stop(k) == Cons!plus(e, 0 - k) = w \/ buf[Cons!slot(Cons!plus(e, 0 - k - 1))] = "nl"
           Go(k) == Cons!plus(e, 0 - k) # w /\ buf[Cons!slot(Cons!plus(e, 0 - k - 1))] # "nl"
           Q(k) == Stop(k) /\ \A j \in 0..(k - 1) : Go(j)
<1>1. w \in Index /\ e \in Index
  BY Zenon DEF Ordered
<1>2. d \in 0..INPUT_BUF_SIZE /\ d \in Nat
  <2>1. d \in 0..INPUT_BUF_SIZE
    BY Parts, Zenon
  <2>2. QED
    BY <2>1 DEF Cons!ConsoleAssumption
<1> HIDE DEF d
<1>3. ASSUME NEW k \in 0..d PROVE Cons!plus(e, 0 - k) = w <=> k = d
  BY <1>1, Back, Zenon DEF d
<1>4. ASSUME NEW k \in 0..(d - 1) PROVE Go(k)
  <2>1. k \in 0..d /\ k # d /\ k + 1 \in 0..d /\ 0 - (k + 1) = 0 - k - 1 /\ d - (k + 1) \in Nat /\ d - (k + 1) < d
    BY <1>2
  <2>2. Cons!plus(e, 0 - (k + 1)) = Cons!plus(w, d - (k + 1))
    BY <1>1, <2>1, Back, Zenon DEF d
  <2>3. Cons!plus(e, 0 - k - 1) = Cons!plus(w, d - (k + 1))
    BY <2>1, <2>2, Zenon
  <2>4. buf[Cons!slot(Cons!plus(w, d - (k + 1)))] # "nl"
    BY <2>1, Zenon DEF OneLine, d
  <2>5. Cons!plus(e, 0 - k) # w
    BY <1>3, <2>1, Zenon
  <2>6. QED
    BY <2>3, <2>4, <2>5, Zenon
<1>5. Q(d)
  <2>1. d \in 0..d
    BY <1>2
  <2>2. Cons!plus(e, 0 - d) = w
    BY <1>3, <2>1, Zenon
  <2>3. QED
    BY <1>4, <2>2, Zenon
<1>6. ASSUME NEW k \in 0..INPUT_BUF_SIZE, Q(k) PROVE k = d
  <2>1. k \in 0..(d - 1) \/ k = d \/ d \in 0..(k - 1)
    BY <1>2 DEF Cons!ConsoleAssumption
  <2>2. k \in 0..(d - 1) => FALSE
    BY <1>4, <1>6, Zenon
  <2>3. d \in 0..(k - 1) => FALSE
    BY <1>5, <1>6, <1>2, Zenon
  <2>4. QED
    BY <2>1, <2>2, <2>3, Zenon
<1>7. Cons!lineLength = CHOOSE k \in 0..INPUT_BUF_SIZE : Q(k)
  BY Zenon DEF Cons!lineLength
<1> HIDE DEF Q
<1>8. Cons!lineLength = d
  BY <1>2, <1>5, <1>6, <1>7, Zenon
<1>9. d \in 0..d
  BY <1>2
<1>10. QED
  BY <1>3, <1>8, <1>9, Zenon

---------------------------------------------------------------------------
(* The steps of consoleread().                                             *)

\* A step in which the ring stays and no reader does anything.
LEMMA InvQuiet ==
  ASSUME ConsoleInv, UNCHANGED Cons!vars
  PROVE  ConsoleInv'
<1>1. /\ buf' = buf /\ r' = r /\ w' = w /\ e' = e /\ lock' = lock /\ rpc' = rpc /\ n' = n
      /\ target' = target /\ killed' = killed /\ ret' = ret
  BY Zenon DEF Cons!vars, Cons!consvars, Cons!readvars
<1>2. BufOK' /\ Ordered(r, w, e)' /\ OneLine'
  BY <1>1, Zenon DEF ConsoleInv, BufOK, Buffer, Ordered, dist, OneLine, Cons!plus, Cons!slot, Slots, Index
<1>3. ReadersOK' /\ Results' /\ LockHeld' /\ NothingToRead'
  BY <1>1, Zenon DEF ConsoleInv, ReadersOK, Results, LockHeld, NothingToRead
<1>4. QED
  BY <1>2, <1>3, Zenon DEF ConsoleInv

\* The ring after a step of a reader, which takes a character or none.
LEMMA RingRead ==
  ASSUME Cons!ConsoleAssumption, ConsoleInv, UNCHANGED <<buf, w, e>>, r' = r \/ (r # w /\ r' = Cons!plus(r, 1))
  PROVE  BufOK' /\ Ordered(r, w, e)' /\ OneLine'
<1>1. buf' = buf /\ w' = w /\ e' = e
  OBVIOUS
<1>2. Ordered(r', w, e)
  BY TakeOrdered, Zenon DEF ConsoleInv
<1>3. BufOK' /\ OneLine'
  BY <1>1, Zenon DEF ConsoleInv, BufOK, Buffer, dist, OneLine, Cons!plus, Cons!slot, Slots
<1>4. Ordered(r, w, e)'
  BY <1>1, <1>2, Zenon DEF Ordered, dist, Index
<1>5. QED
  BY <1>3, <1>4, Zenon

\* read() is called.
LEMMA InvRead ==
  ASSUME Cons!ConsoleAssumption, ConsoleInv, NEW p \in Readers, Cons!Read(p)
  PROVE  ConsoleInv'
<1>1. BufOK' /\ Ordered(r, w, e)' /\ OneLine'
  BY RingRead, Zenon DEF Cons!Read, Cons!consvars
<1>2. ReadersOK'
  <2>1. PICK k \in ReadSizes : n' = [n EXCEPT ![p] = k] /\ target' = [target EXCEPT ![p] = k]
    BY Zenon DEF Cons!Read
  <2>2. k \in Nat /\ k <= k
    BY DEF Cons!ConsoleAssumption
  <2>3. rpc' \in [Readers -> {"idle", "acquire", "loop", "sleep", "asleep"}]
    BY Zenon DEF Cons!Read, Cons!moveR, ConsoleInv, ReadersOK
  <2>4. target' \in [Readers -> ReadSizes \cup {0}] /\ n' \in [Readers -> Nat]
    BY <2>1, <2>2, Zenon DEF ConsoleInv, ReadersOK
  <2>5. \A q \in Readers : n'[q] <= target'[q]
    BY <2>1, <2>2, Zenon DEF ConsoleInv, ReadersOK
  <2>6. ret' \in [Readers -> Int]
    <3>1. 0 \in Int
      OBVIOUS
    <3>2. QED
      BY <3>1, Zenon DEF Cons!Read, ConsoleInv, ReadersOK
  <2>7. QED
    BY <2>3, <2>4, <2>5, <2>6, Zenon DEF ReadersOK, Cons!Read, ConsoleInv
<1>3. Results'
  BY DEF Cons!Read, ConsoleInv, Results, Legal
<1>4. \A q \in Readers : rpc'[q] = IF q = p THEN "acquire" ELSE rpc[q]
  BY Zenon DEF Cons!Read, Cons!moveR, ConsoleInv, ReadersOK
<1>5. rpc[p] = "idle" /\ lock' = lock /\ r' = r /\ w' = w
  BY Zenon DEF Cons!Read, Cons!consvars
<1>6. LockHeld' /\ NothingToRead'
  BY <1>4, <1>5 DEF ConsoleInv, LockHeld, NothingToRead
<1>7. QED
  BY <1>1, <1>2, <1>3, <1>6, Zenon DEF ConsoleInv

\* acquire(&cons.lock).
LEMMA InvAcquire ==
  ASSUME Cons!ConsoleAssumption, ConsoleInv, NEW p \in Readers, Cons!ReadAcquire(p)
  PROVE  ConsoleInv'
<1>1. BufOK' /\ Ordered(r, w, e)' /\ OneLine'
  BY RingRead, Zenon DEF Cons!ReadAcquire
<1>2. ReadersOK' /\ Results'
  BY Zenon DEF Cons!ReadAcquire, Cons!moveR, ConsoleInv, ReadersOK, Results
<1>3. \A q \in Readers : rpc'[q] = IF q = p THEN "loop" ELSE rpc[q]
  BY Zenon DEF Cons!ReadAcquire, Cons!moveR, ConsoleInv, ReadersOK
<1>4. lock = None /\ lock' = p /\ r' = r /\ w' = w /\ None \notin Readers
  BY Zenon DEF Cons!ReadAcquire, Cons!ConsoleAssumption
<1>5. LockHeld' /\ NothingToRead'
  BY <1>3, <1>4 DEF ConsoleInv, LockHeld, NothingToRead
<1>6. QED
  BY <1>1, <1>2, <1>5, Zenon DEF ConsoleInv

\* A read returns v: it releases the lock.
LEMMA Returns ==
  ASSUME Cons!ConsoleAssumption, ConsoleInv, NEW p \in Readers, NEW v, rpc[p] = "loop", Cons!readReturn(p, v),
         Legal(v),
         UNCHANGED <<w, killed>>, r' = r \/ r # w
  PROVE  ReadersOK' /\ Results' /\ LockHeld' /\ NothingToRead'
<1>1. \A q \in Readers : rpc'[q] = IF q = p THEN "idle" ELSE rpc[q]
  BY Zenon DEF Cons!readReturn, Cons!moveR, ConsoleInv, ReadersOK
<1>2. ReadersOK'
  <2>1. 0 \in Nat /\ 0 <= 0
    OBVIOUS
  <2>2. rpc' \in [Readers -> {"idle", "acquire", "loop", "sleep", "asleep"}]
    BY Zenon DEF Cons!readReturn, Cons!moveR, ConsoleInv, ReadersOK
  <2>3. target' \in [Readers -> ReadSizes \cup {0}] /\ n' \in [Readers -> Nat]
    BY <2>1, Zenon DEF Cons!readReturn, ConsoleInv, ReadersOK
  <2>4. \A q \in Readers : n'[q] <= target'[q]
    BY <2>1, Zenon DEF Cons!readReturn, ConsoleInv, ReadersOK
  <2>5. ret' \in [Readers -> Int]
    <3>1. v \in Int
      BY DEF Legal, Cons!ConsoleAssumption
    <3>2. QED
      BY <3>1, Zenon DEF Cons!readReturn, ConsoleInv, ReadersOK
  <2>6. QED
    BY <2>2, <2>3, <2>4, <2>5, Zenon DEF ReadersOK, ConsoleInv
<1>3. Results'
  <2>1. ASSUME NEW q \in Readers PROVE (ret'[q] = v) \/ ret'[q] = ret[q]
    BY DEF Cons!readReturn
  <2>2. QED
    BY <2>1, Zenon DEF ConsoleInv, Results
<1>4. lock = p /\ lock' = None /\ None \notin Readers /\ w' = w
  BY Zenon DEF Cons!readReturn, Cons!ConsoleAssumption, ConsoleInv, LockHeld
<1>5. LockHeld' /\ NothingToRead'
  BY <1>1, <1>4 DEF ConsoleInv, LockHeld, NothingToRead
<1>6. QED
  BY <1>2, <1>3, <1>5, Zenon

\* The number of characters a read has got so far.
LEMMA Progress ==
  ASSUME Cons!ConsoleAssumption, ConsoleInv, NEW p \in Readers
  PROVE  /\ n[p] \in Nat /\ target[p] \in Nat /\ n[p] <= target[p]
         /\ Legal(target[p]) /\ Legal(target[p] - n[p])
         /\ n[p] > 0 => Legal(target[p] - n[p] + 1)
<1>1. n[p] \in Nat /\ target[p] \in ReadSizes \cup {0} /\ n[p] <= target[p]
  BY Zenon DEF ConsoleInv, ReadersOK
<1>2. target[p] \in Nat /\ ReadSizes \subseteq Nat
  <2>1. ReadSizes \subseteq Nat /\ 0 \in Nat
    BY DEF Cons!ConsoleAssumption
  <2>2. QED
    BY <1>1, <2>1, Zenon
<1>3. CASE target[p] = 0
  <2>1. target[p] - n[p] = 0 /\ ~ (n[p] > 0)
    BY <1>1, <1>3
  <2>2. QED
    BY <1>1, <1>2, <1>3, <2>1, Zenon DEF Legal
<1>4. CASE target[p] \in ReadSizes
  <2>1. target[p] - n[p] \in 0..target[p] /\ (n[p] > 0 => target[p] - n[p] + 1 \in 0..target[p])
        /\ target[p] \in 0..target[p]
    BY <1>1, <1>2
  <2>2. QED
    BY <1>1, <1>2, <1>4, <2>1, Zenon DEF Legal
<1>5. QED
  BY <1>1, <1>3, <1>4, Zenon

\* A reader finds no committed input.
LEMMA InvEmpty ==
  ASSUME Cons!ConsoleAssumption, ConsoleInv, NEW p \in Readers, Cons!ReadEmpty(p)
  PROVE  ConsoleInv'
<1>1. rpc[p] = "loop" /\ r = w /\ buf' = buf /\ r' = r /\ w' = w /\ e' = e /\ killed' = killed
  BY Zenon DEF Cons!ReadEmpty
<1>2. BufOK' /\ Ordered(r, w, e)' /\ OneLine'
  BY <1>1, RingRead, Zenon
<1>3. CASE Cons!readReturn(p, -1)
  <2>1. ReadersOK' /\ Results' /\ LockHeld' /\ NothingToRead'
    <3>1. Legal(-1)
      BY DEF Legal
    <3>2. QED
      BY <1>1, <1>3, <3>1, Returns, Zenon
  <2>2. QED
    BY <1>2, <2>1, Zenon DEF ConsoleInv
<1>4. CASE Cons!moveR(p, "sleep") /\ UNCHANGED <<lock, n, target, ret>>
  <2>1. ReadersOK' /\ Results'
    BY <1>1, <1>4, Zenon DEF Cons!moveR, ConsoleInv, ReadersOK, Results
  <2>2. \A q \in Readers : rpc'[q] = IF q = p THEN "sleep" ELSE rpc[q]
    BY <1>4, Zenon DEF Cons!moveR, ConsoleInv, ReadersOK
  <2>3. LockHeld' /\ NothingToRead'
    BY <1>1, <1>4, <2>2 DEF ConsoleInv, LockHeld, NothingToRead
  <2>4. QED
    BY <1>2, <2>1, <2>3, Zenon DEF ConsoleInv
<1>5. QED
  BY <1>3, <1>4, Zenon DEF Cons!ReadEmpty

\* sleep(&cons.r, &cons.lock).
LEMMA InvSleep ==
  ASSUME Cons!ConsoleAssumption, ConsoleInv, NEW p \in Readers, Cons!ReadSleep(p)
  PROVE  ConsoleInv'
<1>1. /\ rpc[p] = "sleep" /\ lock' = None /\ buf' = buf /\ r' = r /\ w' = w /\ e' = e
      /\ n' = n /\ target' = target /\ killed' = killed /\ ret' = ret
  BY Zenon DEF Cons!ReadSleep
<1>2. BufOK' /\ Ordered(r, w, e)' /\ OneLine'
  BY <1>1, RingRead, Zenon
<1>3. ReadersOK' /\ Results'
  BY <1>1, Zenon DEF Cons!ReadSleep, Cons!moveR, ConsoleInv, ReadersOK, Results
<1>4. \A q \in Readers : rpc'[q] = IF q = p THEN "asleep" ELSE rpc[q]
  BY Zenon DEF Cons!ReadSleep, Cons!moveR, ConsoleInv, ReadersOK
<1>5. lock = p /\ None \notin Readers
  BY <1>1, Zenon DEF ConsoleInv, LockHeld, Cons!ConsoleAssumption
<1>6. LockHeld' /\ NothingToRead'
  BY <1>1, <1>4, <1>5, Zenon DEF ConsoleInv, LockHeld, NothingToRead
<1>7. QED
  BY <1>2, <1>3, <1>6, Zenon DEF ConsoleInv

\* kkill() of a reader.
LEMMA InvKill ==
  ASSUME Cons!ConsoleAssumption, ConsoleInv, NEW p \in Readers, Cons!Kill(p)
  PROVE  ConsoleInv'
<1>1. /\ lock' = lock /\ buf' = buf /\ r' = r /\ w' = w /\ e' = e
      /\ n' = n /\ target' = target /\ ret' = ret
  BY Zenon DEF Cons!Kill, Cons!consvars
<1>2. BufOK' /\ Ordered(r, w, e)' /\ OneLine'
  BY <1>1, RingRead, Zenon
<1>3. Results' /\ killed' \in [Readers -> BOOLEAN]
  BY <1>1, Zenon DEF Cons!Kill, ConsoleInv, ReadersOK, Results
<1>4. \A q \in Readers : rpc'[q] = IF q = p /\ rpc[p] = "asleep" THEN "acquire" ELSE rpc[q]
  BY Zenon DEF Cons!Kill, Cons!moveR, ConsoleInv, ReadersOK
<1>5. rpc' \in [Readers -> {"idle", "acquire", "loop", "sleep", "asleep"}]
  BY Zenon DEF Cons!Kill, Cons!moveR, ConsoleInv, ReadersOK
<1>6. ReadersOK'
  BY <1>1, <1>3, <1>5, Zenon DEF ConsoleInv, ReadersOK
<1>7. LockHeld' /\ NothingToRead'
  BY <1>1, <1>4, Zenon DEF ConsoleInv, LockHeld, NothingToRead
<1>8. QED
  BY <1>2, <1>3, <1>6, <1>7, Zenon DEF ConsoleInv

\* A reader takes a character, or returns.
LEMMA InvChar ==
  ASSUME Cons!ConsoleAssumption, ConsoleInv, NEW p \in Readers, Cons!ReadChar(p)
  PROVE  ConsoleInv' /\ (r' = r \/ (r # w /\ r' = Cons!plus(r, 1))) /\ UNCHANGED <<buf, w, e>>
<1>1. rpc[p] = "loop" /\ buf' = buf /\ w' = w /\ e' = e /\ killed' = killed /\ (n[p] = 0 \/ r # w)
  BY Zenon DEF Cons!ReadChar
<1>2. /\ n[p] \in Nat /\ target[p] \in Nat /\ n[p] <= target[p] /\ (n[p] > 0 => n[p] # 0)
      /\ Legal(target[p]) /\ Legal(target[p] - n[p]) /\ (n[p] > 0 => Legal(target[p] - n[p] + 1))
  <2>1. /\ n[p] \in Nat /\ target[p] \in Nat /\ n[p] <= target[p]
        /\ Legal(target[p]) /\ Legal(target[p] - n[p]) /\ (n[p] > 0 => Legal(target[p] - n[p] + 1))
    BY Progress, Zenon
  <2>2. n[p] > 0 => n[p] # 0
    BY <2>1, SMTT(30)
  <2>3. QED
    BY <2>1, <2>2, Zenon
<1>3. r' = r \/ (r # w /\ r' = Cons!plus(r, 1))
  BY <1>1, <1>2, Zenon DEF Cons!ReadChar, Cons!readEof
<1>4. BufOK' /\ Ordered(r, w, e)' /\ OneLine'
  BY <1>1, <1>3, RingRead, Zenon
<1>5. ASSUME NEW v, Cons!readReturn(p, v), Legal(v)
      PROVE  ConsoleInv'
  <2>1. ReadersOK' /\ Results' /\ LockHeld' /\ NothingToRead'
    BY <1>1, <1>3, <1>5, Returns, Zenon
  <2>2. QED
    BY <1>4, <2>1, Zenon DEF ConsoleInv
<1>6. CASE n[p] = 0 /\ Cons!readReturn(p, target[p])
  <2>1. PICK v : v = target[p]
    OBVIOUS
  <2>2. Cons!readReturn(p, v)
    BY <1>6, <2>1, Zenon DEF Cons!readReturn
  <2>3. Legal(v)
    BY <1>2, <1>6, <2>1, Zenon
  <2>4. QED
    BY <1>1, <1>3, <1>5, <2>2, <2>3, Zenon
<1>7. CASE n[p] > 0 /\ Cons!readReturn(p, target[p] - n[p])
  <2>1. PICK v : v = target[p] - n[p]
    OBVIOUS
  <2>2. Cons!readReturn(p, v)
    BY <1>7, <2>1, Zenon DEF Cons!readReturn
  <2>3. Legal(v)
    BY <1>2, <1>7, <2>1, Zenon
  <2>4. QED
    BY <1>1, <1>3, <1>5, <2>2, <2>3, Zenon
<1>8. CASE n[p] > 0 /\ Cons!readReturn(p, target[p] - n[p] + 1)
  <2>1. PICK v : v = target[p] - n[p] + 1
    OBVIOUS
  <2>2. Cons!readReturn(p, v)
    BY <1>8, <2>1, Zenon DEF Cons!readReturn
  <2>3. Legal(v)
    BY <1>2, <1>8, <2>1, Zenon
  <2>4. QED
    BY <1>1, <1>3, <1>5, <2>2, <2>3, Zenon
<1>9. CASE n[p] > 0 /\ n' = [n EXCEPT ![p] = @ - 1] /\ UNCHANGED <<lock, rpc, target, ret>> /\ r # w
  <2>1. n[p] - 1 \in Nat /\ n[p] - 1 <= target[p]
    BY <1>2, <1>9
  <2>2. n' \in [Readers -> Nat]
    BY <1>9, <2>1, Zenon DEF ConsoleInv, ReadersOK
  <2>3. \A q \in Readers : n'[q] = IF q = p THEN n[p] - 1 ELSE n[q]
    BY <1>9, Zenon DEF ConsoleInv, ReadersOK
  <2>4. ReadersOK' /\ Results'
    BY <1>1, <1>9, <2>1, <2>2, <2>3, Zenon DEF ConsoleInv, ReadersOK, Results
  <2>5. LockHeld' /\ NothingToRead'
    BY <1>1, <1>9, Zenon DEF ConsoleInv, LockHeld, NothingToRead
  <2>6. QED
    BY <1>1, <1>3, <1>4, <2>4, <2>5, Zenon DEF ConsoleInv
<1>10. \/ n[p] = 0 /\ Cons!readReturn(p, target[p])
       \/ n[p] > 0 /\ Cons!readReturn(p, target[p] - n[p])
       \/ n[p] > 0 /\ Cons!readReturn(p, target[p] - n[p] + 1)
       \/ n[p] > 0 /\ n' = [n EXCEPT ![p] = @ - 1] /\ UNCHANGED <<lock, rpc, target, ret>> /\ r # w
  BY <1>1, <1>2, Zenon DEF Cons!ReadChar, Cons!readEof
<1>11. ConsoleInv'
  BY <1>6, <1>7, <1>8, <1>9, <1>10, Zenon
<1>12. QED
  BY <1>1, <1>3, <1>11, Zenon

---------------------------------------------------------------------------
(* The steps of consoleintr().                                             *)

\* What a step of the line editor is.
LineStep == Cons!Line!Next \/ UNCHANGED <<Cons!Committed, Cons!Editing>>

\* The two parts of the ring, as sequences.
LEMMA Reading ==
  /\ Cons!Committed = ring(r, dist(r, w), buf) /\ Cons!Editing = ring(w, dist(w, e), buf)
  /\ Cons!Committed' = ring(r', dist(r', w'), buf') /\ Cons!Editing' = ring(w', dist(w', e'), buf')
  BY Zenon DEF Cons!Committed, Cons!Editing, ring, Cons!used, dist, Cons!slot, Cons!plus

\* A step that leaves the ring alone is no step of the editor.
LEMMA LineQuiet ==
  ASSUME UNCHANGED <<buf, r, w, e>>
  PROVE  LineStep
<1>1. Cons!Committed' = Cons!Committed /\ Cons!Editing' = Cons!Editing
  BY Zenon DEF Cons!Committed, Cons!Editing, Cons!used, Cons!slot, Cons!plus
<1>2. QED
  BY <1>1, Zenon DEF LineStep

\* A step that takes a character back, or none, from the line being edited.
LEMMA InvErase ==
  ASSUME Cons!ConsoleAssumption, ConsoleInv, UNCHANGED <<buf, r, w, lock, Cons!readvars>>,
         Ordered(r, w, e'), dist(w, e') <= dist(w, e)
  PROVE  ConsoleInv'
<1>1. /\ buf' = buf /\ r' = r /\ w' = w /\ lock' = lock /\ rpc' = rpc /\ n' = n
      /\ target' = target /\ killed' = killed /\ ret' = ret
  BY Zenon DEF Cons!readvars
<1>2. BufOK' /\ Ordered(r, w, e)'
  BY <1>1, Zenon DEF ConsoleInv, BufOK, Buffer, Ordered, dist, Slots, Index
<1>3. OneLine'
  <2>1. dist(w, e') \in Int /\ dist(w, e) \in Int
    <3>1. dist(w, e') \in 0..INPUT_BUF_SIZE /\ dist(w, e) \in 0..INPUT_BUF_SIZE
      BY Parts, Zenon DEF ConsoleInv
    <3>2. QED
      BY <3>1 DEF Cons!ConsoleAssumption
  <2>2. \A i \in Nat : i < dist(w, e') => i < dist(w, e)
    BY <2>1
  <2>3. \A i \in Nat : i < dist(w, e') => buf[Cons!slot(Cons!plus(w, i))] # "nl"
    BY <2>2, Zenon DEF ConsoleInv, OneLine
  <2>4. QED
    BY <1>1, <2>3, Zenon DEF OneLine, dist, Cons!plus, Cons!slot
<1>4. ReadersOK' /\ Results' /\ LockHeld' /\ NothingToRead'
  BY <1>1, Zenon DEF ConsoleInv, ReadersOK, Results, Legal, LockHeld, NothingToRead
<1>5. QED
  BY <1>2, <1>3, <1>4, Zenon DEF ConsoleInv

\* ^U takes back the whole line.
LEMMA KillLine ==
  ASSUME Cons!ConsoleAssumption, ConsoleInv, e' = Cons!plus(e, 0 - Cons!lineLength), UNCHANGED <<buf, r, w, lock, Cons!readvars>>
  PROVE  ConsoleInv' /\ LineStep
<1>1. Ordered(r, w, e) /\ OneLine
  BY Zenon DEF ConsoleInv
<1>2. e' = w
  BY <1>1, LineLength, Zenon
<1>3. Ordered(r, w, w) /\ dist(w, w) = 0
  BY <1>1, KillOrdered, Zenon
<1>4. 0 <= dist(w, e)
  <2>1. dist(w, e) \in 0..INPUT_BUF_SIZE
    BY <1>1, Parts, Zenon
  <2>2. QED
    BY <2>1 DEF Cons!ConsoleAssumption
<1>5. ConsoleInv'
  BY <1>2, <1>3, <1>4, InvErase, Zenon
<1>6. Cons!Editing' = <<>> /\ Cons!Committed' = Cons!Committed
  <2>1. Cons!Committed' = Cons!Committed
    BY Zenon DEF Cons!Committed, Cons!used, Cons!slot, Cons!plus
  <2>2. Cons!Editing' = ring(w', dist(w', e'), buf') /\ w' = w
    BY Reading, Zenon
  <2>3. Cons!Editing' = ring(w, 0, buf')
    BY <1>2, <1>3, <2>2, Zenon
  <2>4. 1..0 = {}
    OBVIOUS
  <2>5. ring(w, 0, buf') = <<>>
    BY <2>4 DEF ring
  <2>6. QED
    BY <2>1, <2>3, <2>5, Zenon
<1>7. Cons!Line!Kill
  BY <1>6, Zenon DEF Cons!Line!Kill
<1>8. QED
  BY <1>5, <1>7, Zenon DEF LineStep, Cons!Line!Next

\* ^H takes back one character.
LEMMA EraseChar ==
  ASSUME Cons!ConsoleAssumption, ConsoleInv, e # w, e' = Cons!plus(e, 0 - 1), UNCHANGED <<buf, r, w, lock, Cons!readvars>>
  PROVE  ConsoleInv' /\ LineStep
<1>1. Ordered(r, w, e) /\ Buffer(buf) /\ w \in Index
  BY Zenon DEF ConsoleInv, BufOK, Ordered
<1>2. Ordered(r, w, e') /\ dist(w, e') = dist(w, e) - 1 /\ dist(w, e) \in 1..INPUT_BUF_SIZE
  BY <1>1, EraseOrdered, Zenon
<1>3. dist(w, e') <= dist(w, e)
  BY <1>2 DEF Cons!ConsoleAssumption
<1>4. ConsoleInv'
  BY <1>2, <1>3, InvErase, Zenon
<1>5. Cons!Committed' = Cons!Committed
  BY Zenon DEF Cons!Committed, Cons!used, Cons!slot, Cons!plus
<1>6. Cons!Editing = ring(w, dist(w, e), buf) /\ Cons!Editing' = ring(w, dist(w, e) - 1, buf)
  <2>1. Cons!Editing' = ring(w', dist(w', e'), buf') /\ w' = w /\ buf' = buf
    BY Reading, Zenon
  <2>2. QED
    BY <1>2, <2>1, Reading, Zenon
<1>7. Cons!Editing' = SubSeq(Cons!Editing, 1, Len(Cons!Editing) - 1) /\ Cons!Editing # <<>>
  BY <1>1, <1>2, <1>6, RingFront, Zenon
<1>8. Cons!Line!Erase
  BY <1>5, <1>7, Zenon DEF Cons!Line!Erase
<1>9. QED
  BY <1>4, <1>8, Zenon DEF LineStep, Cons!Line!Next

\* A reader takes a committed character, or none.
LEMMA TakeChar ==
  ASSUME Cons!ConsoleAssumption, ConsoleInv, UNCHANGED <<buf, w, e>>, r' = r \/ (r # w /\ r' = Cons!plus(r, 1))
  PROVE  LineStep
<1>1. CASE r' = r
  BY <1>1, LineQuiet, Zenon
<1>2. CASE r # w /\ r' = Cons!plus(r, 1)
  <2>1. Ordered(r, w, e) /\ Buffer(buf) /\ r \in Index
    BY Zenon DEF ConsoleInv, BufOK, Ordered
  <2>2. dist(Cons!plus(r, 1), w) = dist(r, w) - 1 /\ dist(r, w) \in 1..INPUT_BUF_SIZE
    BY <1>2, <2>1, TakeOrdered, Zenon
  <2>3. Cons!Committed = ring(r, dist(r, w), buf) /\ Cons!Committed' = ring(Cons!plus(r, 1), dist(r, w) - 1, buf)
    <3>1. Cons!Committed' = ring(r', dist(r', w'), buf') /\ w' = w /\ buf' = buf
      BY Reading, Zenon
    <3>2. QED
      BY <1>2, <2>2, <3>1, Reading, Zenon
  <2>4. Cons!Committed' = Tail(Cons!Committed) /\ Cons!Committed # <<>>
    BY <2>1, <2>2, <2>3, RingTail, Zenon
  <2>5. Cons!Editing' = Cons!Editing
    BY Zenon DEF Cons!Editing, Cons!slot, Cons!plus
  <2>6. Cons!Line!Take
    BY <2>4, <2>5, Zenon DEF Cons!Line!Take
  <2>7. QED
    BY <2>6, Zenon DEF LineStep, Cons!Line!Next
<1>3. QED
  BY <1>1, <1>2, Zenon

\* wakeup(&cons.r), when no reader holds the lock.
LEMMA Woken ==
  ASSUME Cons!ConsoleAssumption, ConsoleInv, lock = None, Cons!wakeReaders, UNCHANGED <<lock, n, target, killed, ret>>
  PROVE  ReadersOK' /\ Results' /\ LockHeld' /\ NothingToRead'
<1>1. \A p \in Readers : rpc'[p] = IF rpc[p] = "asleep" THEN "acquire" ELSE rpc[p]
  BY Zenon DEF Cons!wakeReaders
<1>2. rpc' \in [Readers -> {"idle", "acquire", "loop", "sleep", "asleep"}]
  BY Zenon DEF Cons!wakeReaders, ConsoleInv, ReadersOK
<1>3. ReadersOK' /\ Results'
  BY <1>2, Zenon DEF ConsoleInv, ReadersOK, Results, Legal
<1>4. \A p \in Readers : rpc[p] \notin {"loop", "sleep"}
  BY Zenon DEF ConsoleInv, LockHeld, Cons!ConsoleAssumption
<1>5. \A p \in Readers : rpc'[p] \notin {"loop", "sleep", "asleep"}
  BY <1>1, <1>4
<1>6. LockHeld'
  <2>1. lock' = None /\ None \notin Readers
    BY Zenon DEF Cons!ConsoleAssumption
  <2>2. QED
    BY <1>5, <2>1, Zenon DEF LockHeld
<1>7. NothingToRead'
  BY <1>5, Zenon DEF NothingToRead
<1>8. QED
  BY <1>3, <1>6, <1>7, Zenon

\* The buffer g is f with a character x stored at the index c, the end of what
\* is edited: it joins what is edited, and what is committed stays.
Stored(a, b, c, f, x, g) ==
  /\ Buffer(g)
  /\ ring(a, dist(a, b), g) = ring(a, dist(a, b), f)
  /\ ring(b, dist(b, c) + 1, g) = Append(ring(b, dist(b, c), f), x)
  /\ ring(a, dist(a, b), g) \o ring(b, dist(b, c) + 1, g) = ring(a, dist(a, c) + 1, g)
  /\ Len(ring(a, dist(a, b), f)) + Len(Append(ring(b, dist(b, c), f), x)) = dist(a, c) + 1

\* What consoleintr() stores.
LEMMA RingStore ==
  ASSUME Cons!ConsoleAssumption, NEW a, NEW b, NEW c, Ordered(a, b, c), dist(a, c) < INPUT_BUF_SIZE,
         NEW f, Buffer(f), NEW x \in Chars
  PROVE  Stored(a, b, c, f, x, put(f, Cons!slot(c), x))
<1>g. PICK g : g = put(f, Cons!slot(c), x)
  OBVIOUS
<1> DEFINE d == dist(b, c)
           m == dist(a, c)
           k == dist(a, b)
<1>1. a \in Index /\ b \in Index /\ c \in Index
  BY Zenon DEF Ordered
<1>2. b = Cons!plus(a, k) /\ c = Cons!plus(b, d) /\ c = Cons!plus(a, m)
  BY <1>1, PlusDist, Zenon
<1>3. k \in 0..INPUT_BUF_SIZE /\ m \in 0..INPUT_BUF_SIZE /\ d \in 0..INPUT_BUF_SIZE
  BY Parts, Zenon
<1>4. d = m - k
  BY <1>1, Between, Zenon DEF Ordered
<1>5. k <= m /\ m < INPUT_BUF_SIZE /\ INPUT_BUF_SIZE \in Nat
  BY Zenon DEF Ordered, Cons!ConsoleAssumption
<1> HIDE DEF d, m, k
<1>6. k \in Nat /\ m \in Nat /\ d \in Nat /\ d < INPUT_BUF_SIZE /\ d + 1 \in Nat
  BY <1>3, <1>4, <1>5
<1>7. k + (d + 1) = m + 1 /\ m + 1 <= INPUT_BUF_SIZE
  BY <1>3, <1>4, <1>5
<1>8. Buffer(g) /\ ring(a, k, g) = ring(a, k, f)
  <2>1. g = put(f, Cons!slot(Cons!plus(a, m)), x)
    BY <1>2, <1>g, Zenon
  <2>2. a \in Index /\ k \in Nat /\ m \in Nat /\ k <= m /\ m < INPUT_BUF_SIZE
    BY <1>1, <1>5, <1>6, Zenon
  <2>3. Buffer(put(f, Cons!slot(Cons!plus(a, m)), x))
    BY <2>2, RingPut, Zenon
  <2>4. Kept(a, k, f, put(f, Cons!slot(Cons!plus(a, m)), x))
    BY <2>2, RingKeep, Zenon
  <2>5. QED
    BY <2>1, <2>3, <2>4, Zenon DEF Kept
<1>9. ring(b, d + 1, g) = Append(ring(b, d, f), x)
  <2>1. g = put(f, Cons!slot(Cons!plus(b, d)), x)
    BY <1>2, <1>g, Zenon
  <2>2. b \in Index /\ d \in Nat /\ d < INPUT_BUF_SIZE
    BY <1>1, <1>6, Zenon
  <2>3. ring(b, d + 1, put(f, Cons!slot(Cons!plus(b, d)), x)) = Append(ring(b, d, f), x)
    BY <2>2, RingPut, Zenon
  <2>4. QED
    BY <2>1, <2>3, Zenon
<1>10. ring(a, k, g) \o ring(b, d + 1, g) = ring(a, m + 1, g)
  <2>1. k + (d + 1) <= INPUT_BUF_SIZE
    BY <1>7, Zenon
  <2>2. ring(a, k, g) \o ring(Cons!plus(a, k), d + 1, g) = ring(a, k + (d + 1), g)
    <3>1. a \in Index /\ k \in Nat /\ d + 1 \in Nat /\ Buffer(g)
      BY <1>1, <1>6, <1>8, Zenon
    <3>2. QED
      BY <2>1, <3>1, RingJoin, Zenon
  <2>3. QED
    BY <1>2, <1>7, <2>2, Zenon
<1>11. Len(ring(a, k, f)) + Len(Append(ring(b, d, f), x)) = m + 1
  <2>1. ring(b, d, f) \in Seq(Chars)
    BY <1>1, <1>3, RingType, Zenon
  <2>2. Len(ring(a, k, f)) = k /\ Len(ring(b, d, f)) = d
    BY <1>6, RingLen, Zenon
  <2>3. Len(Append(ring(b, d, f), x)) = d + 1
    BY <2>1, <2>2
  <2>4. QED
    BY <1>7, <2>2, <2>3, Zenon
<1>12. Stored(a, b, c, f, x, g)
  BY <1>8, <1>9, <1>10, <1>11, Zenon DEF Stored, d, m, k
<1>13. QED
  BY <1>12, <1>g, Zenon

\* The default case of consoleintr(): a character joins the line, which is
\* committed when it ends or the ring is full.
LEMMA StoreChar ==
  ASSUME Cons!ConsoleAssumption, ConsoleInv, NEW ch \in Keys, ch \notin {"^P", "^U", "^H"}, Cons!accepted(ch), Cons!store(ch),
         lock = None, UNCHANGED <<r, lock, n, target, killed, ret>>
  PROVE  ConsoleInv' /\ LineStep
<1> DEFINE c == IF ch = "cr" THEN "nl" ELSE ch
           d == dist(w, e)
           m == dist(r, e)
           k == dist(r, w)
<1>1. c \in {"x", "nl", "^D"} /\ c \in Chars
  BY DEF Cons!ConsoleAssumption, Chars, Cons!AllKeys, Cons!accepted
<1>2. /\ buf' = [buf EXCEPT ![Cons!slot(e)] = c] /\ e' = Cons!plus(e, 1) /\ r' = r
      /\ IF Cons!lineEnds(c) THEN w' = e' /\ Cons!wakeReaders ELSE w' = w /\ rpc' = rpc
  BY Zenon DEF Cons!store
<1> HIDE DEF c
<1>3. Ordered(r, w, e) /\ OneLine /\ Buffer(buf) /\ r \in Index /\ w \in Index /\ e \in Index
  BY Zenon DEF ConsoleInv, BufOK, Ordered
<1>4. m < INPUT_BUF_SIZE
  BY Zenon DEF Cons!accepted, Cons!used, dist
<1>5. /\ Ordered(r, w, Cons!plus(e, 1)) /\ Ordered(r, Cons!plus(e, 1), Cons!plus(e, 1))
      /\ dist(r, Cons!plus(e, 1)) = m + 1 /\ dist(w, Cons!plus(e, 1)) = d + 1
  <2>1. Ordered(r, w, Cons!plus(e, 1)) /\ Ordered(r, Cons!plus(e, 1), Cons!plus(e, 1))
    BY <1>3, <1>4, StoreOrdered, Zenon
  <2>2. dist(r, Cons!plus(e, 1)) = m + 1 /\ dist(w, Cons!plus(e, 1)) = d + 1
    BY <1>3, <1>4, StoreOrdered
  <2>3. QED
    BY <2>1, <2>2, Zenon
<1>6. /\ m \in Nat /\ d \in Nat /\ d < INPUT_BUF_SIZE /\ m + 1 <= INPUT_BUF_SIZE
      /\ INPUT_BUF_SIZE \in Nat
  <2>1. k \in 0..INPUT_BUF_SIZE /\ m \in 0..INPUT_BUF_SIZE /\ d \in 0..INPUT_BUF_SIZE
    BY <1>3, Parts, Zenon
  <2>2. d = m - k
    BY <1>3, Between, Zenon DEF Ordered
  <2>3. INPUT_BUF_SIZE \in Nat
    BY Zenon DEF Cons!ConsoleAssumption
  <2> HIDE DEF d, m, k
  <2>4. QED
    BY <1>4, <2>1, <2>2, <2>3
<1>7. e = Cons!plus(w, d)
  BY <1>3, PlusDist, Zenon
<1>8. /\ Buffer(buf')
      /\ ring(r, k, buf') = ring(r, k, buf)
      /\ ring(w, d + 1, buf') = Append(ring(w, d, buf), c)
      /\ ring(r, k, buf') \o ring(w, d + 1, buf') = ring(r, m + 1, buf')
      /\ Len(ring(r, k, buf)) + Len(Append(ring(w, d, buf), c)) = m + 1
  <2>1. Stored(r, w, e, buf, c, put(buf, Cons!slot(e), c))
    BY <1>1, <1>3, <1>4, RingStore, Zenon
  <2>2. buf' = put(buf, Cons!slot(e), c)
    BY <1>2, Zenon DEF put
  <2>3. Stored(r, w, e, buf, c, buf')
    BY <2>1, <2>2, Zenon
  <2>4. QED
    BY <2>3, Zenon DEF Stored
<1>11. Cons!Committed = ring(r, k, buf) /\ Cons!Editing = ring(w, d, buf)
  BY Reading, Zenon
<1>12. Len(Cons!Committed) + Len(Append(Cons!Editing, c)) = m + 1
  BY <1>8, <1>11, Zenon
<1>13. Cons!lineEnds(c) <=> c \in {"nl", "^D"} \/ m + 1 = INPUT_BUF_SIZE
  BY <1>5, Zenon DEF Cons!lineEnds, Cons!used, dist
<1>14. CASE Cons!lineEnds(c)
  <2>1. w' = e' /\ Cons!wakeReaders
    BY <1>2, <1>14, Zenon
  <2>2. dist(e', e') = 0
    BY <1>2, <1>5, KillOrdered, Zenon
  <2>3. BufOK' /\ Ordered(r, w, e)'
    BY <1>2, <1>5, <1>8, <2>1, Zenon DEF BufOK, Buffer, Ordered, dist, Slots, Chars, Cons!AllKeys, Index
  <2>4. OneLine'
    <3>1. \A i \in Nat : ~ (i < 0)
      OBVIOUS
    <3>2. dist(w, e)' = 0
      BY <2>1, <2>2, Zenon DEF dist
    <3>3. QED
      BY <3>1, <3>2, Zenon DEF OneLine
  <2>5. ConsoleInv'
    BY <2>1, <2>3, <2>4, Woken, Zenon DEF ConsoleInv
  <2>6. Cons!Committed' = Cons!Committed \o Append(Cons!Editing, c)
    <3>1. Cons!Committed' = ring(r, m + 1, buf')
      BY <1>2, <1>5, <2>1, Reading, Zenon
    <3>2. QED
      BY <1>8, <1>11, <3>1, Zenon
  <2>7. Cons!Editing' = <<>>
    <3>1. Cons!Editing' = ring(w', 0, buf')
      BY <2>1, <2>2, Reading, Zenon
    <3>2. 1..0 = {}
      OBVIOUS
    <3>3. ring(w', 0, buf') = <<>>
      BY <3>2 DEF ring
    <3>4. QED
      BY <3>1, <3>3, Zenon
  <2>8. Cons!Line!Type
    BY <1>1, <1>6, <1>12, <1>13, <1>14, <2>6, <2>7, Zenon DEF Cons!Line!Type
  <2>9. QED
    BY <2>5, <2>8, Zenon DEF LineStep, Cons!Line!Next
<1>15. CASE ~ Cons!lineEnds(c)
  <2>1. w' = w /\ rpc' = rpc
    BY <1>2, <1>15, Zenon
  <2>2. BufOK' /\ Ordered(r, w, e)'
    BY <1>2, <1>5, <1>8, <2>1, Zenon DEF BufOK, Buffer, Ordered, dist, Slots, Chars, Cons!AllKeys, Index
  <2>3. ASSUME NEW i \in Nat, i < d + 1 PROVE buf'[Cons!slot(Cons!plus(w, i))] # "nl"
    <3>1. i = d \/ (i < d /\ i # d)
      BY <1>6, <2>3
    <3>2. i \in 0..(INPUT_BUF_SIZE - 1) /\ d \in 0..(INPUT_BUF_SIZE - 1) /\ i \in 0..INPUT_BUF_SIZE
      BY <1>6, <2>3
    <3>3. Cons!slot(Cons!plus(w, i)) \in Slots
      BY <1>3, <3>2, Positions, Zenon
    <3>4. CASE i = d
      BY <1>2, <1>3, <1>7, <1>13, <1>15, <3>3, <3>4, Zenon DEF Buffer
    <3>5. CASE i < d /\ i # d
      <4>1. Cons!slot(Cons!plus(w, i)) # Cons!slot(Cons!plus(w, d))
        BY <1>3, <3>2, <3>5, SlotsApart, Zenon
      <4>2. buf[Cons!slot(Cons!plus(w, i))] # "nl"
        BY <1>3, <3>5, Zenon DEF OneLine
      <4>3. buf'[Cons!slot(Cons!plus(w, i))] = buf[Cons!slot(Cons!plus(w, i))]
        <5>1. Cons!slot(Cons!plus(w, i)) # Cons!slot(e)
          BY <1>7, <4>1, Zenon
        <5>2. QED
          BY <1>2, <1>3, <3>3, <5>1, Zenon DEF Buffer
      <4>4. QED
        BY <4>2, <4>3, Zenon
    <3>6. QED
      BY <3>1, <3>4, <3>5, Zenon
  <2>4. OneLine'
    <3>1. dist(w', e') = d + 1
      BY <1>2, <1>5, <2>1, Zenon
    <3>2. QED
      BY <2>1, <2>3, <3>1, Zenon DEF OneLine, dist, Cons!plus, Cons!slot
  <2>5. ReadersOK' /\ Results' /\ LockHeld' /\ NothingToRead'
    BY <1>2, <2>1, Zenon DEF ConsoleInv, ReadersOK, Results, Legal, LockHeld, NothingToRead
  <2>6. ConsoleInv'
    BY <2>2, <2>4, <2>5, Zenon DEF ConsoleInv
  <2>7. Cons!Committed' = Cons!Committed
    BY <1>2, <1>8, <1>11, <2>1, Reading, Zenon
  <2>8. Cons!Editing' = Append(Cons!Editing, c)
    <3>1. Cons!Editing' = ring(w, d + 1, buf')
      BY <1>2, <1>5, <2>1, Reading, Zenon
    <3>2. QED
      BY <1>8, <1>11, <3>1, Zenon
  <2>9. Cons!Line!Type
    BY <1>1, <1>6, <1>12, <1>13, <1>15, <2>7, <2>8, Zenon DEF Cons!Line!Type
  <2>10. QED
    BY <2>6, <2>9, Zenon DEF LineStep, Cons!Line!Next
<1>16. QED
  BY <1>14, <1>15, Zenon

---------------------------------------------------------------------------
(* The theorems.                                                           *)

\* One character typed.
LEMMA TypeStep ==
  ASSUME Cons!ConsoleAssumption, ConsoleInv, NEW ch \in Keys, Cons!Type(ch)
  PROVE  ConsoleInv' /\ LineStep
<1>1. lock = None /\ UNCHANGED <<r, lock, n, target, killed, ret>>
  BY Zenon DEF Cons!Type
<1>2. CASE UNCHANGED <<buf, w, e, rpc>>
  <2>1. UNCHANGED Cons!vars
    BY <1>1, <1>2, Zenon DEF Cons!vars, Cons!consvars, Cons!readvars
  <2>2. ConsoleInv'
    BY <2>1, InvQuiet, Zenon
  <2>3. QED
    BY <1>1, <1>2, <2>2, LineQuiet, Zenon
<1>3. CASE e' = Cons!plus(e, 0 - Cons!lineLength) /\ UNCHANGED <<buf, w, rpc>>
  <2>1. UNCHANGED <<buf, r, w, lock, Cons!readvars>>
    BY <1>1, <1>3, Zenon DEF Cons!readvars
  <2>2. QED
    BY <1>3, <2>1, KillLine, Zenon
<1>4. CASE e # w /\ e' = Cons!plus(e, 0 - 1) /\ UNCHANGED <<buf, w, rpc>>
  <2>1. UNCHANGED <<buf, r, w, lock, Cons!readvars>>
    BY <1>1, <1>4, Zenon DEF Cons!readvars
  <2>2. QED
    BY <1>4, <2>1, EraseChar, Zenon
<1>5. CASE ch \notin {"^P", "^U", "^H"} /\ Cons!accepted(ch) /\ Cons!store(ch)
  BY <1>1, <1>5, StoreChar, Zenon
<1>6. QED
  BY <1>2, <1>3, <1>4, <1>5, Zenon DEF Cons!Type

\* Every step keeps the invariant and is a step of the line editor.
LEMMA ConsoleStep ==
  ASSUME Cons!ConsoleAssumption, ConsoleInv, [Cons!Next]_(Cons!vars)
  PROVE  ConsoleInv' /\ LineStep
<1>1. CASE \E ch \in Keys : Cons!Type(ch)
  BY <1>1, TypeStep, Zenon
<1>2. ASSUME NEW p \in Readers, Cons!Reader(p) \/ Cons!Read(p) \/ Cons!Kill(p)
      PROVE  ConsoleInv' /\ LineStep
  <2>1. CASE Cons!Read(p)
    BY <2>1, InvRead, LineQuiet, Zenon DEF Cons!Read, Cons!consvars
  <2>2. CASE Cons!ReadAcquire(p)
    BY <2>2, InvAcquire, LineQuiet, Zenon DEF Cons!ReadAcquire
  <2>3. CASE Cons!ReadEmpty(p)
    BY <2>3, InvEmpty, LineQuiet, Zenon DEF Cons!ReadEmpty
  <2>4. CASE Cons!ReadSleep(p)
    BY <2>4, InvSleep, LineQuiet, Zenon DEF Cons!ReadSleep
  <2>5. CASE Cons!ReadChar(p)
    BY <2>5, InvChar, TakeChar, Zenon
  <2>6. CASE Cons!Kill(p)
    BY <2>6, InvKill, LineQuiet, Zenon DEF Cons!Kill, Cons!consvars
  <2>7. QED
    BY <1>2, <2>1, <2>2, <2>3, <2>4, <2>5, <2>6, Zenon DEF Cons!Reader
<1>3. CASE UNCHANGED Cons!vars
  BY <1>3, InvQuiet, LineQuiet, Zenon DEF Cons!vars, Cons!consvars
<1>4. QED
  BY <1>1, <1>2, <1>3, Zenon DEF Cons!Next

\* The three indices stay in order within one length of the ring, across every
\* wrap-around, no read returns more than it asked for, and no reader sleeps
\* over committed input: consoleintr() loses no wakeup.
THEOREM ConsoleSound ==
  ASSUME Cons!ConsoleAssumption
  PROVE  Cons!Spec => []Cons!ConsoleConsistent
<1>1. Cons!Init => ConsoleInv
  BY InvInit
<1>2. ConsoleInv /\ [Cons!Next]_(Cons!vars) => ConsoleInv'
  BY ConsoleStep
<1>3. ConsoleInv => Cons!ConsoleConsistent
  BY InvGives
<1>4. QED
  BY <1>1, <1>2, <1>3, PTL DEF Cons!Spec

\* consoleread() and consoleintr() implement a line editor on their ring: erasing
\* never reaches what was committed, a full ring overwrites nothing, and the
\* readers together take what was typed, in order.
THEOREM ConsoleIsLineEditor ==
  ASSUME Cons!ConsoleAssumption
  PROVE  Cons!Spec => Cons!RingIsLineEditor
<1>1. Cons!Init => ConsoleInv
  BY InvInit
<1>2. ConsoleInv /\ [Cons!Next]_(Cons!vars) => ConsoleInv'
  BY ConsoleStep
<1>3. Cons!Init => Cons!Line!Init
  <2> SUFFICES ASSUME Cons!Init PROVE Cons!Line!Init
    OBVIOUS
  <2>1. 0 \in Index /\ 1..0 = {}
    BY DEF Cons!ConsoleAssumption, Index
  <2>2. dist(0, 0) = 0
    BY <2>1, PlusDist, Zenon
  <2>3. Cons!Committed = ring(0, 0, buf) /\ Cons!Editing = ring(0, 0, buf)
    BY <2>2, Reading, Zenon DEF Cons!Init
  <2>4. ring(0, 0, buf) = <<>>
    BY <2>1 DEF ring
  <2>5. QED
    BY <2>3, <2>4, Zenon DEF Cons!Line!Init
<1>4. ConsoleInv /\ [Cons!Next]_(Cons!vars) => [Cons!Line!Next]_<<Cons!Committed, Cons!Editing>>
  <2>1. ConsoleInv /\ [Cons!Next]_(Cons!vars) => LineStep
    BY ConsoleStep
  <2>2. QED
    BY <2>1, Zenon DEF LineStep
<1>5. QED
  BY <1>1, <1>2, <1>3, <1>4, PTL DEF Cons!Spec, Cons!RingIsLineEditor, Cons!Line!Spec

\* An end of file is consumed only by a read that returns 0, and a read returns 0
\* only after it consumed something: an end of file, or a byte it could not copy
\* out.
THEOREM EofOnce ==
  ASSUME Cons!ConsoleAssumption
  PROVE  Cons!Spec => Cons!EofIsEmptyRead
<1> DEFINE Once ==
      \A p \in Readers :
        /\ r # w /\ buf[Cons!slot(r)] = "^D" /\ r' # r /\ lock = p => ret'[p] = 0 /\ rpc'[p] = "idle"
        /\ rpc[p] = "loop" /\ rpc'[p] = "idle" /\ target[p] > 0 /\ ret'[p] = 0 =>
             r # w /\ r' = Cons!plus(r, 1)
<1>1. Cons!Init => ConsoleInv
  BY InvInit
<1>2. ConsoleInv /\ [Cons!Next]_(Cons!vars) => ConsoleInv'
  BY ConsoleStep
<1>3. ConsoleInv /\ [Cons!Next]_(Cons!vars) => [Once]_(Cons!vars)
  <2> SUFFICES ASSUME ConsoleInv, Cons!Next PROVE Once
    BY Zenon
  <2> SUFFICES ASSUME NEW p \in Readers
               PROVE  /\ r # w /\ buf[Cons!slot(r)] = "^D" /\ r' # r /\ lock = p => ret'[p] = 0 /\ rpc'[p] = "idle"
                      /\ rpc[p] = "loop" /\ rpc'[p] = "idle" /\ target[p] > 0 /\ ret'[p] = 0 =>
                           r # w /\ r' = Cons!plus(r, 1)
    BY Zenon
  <2>1. ASSUME NEW ch \in Keys, Cons!Type(ch)
        PROVE  r' = r /\ (rpc[p] = "loop" => rpc'[p] = "loop")
    BY <2>1, SMTT(30) DEF Cons!Type, Cons!store, Cons!wakeReaders
  <2>2. ASSUME NEW q \in Readers, Cons!Read(q) \/ Cons!ReadAcquire(q) \/ Cons!ReadSleep(q) \/ Cons!Kill(q)
        PROVE  r' = r /\ (rpc[p] = "loop" => rpc'[p] = "loop")
    BY <2>2 DEF Cons!Read, Cons!ReadAcquire, Cons!ReadSleep, Cons!Kill, Cons!moveR, Cons!consvars, ConsoleInv, ReadersOK
  <2>3. ASSUME NEW q \in Readers, Cons!ReadEmpty(q) \/ Cons!ReadChar(q), q # p
        PROVE  lock # p /\ rpc[p] # "loop"
    BY <2>3, Zenon DEF Cons!ReadEmpty, Cons!ReadChar, ConsoleInv, LockHeld
  <2>4. ASSUME Cons!ReadEmpty(p)
        PROVE  r' = r /\ (rpc'[p] = "idle" => ret'[p] = -1)
    BY <2>4 DEF Cons!ReadEmpty, Cons!readReturn, Cons!moveR, ConsoleInv, ReadersOK
  <2>5. ASSUME Cons!ReadChar(p)
        PROVE  /\ r # w /\ buf[Cons!slot(r)] = "^D" /\ r' # r => ret'[p] = 0 /\ rpc'[p] = "idle"
               /\ rpc'[p] = "idle" /\ target[p] > 0 /\ ret'[p] = 0 => r # w /\ r' = Cons!plus(r, 1)
    <3>1. rpc[p] = "loop" /\ (n[p] = 0 \/ r # w)
      BY <2>5, Zenon DEF Cons!ReadChar
    <3>2. n[p] \in Nat /\ target[p] \in Nat /\ n[p] <= target[p] /\ (n[p] > 0 => n[p] # 0)
      <4>1. n[p] \in Nat /\ target[p] \in Nat /\ n[p] <= target[p]
        BY Progress, Zenon
      <4>2. QED
        BY <4>1
    <3>4. CASE n[p] = 0 /\ Cons!readReturn(p, target[p]) /\ r' = r
      <4>1. ret'[p] = target[p]
        BY <3>4, Zenon DEF Cons!readReturn, ConsoleInv, ReadersOK
      <4>2. QED
        BY <3>2, <3>4, <4>1, Zenon
    <3>5. CASE n[p] > 0 /\ Cons!readEof(p)
      <4>1. /\ ret'[p] = target[p] - n[p] /\ rpc'[p] = "idle"
            /\ r' = IF n[p] < target[p] THEN r ELSE Cons!plus(r, 1)
        BY <3>5, Zenon DEF Cons!readEof, Cons!readReturn, Cons!moveR, ConsoleInv, ReadersOK
      <4>2. n[p] < target[p] \/ target[p] - n[p] = 0
        BY <3>2
      <4>3. n[p] < target[p] => target[p] - n[p] # 0
        BY <3>2
      <4>4. QED
        BY <3>1, <3>2, <3>5, <4>1, <4>2, <4>3, Zenon
    <3>6. CASE n[p] > 0 /\ buf[Cons!slot(r)] # "^D" /\ r' = Cons!plus(r, 1)
      BY <3>1, <3>2, <3>6, Zenon
    <3>7. QED
      BY <2>5, <3>1, <3>2, <3>4, <3>5, <3>6, Zenon DEF Cons!ReadChar
  <2>6. QED
    BY <2>1, <2>2, <2>3, <2>4, <2>5, SMTT(30) DEF Cons!Next, Cons!Reader
<1>4. QED
  BY <1>1, <1>2, <1>3, PTL DEF Cons!Spec, Cons!EofIsEmptyRead

---------------------------------------------------------------------------
(* The console beside the log and the UART.                                *)

\* The console of the unit moves as Console says.
LEMMA ConsoleMoves == SpecUnit => Cons!Spec
<1>1. InitUnit => Cons!Init
  BY Zenon DEF InitUnit
<1>2. [NextUnit]_everything => [Cons!Next]_(Cons!vars)
  BY Zenon DEF NextUnit, everything, consvars, Cons!vars, Cons!consvars, Cons!readvars
<1>3. QED
  BY <1>1, <1>2, PTL DEF SpecUnit, Cons!Spec

\* The ring's indices stay in the order r, w, e within one buffer length, across
\* their wrap-around, no read returns more than it asked for, and no reader sleeps
\* over committed input, whatever the UART and the log do meanwhile.
THEOREM UnitConsoleSound == SpecUnit => []ConsoleConsistent
<1>1. Cons!Spec => []Cons!ConsoleConsistent
  BY TtyAssumption, ConsoleSound, Zenon
<1>2. QED
  BY <1>1, ConsoleMoves, PTL DEF ConsoleConsistent

\* The console is a line editor in this unit too, and an end of file makes exactly
\* one read return 0.
THEOREM UnitReadsLines == SpecUnit => ReadsLines
<1>1. Cons!Spec => Cons!RingIsLineEditor
  BY TtyAssumption, ConsoleIsLineEditor, Zenon
<1>2. Cons!Spec => Cons!EofIsEmptyRead
  BY TtyAssumption, EofOnce, Zenon
<1>3. QED
  BY <1>1, <1>2, ConsoleMoves, PTL DEF ReadsLines, Cons!ReadsLines
=============================================================================
