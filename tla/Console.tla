------------------------------ MODULE Console -------------------------------
(***************************************************************************)
(* The console and the serial port: kernel/console.c and kernel/uart.c,    *)
(* with the UART, the terminal and the interrupt controller around them.   *)
(*                                                                         *)
(* Processes are in consolewrite or consoleread; the handler, on another   *)
(* hart or between their critical sections, is in uartintr.  What is done  *)
(* with cons.lock or uart_tx_lock held is one step, except around a write  *)
(* to THR: consputc writes it with cons.lock and uartstart with            *)
(* uart_tx_lock, each after a look at LSR of its own.                      *)
(*                                                                         *)
(* ^P, which prints the processes, and NUL, which is ignored, are left     *)
(* out.  The three bytes that rub out a character are one.                 *)
(***************************************************************************)
EXTENDS Integers, Sequences, SequencesExt

CONSTANTS
  Proc,
  Programs,          \* sets of calls: [Proc -> sequence of <<"write", bytes>>, <<"read", n>>]
  Typed,             \* what is typed, sequences of keys: "x" stands for all that have no meaning
  INPUT_BUF_SIZE, UART_TX_BUF_SIZE,
  FIFO,              \* bytes in the UART's FIFOs
  ConsWidth,         \* bits of the indices; both sizes divide 2^ConsWidth
  MaxConsFaults      \* bound: failing copies and kills

Intr == "intr"       \* the hart that serves the UART's interrupt
Free == "free"
Thread == Proc \cup {Intr}
Mod(n) == n % 2^ConsWidth

VARIABLES
  cons,      \* r, w, e and buf of struct cons
  tx,        \* uart_tx_r, uart_tx_w, uart_tx_buf
  uart,      \* rx: what was received; fifo: what is to be sent
  conslock, txlock,
  irq,       \* the PLIC has an interrupt of the UART
  th,        \* [Thread -> record]
  typed,     \* the keys that are still to be typed
  consfaults,
  toSend,    \* history: the bytes written that the terminal has not got
  toRead     \* history: the bytes of complete lines that were not read

console == <<cons, tx, uart, conslock, txlock, irq, th, typed, consfaults, toSend, toRead>>

Buffer(size) == [k \in 0..size - 1 |-> "x"]

ConsInit ==
  /\ cons = [r |-> 0, w |-> 0, e |-> 0, buf |-> Buffer(INPUT_BUF_SIZE)]
  /\ tx = [r |-> 0, w |-> 0, buf |-> Buffer(UART_TX_BUF_SIZE)]
  /\ uart = [rx |-> <<>>, fifo |-> <<>>]
  /\ conslock = Free /\ txlock = Free
  /\ irq = FALSE
  /\ \E prog \in Programs :
       th = [t \in Thread |-> [pc |-> IF t = Intr THEN "idle" ELSE "user", calls |-> IF t = Intr THEN <<>> ELSE prog[t],
                               bytes |-> <<>>, n |-> 0, target |-> 0, key |-> "", c |-> "", chan |-> "", killed |-> FALSE]]
  /\ typed \in Typed /\ consfaults = 0
  /\ toSend = <<>> /\ toRead = <<>>

Is(t, pc) == th[t].pc = pc /\ th[t].chan = ""

Set(t, r) == th' = [th EXCEPT ![t] = r]

\* wakeup(chan), while t goes on as r.
SetWake(t, r, chan) ==
  th' = [u \in Thread |-> IF u = t THEN r ELSE IF th[u].chan = chan THEN [th[u] EXCEPT !.chan = ""] ELSE th[u]]

\* A process has returned from its call.
User(p) == [th[p] EXCEPT !.pc = "user", !.bytes = <<>>, !.n = 0, !.target = 0, !.c = ""]

\* Bytes from index a to index b of a ring.
Ring(buf, size, a, b) == [j \in 1..Mod(b - a) |-> buf[Mod(a + j - 1) % size]]

-----------------------------------------------------------------------------
(* The UART and the terminal.                                              *)

\* Mutant: uartinit leaves the FIFOs off.
FifoOff == 1

\* uartinit enables the FIFOs.
Fifo == FIFO

\* A write to THR; the last byte is overwritten when there is no room.
WriteThr(b) == uart' = [uart EXCEPT !.fifo = IF Len(@) < Fifo THEN Append(@, b) ELSE Append(Front(@), b)]

TxIdle == uart.fifo = <<>>

\* The terminal gets a byte; an empty FIFO raises the transmit interrupt.
Transmit ==
  /\ ~TxIdle
  /\ toSend' = IF Head(uart.fifo)[1] = "out" THEN Tail(toSend) ELSE toSend
  /\ uart' = [uart EXCEPT !.fifo = Tail(@)]
  /\ irq' = (irq \/ uart'.fifo = <<>>)
  /\ UNCHANGED <<cons, tx, conslock, txlock, th, typed, consfaults, toRead>>

Type ==
  /\ typed # <<>>
  /\ Len(uart.rx) < FIFO
  /\ typed' = Tail(typed)
  /\ uart' = [uart EXCEPT !.rx = Append(@, Head(typed))]
  /\ irq' = TRUE
  /\ UNCHANGED <<cons, tx, conslock, txlock, th, consfaults, toSend, toRead>>

-----------------------------------------------------------------------------
(* Output.                                                                 *)

Call(p) ==
  /\ Is(p, "user")
  /\ th[p].calls # <<>>
  /\ ~th[p].killed
  /\ LET call == Head(th[p].calls)
         r == [th[p] EXCEPT !.calls = Tail(@), !.pc = call[1]]
     IN  Set(p, IF call[1] = "write" THEN [r EXCEPT !.bytes = call[2]]
                ELSE [r EXCEPT !.n = call[2], !.target = call[2]])
  /\ UNCHANGED <<cons, tx, uart, conslock, txlock, irq, typed, consfaults, toSend, toRead>>

TxFull == tx.w = Mod(tx.r + UART_TX_BUF_SIZE)

\* uartputc sleeps while the buffer is full, killed or not.
UartPutcFull(p) ==
  /\ Is(p, "write")
  /\ txlock = Free
  /\ TxFull
  /\ Set(p, [th[p] EXCEPT !.chan = "tx_r"])
  /\ UNCHANGED <<cons, tx, uart, conslock, txlock, irq, typed, consfaults, toSend, toRead>>

UartPutc(p) ==
  LET c == Head(th[p].bytes)
  IN  /\ Is(p, "write")
      /\ txlock = Free
      /\ ~TxFull
      /\ tx' = [tx EXCEPT !.buf[tx.w % UART_TX_BUF_SIZE] = c, !.w = Mod(@ + 1)]
      /\ toSend' = Append(toSend, c)
      /\ txlock' = p
      /\ Set(p, [th[p] EXCEPT !.pc = "start", !.bytes = Tail(@)])
      /\ UNCHANGED <<cons, uart, conslock, irq, typed, consfaults, toRead>>

\* uartstart: nothing to send, or THR is full; the lock is given back.
UartStartReturn(t) ==
  /\ Is(t, "start")
  /\ tx.w = tx.r \/ ~TxIdle
  /\ txlock' = Free
  /\ Set(t, IF t = Intr THEN [th[t] EXCEPT !.pc = "idle"]
            ELSE IF th[t].bytes = <<>> THEN User(t) ELSE [th[t] EXCEPT !.pc = "write"])
  /\ UNCHANGED <<cons, tx, uart, conslock, irq, typed, consfaults, toSend, toRead>>

UartStart(t) ==
  /\ Is(t, "start")
  /\ tx.w # tx.r
  /\ TxIdle
  /\ tx' = [tx EXCEPT !.r = Mod(@ + 1)]
  /\ SetWake(t, [th[t] EXCEPT !.pc = "send", !.c = tx.buf[tx.r % UART_TX_BUF_SIZE]], "tx_r")
  /\ UNCHANGED <<cons, uart, conslock, txlock, irq, typed, consfaults, toSend, toRead>>

UartSend(t) ==
  /\ Is(t, "send")
  /\ WriteThr(<<"out", th[t].c>>)
  /\ Set(t, [th[t] EXCEPT !.pc = "start", !.c = ""])
  /\ UNCHANGED <<cons, tx, conslock, txlock, irq, typed, consfaults, toSend, toRead>>

-----------------------------------------------------------------------------
(* consoleread.                                                            *)

\* Nothing to read: the process sleeps, or returns when it was killed.
ReadWaits(p) ==
  /\ Is(p, "read")
  /\ conslock \in {Free, p}
  /\ cons.r = cons.w
  /\ conslock' = Free
  /\ Set(p, IF th[p].killed THEN User(p) ELSE [th[p] EXCEPT !.chan = "cons_r"])
  /\ UNCHANGED <<cons, tx, uart, txlock, irq, typed, consfaults, toSend, toRead>>

\* One turn of the loop.  ^D ends the call; it stays for the next call when this one
\* has bytes to return.
ReadChar(p) ==
  LET c == cons.buf[cons.r % INPUT_BUF_SIZE]
      keep == c = "^D" /\ th[p].n < th[p].target
      return == c \in {"^D", "\n"} \/ th[p].n = 1
  IN  /\ Is(p, "read")
      /\ conslock \in {Free, p}
      /\ cons.r # cons.w
      /\ cons' = IF keep THEN cons ELSE [cons EXCEPT !.r = Mod(@ + 1)]
      /\ toRead' = IF keep THEN toRead ELSE Tail(toRead)
      /\ Set(p, IF return THEN User(p) ELSE [th[p] EXCEPT !.n = @ - 1])
      /\ conslock' = IF return THEN Free ELSE p
      /\ UNCHANGED <<tx, uart, txlock, irq, typed, consfaults, toSend>>

\* either_copyin and either_copyout fail: the call returns; a byte to be read is lost.
CopyinFails(p) ==
  /\ Is(p, "write")
  /\ consfaults < MaxConsFaults
  /\ consfaults' = consfaults + 1
  /\ Set(p, User(p))
  /\ UNCHANGED <<cons, tx, uart, conslock, txlock, irq, typed, toSend, toRead>>

CopyoutFails(p) ==
  LET c == cons.buf[cons.r % INPUT_BUF_SIZE]
  IN  /\ Is(p, "read")
      /\ conslock \in {Free, p}
      /\ consfaults < MaxConsFaults
      /\ cons.r # cons.w
      /\ c # "^D"
      /\ consfaults' = consfaults + 1
      /\ cons' = [cons EXCEPT !.r = Mod(@ + 1)]
      /\ toRead' = Tail(toRead)
      /\ conslock' = Free
      /\ Set(p, User(p))
      /\ UNCHANGED <<tx, uart, txlock, irq, typed, toSend>>

\* kill, of a process in one of its calls.
Kill(p) ==
  /\ consfaults < MaxConsFaults
  /\ th[p].pc # "user"
  /\ consfaults' = consfaults + 1
  /\ Set(p, [th[p] EXCEPT !.killed = TRUE, !.chan = ""])
  /\ UNCHANGED <<cons, tx, uart, conslock, txlock, irq, typed, toSend, toRead>>

-----------------------------------------------------------------------------
(* The interrupt handler: devintr, uartintr, consoleintr.                  *)

\* plic_claim.
Claim ==
  /\ Is(Intr, "idle")
  /\ irq
  /\ irq' = FALSE
  /\ Set(Intr, [th[Intr] EXCEPT !.pc = "getc"])
  /\ UNCHANGED <<cons, tx, uart, conslock, txlock, typed, consfaults, toSend, toRead>>

\* uartgetc; \r is \n.  Without input, uartstart is next.
UartGetc ==
  /\ Is(Intr, "getc")
  /\ IF uart.rx = <<>> THEN Set(Intr, [th[Intr] EXCEPT !.pc = "tx"]) /\ UNCHANGED uart
     ELSE LET c == Head(uart.rx)
          IN  /\ Set(Intr, [th[Intr] EXCEPT !.pc = "key", !.key = IF c = "\r" THEN "\n" ELSE c])
              /\ uart' = [uart EXCEPT !.rx = Tail(@)]
  /\ UNCHANGED <<cons, tx, conslock, txlock, irq, typed, consfaults, toSend, toRead>>

\* Mutant: backspace goes back as far as the reader has read.
ErasesToReader == cons.e # cons.r /\ (th[Intr].key = "^U" => cons.buf[Mod(cons.e - 1) % INPUT_BUF_SIZE] # "\n")

\* ^H takes back a character of the line being typed, ^U one after the other.
Erases == cons.e # cons.w /\ (th[Intr].key = "^U" => cons.buf[Mod(cons.e - 1) % INPUT_BUF_SIZE] # "\n")

\* Is there something to echo: a character rubbed out, or a key there is room for?
ConsoleIntr ==
  LET erase == th[Intr].key \in {"^H", "^U"} /\ Erases
      room == th[Intr].key \notin {"^H", "^U"} /\ Mod(cons.e - cons.r) < INPUT_BUF_SIZE
  IN  /\ Is(Intr, "key")
      /\ conslock \in {Free, Intr}
      /\ cons' = IF erase THEN [cons EXCEPT !.e = Mod(@ - 1)] ELSE cons
      /\ Set(Intr, IF erase THEN [th[Intr] EXCEPT !.pc = "echo", !.c = "rubout"]
                   ELSE IF room THEN [th[Intr] EXCEPT !.pc = "echo", !.c = th[Intr].key]
                   ELSE [th[Intr] EXCEPT !.pc = "getc", !.key = ""])
      /\ conslock' = IF erase \/ room THEN Intr ELSE Free
      /\ UNCHANGED <<tx, uart, txlock, irq, typed, consfaults, toSend, toRead>>

\* uartputc_sync spins until THR is empty, and writes it.
EchoWait ==
  /\ Is(Intr, "echo")
  /\ TxIdle
  /\ Set(Intr, [th[Intr] EXCEPT !.pc = "putc"])
  /\ UNCHANGED <<cons, tx, uart, conslock, txlock, irq, typed, consfaults, toSend, toRead>>

Echo ==
  /\ Is(Intr, "putc")
  /\ WriteThr(<<"echo", th[Intr].c>>)
  /\ IF th[Intr].key = "^H"
       THEN conslock' = Free /\ Set(Intr, [th[Intr] EXCEPT !.pc = "getc", !.key = "", !.c = ""])
       ELSE /\ Set(Intr, [th[Intr] EXCEPT !.pc = IF th[Intr].key = "^U" THEN "key" ELSE "store", !.c = ""])
            /\ UNCHANGED conslock
  /\ UNCHANGED <<cons, tx, txlock, irq, typed, consfaults, toSend, toRead>>

\* The end of a line or of the file, or a full buffer.
Complete(c, e) == c \in {"\n", "^D"} \/ Mod(e - cons.r) = INPUT_BUF_SIZE

Store ==
  LET c == th[Intr].key
      e == Mod(cons.e + 1)
      after == [cons EXCEPT !.buf[cons.e % INPUT_BUF_SIZE] = c, !.e = e]
      done == [th[Intr] EXCEPT !.pc = "getc", !.key = ""]
  IN  /\ Is(Intr, "store")
      /\ IF Complete(c, e)
           THEN /\ cons' = [after EXCEPT !.w = e]
                /\ toRead' = toRead \o Ring(after.buf, INPUT_BUF_SIZE, cons.w, e)
                /\ SetWake(Intr, done, "cons_r")
           ELSE /\ cons' = after
                /\ Set(Intr, done)
                /\ UNCHANGED toRead
      /\ conslock' = Free
      /\ UNCHANGED <<tx, uart, txlock, irq, typed, consfaults, toSend>>

\* Mutant: the handler does not send.
UartIntrInputOnly ==
  /\ Is(Intr, "tx")
  /\ Set(Intr, [th[Intr] EXCEPT !.pc = "idle"])
  /\ UNCHANGED <<cons, tx, uart, conslock, txlock, irq, typed, consfaults, toSend, toRead>>

UartIntr ==
  /\ Is(Intr, "tx")
  /\ txlock = Free
  /\ txlock' = Intr
  /\ Set(Intr, [th[Intr] EXCEPT !.pc = "start"])
  /\ UNCHANGED <<cons, tx, uart, conslock, irq, typed, consfaults, toSend, toRead>>

-----------------------------------------------------------------------------
\* What harts and the UART do by themselves.
ConsStep ==
  \/ Transmit
  \/ \E p \in Proc : Call(p) \/ UartPutcFull(p) \/ UartPutc(p) \/ ReadWaits(p) \/ ReadChar(p)
  \/ \E t \in Thread : UartStartReturn(t) \/ UartStart(t) \/ UartSend(t)
  \/ Claim \/ UartGetc \/ ConsoleIntr \/ EchoWait \/ Echo \/ Store \/ UartIntr

ConsNext ==
  \/ ConsStep
  \/ Type
  \/ \E p \in Proc : CopyinFails(p) \/ CopyoutFails(p) \/ Kill(p)

\* Harts run and the UART sends.
ConsSpec == ConsInit /\ [][ConsNext]_console /\ WF_console(ConsStep)

-----------------------------------------------------------------------------
\* A line that is complete reaches the readers as it was: no later key changes it,
\* none is overwritten before it is read, and no reader sleeps beside it.  The line
\* being typed is not complete, and not as long as the buffer.
InputKept ==
  /\ toRead = Ring(cons.buf, INPUT_BUF_SIZE, cons.r, cons.w)
  /\ Mod(cons.w - cons.r) + Mod(cons.e - cons.w) <= INPUT_BUF_SIZE
  /\ LET typing == Ring(cons.buf, INPUT_BUF_SIZE, cons.w, cons.e)
     IN  ~Contains(typing, "\n") /\ ~Contains(typing, "^D") /\ Len(typing) < INPUT_BUF_SIZE
  /\ \A p \in Proc : th[p].chan = "cons_r" => cons.r = cons.w

\* What processes write is sent in order, nothing twice and nothing lost, although the
\* echo goes to the same register under another lock.
OutputKept ==
  LET out == SelectSeq(uart.fifo, LAMBDA b : b[1] = "out")
      hand == SetToSeq({th[t].c : t \in {u \in Thread : th[u].pc = "send"}})
  IN  toSend = [k \in DOMAIN out |-> out[k][2]] \o hand \o Ring(tx.buf, UART_TX_BUF_SIZE, tx.r, tx.w)

\* A write to the console returns, and what it wrote is sent.
WritesEnd ==
  /\ \A p \in Proc : (th[p].pc = "write") ~> (th[p].pc = "user")
  /\ (tx.w # tx.r) ~> (tx.w = tx.r)
=============================================================================
