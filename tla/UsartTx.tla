------------------------------- MODULE UsartTx -------------------------------
(***************************************************************************)
(* The transmit path of one interrupt-driven USART, as                     *)
(* SYS_SendSerialTelegram() uses it.  stm32_uart_sendstring() runs in the  *)
(* super-loop: it waits until the transmit FIFO is empty, puts the string  *)
(* into it, takes the first byte out again, writes it to the data register *)
(* and enables the TC interrupt, whose handler takes the other bytes.  So  *)
(* the FIFO has two readers, and the interrupt may strike between any two  *)
(* memory accesses of the other one.                                       *)
(*                                                                         *)
(* The bytes put into the FIFO are numbered 1, 2, 3, ...: byte k is the    *)
(* value k, so a property can say what the line carried.                   *)
(*                                                                         *)
(* A definition whose name ends in _Something is a broken variant of the   *)
(* one it precedes: it shows that a property notices the difference.       *)
(***************************************************************************)
EXTENDS Kfifo, Sequences

CONSTANTS
  Lens,       \* lengths of the strings sendstring is called with
  MaxBytes    \* bound: this many bytes are put into the FIFO

(***************************************************************************)
(* A telegram has at least its status byte and its CRC.  A string longer   *)
(* than the FIFO is allowed: it is cut.                                    *)
(***************************************************************************)
ASSUME TxAssumption ==
  /\ Size > 1
  /\ Lens \subseteq Nat \ {0, 1}
  /\ MaxBytes \in Nat

VARIABLES
  in, out,    \* kfifo.in, kfifo.out
  buf,        \* kfifo.buffer
  pc,         \* where stm32_uart_sendstring() is
  len,        \* its argument len
  rout,       \* fifo->out as kfifo_getc() compared it with in
  ch,         \* rx_tx_ch, the byte kfifo_getc() took
  rmw,        \* fifo->out as loaded by "fifo->out++"
  tcie,       \* the TC interrupt is enabled (CR1)
  tc,         \* the TC flag (SR)
  tdr, shift, \* external: the data and the shift register
  struck,     \* a TC interrupt struck since kfifo_put() returned
  stored,     \* history: bytes put into the FIFO
  wire,       \* history: the bytes that left, followed until strings overlap
  overlapped  \* history: a string was handed over before the last had left

fifo    == <<in, out, buf>>
locals  == <<len, rout, ch, rmw>>
usart   == <<tcie, tc, tdr, shift>>
history == <<stored, wire, overlapped>>
vars    == <<fifo, pc, locals, usart, struck, history>>

-----------------------------------------------------------------------------
kfifo_len == Sub(in, out)

NoByte == 0

(***************************************************************************)
(* A byte written to the data register moves on at once when nothing is    *)
(* being shifted, and replaces one that has not moved on.                  *)
(***************************************************************************)
WriteDR(byte) ==
  IF shift = NoByte THEN shift' = byte /\ UNCHANGED tdr
                    ELSE tdr' = byte /\ UNCHANGED shift

(* Something of the strings handed over so far has not left yet.           *)
Busy == in # out \/ shift # NoByte \/ (tc /\ tcie)

-----------------------------------------------------------------------------
(* stm32_open_uart_interrput() clears TC before it enables the USART, which *)
(* may send an idle frame and set it again.                                *)
Init ==
  /\ in = 0 /\ out = 0
  /\ buf = [s \in 0 .. Size - 1 |-> NoByte]
  /\ pc = "idle"
  /\ len = 0 /\ rout = 0 /\ ch = NoByte /\ rmw = 0
  /\ tcie = FALSE /\ tc \in BOOLEAN
  /\ tdr = NoByte /\ shift = NoByte
  /\ struck = FALSE
  /\ stored = 0 /\ wire = <<>> /\ overlapped = FALSE

(* stm32_uart_sendstring() is called.                                      *)
SendBegin(l) ==
  /\ pc = "idle"
  /\ stored + Least(l, Size) <= MaxBytes
  /\ len' = l
  /\ overlapped' = (overlapped \/ Busy)
  /\ pc' = "wait"
  /\ UNCHANGED <<fifo, rout, ch, rmw, usart, struck, stored, wire>>

(* while(kfifo_len(dev->tx_fifo) > 0);                                     *)
SendWait ==
  /\ pc = "wait"
  /\ kfifo_len = 0
  /\ pc' = "put"
  /\ UNCHANGED <<fifo, locals, usart, struck, history>>

(***************************************************************************)
(* kfifo_put() copies what there is room for, in two pieces when it wraps  *)
(* around, and advances in at its end: until then the interrupt finds the  *)
(* FIFO empty.                                                             *)
(***************************************************************************)
Room == Size - kfifo_len

(* The offset in the string of the byte that goes to slot s.               *)
Offset(s) == (s - Slot(in)) % Size

Filled_NoWrap(n) ==
  [s \in 0 .. Size - 1 |->
     IF s >= Slot(in) /\ Offset(s) < n THEN stored + Offset(s) + 1 ELSE buf[s]]

Filled(n) ==
  [s \in 0 .. Size - 1 |-> IF Offset(s) < n THEN stored + Offset(s) + 1 ELSE buf[s]]

kfifo_put_NoMin ==
  /\ buf' = Filled(len)
  /\ in' = Add(in, len)
  /\ stored' = stored + len

kfifo_put ==
  LET n == Least(len, Room) IN
  /\ buf' = Filled(n)
  /\ in' = Add(in, n)
  /\ stored' = stored + n

SendPut ==
  /\ pc = "put"
  /\ kfifo_put
  /\ struck' = FALSE
  /\ pc' = "check"
  /\ UNCHANGED <<out, locals, usart, wire, overlapped>>

(* kfifo_getc(): an empty FIFO ends the call.                              *)
SendCheck ==
  /\ pc = "check"
  /\ rout' = out
  /\ pc' = IF in = out THEN "idle" ELSE "read"
  /\ UNCHANGED <<fifo, len, ch, rmw, usart, struck, history>>

(***************************************************************************)
(* The byte is read through fifo->out, which the build reloads or keeps in *)
(* a register since the comparison.                                        *)
(***************************************************************************)
SendRead ==
  /\ pc = "read"
  /\ \E o \in {rout, out} : ch' = buf[Slot(o)]
  /\ pc' = "add"
  /\ UNCHANGED <<fifo, len, rout, rmw, usart, struck, history>>

(* fifo->out++, a load, an addition and a store.                           *)
SendAddLoad ==
  /\ pc = "add"
  /\ rmw' = out
  /\ pc' = "store"
  /\ UNCHANGED <<fifo, len, rout, ch, usart, struck, history>>

SendAddStore_NoWrap ==
  /\ pc = "store"
  /\ out' = rmw + 1
  /\ pc' = "write"
  /\ UNCHANGED <<in, buf, locals, usart, struck, history>>

SendAddStore ==
  /\ pc = "store"
  /\ out' = Add(rmw, 1)
  /\ pc' = "write"
  /\ UNCHANGED <<in, buf, locals, usart, struck, history>>

(***************************************************************************)
(* uart->usart->DR = uart->rx_tx_ch.  The write clears TC if SR was read   *)
(* before, as the receive interrupt does.                                  *)
(***************************************************************************)
SendWrite ==
  /\ pc = "write"
  /\ WriteDR(ch)
  /\ tc' \in {tc, FALSE}
  /\ pc' = "enable"
  /\ UNCHANGED <<fifo, locals, tcie, struck, history>>

SendEnable_Forgotten ==
  /\ pc = "enable"
  /\ UNCHANGED tcie
  /\ pc' = "idle"
  /\ UNCHANGED <<fifo, locals, tc, tdr, shift, struck, history>>

SendEnable ==
  /\ pc = "enable"
  /\ tcie' = TRUE
  /\ pc' = "idle"
  /\ UNCHANGED <<fifo, locals, tc, tdr, shift, struck, history>>

Sender ==
  \/ SendWait \/ SendPut \/ SendCheck \/ SendRead
  \/ SendAddLoad \/ SendAddStore \/ SendWrite \/ SendEnable

-----------------------------------------------------------------------------
(***************************************************************************)
(* The TC branch of usart_irq_route(): the next byte, or none and the      *)
(* interrupt is disabled.  Two of them are a character apart, 87 us at     *)
(* 115200 baud, which is longer than sendstring takes from kfifo_put() to  *)
(* the data register: not more than one strikes in between.                *)
(***************************************************************************)
InWindow == pc \in {"check", "read", "add", "store", "write"}

TxInterrupt_OneLeft ==
  /\ tc /\ tcie
  /\ ~(InWindow /\ struck)
  /\ tc' = FALSE
  /\ IF kfifo_len < 2
       THEN tcie' = FALSE /\ UNCHANGED <<out, tdr, shift>>
       ELSE /\ WriteDR(buf[Slot(out)])
            /\ out' = Add(out, 1)
            /\ UNCHANGED tcie
  /\ struck' = TRUE
  /\ UNCHANGED <<in, buf, pc, locals, history>>

TxInterrupt ==
  /\ tc /\ tcie
  /\ ~(InWindow /\ struck)
  /\ tc' = FALSE
  /\ IF in = out
       THEN tcie' = FALSE /\ UNCHANGED <<out, tdr, shift>>
       ELSE /\ WriteDR(buf[Slot(out)])
            /\ out' = Add(out, 1)
            /\ UNCHANGED tcie
  /\ struck' = TRUE
  /\ UNCHANGED <<in, buf, pc, locals, history>>

(* External: the shift register is through with its byte.                  *)
Shifted ==
  /\ shift # NoByte
  /\ wire' = IF overlapped THEN <<>> ELSE Append(wire, shift)
  /\ shift' = tdr
  /\ tdr' = NoByte
  /\ tc' = (tc \/ tdr = NoByte)
  /\ UNCHANGED <<fifo, pc, locals, tcie, struck, stored, overlapped>>

Next ==
  \/ \E l \in Lens : SendBegin(l)
  \/ Sender
  \/ TxInterrupt
  \/ Shifted

Spec == Init /\ [][Next]_vars

(* The super-loop runs, the USART shifts, an enabled interrupt is taken.   *)
FairSpec ==
  /\ Spec
  /\ WF_vars(Sender)
  /\ WF_vars(TxInterrupt)
  /\ WF_vars(Shifted)

-----------------------------------------------------------------------------
TypeOK ==
  /\ in \in Counter /\ out \in Counter
  /\ buf \in [0 .. Size - 1 -> 0 .. MaxBytes]
  /\ pc \in {"idle", "wait", "put", "check", "read", "add", "store", "write",
             "enable"}
  /\ len \in Lens \cup {0}
  /\ rout \in Counter /\ rmw \in Counter
  /\ {ch, tdr, shift} \subseteq 0 .. MaxBytes
  /\ {tcie, tc, struck, overlapped} \subseteq BOOLEAN
  /\ stored \in 0 .. MaxBytes
  /\ wire \in Seq(1 .. MaxBytes)

(***************************************************************************)
(* The two readers of the FIFO never take more than there is, also when    *)
(* the interrupt strikes while kfifo_getc() runs in the super-loop: out    *)
(* does not pass in, or the interrupt would send 2^32 bytes of rubbish and *)
(* the next sendstring would wait for it (kfifo.c:178-187, from two sides, *)
(* and kfifo_put(), which cuts a string to the room there is, 125).        *)
(***************************************************************************)
TxBounds == kfifo_len <= Size

(***************************************************************************)
(* No byte is left behind: while the FIFO holds one and sendstring is not  *)
(* running, the interrupt that takes it is enabled and will strike (its    *)
(* handler disables itself, stm32usart.c:380, sendstring enables it, 456). *)
(***************************************************************************)
NothingStranded ==
  pc \in {"idle", "wait"} /\ in # out => tcie /\ (tc \/ shift # NoByte)

(***************************************************************************)
(* When every string is handed over after the last one has left, the line  *)
(* carries what was put into the FIFO, each byte once and in order, and    *)
(* what has not left yet is still in the FIFO or the registers.            *)
(***************************************************************************)
Holds(register) == IF register = NoByte THEN 0 ELSE 1

WireInOrder ==
  ~overlapped =>
    /\ \A i \in 1 .. Len(wire) : wire[i] = i
    /\ pc = "idle" =>
         Len(wire) + Holds(shift) + Holds(tdr) + kfifo_len = stored

(***************************************************************************)
(* sendstring returns: its loop on the length of the FIFO ends, whatever   *)
(* the two readers did to the FIFO when strings overlapped.                *)
(***************************************************************************)
SendReturns == (pc = "wait") ~> (pc = "idle")

-----------------------------------------------------------------------------
(***************************************************************************)
(* The inductive strengthening of TxBounds: sendstring puts at least two   *)
(* bytes into an empty FIFO, the interrupt takes one of them at most until *)
(* sendstring has taken its own, and so the value of out that is stored    *)
(* back is never further than in.                                          *)
(***************************************************************************)
TxInv ==
  /\ kfifo_len <= Size
  /\ pc \in {"wait", "put"} => len \in Lens /\ stored + Least(len, Size) <= MaxBytes
  /\ pc = "put" => in = out
  /\ pc \in {"check", "read", "add"} => kfifo_len >= (IF struck THEN 1 ELSE 2)
  /\ pc = "store" => Sub(in, rmw) \in 1 .. Size

(***************************************************************************)
(* The slots from out to in hold the bytes that were put last, in order:   *)
(* whoever takes one, sendstring or the interrupt, takes the next.         *)
(***************************************************************************)
Held ==
  /\ kfifo_len <= stored
  /\ \A c \in Counter :
       Sub(in, c) \in 1 .. kfifo_len => buf[Slot(c)] = stored - Sub(in, c) + 1

(***************************************************************************)
(* The inductive strengthening of NothingStranded: what is written to the  *)
(* data register is a byte, so one is being shifted when sendstring        *)
(* enables the interrupt, unless the interrupt found the FIFO empty since. *)
(* The value of out that is stored back is not behind out, or bytes that   *)
(* were taken would be in the FIFO again.                                  *)
(***************************************************************************)
StrandInv ==
  /\ Held
  /\ shift = NoByte => tdr = NoByte
  /\ pc = "read" => buf[Slot(rout)] # NoByte
  /\ pc \in {"add", "store", "write"} => ch # NoByte
  /\ pc = "store" => Sub(in, rmw) <= kfifo_len + (IF struck THEN 1 ELSE 0)
  /\ pc = "enable" /\ in # out => tc \/ shift # NoByte
  /\ NothingStranded

(***************************************************************************)
(* The inductive strengthening of WireInOrder: when the last string has    *)
(* left, no interrupt strikes until sendstring has written its byte, which *)
(* is the next one; each later one is, counting the byte in sendstring's   *)
(* hand, the one after those in the registers, and never replaces one.     *)
(***************************************************************************)
InHand == IF pc = "write" THEN 1 ELSE 0

OrderInv ==
  ~overlapped =>
    /\ \A i \in 1 .. Len(wire) : wire[i] = i
    /\ shift # NoByte => shift = Len(wire) + 1
    /\ tdr # NoByte => tdr = Len(wire) + 2
    /\ tc => tdr = NoByte
    /\ Len(wire) + Holds(shift) + Holds(tdr) + kfifo_len + InHand = stored
    /\ pc \notin {"idle", "enable"} => shift = NoByte /\ ~(tc /\ tcie)
    /\ pc = "read" => rout = out
    /\ pc = "store" => rmw = out
    /\ pc \in {"add", "store", "write"} => ch = Len(wire) + 1

=============================================================================
