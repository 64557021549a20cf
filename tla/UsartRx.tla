------------------------------- MODULE UsartRx -------------------------------
(***************************************************************************)
(* The receive path of one interrupt-driven USART, as the Anybus link      *)
(* uses it: usart_irq_route() stores each byte of the line with            *)
(* kfifo_putc(), and the software-timer callback anybus_timeout(), which   *)
(* runs in the super-loop, drains the FIFO with usart_getdatasize() and    *)
(* usart_getpacket().  No lock and no interrupt masking protects           *)
(* struct kfifo, so the interrupt may strike between any two memory        *)
(* accesses of the reader; kfifo_putc() itself is not interrupted by the   *)
(* reader.                                                                 *)
(*                                                                         *)
(* The bytes of the line are numbered 1, 2, 3, ... : byte k of the line is *)
(* the value k, so a property can say which byte was handed up.            *)
(*                                                                         *)
(* A definition whose name ends in _Something is a broken variant of the   *)
(* one it precedes: it shows that a property notices the difference.       *)
(***************************************************************************)
EXTENDS Kfifo, Sequences

CONSTANTS
  RecvLen,    \* anybus_recv_len, the length of the telegram waited for
  Burst,      \* most bytes the line delivers during one kfifo call
  FirstLoads, \* which operand of "fifo->in - fifo->out" the build loads first
  MaxRcvd     \* bound: the line delivers this many bytes and falls silent

(***************************************************************************)
(* A call of a kfifo function takes a few microseconds and a byte at       *)
(* 115200 baud takes 87, so Burst is 1 in the program; the theorems allow  *)
(* any Burst that does not exceed a telegram, which itself must fit the    *)
(* FIFO.                                                                   *)
(***************************************************************************)
ASSUME RxAssumption ==
  /\ RecvLen \in 1..Size
  /\ Burst \in 1..RecvLen
  /\ FirstLoads \in SUBSET {"in", "out"}
  /\ MaxRcvd \in Nat

VARIABLES
  in, out,    \* kfifo.in, kfifo.out
  buf,        \* kfifo.buffer
  pc,         \* where anybus_timeout() is
  ld,         \* <<operand, value>>: the operand of in - out loaded first
  rout,       \* fifo->out as kfifo_get() loaded it to compute len
  base,       \* fifo->out as kfifo_get() uses it to address the copy
  rmw,        \* fifo->out as loaded by "fifo->out += len"
  len,        \* the local len of anybus_timeout()
  n,          \* the local len of kfifo_get(): the bytes it grants
  pkt,        \* anybus_recv_buf, as far as kfifo_get() has filled it
  burst,      \* bytes that arrived since the current kfifo call began
  rcvd,       \* history: bytes received from the line
  seen,       \* history: bytes kfifo_get() has counted as taken
  overflowed  \* history: kfifo_putc() has dropped an unread byte

fifo    == <<in, out, buf>>
locals  == <<ld, rout, base, rmw, len, n>>
history == <<rcvd, seen, overflowed>>
vars    == <<fifo, pc, locals, pkt, burst, history>>

-----------------------------------------------------------------------------
kfifo_len == Sub(in, out)

(* An int holds what an unsigned int holds below 2^31.                     *)
NonNegativeInt(u) == 2 * u < Mod

-----------------------------------------------------------------------------
NoByte == 0

Init ==
  /\ in = 0 /\ out = 0
  /\ buf = [s \in 0 .. Size - 1 |-> NoByte]
  /\ pc = "idle"
  /\ ld = <<"in", 0>> /\ rout = 0 /\ base = 0 /\ rmw = 0
  /\ len = 0 /\ n = 0
  /\ pkt = <<>>
  /\ burst = 0
  /\ rcvd = 0 /\ seen = 0 /\ overflowed = FALSE

(***************************************************************************)
(* kfifo_putc(): store, advance in, and when the FIFO was full give up the *)
(* oldest byte by advancing out, the index the reader owns.                *)
(***************************************************************************)
kfifo_putc_NoDrop(byte) ==
  /\ buf' = [buf EXCEPT ![Slot(in)] = byte]
  /\ in' = Add(in, 1)
  /\ UNCHANGED <<out, overflowed>>

kfifo_putc(byte) ==
  /\ buf' = [buf EXCEPT ![Slot(in)] = byte]
  /\ in' = Add(in, 1)
  /\ IF Sub(Add(in, 1), out) > Size
       THEN out' = Add(out, 1) /\ overflowed' = TRUE
       ELSE UNCHANGED <<out, overflowed>>

(* A kfifo call is in progress: the line is bounded by Burst meanwhile.    *)
InCall == pc \in {"len", "get", "addr", "copy", "add", "store"}

(* The RXNE branch of usart_irq_route().                                   *)
RxInterrupt ==
  /\ rcvd < MaxRcvd
  /\ InCall => burst < Burst
  /\ kfifo_putc(rcvd + 1)
  /\ rcvd' = rcvd + 1
  /\ burst' = IF InCall THEN burst + 1 ELSE burst
  /\ UNCHANGED <<pc, locals, pkt, seen>>

-----------------------------------------------------------------------------
(* The reader.  "in - out" takes two loads; C leaves their order open.     *)

LoadFirst ==
  \E x \in FirstLoads : ld' = <<x, IF x = "in" THEN in ELSE out>>

Difference ==
  IF ld[1] = "in" THEN Sub(ld[2], out) ELSE Sub(in, ld[2])

(* usart_getdatasize() begins: the first load of kfifo_len().              *)
DataSizeBegin ==
  /\ pc = "idle"
  /\ LoadFirst
  /\ pc' = "len"
  /\ burst' = 0
  /\ UNCHANGED <<fifo, rout, base, rmw, len, n, pkt, history>>

(***************************************************************************)
(* The second load, then "if(len >= anybus_recv_len)" on the int len.      *)
(***************************************************************************)
DataSizeEnd_Greater ==
  /\ pc = "len"
  /\ len' = Difference
  /\ pc' = IF NonNegativeInt(Difference) /\ Difference > RecvLen
             THEN "wait" ELSE "idle"
  /\ UNCHANGED <<fifo, ld, rout, base, rmw, n, pkt, burst, history>>

DataSizeEnd ==
  /\ pc = "len"
  /\ len' = Difference
  /\ pc' = IF NonNegativeInt(Difference) /\ Difference >= RecvLen
             THEN "wait" ELSE "idle"
  /\ UNCHANGED <<fifo, ld, rout, base, rmw, n, pkt, burst, history>>

(***************************************************************************)
(* stm32_uart_getstring() with timeout 0: its loop ends at the first       *)
(* timeout whatever the FIFO holds, at most one mdelay(1) later, during    *)
(* which any number of bytes may arrive.  Then kfifo_get() begins with the *)
(* first load of its own "in - out".                                       *)
(***************************************************************************)
GetBegin ==
  /\ pc = "wait"
  /\ LoadFirst
  /\ pc' = "get"
  /\ burst' = 0
  /\ UNCHANGED <<fifo, rout, base, rmw, len, n, pkt, history>>

(* len = min(len, fifo->in - fifo->out)                                    *)
GetGrant ==
  /\ pc = "get"
  /\ n' = Least(len, Difference)
  /\ rout' = IF ld[1] = "out" THEN ld[2] ELSE out
  /\ pkt' = <<>>
  /\ pc' = "addr"
  /\ UNCHANGED <<fifo, ld, base, rmw, len, burst, history>>

(***************************************************************************)
(* The copy is addressed by fifo->out, which the build reloads or keeps in *)
(* a register since the line above.                                        *)
(***************************************************************************)
GetAddress ==
  /\ pc = "addr"
  /\ base' \in {rout, out}
  /\ pc' = "copy"
  /\ UNCHANGED <<fifo, ld, rout, rmw, len, n, pkt, burst, history>>

(* One byte of the two memcpy() calls; the second wraps to slot 0.         *)
GetCopy ==
  /\ pc = "copy"
  /\ Len(pkt) < n
  /\ pkt' = Append(pkt, buf[Slot(Add(base, Len(pkt)))])
  /\ UNCHANGED <<fifo, pc, locals, burst, history>>

(* fifo->out += len, a load, an addition and a store.                      *)
GetAdvanceLoad ==
  /\ pc = "copy"
  /\ Len(pkt) = n
  /\ rmw' = out
  /\ pc' = "store"
  /\ UNCHANGED <<fifo, ld, rout, base, len, n, pkt, burst, history>>

GetAdvanceStore_NoWrap ==
  /\ pc = "store"
  /\ out' = rmw + n
  /\ seen' = seen + n
  /\ pc' = "handup"
  /\ UNCHANGED <<in, buf, locals, pkt, burst, rcvd, overflowed>>

GetAdvanceStore_Len ==
  /\ pc = "store"
  /\ out' = Add(rmw, n + 1)
  /\ seen' = seen + n
  /\ pc' = "handup"
  /\ UNCHANGED <<in, buf, locals, pkt, burst, rcvd, overflowed>>

GetAdvanceStore ==
  /\ pc = "store"
  /\ out' = Add(rmw, n)
  /\ seen' = seen + n
  /\ pc' = "handup"
  /\ UNCHANGED <<in, buf, locals, pkt, burst, rcvd, overflowed>>

(* APDR_SerialTelegramReceived(anybus_recv_buf); the callback returns.     *)
HandUp ==
  /\ pc = "handup"
  /\ pc' = "idle"
  /\ UNCHANGED <<fifo, locals, pkt, burst, history>>

Reader ==
  \/ DataSizeBegin \/ DataSizeEnd
  \/ GetBegin \/ GetGrant \/ GetAddress \/ GetCopy
  \/ GetAdvanceLoad \/ GetAdvanceStore
  \/ HandUp

Next == RxInterrupt \/ Reader

Spec == Init /\ [][Next]_vars

(***************************************************************************)
(* The super-loop never stops calling timer_srv(), which calls             *)
(* anybus_timeout() every fifth tick of its timer.                         *)
(***************************************************************************)
FairSpec == Spec /\ WF_vars(Reader)

-----------------------------------------------------------------------------
TypeOK ==
  /\ in \in Counter /\ out \in Counter
  /\ buf \in [0 .. Size - 1 -> Nat]
  /\ pc \in {"idle", "len", "wait", "get", "addr", "copy", "store", "handup"}
  /\ ld \in {"in", "out"} \X Counter
  /\ rout \in Counter /\ base \in Counter /\ rmw \in Counter
  /\ len \in Counter /\ n \in Counter
  /\ pkt \in Seq(Nat)
  /\ burst \in 0 .. Burst
  /\ rcvd \in 0 .. MaxRcvd /\ seen \in Nat
  /\ overflowed \in BOOLEAN

(***************************************************************************)
(* The FIFO never claims more bytes than it has room for, and the reader   *)
(* never grants itself more than that: the read-modify-write of out in     *)
(* kfifo_get() (kfifo.c:165) and the out++ of kfifo_putc() (kfifo.c:175)   *)
(* race, and an update lost between them must not leave out too far behind *)
(* or in front of in.  Once out passed in, kfifo_len() would be huge for   *)
(* good and the FIFO would be wedged.                                      *)
(***************************************************************************)
FifoBounds ==
  /\ kfifo_len <= Size
  /\ pc \in {"addr", "copy", "store"} => n <= Size

(***************************************************************************)
(* As long as no byte was dropped, what anybus_timeout() hands up is the   *)
(* line, whole and in order: the packet ends with the last byte taken so   *)
(* far and has no gap (kfifo.c:151-168 against usart_irq_route()).         *)
(***************************************************************************)
StreamIntact ==
  (pc = "handup" /\ ~overflowed) =>
    /\ seen + kfifo_len = rcvd
    /\ \A i \in 1 .. Len(pkt) : pkt[i] = seen - Len(pkt) + i

(***************************************************************************)
(* What the comment at kfifo.c:148-149 promises of one reader and one      *)
(* writer: the bytes of one kfifo_get() come in the order of the line.     *)
(***************************************************************************)
OrderKept ==
  pc = "handup" => \A i, j \in 1 .. Len(pkt) : i < j => pkt[i] < pkt[j]

(***************************************************************************)
(* A telegram that is complete in the FIFO is handed up: anybus_timeout()  *)
(* is not starved by the interrupt.                                        *)
(***************************************************************************)
TelegramServed == (kfifo_len >= RecvLen) ~> (pc = "handup")

-----------------------------------------------------------------------------
(***************************************************************************)
(* The inductive strengthening of FifoBounds, by phases of the reader:     *)
(* while in - out is being computed, the operand already loaded is exactly *)
(* burst bytes old; the reader is only ever granted what the FIFO holds,   *)
(* and, unless the grant leaves room for the rest of the burst, at least   *)
(* Burst bytes; so that when out is stored back, the bytes dropped since   *)
(* it was loaded are among those granted.                                  *)
(***************************************************************************)
Granting == pc \in {"addr", "copy", "store"}

CountInv ==
  /\ kfifo_len <= Size
  /\ pc \in {"len", "get"} =>
       /\ ld[1] = "in"
       /\ Sub(in, ld[2]) = burst
       /\ burst <= kfifo_len
  /\ pc \in {"wait", "get"} => len \in RecvLen .. Size /\ len <= kfifo_len
  /\ pc = "get" => kfifo_len - burst >= len \/ kfifo_len = Size
  /\ Granting =>
       /\ n <= Size
       /\ n <= kfifo_len
       /\ n >= Burst \/ n + burst >= Size
  /\ pc = "store" =>
       /\ n <= Sub(in, rmw)
       /\ Sub(in, rmw) <= Size + burst
       /\ Sub(in, rmw) - n + Burst - burst <= Size

(***************************************************************************)
(* The inductive strengthening of StreamIntact: until a byte is dropped,   *)
(* only the reader moves out, every value it has loaded is still current,  *)
(* and the slots from out to in hold the next bytes of the line in order.  *)
(***************************************************************************)
DataInv ==
  ~overflowed =>
    /\ seen + kfifo_len = rcvd
    /\ \A i \in 0 .. kfifo_len - 1 : buf[Slot(Add(out, i))] = seen + i + 1
    /\ Granting => rout = out
    /\ pc = "addr" => pkt = <<>>
    /\ pc \in {"copy", "store"} =>
         /\ base = out
         /\ Len(pkt) <= n
         /\ \A i \in 1 .. Len(pkt) : pkt[i] = seen + i
    /\ pc = "store" => rmw = out /\ Len(pkt) = n
    /\ pc = "handup" => \A i \in 1 .. Len(pkt) : pkt[i] = seen - Len(pkt) + i

=============================================================================
