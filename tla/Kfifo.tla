-------------------------------- MODULE Kfifo --------------------------------
(***************************************************************************)
(* The counters of struct kfifo (kfifo.h, kfifo.c).  in and out are        *)
(* unsigned ints that only ever advance and wrap at 2^32; a counter        *)
(* addresses the buffer by its low bits, and the FIFO holds in - out       *)
(* bytes.  The modules of the receive and of the transmit path extend this *)
(* one.                                                                    *)
(***************************************************************************)
EXTENDS Integers

CONSTANTS
  Size,       \* MAX_USART_BUF, the size of the FIFO buffer (a power of two)
  Mod         \* 2^32: kfifo.in and kfifo.out are unsigned int

(***************************************************************************)
(* Mod is a multiple of Size, as 2^32 is of every power of two: only then  *)
(* is a counter's slot unaffected by its wrap-around.                      *)
(***************************************************************************)
ASSUME KfifoAssumption ==
  /\ Size \in Nat \ {0}
  /\ Mod \in Nat
  /\ 2 * Size < Mod
  /\ Mod % Size = 0

(* unsigned int arithmetic, and "counter & (fifo->size - 1)".              *)
Counter   == 0 .. Mod - 1
Sub(a, b) == IF b <= a THEN a - b ELSE a - b + Mod
Add(a, k) == IF a + k < Mod THEN a + k ELSE a + k - Mod
Slot(c)   == c % Size

Least(a, b) == IF a < b THEN a ELSE b
=============================================================================
