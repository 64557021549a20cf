----------------------------- MODULE KfifoProof -----------------------------
(***************************************************************************)
(* Facts about the counters of struct kfifo, for every size and every      *)
(* wrap-around that KfifoAssumption admits.                                *)
(***************************************************************************)
EXTENDS Kfifo, TLAPS

-----------------------------------------------------------------------------
(* Unsigned arithmetic: the distances between counters that the proofs     *)
(* follow.                                                                 *)

(* The difference of two counters is a counter.                            *)
LEMMA SubClosed ==
  ASSUME NEW a \in Counter, NEW b \in Counter
  PROVE  Sub(a, b) \in Counter
BY KfifoAssumption DEF Counter, Sub

(* A counter advanced by no more than Mod is a counter.                    *)
LEMMA AddClosed ==
  ASSUME NEW a \in Counter, NEW k \in 0 .. Mod
  PROVE  Add(a, k) \in Counter
BY KfifoAssumption DEF Counter, Add

(* Advancing the counter in front lengthens the distance by one, unless    *)
(* the distance itself wraps.                                              *)
LEMMA SubAdvanceLeft ==
  ASSUME NEW a \in Counter, NEW b \in Counter, Sub(a, b) + 1 < Mod
  PROVE  Sub(Add(a, 1), b) = Sub(a, b) + 1
BY KfifoAssumption DEF Counter, Sub, Add

(* Advancing both counters, as kfifo_putc() does when the FIFO is full,    *)
(* keeps their distance.                                                   *)
LEMMA SubAdvanceBoth ==
  ASSUME NEW a \in Counter, NEW b \in Counter
  PROVE  Sub(Add(a, 1), Add(b, 1)) = Sub(a, b)
BY KfifoAssumption DEF Counter, Sub, Add

(* Advancing the counter behind by no more than the distance shortens it.  *)
LEMMA SubAdvanceRight ==
  ASSUME NEW a \in Counter, NEW b \in Counter, NEW k \in Nat, k <= Sub(a, b)
  PROVE  Sub(a, Add(b, k)) = Sub(a, b) - k
BY KfifoAssumption DEF Counter, Sub, Add

(* Distances along a chain of counters c, b, a add up.                     *)
LEMMA SubChain ==
  ASSUME NEW a \in Counter, NEW b \in Counter, NEW c \in Counter,
         Sub(a, b) <= Sub(a, c)
  PROVE  Sub(b, c) = Sub(a, c) - Sub(a, b)
BY KfifoAssumption DEF Counter, Sub, Add

(* The counter behind, advanced by the distance, is the one in front.      *)
LEMMA AddSub ==
  ASSUME NEW a \in Counter, NEW b \in Counter
  PROVE  Add(b, Sub(a, b)) = a
BY KfifoAssumption DEF Counter, Sub, Add

(* Two advances are one advance of their sum, across the wrap-around.      *)
LEMMA AddAdd ==
  ASSUME NEW a \in Counter, NEW j \in Nat, NEW k \in Nat, j + k <= Size
  PROVE  Add(Add(a, j), k) = Add(a, j + k)
BY KfifoAssumption DEF Counter, Add

(* "counter & (size - 1)" indexes the buffer.                              *)
LEMMA SlotInRange ==
  ASSUME NEW c \in Nat
  PROVE  Slot(c) \in 0 .. Size - 1
BY KfifoAssumption DEF Slot

(* The slot of a counter that was advanced, across its wrap-around.        *)
LEMMA SlotAdd ==
  ASSUME NEW c \in Counter, NEW i \in Nat, i < Size
  PROVE  Slot(Add(c, i)) = (c + i) % Size
<1>1. ASSUME NEW x \in Nat, Mod <= x
      PROVE  (x - Mod) % Size = x % Size
  <2> DEFINE qx == x \div Size
             r  == x % Size
             m  == Mod \div Size
  <2>1. /\ qx \in Int /\ r \in 0 .. Size - 1
        /\ x = Size * qx + r
    BY KfifoAssumption
  <2>2. m \in Int /\ Mod = Size * m
    BY KfifoAssumption
  <2> HIDE DEF qx, r, m
  <2>3. x - Mod = Size * (qx - m) + r
    BY <2>1, <2>2, KfifoAssumption
  <2>4. (Size * (qx - m) + r) % Size = r
    BY <2>1, <2>2, KfifoAssumption
  <2> QED BY <2>3, <2>4 DEF r
<1> QED BY <1>1, KfifoAssumption DEF Counter, Add, Slot

(***************************************************************************)
(* Two positions less than Size apart never share a slot, across the       *)
(* wrap-around of the counter too.                                         *)
(***************************************************************************)
LEMMA SlotInjective ==
  ASSUME NEW c \in Counter, NEW j \in Nat, NEW k \in Nat, j < k, k < Size
  PROVE  Slot(Add(c, j)) # Slot(Add(c, k))
<1>1. ASSUME NEW x \in Nat, NEW y \in Nat, x < y, y < x + Size
      PROVE  x % Size # y % Size
  <2> DEFINE qx == x \div Size
             qy == y \div Size
  <2>1. /\ qx \in Int /\ qy \in Int
        /\ x = Size * qx + (x % Size)
        /\ y = Size * qy + (y % Size)
    BY KfifoAssumption
  <2>2. SUFFICES ASSUME x % Size = y % Size PROVE FALSE
    OBVIOUS
  <2> DEFINE d == qy - qx
  <2>3. d \in Int /\ y - x = Size * d
    BY <2>1, <2>2, KfifoAssumption
  <2> HIDE DEF qx, qy, d
  <2>4. CASE d <= 0
    <3>1. Size * d <= 0
      BY <2>3, <2>4, KfifoAssumption
    <3> QED BY <3>1, <2>3, <1>1
  <2>5. CASE d >= 1
    <3>1. Size * d >= Size
      BY <2>3, <2>5, KfifoAssumption
    <3> QED BY <3>1, <2>3, <1>1, KfifoAssumption
  <2> QED BY <2>3, <2>4, <2>5
<1>2. Slot(Add(c, j)) = (c + j) % Size /\ Slot(Add(c, k)) = (c + k) % Size
  <2>1. j < Size
    BY KfifoAssumption
  <2> QED BY <2>1, SlotAdd
<1>3. (c + j) % Size # (c + k) % Size
  <2>1. /\ c + j \in Nat /\ c + k \in Nat
        /\ c + j < c + k /\ c + k < (c + j) + Size
    BY KfifoAssumption DEF Counter
  <2> QED BY <1>1, <2>1
<1> QED BY <1>2, <1>3
=============================================================================
