---------------------------- MODULE UsartTxProof ----------------------------
(***************************************************************************)
(* Proofs about the transmit path for every FIFO size, every set of        *)
(* strings of two bytes or more and any overlap of their transmissions.    *)
(***************************************************************************)
EXTENDS UsartTx, KfifoProof, TLAPS

-----------------------------------------------------------------------------
(* What type correctness says of the quantities the invariant compares.    *)
LEMMA TypeFacts ==
  ASSUME TypeOK
  PROVE  /\ in \in Counter /\ out \in Counter /\ rmw \in Counter
         /\ kfifo_len \in Nat /\ kfifo_len < Mod
         /\ Sub(in, rmw) \in Nat /\ Sub(in, rmw) < Mod
         /\ stored \in Nat /\ Size \in Nat /\ Size < Mod
         /\ Counter \subseteq Nat
<1>1. in \in Counter /\ out \in Counter /\ rmw \in Counter /\ stored \in Nat
  BY DEF TypeOK
<1>2. kfifo_len \in Counter /\ Sub(in, rmw) \in Counter
  BY <1>1, SubClosed DEF kfifo_len
<1>3. Size \in Nat /\ Size < Mod /\ Mod \in Nat
  BY KfifoAssumption
<1> QED BY <1>1, <1>2, <1>3 DEF Counter

(* A slot of the FIFO holds a byte.                                        *)
LEMMA ByteAt ==
  ASSUME TypeOK, NEW c \in Counter
  PROVE  buf[Slot(c)] \in 0 .. MaxBytes
<1>1. Slot(c) \in 0 .. Size - 1
  BY SlotInRange DEF Counter
<1> QED BY <1>1 DEF TypeOK

(* Writing the data register leaves bytes in both registers.               *)
LEMMA WriteKeepsBytes ==
  ASSUME TypeOK, NEW byte \in 0 .. MaxBytes, WriteDR(byte)
  PROVE  tdr' \in 0 .. MaxBytes /\ shift' \in 0 .. MaxBytes
BY DEF TypeOK, WriteDR

(***************************************************************************)
(* What kfifo_put() does to an empty FIFO: it stores as much of the string *)
(* as there is room for, which is at least two bytes of it.                *)
(***************************************************************************)
LEMMA PutEffect ==
  ASSUME TypeOK, TxInv, SendPut
  PROVE  /\ in' \in Counter
         /\ kfifo_len' \in 2 .. Size
         /\ stored' \in 0 .. MaxBytes
         /\ buf' \in [0 .. Size - 1 -> 0 .. MaxBytes]
<1> DEFINE n == Least(len, Room)
<1>1. /\ Size \in Nat /\ Size > 1 /\ 2 * Size < Mod /\ Mod \in Nat
      /\ Lens \subseteq Nat \ {0, 1} /\ MaxBytes \in Nat
  BY KfifoAssumption, TxAssumption
<1>2. in = out /\ len \in Lens /\ stored + Least(len, Size) <= MaxBytes
  BY DEF SendPut, TxInv
<1>3. kfifo_len = 0 /\ Room = Size
  BY <1>1, <1>2, TypeFacts DEF kfifo_len, Sub, Room, Counter
<1>4. n \in 2 .. Size /\ n = Least(len, Size)
  BY <1>1, <1>2, <1>3 DEF Least
<1>5. in' = Add(in, n) /\ stored' = stored + n /\ buf' = Filled(n) /\ out' = out
  BY DEF SendPut, kfifo_put
<1> HIDE DEF n
<1>6. in' \in Counter
  BY <1>1, <1>4, <1>5, AddClosed, TypeFacts
<1>7. kfifo_len' = n
  <2>1. out \in Counter /\ n \in Nat /\ n < Mod
    BY <1>1, <1>4, TypeFacts
  <2> QED BY <1>1, <1>2, <1>5, <2>1 DEF kfifo_len, Sub, Add, Counter
<1>8. stored' \in 0 .. MaxBytes /\ stored + n <= MaxBytes
  BY <1>1, <1>2, <1>4, <1>5, TypeFacts
<1>9. Filled(n) \in [0 .. Size - 1 -> 0 .. MaxBytes]
  <2>1. ASSUME NEW s \in 0 .. Size - 1, Offset(s) < n
        PROVE  stored + Offset(s) + 1 \in 0 .. MaxBytes
    <3>1. Slot(in) \in Int
      BY <1>1, SlotInRange, TypeFacts DEF Counter
    <3>2. Offset(s) \in 0 .. Size - 1
      BY <1>1, <3>1 DEF Offset
    <3> QED BY <1>1, <1>4, <1>8, <2>1, <3>2, TypeFacts
  <2>2. ASSUME NEW s \in 0 .. Size - 1 PROVE buf[s] \in 0 .. MaxBytes
    BY <2>2 DEF TypeOK
  <2> QED BY <2>1, <2>2 DEF Filled
<1> QED BY <1>4, <1>5, <1>6, <1>7, <1>8, <1>9

(***************************************************************************)
(* What the TC interrupt does to the FIFO: it takes one byte, or none when *)
(* there is none.                                                          *)
(***************************************************************************)
LEMMA InterruptEffect ==
  ASSUME TypeOK, TxInterrupt
  PROVE  /\ out' \in Counter
         /\ kfifo_len' = IF kfifo_len = 0 THEN 0 ELSE kfifo_len - 1
<1>1. in \in Counter /\ out \in Counter /\ in' = in /\ kfifo_len \in Nat
  BY TypeFacts DEF TxInterrupt
<1>2. in = out <=> kfifo_len = 0
  BY <1>1, KfifoAssumption DEF kfifo_len, Sub, Counter
<1>3. CASE in = out
  <2>1. out' = out
    BY <1>3 DEF TxInterrupt
  <2>2. kfifo_len' = kfifo_len
    BY <1>1, <2>1 DEF kfifo_len
  <2> QED BY <1>1, <1>2, <1>3, <2>1, <2>2
<1>4. CASE in # out
  <2>1. out' = Add(out, 1)
    BY <1>4 DEF TxInterrupt
  <2>2. 1 \in Nat /\ 1 <= Sub(in, out) /\ 1 \in 0 .. Mod
    BY <1>1, <1>2, <1>4, KfifoAssumption DEF kfifo_len
  <2>3. Sub(in, Add(out, 1)) = Sub(in, out) - 1
    BY <1>1, <2>2, SubAdvanceRight
  <2>4. Add(out, 1) \in Counter
    BY <1>1, <2>2, AddClosed
  <2> QED BY <1>1, <1>2, <1>4, <2>1, <2>3, <2>4 DEF kfifo_len
<1> QED BY <1>3, <1>4

-----------------------------------------------------------------------------
(* Type correctness is inductive together with TxInv: only while the       *)
(* string fits does kfifo_put() keep its bytes within their bound.         *)
LEMMA TypeStep ==
  ASSUME TypeOK, TxInv, [Next]_vars
  PROVE  TypeOK'
<1> USE DEF TypeOK
<1>1. ASSUME NEW l \in Lens, SendBegin(l) PROVE TypeOK'
  BY <1>1 DEF SendBegin, fifo, usart
<1>2. ASSUME SendWait PROVE TypeOK'
  BY <1>2 DEF SendWait, fifo, locals, usart, history
<1>3. ASSUME SendPut PROVE TypeOK'
  <2>1. /\ in' \in Counter /\ stored' \in 0 .. MaxBytes
        /\ buf' \in [0 .. Size - 1 -> 0 .. MaxBytes]
    BY <1>3, PutEffect
  <2> QED BY <1>3, <2>1 DEF SendPut, locals, usart
<1>4. ASSUME SendCheck PROVE TypeOK'
  BY <1>4 DEF SendCheck, fifo, usart, history
<1>5. ASSUME SendRead PROVE TypeOK'
  <2>1. ch' \in 0 .. MaxBytes
    BY <1>5, ByteAt DEF SendRead
  <2> QED BY <1>5, <2>1 DEF SendRead, fifo, usart, history
<1>6. ASSUME SendAddLoad PROVE TypeOK'
  BY <1>6 DEF SendAddLoad, fifo, usart, history
<1>7. ASSUME SendAddStore PROVE TypeOK'
  <2>1. out' \in Counter
    <3>1. 1 \in 0 .. Mod
      BY KfifoAssumption
    <3> QED BY <1>7, <3>1, AddClosed DEF SendAddStore
  <2> QED BY <1>7, <2>1 DEF SendAddStore, locals, usart, history
<1>8. ASSUME SendWrite PROVE TypeOK'
  <2>1. tdr' \in 0 .. MaxBytes /\ shift' \in 0 .. MaxBytes
    BY <1>8, WriteKeepsBytes DEF SendWrite
  <2>2. tc' \in BOOLEAN
    BY <1>8 DEF SendWrite
  <2> QED BY <1>8, <2>1, <2>2 DEF SendWrite, fifo, locals, history
<1>9. ASSUME SendEnable PROVE TypeOK'
  BY <1>9 DEF SendEnable, fifo, locals, history
<1>10. ASSUME TxInterrupt PROVE TypeOK'
  <2>1. out' \in Counter
    BY <1>10, InterruptEffect
  <2>2. tdr' \in 0 .. MaxBytes /\ shift' \in 0 .. MaxBytes /\ tcie' \in BOOLEAN
    <3>1. CASE in = out
      BY <1>10, <3>1 DEF TxInterrupt
    <3>2. CASE in # out
      <4>1. WriteDR(buf[Slot(out)]) /\ tcie' = tcie
        BY <1>10, <3>2 DEF TxInterrupt
      <4>2. buf[Slot(out)] \in 0 .. MaxBytes
        BY ByteAt
      <4> QED BY <4>1, <4>2, WriteKeepsBytes
    <3> QED BY <3>1, <3>2
  <2> QED BY <1>10, <2>1, <2>2 DEF TxInterrupt, locals, history
<1>11. ASSUME Shifted PROVE TypeOK'
  <2>1. /\ shift' \in 0 .. MaxBytes /\ tdr' \in 0 .. MaxBytes /\ tc' \in BOOLEAN
    BY <1>11, TxAssumption DEF Shifted, NoByte
  <2>2. wire' \in Seq(1 .. MaxBytes)
    <3>1. shift \in 1 .. MaxBytes
      BY <1>11, TxAssumption DEF Shifted, NoByte
    <3>2. Append(wire, shift) \in Seq(1 .. MaxBytes) /\ <<>> \in Seq(1 .. MaxBytes)
      BY <3>1
    <3> QED BY <1>11, <3>2 DEF Shifted
  <2> QED BY <1>11, <2>1, <2>2 DEF Shifted, fifo, locals
<1>12. CASE UNCHANGED vars
  BY <1>12 DEF vars, fifo, locals, usart, history
<1> QED
  BY <1>1, <1>2, <1>3, <1>4, <1>5, <1>6, <1>7, <1>8, <1>9, <1>10, <1>11, <1>12
     DEF Next, Sender

(***************************************************************************)
(* Neither of the two readers of the FIFO takes more than there is.        *)
(***************************************************************************)
LEMMA TxInvStep ==
  ASSUME TypeOK, TxInv, [Next]_vars
  PROVE  TxInv'
<1>0. /\ kfifo_len \in Nat /\ kfifo_len <= Size /\ Size \in Nat
      /\ Sub(in, rmw) \in Nat
  BY TypeFacts DEF TxInv
<1>1. ASSUME NEW l \in Lens, SendBegin(l) PROVE TxInv'
  BY <1>1 DEF SendBegin, fifo, usart, TxInv, kfifo_len
<1>2. ASSUME SendWait PROVE TxInv'
  <2>1. in = out
    BY <1>2, TypeFacts, KfifoAssumption DEF SendWait, kfifo_len, Sub, Counter
  <2>2. /\ pc = "wait" /\ pc' = "put"
        /\ UNCHANGED <<in, out, kfifo_len, len, stored>>
    BY <1>2 DEF SendWait, fifo, locals, history, kfifo_len
  <2> QED BY <2>1, <2>2 DEF TxInv
<1>3. ASSUME SendPut PROVE TxInv'
  <2>1. pc' = "check" /\ struck' = FALSE /\ kfifo_len' \in 2 .. Size
    BY <1>3, PutEffect DEF SendPut
  <2> QED BY <1>0, <2>1 DEF TxInv
<1>4. ASSUME SendCheck PROVE TxInv'
  BY <1>4 DEF SendCheck, fifo, history, TxInv, kfifo_len
<1>5. ASSUME SendRead PROVE TxInv'
  BY <1>5 DEF SendRead, fifo, history, TxInv, kfifo_len
<1>6. ASSUME SendAddLoad PROVE TxInv'
  <2>1. /\ pc = "add" /\ pc' = "store" /\ rmw' = out
        /\ in' = in /\ out' = out
    BY <1>6 DEF SendAddLoad, fifo
  <2>2. kfifo_len >= 1
    BY <1>0, <2>1 DEF TxInv
  <2>3. Sub(in, rmw)' = kfifo_len /\ kfifo_len' = kfifo_len
    BY <2>1 DEF kfifo_len
  <2>4. Sub(in, rmw)' \in 1 .. Size
    BY <1>0, <2>2, <2>3
  <2> QED BY <1>0, <2>1, <2>3, <2>4 DEF TxInv
<1>7. ASSUME SendAddStore PROVE TxInv'
  <2>1. /\ pc = "store" /\ pc' = "write" /\ in' = in
        /\ out' = Add(rmw, 1)
    BY <1>7 DEF SendAddStore
  <2>2. Sub(in, rmw) \in 1 .. Size
    BY <2>1 DEF TxInv
  <2>3. Sub(in, Add(rmw, 1)) = Sub(in, rmw) - 1
    <3>1. in \in Counter /\ rmw \in Counter /\ 1 \in Nat /\ 1 <= Sub(in, rmw)
      BY <1>0, <2>2, TypeFacts
    <3> QED BY <3>1, SubAdvanceRight
  <2>4. kfifo_len' = Sub(in, rmw) - 1
    BY <2>1, <2>3 DEF kfifo_len
  <2>5. kfifo_len' <= Size
    BY <1>0, <2>2, <2>4
  <2> QED BY <2>1, <2>5 DEF TxInv
<1>8. ASSUME SendWrite PROVE TxInv'
  BY <1>8 DEF SendWrite, fifo, TxInv, kfifo_len
<1>9. ASSUME SendEnable PROVE TxInv'
  BY <1>9 DEF SendEnable, fifo, TxInv, kfifo_len
<1>10. ASSUME TxInterrupt PROVE TxInv'
  <2>1. /\ kfifo_len' = IF kfifo_len = 0 THEN 0 ELSE kfifo_len - 1
        /\ pc' = pc /\ in' = in /\ len' = len /\ stored' = stored /\ rmw' = rmw
        /\ struck' = TRUE
        /\ InWindow => ~struck
    BY <1>10, InterruptEffect DEF TxInterrupt, locals, history
  <2>2. kfifo_len' <= Size
    BY <1>0, <2>1
  <2>3. pc = "put" => in = out'
    BY <1>10 DEF TxInterrupt, TxInv
  <2>4. pc \in {"check", "read", "add"} => kfifo_len' >= 1
    <3> SUFFICES ASSUME pc \in {"check", "read", "add"} PROVE kfifo_len' >= 1
      OBVIOUS
    <3>1. ~struck
      BY <2>1 DEF InWindow
    <3>2. kfifo_len >= 2
      BY <3>1 DEF TxInv
    <3> QED BY <1>0, <2>1, <3>2
  <2> QED BY <2>1, <2>2, <2>3, <2>4 DEF TxInv
<1>11. ASSUME Shifted PROVE TxInv'
  BY <1>11 DEF Shifted, fifo, locals, TxInv, kfifo_len
<1>12. CASE UNCHANGED vars
  BY <1>12 DEF vars, fifo, locals, history, TxInv, kfifo_len
<1> QED
  BY <1>1, <1>2, <1>3, <1>4, <1>5, <1>6, <1>7, <1>8, <1>9, <1>10, <1>11, <1>12
     DEF Next, Sender

(* The initial state satisfies both.                                       *)
LEMMA TxInit == Init => TypeOK /\ TxInv
<1> SUFFICES ASSUME Init PROVE TypeOK /\ TxInv
  OBVIOUS
<1>1. /\ Size \in Nat /\ Size > 1 /\ Mod \in Nat /\ 2 * Size < Mod
      /\ MaxBytes \in Nat
  BY KfifoAssumption, TxAssumption
<1>2. 0 \in Counter /\ 0 \in 0 .. MaxBytes /\ kfifo_len = 0
  BY <1>1 DEF Init, Counter, kfifo_len, Sub
<1>3. buf \in [0 .. Size - 1 -> 0 .. MaxBytes]
  BY <1>2 DEF Init, NoByte
<1>4. TypeOK
  <2>1. /\ in \in Counter /\ out \in Counter /\ rout \in Counter /\ rmw \in Counter
        /\ {ch, tdr, shift} \subseteq 0 .. MaxBytes /\ stored \in 0 .. MaxBytes
    BY <1>2 DEF Init, NoByte
  <2>2. wire \in Seq(1 .. MaxBytes)
    BY DEF Init
  <2>3. {tcie, tc, struck, overlapped} \subseteq BOOLEAN
    BY DEF Init
  <2> QED BY <1>3, <2>1, <2>2, <2>3 DEF Init, TypeOK
<1>5. TxInv
  BY <1>1, <1>2 DEF Init, TxInv
<1> QED BY <1>4, <1>5

(***************************************************************************)
(* Type correctness: the counters stay unsigned ints and every slot and    *)
(* register holds a byte that was handed over.                             *)
(***************************************************************************)
THEOREM TypeCorrect == Spec => []TypeOK
<1>1. (TypeOK /\ TxInv) /\ [Next]_vars => (TypeOK /\ TxInv)'
  BY TypeStep, TxInvStep
<1> QED BY <1>1, TxInit, PTL DEF Spec

(***************************************************************************)
(* The transmit FIFO never claims more bytes than it has room for, though  *)
(* sendstring and the TC interrupt both advance out, and also when a       *)
(* string is handed over before the last one has left.                     *)
(***************************************************************************)
THEOREM TxNeverWedged == Spec => []TxBounds
<1>1. (TypeOK /\ TxInv) /\ [Next]_vars => (TypeOK /\ TxInv)'
  BY TypeStep, TxInvStep
<1>2. TxInv => TxBounds
  BY DEF TxInv, TxBounds
<1> QED BY <1>1, <1>2, TxInit, PTL DEF Spec

-----------------------------------------------------------------------------
(* The byte of the string that kfifo_put() copies to a slot behind in.     *)
LEMMA OffsetOf ==
  ASSUME TypeOK, NEW k \in Nat, k < Size
  PROVE  Offset(Slot(Add(in, k))) = k
<1> DEFINE q == in \div Size
           r == in % Size
           p == (in + k) \div Size
           s == (in + k) % Size
<1>1. in \in Nat /\ Slot(Add(in, k)) = s /\ Slot(in) = r
  BY SlotAdd, TypeFacts DEF Slot, Counter
<1>2. /\ q \in Int /\ p \in Int /\ r \in 0 .. Size - 1 /\ s \in 0 .. Size - 1
      /\ in = Size * q + r /\ in + k = Size * p + s
  BY <1>1, KfifoAssumption
<1> DEFINE d == q - p
<1> HIDE DEF q, r, p, s
<1>3. d \in Int /\ s - r = Size * d + k
  BY <1>1, <1>2, KfifoAssumption
<1> HIDE DEF d
<1>4. (Size * d + k) % Size = k
  BY <1>3, KfifoAssumption
<1> QED BY <1>1, <1>3, <1>4 DEF Offset

(* The FIFO holds bytes: what is between out and in is not NoByte.         *)
LEMMA HeldByte ==
  ASSUME TypeOK, Held, in # out
  PROVE  /\ buf[Slot(out)] = stored - kfifo_len + 1
         /\ buf[Slot(out)] # NoByte
<1>1. kfifo_len \in Nat /\ kfifo_len # 0 /\ out \in Counter /\ stored \in Nat
  BY TypeFacts, KfifoAssumption DEF kfifo_len, Sub, Counter
<1>2. buf[Slot(out)] = stored - kfifo_len + 1
  BY <1>1 DEF Held, kfifo_len
<1> QED BY <1>1, <1>2 DEF Held, NoByte

(* Taking bytes out of the FIFO leaves the others as they are.             *)
LEMMA HeldTaken ==
  ASSUME TypeOK, TypeOK', Held, kfifo_len' <= kfifo_len, UNCHANGED <<in, buf, stored>>
  PROVE  Held'
<1>1. kfifo_len \in Nat /\ kfifo_len' \in Nat /\ stored \in Nat
  <2>1. kfifo_len' \in Counter
    BY SubClosed DEF TypeOK, kfifo_len
  <2> QED BY <2>1, TypeFacts
<1>2. ASSUME NEW c \in Counter, Sub(in, c) \in 1 .. kfifo_len'
      PROVE  buf[Slot(c)] = stored - Sub(in, c) + 1
  <2>1. Sub(in, c) \in 1 .. kfifo_len
    BY <1>1, <1>2
  <2> QED BY <2>1 DEF Held
<1> QED BY <1>1, <1>2 DEF Held

(* kfifo_put() puts the next bytes into an empty FIFO, across the end of   *)
(* the buffer too.                                                         *)
LEMMA HeldPut ==
  ASSUME TypeOK, TypeOK', TxInv, Held, SendPut
  PROVE  Held' /\ stored' = stored + kfifo_len' /\ kfifo_len = 0
<1> DEFINE n == Least(len, Room)
<1>1. /\ in' = Add(in, n) /\ stored' = stored + n /\ buf' = Filled(n) /\ out' = out
      /\ in = out
  BY DEF SendPut, kfifo_put, TxInv
<1>2. kfifo_len' \in 2 .. Size
  BY PutEffect
<1>3. kfifo_len = 0 /\ n \in Nat /\ n <= Size
  <2>1. len \in Nat
    BY TxAssumption DEF TypeOK
  <2>2. kfifo_len = 0 /\ Room = Size
    BY <1>1, TypeFacts, KfifoAssumption DEF kfifo_len, Sub, Room, Counter
  <2> QED BY <2>1, <2>2, KfifoAssumption DEF Least
<1> HIDE DEF n
<1>4. kfifo_len' = n
  BY <1>1, <1>3, TypeFacts, KfifoAssumption DEF kfifo_len, Sub, Add, Counter
<1>5. ASSUME NEW c \in Counter, Sub(in', c) \in 1 .. n
      PROVE  buf'[Slot(c)] = stored' - Sub(in', c) + 1
  <2> DEFINE k == n - Sub(in', c)
  <2>1. k \in Nat /\ k < n /\ k < Size
    BY <1>3, <1>5, KfifoAssumption
  <2>2. c = Add(in, k)
    BY <1>1, <1>3, <1>5, TypeFacts, KfifoAssumption DEF Sub, Add, Counter
  <2> HIDE DEF k
  <2>3. Slot(c) \in 0 .. Size - 1 /\ Offset(Slot(c)) = k
    BY <2>1, <2>2, OffsetOf, SlotInRange DEF Counter
  <2>4. buf'[Slot(c)] = stored + k + 1
    BY <1>1, <2>1, <2>3 DEF Filled
  <2> QED BY <1>1, <1>3, <1>5, <2>4, TypeFacts DEF k, Counter
<1>6. kfifo_len' <= stored'
  BY <1>1, <1>3, <1>4, TypeFacts
<1> QED BY <1>1, <1>3, <1>4, <1>5, <1>6 DEF Held

(* What each step leaves alone of what Held speaks of, or takes of it.     *)
LEMMA HeldStep ==
  ASSUME TypeOK, TypeOK', TxInv, StrandInv, [Next]_vars
  PROVE  Held'
<1>0. Held /\ kfifo_len \in Nat
  BY TypeFacts DEF StrandInv
<1>1. CASE SendPut
  BY <1>0, <1>1, HeldPut
<1>2. CASE SendAddStore
  <2>1. /\ out' = Add(rmw, 1) /\ UNCHANGED <<in, buf, stored>>
        /\ Sub(in, rmw) \in 1 .. Size /\ Sub(in, rmw) <= kfifo_len + 1
    BY <1>0, <1>2, TypeFacts DEF SendAddStore, history, TxInv, StrandInv
  <2>2. kfifo_len' = Sub(in, rmw) - 1
    BY <2>1, TypeFacts, SubAdvanceRight DEF kfifo_len
  <2>3. kfifo_len' <= kfifo_len
    BY <1>0, <2>1, <2>2, TypeFacts
  <2> QED BY <1>0, <2>1, <2>3, HeldTaken
<1>3. CASE TxInterrupt
  <2>1. kfifo_len' <= kfifo_len
    BY <1>0, <1>3, InterruptEffect
  <2>2. UNCHANGED <<in, buf, stored>>
    BY <1>3 DEF TxInterrupt, history
  <2> QED BY <1>0, <2>1, <2>2, HeldTaken
<1>4. ASSUME UNCHANGED <<fifo, stored>> PROVE Held'
  BY <1>0, <1>4 DEF Held, fifo, kfifo_len
<1>5. CASE \/ \E l \in Lens : SendBegin(l)
           \/ SendWait \/ SendCheck \/ SendRead \/ SendAddLoad \/ SendWrite
           \/ SendEnable \/ Shifted \/ UNCHANGED vars
  <2>1. UNCHANGED <<fifo, stored>>
    BY <1>5 DEF SendBegin, SendWait, SendCheck, SendRead, SendAddLoad, SendWrite,
                SendEnable, Shifted, vars, history
  <2> QED BY <1>4, <2>1
<1> QED BY <1>1, <1>2, <1>3, <1>5 DEF Next, Sender

(***************************************************************************)
(* While bytes wait, the interrupt that takes them stays enabled and will  *)
(* strike.                                                                 *)
(***************************************************************************)
LEMMA StrandStep ==
  ASSUME TypeOK, TypeOK', TxInv, StrandInv, [Next]_vars
  PROVE  StrandInv'
<1> USE DEF NothingStranded
<1>0. Held' /\ Held /\ kfifo_len \in Nat /\ Sub(in, rmw) \in Nat
  BY HeldStep, TypeFacts DEF StrandInv
<1>1. ASSUME NEW l \in Lens, SendBegin(l) PROVE StrandInv'
  BY <1>0, <1>1 DEF SendBegin, fifo, usart, StrandInv, kfifo_len
<1>2. ASSUME SendWait PROVE StrandInv'
  BY <1>0, <1>2 DEF SendWait, fifo, locals, usart, StrandInv
<1>3. ASSUME SendPut PROVE StrandInv'
  BY <1>0, <1>3 DEF SendPut, locals, usart, StrandInv
<1>4. ASSUME SendCheck PROVE StrandInv'
  <2>1. in # out => buf[Slot(out)] # NoByte
    BY <1>0, HeldByte
  <2> QED BY <1>0, <1>4, <2>1 DEF SendCheck, fifo, usart, StrandInv
<1>5. ASSUME SendRead PROVE StrandInv'
  <2>1. in # out
    <3>1. kfifo_len >= 1
      BY <1>0, <1>5 DEF SendRead, TxInv
    <3> QED BY <1>0, <3>1, TypeFacts DEF kfifo_len, Sub, Counter
  <2>2. ch' # NoByte
    BY <1>0, <1>5, <2>1, HeldByte DEF SendRead, StrandInv
  <2> QED BY <1>0, <1>5, <2>2 DEF SendRead, fifo, usart, StrandInv
<1>6. ASSUME SendAddLoad PROVE StrandInv'
  <2>1. /\ pc = "add" /\ pc' = "store" /\ UNCHANGED <<in, out, buf, ch, struck>>
        /\ UNCHANGED <<tcie, tc, tdr, shift>> /\ rmw' = out
    BY <1>6 DEF SendAddLoad, fifo, usart
  <2>2. Sub(in, rmw)' = kfifo_len /\ kfifo_len' = kfifo_len
    BY <2>1 DEF kfifo_len
  <2>3. Sub(in, rmw)' <= kfifo_len' + (IF struck' THEN 1 ELSE 0)
    BY <1>0, <2>2
  <2> QED BY <1>0, <2>1, <2>3 DEF StrandInv
<1>7. ASSUME SendAddStore PROVE StrandInv'
  BY <1>0, <1>7 DEF SendAddStore, locals, usart, StrandInv
<1>8. ASSUME SendWrite PROVE StrandInv'
  <2>1. shift' # NoByte
    BY <1>8 DEF SendWrite, WriteDR, StrandInv
  <2> QED BY <1>0, <1>8, <2>1 DEF SendWrite, fifo, locals, StrandInv
<1>9. ASSUME SendEnable PROVE StrandInv'
  BY <1>0, <1>9 DEF SendEnable, fifo, locals, StrandInv
<1>10. ASSUME TxInterrupt PROVE StrandInv'
  <2>1. /\ tc /\ tcie /\ struck' /\ UNCHANGED <<in, buf, pc, ch, rout, rmw>>
        /\ InWindow => ~struck
    BY <1>10 DEF TxInterrupt, locals
  <2>2. in = out => in' = out'
    BY <1>10 DEF TxInterrupt
  <2>3. shift' = NoByte => tdr' = NoByte
    <3>1. CASE in = out
      BY <1>10, <3>1 DEF TxInterrupt, StrandInv
    <3>2. CASE in # out
      BY <1>0, <1>10, <3>2, HeldByte DEF TxInterrupt, WriteDR
    <3> QED BY <3>1, <3>2
  <2>4. in # out => tcie' /\ shift' # NoByte
    BY <1>0, <1>10, HeldByte DEF TxInterrupt, WriteDR
  <2>5. pc = "store" => Sub(in, rmw)' <= kfifo_len' + (IF struck' THEN 1 ELSE 0)
    <3> SUFFICES ASSUME pc = "store" PROVE Sub(in, rmw)' <= kfifo_len' + 1
      BY <2>1
    <3>1. Sub(in, rmw)' = Sub(in, rmw) /\ Sub(in, rmw) <= kfifo_len
      BY <1>0, <2>1 DEF StrandInv, InWindow
    <3>2. kfifo_len' = IF kfifo_len = 0 THEN 0 ELSE kfifo_len - 1
      BY <1>10, InterruptEffect
    <3> QED BY <1>0, <3>1, <3>2
  <2> QED BY <1>0, <2>1, <2>2, <2>3, <2>4, <2>5 DEF StrandInv
<1>11. ASSUME Shifted PROVE StrandInv'
  <2>1. /\ tdr' = NoByte /\ shift' = tdr /\ tc' = (tc \/ tdr = NoByte)
        /\ UNCHANGED <<in, out, buf, pc, rout, ch, rmw, tcie, struck>>
    BY <1>11 DEF Shifted, fifo, locals
  <2> QED BY <1>0, <2>1 DEF StrandInv, kfifo_len
<1>12. CASE UNCHANGED vars
  BY <1>0, <1>12 DEF vars, fifo, locals, usart, StrandInv, kfifo_len
<1> QED
  BY <1>1, <1>2, <1>3, <1>4, <1>5, <1>6, <1>7, <1>8, <1>9, <1>10, <1>11, <1>12
     DEF Next, Sender

(* Nothing is held, shifted or sent at first.                              *)
LEMMA StrandInit == Init => StrandInv
<1> SUFFICES ASSUME Init PROVE StrandInv
  OBVIOUS
<1>1. TypeOK /\ in = out /\ stored = 0
  BY TxInit DEF Init
<1>2. kfifo_len = 0
  BY <1>1, TypeFacts DEF kfifo_len, Sub, Counter
<1>3. Held
  BY <1>1, <1>2 DEF Held
<1> QED BY <1>1, <1>3 DEF Init, StrandInv, NothingStranded

(***************************************************************************)
(* No byte is left behind in the FIFO: while sendstring is not running, an *)
(* interrupt is on its way to take it, whatever the overlap of strings and *)
(* wherever the interrupt struck in kfifo_getc().                          *)
(***************************************************************************)
THEOREM NoByteLeftBehind == Spec => []NothingStranded
<1> DEFINE IInv == TypeOK /\ TxInv /\ StrandInv
<1>1. Init => IInv
  BY TxInit, StrandInit
<1>2. IInv /\ [Next]_vars => IInv'
  BY TypeStep, TxInvStep, StrandStep
<1>3. IInv => NothingStranded
  BY DEF StrandInv
<1> QED BY <1>1, <1>2, <1>3, PTL DEF Spec

-----------------------------------------------------------------------------
(* What type correctness says of the quantities of the line.               *)
LEMMA LineFacts ==
  ASSUME TypeOK
  PROVE  /\ Len(wire) \in Nat /\ stored \in Nat /\ kfifo_len \in Nat
         /\ shift \in Nat /\ tdr \in Nat /\ ch \in Nat
         /\ Holds(shift) \in {0, 1} /\ Holds(tdr) \in {0, 1}
         /\ tc \in BOOLEAN /\ tcie \in BOOLEAN /\ overlapped \in BOOLEAN
BY TypeFacts, TxAssumption DEF TypeOK, Holds

(***************************************************************************)
(* When every string waits for the last one to leave, each byte that is    *)
(* written to the data register is the next one, and none is replaced.     *)
(***************************************************************************)
LEMMA OrderStep ==
  ASSUME TypeOK, TypeOK', TxInv, StrandInv, OrderInv, [Next]_vars
  PROVE  OrderInv'
<1> SUFFICES ASSUME ~overlapped' PROVE OrderInv'
  BY DEF OrderInv
<1>0. /\ Len(wire) \in Nat /\ stored \in Nat /\ kfifo_len \in Nat
      /\ shift \in Nat /\ tdr \in Nat /\ ch \in Nat
      /\ Held
  BY LineFacts DEF StrandInv
<1>1. ASSUME NEW l \in Lens, SendBegin(l) PROVE OrderInv'
  <2>1. ~overlapped /\ ~Busy
    BY <1>1, LineFacts DEF SendBegin
  <2>2. shift = NoByte /\ ~(tc /\ tcie)
    BY <2>1 DEF Busy
  <2> QED BY <1>1, <2>1, <2>2 DEF SendBegin, fifo, usart, OrderInv, kfifo_len, InHand
<1>2. ASSUME SendWait PROVE OrderInv'
  BY <1>2 DEF SendWait, fifo, locals, usart, history, OrderInv, kfifo_len, InHand
<1>3. ASSUME SendPut PROVE OrderInv'
  <2>1. stored' = stored + kfifo_len' /\ kfifo_len = 0 /\ kfifo_len' \in Nat
    BY <1>3, HeldPut, PutEffect DEF StrandInv
  <2>2. /\ pc = "put" /\ pc' = "check"
        /\ UNCHANGED <<wire, tc, tcie, tdr, shift, overlapped>>
    BY <1>3 DEF SendPut, usart
  <2>3. /\ Len(wire) + Holds(shift) + Holds(tdr) + kfifo_len + InHand = stored
        /\ InHand = 0 /\ InHand' = 0
        /\ UNCHANGED <<Len(wire), Holds(shift), Holds(tdr)>>
    BY <2>2 DEF OrderInv, InHand
  <2>4. (Len(wire) + Holds(shift) + Holds(tdr) + kfifo_len + InHand = stored)'
    BY <1>0, <2>1, <2>3, LineFacts
  <2> QED BY <2>2, <2>4 DEF OrderInv
<1>4. ASSUME SendCheck PROVE OrderInv'
  BY <1>4 DEF SendCheck, fifo, usart, history, OrderInv, kfifo_len, InHand
<1>5. ASSUME SendRead PROVE OrderInv'
  <2>1. /\ pc = "read" /\ pc' = "add"
        /\ UNCHANGED <<in, out, stored, wire, tc, tcie, tdr, shift, overlapped>>
    BY <1>5 DEF SendRead, fifo, usart, history
  <2>2. rout = out /\ shift = NoByte /\ tdr = NoByte
        /\ Len(wire) + Holds(shift) + Holds(tdr) + kfifo_len + InHand = stored
    BY <2>1 DEF OrderInv, StrandInv
  <2>3. in # out
    <3>1. kfifo_len >= 1
      BY <1>0, <2>1 DEF TxInv
    <3> QED BY <1>0, <3>1, TypeFacts DEF kfifo_len, Sub, Counter
  <2>4. ch' = stored - kfifo_len + 1
    BY <1>0, <1>5, <2>2, <2>3, HeldByte DEF SendRead
  <2>5. ch' = Len(wire) + 1
    BY <1>0, <2>1, <2>2, <2>4 DEF Holds, InHand
  <2> QED BY <2>1, <2>5 DEF OrderInv, kfifo_len, InHand
<1>6. ASSUME SendAddLoad PROVE OrderInv'
  BY <1>6 DEF SendAddLoad, fifo, usart, history, OrderInv, kfifo_len, InHand
<1>7. ASSUME SendAddStore PROVE OrderInv'
  <2>1. /\ pc = "store" /\ pc' = "write" /\ out' = Add(rmw, 1)
        /\ UNCHANGED <<in, ch, stored, wire, tc, tcie, tdr, shift, overlapped>>
    BY <1>7 DEF SendAddStore, locals, usart, history
  <2>2. rmw = out /\ kfifo_len >= 1
    BY <2>1 DEF OrderInv, TxInv, kfifo_len
  <2>3. kfifo_len' = kfifo_len - 1
    BY <1>0, <2>1, <2>2, TypeFacts, SubAdvanceRight DEF kfifo_len
  <2>4. (Len(wire) + Holds(shift) + Holds(tdr) + kfifo_len + InHand = stored)'
    <3>1. /\ Len(wire) + Holds(shift) + Holds(tdr) + kfifo_len + InHand = stored
          /\ InHand = 0 /\ InHand' = 1
          /\ UNCHANGED <<Len(wire), Holds(shift), Holds(tdr)>>
      BY <2>1 DEF OrderInv, InHand
    <3> QED BY <1>0, <2>1, <2>3, <3>1, LineFacts
  <2> QED BY <2>1, <2>4 DEF OrderInv
<1>8. ASSUME SendWrite PROVE OrderInv'
  <2>1. /\ pc = "write" /\ pc' = "enable" /\ WriteDR(ch) /\ tc' \in {tc, FALSE}
        /\ UNCHANGED <<in, out, stored, wire, overlapped>>
    BY <1>8 DEF SendWrite, fifo, history
  <2>2. /\ shift = NoByte /\ tdr = NoByte /\ ch = Len(wire) + 1
        /\ Len(wire) + Holds(shift) + Holds(tdr) + kfifo_len + InHand = stored
    BY <2>1 DEF OrderInv, StrandInv
  <2>3. shift' = ch /\ tdr' = NoByte /\ ch # NoByte
    BY <1>0, <2>1, <2>2 DEF WriteDR, NoByte
  <2>4. (Len(wire) + Holds(shift) + Holds(tdr) + kfifo_len + InHand = stored)'
    BY <1>0, <2>1, <2>2, <2>3 DEF Holds, InHand, kfifo_len
  <2> QED BY <2>1, <2>2, <2>3, <2>4 DEF OrderInv
<1>9. ASSUME SendEnable PROVE OrderInv'
  BY <1>9 DEF SendEnable, fifo, locals, history, OrderInv, kfifo_len, InHand
<1>10. ASSUME TxInterrupt PROVE OrderInv'
  <2>1. /\ tc /\ tcie /\ tc' = FALSE
        /\ UNCHANGED <<in, pc, rout, rmw, ch, stored, wire, overlapped>>
    BY <1>10 DEF TxInterrupt, locals, history
  <2>2. pc \in {"idle", "enable"} /\ tdr = NoByte
    BY <2>1 DEF OrderInv
  <2>3. kfifo_len' = IF kfifo_len = 0 THEN 0 ELSE kfifo_len - 1
    BY <1>10, InterruptEffect
  <2>4. Len(wire) + Holds(shift) + kfifo_len = stored
    <3>1. /\ Len(wire) + Holds(shift) + Holds(tdr) + kfifo_len + InHand = stored
          /\ InHand = 0 /\ Holds(tdr) = 0
      BY <2>1, <2>2 DEF OrderInv, Holds, InHand
    <3> QED BY <1>0, <3>1, LineFacts
  <2>5. CASE in = out
    <3>1. UNCHANGED <<out, tdr, shift>>
      BY <1>10, <2>5 DEF TxInterrupt
    <3> QED BY <2>1, <2>2, <3>1 DEF OrderInv, kfifo_len, InHand
  <2>6. CASE in # out
    <3> DEFINE byte == buf[Slot(out)]
    <3>1. WriteDR(byte) /\ byte = stored - kfifo_len + 1 /\ byte # NoByte
      BY <1>0, <1>10, <2>6, HeldByte DEF TxInterrupt
    <3> HIDE DEF byte
    <3>2. byte = Len(wire) + Holds(shift) + 1 /\ kfifo_len' = kfifo_len - 1
      <4>1. kfifo_len # 0
        BY <2>6, TypeFacts, KfifoAssumption DEF kfifo_len, Sub, Counter
      <4> QED BY <1>0, <2>3, <2>4, <3>1, <4>1, LineFacts
    <3>3. CASE shift = NoByte
      <4>1. shift' = Len(wire) + 1 /\ tdr' = NoByte /\ shift' # NoByte
        BY <1>0, <2>2, <3>1, <3>2, <3>3 DEF WriteDR, Holds
      <4>2. (Len(wire) + Holds(shift) + Holds(tdr) + kfifo_len + InHand = stored)'
        BY <1>0, <2>1, <2>2, <2>4, <3>2, <3>3, <4>1 DEF Holds, InHand
      <4> QED BY <2>1, <2>2, <4>1, <4>2 DEF OrderInv
    <3>4. CASE shift # NoByte
      <4>1. shift' = shift /\ tdr' = Len(wire) + 2 /\ tdr' # NoByte
        BY <1>0, <2>2, <3>1, <3>2, <3>4 DEF WriteDR, Holds
      <4>2. (Len(wire) + Holds(shift) + Holds(tdr) + kfifo_len + InHand = stored)'
        BY <1>0, <2>1, <2>2, <2>4, <3>2, <3>4, <4>1 DEF Holds, InHand
      <4> QED BY <2>1, <2>2, <4>1, <4>2 DEF OrderInv
    <3> QED BY <3>3, <3>4
  <2> QED BY <2>5, <2>6
<1>11. ASSUME Shifted PROVE OrderInv'
  <2>1. /\ shift # NoByte /\ shift' = tdr /\ tdr' = NoByte
        /\ tc' = (tc \/ tdr = NoByte) /\ wire' = Append(wire, shift)
        /\ UNCHANGED <<in, out, pc, rout, rmw, ch, tcie, stored, overlapped>>
    BY <1>11 DEF Shifted, fifo, locals
  <2>2. /\ shift = Len(wire) + 1
        /\ tdr # NoByte => tdr = Len(wire) + 2
        /\ pc \in {"idle", "enable"}
        /\ \A i \in 1 .. Len(wire) : wire[i] = i
    BY <2>1 DEF OrderInv
  <2>3. Len(wire') = Len(wire) + 1 /\ \A i \in 1 .. Len(wire') : wire'[i] = i
    <3>1. wire \in Seq(1 .. MaxBytes)
      BY DEF TypeOK
    <3> QED BY <1>0, <2>1, <2>2, <3>1
  <2>4. (Len(wire) + Holds(shift) + Holds(tdr) + kfifo_len + InHand = stored)'
    <3>1. Len(wire) + 1 + Holds(tdr) + kfifo_len = stored
      BY <1>0, <2>1, <2>2, LineFacts DEF OrderInv, Holds, InHand
    <3> QED BY <1>0, <2>1, <2>2, <2>3, <3>1, LineFacts DEF Holds, InHand, kfifo_len
  <2> QED BY <1>0, <2>1, <2>2, <2>3, <2>4 DEF OrderInv
<1>12. CASE UNCHANGED vars
  BY <1>12 DEF vars, fifo, locals, usart, history, OrderInv, kfifo_len, InHand
<1> QED
  BY <1>1, <1>2, <1>3, <1>4, <1>5, <1>6, <1>7, <1>8, <1>9, <1>10, <1>11, <1>12
     DEF Next, Sender

(* The line is empty at first, and so is the FIFO.                         *)
LEMMA OrderInit == Init => OrderInv
<1> SUFFICES ASSUME Init PROVE OrderInv
  OBVIOUS
<1>1. kfifo_len = 0
  BY TxInit, TypeFacts DEF Init, kfifo_len, Sub, Counter
<1> QED BY <1>1 DEF Init, OrderInv, Holds, InHand

(***************************************************************************)
(* When every string is handed over after the last one has left, the line  *)
(* carries each byte once and in order, though sendstring takes one of     *)
(* them and the interrupt the others.                                      *)
(***************************************************************************)
THEOREM BytesInOrder == Spec => []WireInOrder
<1> DEFINE IInv == TypeOK /\ TxInv /\ StrandInv /\ OrderInv
<1>1. Init => IInv
  BY TxInit, StrandInit, OrderInit
<1>2. IInv /\ [Next]_vars => IInv'
  BY TypeStep, TxInvStep, StrandStep, OrderStep
<1>3. IInv => WireInOrder
  <2> SUFFICES ASSUME IInv, ~overlapped PROVE WireInOrder
    BY DEF WireInOrder
  <2>1. pc = "idle" => Len(wire) + Holds(shift) + Holds(tdr) + kfifo_len = stored
    BY LineFacts DEF OrderInv, InHand
  <2> QED BY <2>1 DEF OrderInv, WireInOrder
<1> QED BY <1>1, <1>2, <1>3, PTL DEF Spec

=============================================================================
