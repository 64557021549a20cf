---------------------------- MODULE UsartRxProof ----------------------------
(***************************************************************************)
(* Proofs about the receive path for every FIFO size, telegram length and  *)
(* burst that RxAssumption admits, for a build that loads fifo->in before  *)
(* fifo->out.                                                              *)
(***************************************************************************)
EXTENDS UsartRx, KfifoProof, TLAPS

-----------------------------------------------------------------------------
(***************************************************************************)
(* Type correctness: the counters stay unsigned ints, the buffer holds     *)
(* bytes of the line, and a kfifo call sees at most Burst of them arrive.  *)
(***************************************************************************)
THEOREM TypeCorrect == Spec => []TypeOK
<1>1. Init => TypeOK
  <2> SUFFICES ASSUME Init PROVE TypeOK
    OBVIOUS
  <2>1. 0 \in Counter /\ ld \in {"in", "out"} \X Counter
    BY KfifoAssumption, RxAssumption DEF Init, Counter
  <2>2. buf \in [0 .. Size - 1 -> Nat] /\ pkt \in Seq(Nat)
    BY DEF Init, NoByte
  <2>3. /\ 0 \in 0 .. Burst /\ 0 \in 0 .. MaxRcvd /\ 0 \in Nat
        /\ overflowed \in BOOLEAN
    <3>1. Size \in Nat
      BY KfifoAssumption
    <3>2. RecvLen \in 1 .. Size /\ Burst \in 1 .. RecvLen /\ MaxRcvd \in Nat
      BY RxAssumption
    <3> QED BY <3>1, <3>2 DEF Init
  <2> QED BY <2>1, <2>2, <2>3 DEF Init, TypeOK
<1>2. TypeOK /\ [Next]_vars => TypeOK'
  <2> SUFFICES ASSUME TypeOK, [Next]_vars PROVE TypeOK'
    OBVIOUS
  <2> USE KfifoAssumption, RxAssumption DEF TypeOK
  <2>1. ASSUME RxInterrupt PROVE TypeOK'
    <3>1. /\ in' \in Counter /\ out' \in Counter
          /\ buf' \in [0 .. Size - 1 -> Nat]
          /\ overflowed' \in BOOLEAN
      <4>1. 1 \in 0 .. Mod /\ in \in Nat
        BY DEF Counter
      <4>2. Add(in, 1) \in Counter /\ Add(out, 1) \in Counter
        BY <4>1, AddClosed
      <4>3. Slot(in) \in 0 .. Size - 1 /\ rcvd + 1 \in Nat
        BY <4>1, SlotInRange
      <4> QED BY <2>1, <4>2, <4>3 DEF RxInterrupt, kfifo_putc
    <3>2. burst' \in 0 .. Burst /\ rcvd' \in 0 .. MaxRcvd
      <4>1. pc \in {"idle", "wait", "handup"} \/ InCall
        BY DEF InCall
      <4> QED BY <2>1, <4>1 DEF RxInterrupt
    <3> QED BY <2>1, <3>1, <3>2 DEF RxInterrupt, locals
  <2>2. ASSUME DataSizeBegin \/ GetBegin PROVE TypeOK'
    <3>1. ld' \in {"in", "out"} \X Counter
      BY <2>2 DEF DataSizeBegin, GetBegin, LoadFirst
    <3> QED
      BY <2>2, <3>1 DEF DataSizeBegin, GetBegin, fifo, history
  <2>3. Difference \in Counter
    BY SubClosed DEF Difference
  <2>4. ASSUME DataSizeEnd PROVE TypeOK'
    BY <2>3, <2>4 DEF DataSizeEnd, fifo, history
  <2>5. ASSUME GetGrant PROVE TypeOK'
    <3>1. n' \in Counter
      BY <2>3, <2>5 DEF GetGrant, Least, Counter
    <3>2. rout' \in Counter
      BY <2>5 DEF GetGrant
    <3>3. pkt' \in Seq(Nat)
      BY <2>5 DEF GetGrant
    <3> QED BY <2>5, <3>1, <3>2, <3>3 DEF GetGrant, fifo, history
  <2>6. ASSUME GetAddress PROVE TypeOK'
    BY <2>6 DEF GetAddress, fifo, history
  <2>7. ASSUME GetCopy PROVE TypeOK'
    <3>1. Slot(Add(base, Len(pkt))) \in 0 .. Size - 1
      <4>1. Len(pkt) \in 0 .. Mod /\ Add(base, Len(pkt)) \in Nat
        <5>1. Len(pkt) \in 0 .. Mod
          <6>1. Len(pkt) \in Nat /\ n \in Nat /\ n < Mod
            BY DEF Counter
          <6>2. Len(pkt) < n
            BY <2>7 DEF GetCopy
          <6> QED BY <6>1, <6>2
        <5>2. Add(base, Len(pkt)) \in Counter
          BY <5>1, AddClosed
        <5> QED BY <5>1, <5>2 DEF Counter
      <4> QED BY <4>1, SlotInRange
    <3> QED BY <2>7, <3>1 DEF GetCopy, fifo, locals, history
  <2>8. ASSUME GetAdvanceLoad PROVE TypeOK'
    BY <2>8 DEF GetAdvanceLoad, fifo, history
  <2>9. ASSUME GetAdvanceStore PROVE TypeOK'
    <3>1. out' \in Counter /\ seen' \in Nat
      BY <2>9, AddClosed DEF GetAdvanceStore, Counter
    <3> QED BY <2>9, <3>1 DEF GetAdvanceStore, locals
  <2>10. ASSUME HandUp PROVE TypeOK'
    BY <2>10 DEF HandUp, fifo, locals, history
  <2>11. CASE UNCHANGED vars
    BY <2>11 DEF vars, fifo, locals, history
  <2> QED
    BY <2>1, <2>2, <2>4, <2>5, <2>6, <2>7, <2>8, <2>9, <2>10, <2>11
       DEF Next, Reader
<1> QED BY <1>1, <1>2, PTL DEF Spec

-----------------------------------------------------------------------------
(* What type correctness says of the quantities the invariants compare.    *)
LEMMA TypeFacts ==
  ASSUME TypeOK
  PROVE  /\ in \in Counter /\ out \in Counter /\ rmw \in Counter
         /\ ld[1] \in {"in", "out"} /\ ld[2] \in Counter
         /\ kfifo_len \in Nat /\ kfifo_len < Mod
         /\ Sub(in, rmw) \in Nat /\ Sub(in, rmw) < Mod
         /\ n \in Nat /\ len \in Nat /\ burst \in 0 .. Burst
<1>1. /\ in \in Counter /\ out \in Counter /\ rmw \in Counter
      /\ ld[1] \in {"in", "out"} /\ ld[2] \in Counter
      /\ n \in Counter /\ len \in Counter /\ burst \in 0 .. Burst
  BY DEF TypeOK
<1>2. kfifo_len \in Counter /\ Sub(in, rmw) \in Counter
  BY <1>1, SubClosed DEF kfifo_len
<1> QED BY <1>1, <1>2, KfifoAssumption, RxAssumption DEF Counter

(***************************************************************************)
(* What one received byte does to the distances: the FIFO grows by one     *)
(* until it is full, and every saved value of a counter falls one further  *)
(* behind in.                                                              *)
(***************************************************************************)
LEMMA PutcEffect ==
  ASSUME TypeOK, kfifo_len <= Size, RxInterrupt
  PROVE  /\ kfifo_len' = IF kfifo_len < Size THEN kfifo_len + 1 ELSE Size
         /\ \A x \in Counter : Sub(in, x) + 1 < Mod => Sub(in', x) = Sub(in, x) + 1
         /\ kfifo_len < Size => UNCHANGED <<out, overflowed>>
         /\ kfifo_len = Size => overflowed'
<1>1. in' = Add(in, 1) /\ in \in Counter /\ out \in Counter
  BY TypeFacts DEF RxInterrupt, kfifo_putc
<1>2. kfifo_len \in Nat /\ kfifo_len + 1 < Mod
  BY TypeFacts, KfifoAssumption, RxAssumption
<1>3. Sub(Add(in, 1), out) = kfifo_len + 1
  BY <1>1, <1>2, SubAdvanceLeft DEF kfifo_len
<1>4. \A x \in Counter : Sub(in, x) + 1 < Mod => Sub(in', x) = Sub(in, x) + 1
  BY <1>1, SubAdvanceLeft
<1>5. CASE kfifo_len < Size
  <2>1. UNCHANGED <<out, overflowed>>
    <3>1. ~(Sub(Add(in, 1), out) > Size)
      BY <1>2, <1>3, <1>5, KfifoAssumption, RxAssumption
    <3> QED BY <3>1 DEF RxInterrupt, kfifo_putc
  <2>2. kfifo_len' = kfifo_len + 1
    BY <1>1, <1>3, <2>1 DEF kfifo_len
  <2>3. kfifo_len # Size
    BY <1>2, <1>5, KfifoAssumption, RxAssumption
  <2> QED BY <1>4, <1>5, <2>1, <2>2, <2>3, Zenon
<1>6. CASE kfifo_len = Size
  <2>1. out' = Add(out, 1) /\ overflowed'
    <3>1. Sub(Add(in, 1), out) > Size
      BY <1>2, <1>3, <1>6, KfifoAssumption, RxAssumption
    <3> QED BY <3>1 DEF RxInterrupt, kfifo_putc
  <2>2. kfifo_len' = kfifo_len
    BY <1>1, <2>1, SubAdvanceBoth DEF kfifo_len
  <2>3. ~(kfifo_len < Size)
    BY <1>2, <1>6, KfifoAssumption, RxAssumption
  <2> QED BY <1>4, <1>6, <2>1, <2>2, <2>3, Zenon
<1> QED BY <1>2, <1>5, <1>6, KfifoAssumption, RxAssumption

(***************************************************************************)
(* A build that loads in first computes how much the FIFO held when it did *)
(* so, less what has been dropped since: the length less the burst.        *)
(***************************************************************************)
LEMMA DifferenceValue ==
  ASSUME TypeOK, ld[1] = "in", Sub(in, ld[2]) = burst, burst <= kfifo_len
  PROVE  Difference = kfifo_len - burst
<1>1. ld[2] \in Counter /\ in \in Counter /\ out \in Counter
  BY DEF TypeOK
<1>2. Sub(ld[2], out) = Sub(in, out) - Sub(in, ld[2])
  BY <1>1, SubChain DEF kfifo_len
<1> QED BY <1>2 DEF Difference, kfifo_len

(***************************************************************************)
(* The bounds on the distances between in, out and the reader's saved      *)
(* values hold throughout: kfifo_putc() and kfifo_get() never push the     *)
(* length outside 0..Size however their accesses interleave.               *)
(***************************************************************************)
THEOREM CountInvariant ==
  ASSUME FirstLoads = {"in"}
  PROVE  Spec => []CountInv
<1>1. Init => CountInv
  BY KfifoAssumption, RxAssumption DEF Init, CountInv, kfifo_len, Sub, Granting
<1>2. TypeOK /\ TypeOK' /\ CountInv /\ [Next]_vars => CountInv'
  <2> SUFFICES ASSUME TypeOK, TypeOK', CountInv, [Next]_vars PROVE CountInv'
    OBVIOUS
  <2> USE KfifoAssumption, RxAssumption
  <2>0. /\ kfifo_len \in Nat /\ kfifo_len < Mod
        /\ n \in Nat /\ len \in Nat /\ burst \in 0 .. Burst
        /\ burst' \in 0 .. Burst
    BY TypeFacts DEF TypeOK
  <2>1. ASSUME RxInterrupt PROVE CountInv'
    <3>1. /\ kfifo_len' = IF kfifo_len < Size THEN kfifo_len + 1 ELSE Size
          /\ \A x \in Counter :
               Sub(in, x) + 1 < Mod => Sub(in', x) = Sub(in, x) + 1
      BY <2>1, PutcEffect DEF CountInv
    <3>2. /\ UNCHANGED <<pc, ld, rout, base, rmw, len, n>>
          /\ burst' = IF InCall THEN burst + 1 ELSE burst
      BY <2>1 DEF RxInterrupt, locals
    <3>3. kfifo_len' \in Nat /\ kfifo_len' <= Size /\ kfifo_len <= kfifo_len'
      BY <2>0, <3>1 DEF CountInv
    <3>4. pc \in {"len", "get"} =>
            /\ ld'[1] = "in"
            /\ Sub(in', ld'[2]) = burst'
            /\ burst' <= kfifo_len'
      <4> SUFFICES ASSUME pc \in {"len", "get"}
                   PROVE  /\ ld'[1] = "in"
                          /\ Sub(in', ld'[2]) = burst'
                          /\ burst' <= kfifo_len'
        OBVIOUS
      <4>1. burst' = burst + 1 /\ Sub(in, ld[2]) = burst /\ ld[1] = "in"
        BY <3>2 DEF CountInv, InCall
      <4>2. ld[2] \in Counter /\ burst + 1 < Mod
        BY <2>0, <4>1 DEF TypeOK
      <4>3. Sub(in', ld[2]) = burst + 1
        BY <3>1, <4>1, <4>2
      <4> QED BY <2>0, <3>1, <3>2, <4>1, <4>3 DEF CountInv
    <3>5. pc \in {"wait", "get"} => len' \in RecvLen .. Size /\ len' <= kfifo_len'
      <4>1. pc \in {"wait", "get"} => len \in RecvLen .. Size /\ len <= kfifo_len
        BY DEF CountInv
      <4> QED BY <2>0, <3>2, <3>3, <4>1
    <3>6. pc = "get" => kfifo_len' - burst' >= len' \/ kfifo_len' = Size
      BY <2>0, <3>1, <3>2 DEF CountInv, InCall
    <3>7. Granting => /\ n' <= Size
                      /\ n' <= kfifo_len'
                      /\ n' >= Burst \/ n' + burst' >= Size
      <4>1. Granting => /\ n <= Size
                        /\ n <= kfifo_len
                        /\ n >= Burst \/ n + burst >= Size
                        /\ burst' = burst + 1
        BY <3>2 DEF CountInv, Granting, InCall
      <4> QED BY <2>0, <3>2, <3>3, <4>1
    <3>8. pc = "store" => /\ n' <= Sub(in', rmw')
                          /\ Sub(in', rmw') <= Size + burst'
                          /\ Sub(in', rmw') - n' + Burst - burst' <= Size
      <4> SUFFICES ASSUME pc = "store"
                   PROVE  /\ n' <= Sub(in', rmw')
                          /\ Sub(in', rmw') <= Size + burst'
                          /\ Sub(in', rmw') - n' + Burst - burst' <= Size
        OBVIOUS
      <4>1. /\ burst' = burst + 1
            /\ n <= Sub(in, rmw) /\ Sub(in, rmw) <= Size + burst
            /\ Sub(in, rmw) - n + Burst - burst <= Size
        BY <3>2 DEF CountInv, InCall
      <4>2. rmw \in Counter /\ Sub(in, rmw) \in Nat
        BY TypeFacts
      <4>3. Sub(in', rmw) = Sub(in, rmw) + 1
        BY <2>0, <3>1, <4>1, <4>2
      <4> QED BY <2>0, <3>2, <4>1, <4>2, <4>3
    <3> QED
      BY <3>2, <3>3, <3>4, <3>5, <3>6, <3>7, <3>8 DEF CountInv, Granting
  <2>2. ASSUME DataSizeBegin \/ GetBegin PROVE CountInv'
    <3>1. /\ ld' = <<"in", in>> /\ burst' = 0
          /\ UNCHANGED <<in, out, len, n>>
          /\ pc' \in {"len", "get"}
          /\ pc' = "get" => pc = "wait"
      BY <2>2 DEF DataSizeBegin, GetBegin, LoadFirst, fifo
    <3>2. Sub(in', ld'[2]) = 0
      BY <3>1 DEF TypeOK, Counter, Sub
    <3> QED BY <2>0, <3>1, <3>2 DEF CountInv, Granting, kfifo_len
  <2>3. ASSUME DataSizeEnd PROVE CountInv'
    <3>1. Difference = kfifo_len - burst
      BY <2>3, DifferenceValue DEF DataSizeEnd, CountInv
    <3>2. /\ len' = kfifo_len - burst
          /\ pc' \in {"wait", "idle"}
          /\ pc' = "wait" => len' >= RecvLen
          /\ UNCHANGED <<in, out>>
      BY <2>3, <3>1 DEF DataSizeEnd, fifo
    <3> QED BY <2>0, <3>2 DEF CountInv, Granting, kfifo_len
  <2>4. ASSUME GetGrant PROVE CountInv'
    <3>1. Difference = kfifo_len - burst /\ burst <= kfifo_len
      BY <2>4, DifferenceValue DEF GetGrant, CountInv
    <3>2. /\ n' = Least(len, kfifo_len - burst)
          /\ pc' = "addr"
          /\ UNCHANGED <<in, out, burst>>
      BY <2>4, <3>1 DEF GetGrant, fifo
    <3>3. /\ len \in RecvLen .. Size
          /\ kfifo_len - burst >= len \/ kfifo_len = Size
      BY <2>4 DEF GetGrant, CountInv
    <3> QED
      BY <2>0, <3>1, <3>2, <3>3 DEF CountInv, Granting, kfifo_len, Least
  <2>5. ASSUME GetAddress \/ GetCopy PROVE CountInv'
    <3>1. /\ UNCHANGED <<in, out, n, burst>>
          /\ pc' = "copy" /\ Granting
      BY <2>5 DEF GetAddress, GetCopy, fifo, locals, Granting
    <3> QED BY <3>1 DEF CountInv, Granting, kfifo_len
  <2>6. ASSUME GetAdvanceLoad PROVE CountInv'
    <3>1. /\ UNCHANGED <<in, out, n, burst>>
          /\ pc' = "store" /\ rmw' = out /\ Granting
      BY <2>6 DEF GetAdvanceLoad, fifo, Granting
    <3>2. Sub(in', rmw') = kfifo_len
      BY <3>1 DEF kfifo_len
    <3> QED BY <2>0, <3>1, <3>2 DEF CountInv, Granting, kfifo_len
  <2>7. ASSUME GetAdvanceStore PROVE CountInv'
    <3>1. /\ in' = in /\ out' = Add(rmw, n) /\ pc' = "handup"
          /\ n <= Sub(in, rmw)
          /\ Sub(in, rmw) - n + Burst - burst <= Size
      BY <2>7 DEF GetAdvanceStore, CountInv
    <3>2. kfifo_len' = Sub(in, rmw) - n
      BY <2>0, <3>1, TypeFacts, SubAdvanceRight DEF kfifo_len
    <3>3. Sub(in, rmw) \in Int
      BY TypeFacts
    <3> QED BY <2>0, <3>1, <3>2, <3>3 DEF CountInv, Granting
  <2>8. ASSUME HandUp \/ UNCHANGED vars PROVE CountInv'
    <3>1. CASE HandUp
      BY <3>1 DEF HandUp, CountInv, Granting, kfifo_len, fifo, locals
    <3>2. CASE UNCHANGED vars
      BY <3>2 DEF vars, CountInv, Granting, kfifo_len, fifo, locals
    <3> QED BY <2>8, <3>1, <3>2
  <2> QED
    BY <2>1, <2>2, <2>3, <2>4, <2>5, <2>6, <2>7, <2>8 DEF Next, Reader
<1> QED BY <1>1, <1>2, TypeCorrect, PTL DEF Spec

(***************************************************************************)
(* The FIFO holds at most Size bytes and the reader is granted at most     *)
(* what it holds, in every interleaving of kfifo_putc() with kfifo_len()   *)
(* and kfifo_get(), provided the line delivers no more than one telegram   *)
(* during a call and the build loads in first.                             *)
(***************************************************************************)
THEOREM FifoNeverWedged ==
  ASSUME FirstLoads = {"in"}
  PROVE  Spec => []FifoBounds
<1>1. CountInv => FifoBounds
  BY DEF CountInv, FifoBounds, Granting
<1> QED BY <1>1, CountInvariant, PTL

-----------------------------------------------------------------------------
(***************************************************************************)
(* Until kfifo_putc() drops a byte, the slots from out to in hold the next *)
(* bytes of the line, and what kfifo_get() has copied is what came before. *)
(***************************************************************************)
THEOREM DataInvariant ==
  ASSUME FirstLoads = {"in"}
  PROVE  Spec => []DataInv
<1>1. Init => DataInv
  BY KfifoAssumption, RxAssumption DEF Init, DataInv, kfifo_len, Sub, Granting
<1>2. TypeOK /\ CountInv /\ DataInv /\ [Next]_vars => DataInv'
  <2> SUFFICES ASSUME TypeOK, CountInv, DataInv, [Next]_vars, ~overflowed'
               PROVE  DataInv'
    BY DEF DataInv
  <2> DEFINE Window(b, o, s, d) ==
               \A i \in 0 .. d - 1 : b[Slot(Add(o, i))] = s + i + 1
             InPlace(s) == \A i \in 1 .. Len(pkt) : pkt[i] = s + i
  <2>0. /\ kfifo_len \in Nat /\ kfifo_len <= Size
        /\ in \in Counter /\ out \in Counter
        /\ n \in Nat /\ rcvd \in Nat /\ seen \in Nat
        /\ Len(pkt) \in Nat /\ pkt \in Seq(Nat)
        /\ buf \in [0 .. Size - 1 -> Nat]
    BY TypeFacts, KfifoAssumption, RxAssumption DEF TypeOK, CountInv
  <2>1. ASSUME RxInterrupt PROVE DataInv'
    <3>1. /\ kfifo_len < Size /\ kfifo_len' = kfifo_len + 1
          /\ out' = out /\ ~overflowed
      <4>1. kfifo_len # Size
        BY <2>0, <2>1, PutcEffect
      <4>2. kfifo_len < Size
        BY <2>0, <4>1, KfifoAssumption, RxAssumption
      <4>3. UNCHANGED <<out, overflowed>>
        BY <2>0, <2>1, <4>2, PutcEffect
      <4>4. kfifo_len' = kfifo_len + 1
        BY <2>0, <2>1, <4>2, PutcEffect
      <4> QED BY <4>2, <4>3, <4>4
    <3>2. /\ buf' = [buf EXCEPT ![Slot(in)] = rcvd + 1]
          /\ rcvd' = rcvd + 1
          /\ UNCHANGED <<pc, rout, base, rmw, n, pkt, seen>>
      BY <2>1 DEF RxInterrupt, kfifo_putc, locals
    <3>3. in = Add(out, kfifo_len) /\ Slot(in) \in 0 .. Size - 1
      BY <2>0, AddSub, SlotInRange DEF kfifo_len, Counter
    <3>4. seen + kfifo_len = rcvd /\ Window(buf, out, seen, kfifo_len)
      BY <3>1 DEF DataInv
    <3>5. Window(buf', out, seen, kfifo_len + 1)
      <4> SUFFICES ASSUME NEW i \in 0 .. kfifo_len
                   PROVE  buf'[Slot(Add(out, i))] = seen + i + 1
        BY <2>0
      <4>1. CASE i = kfifo_len
        BY <2>0, <3>2, <3>3, <3>4, <4>1
      <4>2. CASE i < kfifo_len
        <5>1. Slot(Add(out, i)) # Slot(in)
          BY <2>0, <3>1, <3>3, <4>2, SlotInjective
        <5>2. buf[Slot(Add(out, i))] = seen + i + 1
          BY <2>0, <3>4, <4>2
        <5>3. Slot(Add(out, i)) \in 0 .. Size - 1
          <6>1. Add(out, i) \in Nat
            <7>1. i \in 0 .. Mod
              BY <2>0, <4>2, KfifoAssumption, RxAssumption
            <7>2. Add(out, i) \in Counter
              BY <2>0, <7>1, AddClosed
            <7> QED BY <7>2, KfifoAssumption, RxAssumption DEF Counter
          <6> QED BY <6>1, SlotInRange
        <5> QED BY <2>0, <3>2, <5>1, <5>2, <5>3
      <4> QED BY <2>0, <4>1, <4>2
    <3>6. seen' + kfifo_len' = rcvd'
      BY <2>0, <3>1, <3>2, <3>4
    <3> QED BY <3>1, <3>2, <3>5, <3>6 DEF DataInv, Granting
  <2>2. ASSUME DataSizeBegin \/ DataSizeEnd \/ GetBegin \/ HandUp
        PROVE  DataInv'
    <3>1. /\ UNCHANGED <<in, out, buf, rcvd, seen, overflowed>>
          /\ pc' \in {"len", "idle", "wait", "get"}
      BY <2>2 DEF DataSizeBegin, DataSizeEnd, GetBegin, HandUp, fifo, history
    <3> QED BY <3>1 DEF DataInv, Granting, kfifo_len
  <2>3. ASSUME GetGrant PROVE DataInv'
    <3>1. ld[1] = "in"
      BY <2>3 DEF GetGrant, CountInv
    <3>2. /\ UNCHANGED <<in, out, buf, rcvd, seen, overflowed>>
          /\ pc' = "addr" /\ rout' = out /\ pkt' = <<>>
      BY <2>3, <3>1 DEF GetGrant, fifo, history
    <3> QED BY <3>2 DEF DataInv, Granting, kfifo_len
  <2>4. ASSUME GetAddress PROVE DataInv'
    <3>1. /\ UNCHANGED <<in, out, buf, rcvd, seen, overflowed, rout, pkt, n>>
          /\ pc = "addr" /\ pc' = "copy" /\ base' \in {rout, out}
      BY <2>4 DEF GetAddress, fifo, history
    <3>2. base' = out /\ pkt = <<>> /\ rout = out
      BY <3>1 DEF DataInv, Granting
    <3>3. Len(pkt) <= n
      BY <2>0, <3>2
    <3> QED BY <3>1, <3>2, <3>3 DEF DataInv, Granting, kfifo_len
  <2>5. ASSUME GetCopy PROVE DataInv'
    <3>1. /\ UNCHANGED <<in, out, buf, rcvd, seen, overflowed, rout, base, n>>
          /\ pc = "copy" /\ pc' = "copy" /\ Len(pkt) < n
          /\ pkt' = Append(pkt, buf[Slot(Add(base, Len(pkt)))])
      BY <2>5 DEF GetCopy, fifo, locals, history
    <3>2. base = out /\ InPlace(seen) /\ n <= kfifo_len /\ rout = out
      BY <3>1 DEF DataInv, CountInv, Granting
    <3>3. buf[Slot(Add(base, Len(pkt)))] = seen + Len(pkt) + 1
      <4>1. Len(pkt) \in 0 .. kfifo_len - 1
        BY <2>0, <3>1, <3>2
      <4> QED BY <3>1, <3>2, <4>1 DEF DataInv
    <3>4. Len(pkt') = Len(pkt) + 1 /\ Len(pkt') <= n
      BY <2>0, <3>1
    <3>5. \A i \in 1 .. Len(pkt') : pkt'[i] = seen + i
      <4> DEFINE byte == buf[Slot(Add(base, Len(pkt)))]
      <4>1. byte \in Nat /\ byte = seen + Len(pkt) + 1
        BY <2>0, <3>3
      <4>2. pkt' = Append(pkt, byte)
        BY <3>1
      <4> HIDE DEF byte
      <4> SUFFICES ASSUME NEW i \in 1 .. Len(pkt) + 1 PROVE pkt'[i] = seen + i
        BY <3>4
      <4>3. CASE i = Len(pkt) + 1
        BY <2>0, <4>1, <4>2, <4>3
      <4>4. CASE i \in 1 .. Len(pkt)
        BY <2>0, <3>2, <4>1, <4>2, <4>4
      <4> QED BY <2>0, <4>3, <4>4
    <3> QED BY <3>1, <3>2, <3>4, <3>5 DEF DataInv, Granting, kfifo_len
  <2>6. ASSUME GetAdvanceLoad PROVE DataInv'
    <3>1. /\ UNCHANGED <<in, out, buf, rcvd, seen, overflowed, rout, base, n, pkt>>
          /\ pc = "copy" /\ pc' = "store" /\ rmw' = out /\ Len(pkt) = n
      BY <2>6 DEF GetAdvanceLoad, fifo, history
    <3> QED BY <2>0, <3>1 DEF DataInv, Granting, kfifo_len
  <2>7. ASSUME GetAdvanceStore PROVE DataInv'
    <3>1. /\ UNCHANGED <<in, buf, rcvd, overflowed, pkt>>
          /\ pc = "store" /\ pc' = "handup"
          /\ out' = Add(rmw, n) /\ seen' = seen + n
      BY <2>7 DEF GetAdvanceStore
    <3>2. /\ rmw = out /\ Len(pkt) = n /\ InPlace(seen)
          /\ seen + kfifo_len = rcvd /\ Window(buf, out, seen, kfifo_len)
          /\ n <= kfifo_len
      BY <3>1 DEF DataInv, CountInv, Granting
    <3>3. kfifo_len' = kfifo_len - n
      BY <2>0, <3>1, <3>2, SubAdvanceRight DEF kfifo_len
    <3>4. Window(buf, out', seen', kfifo_len - n)
      <4> SUFFICES ASSUME NEW i \in 0 .. kfifo_len - n - 1
                   PROVE  buf[Slot(Add(out', i))] = seen' + i + 1
        OBVIOUS
      <4>1. Add(out', i) = Add(out, n + i)
        BY <2>0, <3>1, <3>2, AddAdd, KfifoAssumption, RxAssumption
      <4>2. n + i \in 0 .. kfifo_len - 1
        BY <2>0
      <4>3. buf[Slot(Add(out, n + i))] = seen + (n + i) + 1
        BY <3>2, <4>2
      <4> QED BY <2>0, <3>1, <4>1, <4>3
    <3>5. \A i \in 1 .. Len(pkt) : pkt[i] = seen' - Len(pkt) + i
      BY <2>0, <3>1, <3>2
    <3>6. seen' + kfifo_len' = rcvd
      BY <2>0, <3>1, <3>2, <3>3
    <3> QED BY <3>1, <3>3, <3>4, <3>5, <3>6 DEF DataInv, Granting
  <2>8. CASE UNCHANGED vars
    BY <2>8 DEF vars, fifo, locals, history, DataInv, Granting, kfifo_len
  <2> QED
    BY <2>1, <2>2, <2>3, <2>4, <2>5, <2>6, <2>7, <2>8 DEF Next, Reader
<1> QED BY <1>1, <1>2, TypeCorrect, CountInvariant, PTL DEF Spec

(***************************************************************************)
(* Until the FIFO overflows, the packets handed up, put end to end, are    *)
(* exactly the bytes of the line, across the wrap-around of the counters   *)
(* and whatever the interrupt does in the middle of kfifo_get().           *)
(***************************************************************************)
THEOREM StreamDelivered ==
  ASSUME FirstLoads = {"in"}
  PROVE  Spec => []StreamIntact
<1>1. DataInv => StreamIntact
  BY DEF DataInv, StreamIntact
<1> QED BY <1>1, DataInvariant, PTL

=============================================================================
