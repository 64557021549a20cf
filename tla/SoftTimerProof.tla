---------------------------- MODULE SoftTimerProof ----------------------------
(***************************************************************************)
(* Proofs about the software timers for every table size, tick period and  *)
(* set of timeouts.  Nothing is assumed of the kind of the timers: the     *)
(* theorems hold of one-time timers too.                                   *)
(***************************************************************************)
EXTENDS SoftTimer, TLAPS

Timer == [used : BOOLEAN, flag : {ONE_TIME, LOOP}, fn : Procs \cup {NoProc},
          reload_timeout_us : 0 .. Horizon, timeout_us : Int]

-----------------------------------------------------------------------------
(* do_timer() leaves a timer a timer, touches only what is left of its     *)
(* timeout, and takes one period from that if the timer was running.       *)
LEMMA CountDownEffect ==
  ASSUME NEW timer \in Timer
  PROVE  /\ CountDown(timer) \in Timer
         /\ CountDown(timer).used = timer.used
         /\ CountDown(timer).reload_timeout_us = timer.reload_timeout_us
         /\ CountDown(timer).timeout_us =
              IF timer.used /\ timer.timeout_us > 0
                THEN timer.timeout_us - Period ELSE timer.timeout_us
BY TimerAssumption DEF CountDown, Timer

(* A wiped timer, as timer_var_init() leaves it, is a timer not in use.    *)
LEMMA TimerVarInitFact == TimerVarInit \in Timer /\ ~TimerVarInit.used
BY TimerAssumption DEF TimerVarInit, Timer, ONE_TIME, LOOP

(* The time counted for a timer grows by a period until it is no longer    *)
(* followed.                                                               *)
LEMMA ElapseFact ==
  ASSUME NEW e \in 0 .. Horizon
  PROVE  /\ Elapse(e) \in 0 .. Horizon
         /\ Elapse(e) = e + Period \/ Elapse(e) = Horizon
         /\ Elapse(e) >= e
BY TimerAssumption DEF Elapse

-----------------------------------------------------------------------------
(***************************************************************************)
(* Type correctness; in particular the scan of timer_srv() never touches   *)
(* an entry outside the table.                                             *)
(***************************************************************************)
THEOREM TypeCorrect == Spec => []TypeOK
<1>1. Init => TypeOK
  <2> SUFFICES ASSUME Init PROVE TypeOK
    OBVIOUS
  <2>1. timer_list \in [Slots -> Timer]
    BY TimerVarInitFact DEF Init
  <2>2. /\ elapsed \in [Slots -> 0 .. Horizon]
        /\ timer_num \in 0 .. NumSlots /\ j \in 0 .. NumSlots
    BY TimerAssumption DEF Init
  <2> QED BY <2>1, <2>2 DEF Init, TypeOK, Timer
<1>2. TypeOK /\ [Next]_vars => TypeOK'
  <2> SUFFICES ASSUME TypeOK, [Next]_vars PROVE TypeOK'
    OBVIOUS
  <2> USE TimerAssumption
  <2>0. /\ timer_list \in [Slots -> Timer]
        /\ timer_num \in 0 .. NumSlots /\ j \in 0 .. NumSlots
        /\ elapsed \in [Slots -> 0 .. Horizon]
    BY DEF TypeOK, Timer
  <2>1. ASSUME NEW t \in Timeouts, NEW p \in Procs, NEW f \in Flags,
               create_timer(t, p, f)
        PROVE  TypeOK'
    <3> DEFINE timer == [used |-> TRUE, flag |-> f, fn |-> p,
                         reload_timeout_us |-> t, timeout_us |-> t]
    <3>1. timer \in Timer /\ 0 \in 0 .. Horizon
      BY DEF Timer
    <3>2. /\ timer_list' = [timer_list EXCEPT ![FirstFree] = timer]
          /\ elapsed' = [elapsed EXCEPT ![FirstFree] = 0]
          /\ timer_num < NumSlots /\ timer_num' = timer_num + 1
          /\ UNCHANGED <<irq_flag, pc, j>>
      BY <2>1 DEF create_timer
    <3> HIDE DEF timer
    <3>3. timer_list' \in [Slots -> Timer]
      BY <2>0, <3>1, <3>2
    <3>4. elapsed' \in [Slots -> 0 .. Horizon]
      BY <2>0, <3>1, <3>2
    <3>5. timer_num' \in 0 .. NumSlots
      BY <2>0, <3>2
    <3> QED BY <3>2, <3>3, <3>4, <3>5 DEF TypeOK, Timer
  <2>2. ASSUME StartJob PROVE TypeOK'
    BY <2>2 DEF StartJob, TypeOK
  <2>3. ASSUME do_timer PROVE TypeOK'
    <3>1. timer_list' \in [Slots -> Timer]
      BY <2>0, <2>3, CountDownEffect DEF do_timer
    <3>2. elapsed' \in [Slots -> 0 .. Horizon]
      BY <2>0, <2>3, ElapseFact DEF do_timer
    <3> QED BY <2>3, <3>1, <3>2 DEF do_timer, TypeOK, Timer
  <2>4. ASSUME SrvTest PROVE TypeOK'
    BY <2>4 DEF SrvTest, TypeOK
  <2>5. ASSUME ScanSkip \/ ScanDue \/ ScanEnd \/ SrvClear PROVE TypeOK'
    <3>1. /\ UNCHANGED <<timer_list, timer_num, elapsed>>
          /\ irq_flag' \in BOOLEAN
          /\ pc' \in {"boot", "loop", "scan", "due", "call", "clear"}
      BY <2>5 DEF ScanSkip, ScanDue, ScanEnd, SrvClear, TypeOK
    <3>2. j' \in 0 .. NumSlots /\ (pc' \in {"due", "call"} => j' < NumSlots)
      BY <2>0, <2>5 DEF ScanSkip, ScanDue, ScanEnd, SrvClear
    <3> QED BY <2>0, <3>1, <3>2 DEF TypeOK, Timer
  <2>6. ASSUME Reload PROVE TypeOK'
    <3>1. j \in Slots
      BY <2>0, <2>6 DEF Reload, TypeOK, Slots
    <3>2. timer_list[j] \in Timer
      BY <2>0, <3>1
    <3>3. [timer_list[j] EXCEPT !.timeout_us = timer_list[j].reload_timeout_us]
            \in Timer
      BY <3>2 DEF Timer
    <3>4. timer_list' \in [Slots -> Timer]
      BY <2>0, <2>6, <3>3, TimerVarInitFact DEF Reload
    <3>5. elapsed' \in [Slots -> 0 .. Horizon]
      <4>1. elapsed' = [elapsed EXCEPT ![j] = 0]
        BY <2>6 DEF Reload
      <4>2. 0 \in 0 .. Horizon
        OBVIOUS
      <4> QED BY <2>0, <4>1, <4>2, Zenon
    <3> QED BY <2>6, <3>4, <3>5 DEF Reload, TypeOK, Timer
  <2>7. ASSUME CallBack PROVE TypeOK'
    <3>1. j + 1 \in 0 .. NumSlots
      BY <2>0, <2>7 DEF CallBack, TypeOK
    <3> QED BY <2>7, <3>1 DEF CallBack, TypeOK
  <2>8. CASE UNCHANGED vars
    BY <2>8 DEF vars, TypeOK
  <2> QED
    BY <2>1, <2>2, <2>3, <2>4, <2>5, <2>6, <2>7, <2>8 DEF Next, timer_srv
<1> QED BY <1>1, <1>2, PTL DEF Spec

-----------------------------------------------------------------------------
(***************************************************************************)
(* What is left of a timeout and what has elapsed of it add up to the      *)
(* whole, and the slot the scan is about to load again has expired.        *)
(***************************************************************************)
THEOREM TimerInvariant == Spec => []TimerInv
<1>1. Init => TimerInv
  BY TimerVarInitFact DEF Init, TimerInv, TimeAccounted, DueExpired
<1>2. TypeOK /\ TimerInv /\ [Next]_vars => TimerInv'
  <2> SUFFICES ASSUME TypeOK, TimerInv, [Next]_vars PROVE TimerInv'
    OBVIOUS
  <2> USE TimerAssumption
  <2> DEFINE Accounted(timer, e) ==
               timer.used =>
                 \/ e >= timer.reload_timeout_us
                 \/ /\ timer.timeout_us > 0
                    /\ timer.timeout_us + e >= timer.reload_timeout_us
  <2>0. /\ timer_list \in [Slots -> Timer]
        /\ elapsed \in [Slots -> 0 .. Horizon]
        /\ \A i \in Slots : Accounted(timer_list[i], elapsed[i])
    BY DEF TypeOK, Timer, TimerInv, TimeAccounted
  <2>1. ASSUME NEW t \in Timeouts, NEW p \in Procs, NEW f \in Flags,
               create_timer(t, p, f)
        PROVE  TimerInv'
    <3> DEFINE timer == [used |-> TRUE, flag |-> f, fn |-> p,
                         reload_timeout_us |-> t, timeout_us |-> t]
    <3>1. /\ timer_list' = [timer_list EXCEPT ![FirstFree] = timer]
          /\ elapsed' = [elapsed EXCEPT ![FirstFree] = 0]
          /\ pc' = "boot"
      BY <2>1 DEF create_timer
    <3>2. Accounted(timer, 0)
      OBVIOUS
    <3> HIDE DEF timer, Accounted
    <3>3. \A i \in Slots : Accounted(timer_list'[i], elapsed'[i])
      BY <2>0, <3>1, <3>2
    <3> QED BY <3>1, <3>3 DEF TimerInv, TimeAccounted, DueExpired, Accounted
  <2>2. ASSUME do_timer PROVE TimerInv'
    <3>1. \A i \in Slots : /\ timer_list'[i] = CountDown(timer_list[i])
                           /\ elapsed'[i] = Elapse(elapsed[i])
      BY <2>2 DEF do_timer
    <3>2. ASSUME NEW i \in Slots
          PROVE  Accounted(timer_list'[i], elapsed'[i])
      <4> DEFINE timer == timer_list[i]
                 down  == CountDown(timer_list[i])
                 e     == elapsed[i]
                 e1    == Elapse(elapsed[i])
      <4>1. /\ timer \in Timer /\ e \in 0 .. Horizon
            /\ Accounted(timer, e)
        BY <2>0
      <4>2. /\ down.used = timer.used
            /\ down.reload_timeout_us = timer.reload_timeout_us
            /\ down.timeout_us = IF timer.used /\ timer.timeout_us > 0
                                   THEN timer.timeout_us - Period
                                   ELSE timer.timeout_us
        BY <4>1, CountDownEffect
      <4>3. /\ e1 \in 0 .. Horizon
            /\ e1 = e + Period \/ e1 = Horizon
            /\ e1 >= e
        BY <4>1, ElapseFact
      <4>4. /\ timer.timeout_us \in Int
            /\ timer.reload_timeout_us \in 0 .. Horizon
        BY <4>1 DEF Timer
      <4> HIDE DEF timer, down, e, e1
      <4>5. Accounted(down, e1)
        <5> SUFFICES ASSUME timer.used,
                            ~(e1 >= timer.reload_timeout_us)
                     PROVE  /\ down.timeout_us > 0
                            /\ down.timeout_us + e1 >= timer.reload_timeout_us
          BY <4>2
        <5>1. e1 = e + Period /\ ~(e >= timer.reload_timeout_us)
          BY <4>1, <4>3, <4>4
        <5>2. /\ timer.timeout_us > 0
              /\ timer.timeout_us + e >= timer.reload_timeout_us
          BY <4>1, <5>1
        <5>3. down.timeout_us = timer.timeout_us - Period
          BY <4>2, <5>2
        <5> QED BY <4>1, <4>4, <5>1, <5>2, <5>3
      <4> QED BY <3>1, <4>5 DEF down, e1
    <3>3. DueExpired'
      <4> SUFFICES ASSUME pc' = "due" PROVE Expired(j)'
        BY DEF DueExpired
      <4>1. pc = "due" /\ j' = j
        BY <2>2 DEF do_timer
      <4>2. j \in Slots /\ Expired(j)
        BY <4>1 DEF TimerInv, DueExpired, TypeOK, Slots
      <4>3. timer_list[j] \in Timer /\ timer_list'[j] = CountDown(timer_list[j])
        BY <2>0, <3>1, <4>2
      <4>4. CountDown(timer_list[j]) = timer_list[j]
        BY <4>2, <4>3 DEF CountDown, Expired, Timer
      <4> QED BY <4>1, <4>2, <4>3, <4>4 DEF Expired
    <3> QED BY <3>2, <3>3 DEF TimerInv, TimeAccounted
  <2>3. ASSUME Reload PROVE TimerInv'
    <3>1. j \in Slots
      BY <2>3 DEF Reload, TypeOK, Slots
    <3> DEFINE loaded == [timer_list[j] EXCEPT
                            !.timeout_us = timer_list[j].reload_timeout_us]
    <3>2. timer_list[j] \in Timer
      BY <2>0, <3>1
    <3>3. Accounted(loaded, 0)
      BY <3>2 DEF Timer
    <3>4. Accounted(TimerVarInit, 0)
      BY TimerVarInitFact
    <3>5. /\ \/ timer_list' = [timer_list EXCEPT ![j] = TimerVarInit]
             \/ timer_list' = [timer_list EXCEPT ![j] = loaded]
          /\ elapsed' = [elapsed EXCEPT ![j] = 0]
          /\ pc' = "call"
      BY <2>3 DEF Reload
    <3> HIDE DEF loaded, Accounted
    <3>6. \A i \in Slots : Accounted(timer_list'[i], elapsed'[i])
      BY <2>0, <3>1, <3>3, <3>4, <3>5
    <3> QED BY <3>5, <3>6 DEF TimerInv, TimeAccounted, DueExpired, Accounted
  <2>4. ASSUME ScanDue PROVE TimerInv'
    BY <2>4 DEF ScanDue, TimerInv, TimeAccounted, DueExpired, Expired
  <2>5. ASSUME \/ StartJob \/ SrvTest \/ ScanSkip \/ CallBack \/ ScanEnd
               \/ SrvClear
        PROVE  TimerInv'
    <3>1. UNCHANGED <<timer_list, elapsed>> /\ pc' # "due"
      BY <2>5 DEF StartJob, SrvTest, ScanSkip, CallBack, ScanEnd, SrvClear
    <3> QED BY <3>1 DEF TimerInv, TimeAccounted, DueExpired
  <2>6. CASE UNCHANGED vars
    BY <2>6 DEF vars, TimerInv, TimeAccounted, DueExpired, Expired
  <2> QED
    BY <2>1, <2>2, <2>3, <2>4, <2>5, <2>6 DEF Next, timer_srv
<1> QED BY <1>1, <1>2, TypeCorrect, PTL DEF Spec

(***************************************************************************)
(* No timer is called before its timeout has been counted by the interrupt *)
(* since it was last loaded, wherever in the scan the interrupt strikes.   *)
(***************************************************************************)
THEOREM TimersNeverEarly == Spec => []NeverEarly
<1>1. TypeOK /\ TimerInv => NeverEarly
  <2> SUFFICES ASSUME TypeOK, TimerInv, pc = "due"
               PROVE  elapsed[j] >= timer_list[j].reload_timeout_us
    BY DEF NeverEarly
  <2>1. j \in Slots /\ timer_list[j].used /\ timer_list[j].timeout_us <= 0
    BY TimerAssumption DEF TypeOK, Slots, TimerInv, DueExpired, Expired
  <2>2. /\ timer_list[j].timeout_us \in Int
    BY <2>1 DEF TypeOK
  <2> QED BY <2>1, <2>2 DEF TimerInv, TimeAccounted
<1> QED BY <1>1, TypeCorrect, TimerInvariant, PTL

=============================================================================
