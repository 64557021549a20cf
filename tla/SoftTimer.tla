------------------------------ MODULE SoftTimer ------------------------------
(***************************************************************************)
(* The software timers of Bsp/Src/timer.c on the one hardware timer of     *)
(* tim2_init.c.  The interrupt TIM2_IRQHandler() counts every running      *)
(* timer down (do_timer) and raises irq_flag; the super-loop of StartJob() *)
(* calls timer_srv(), which, when it sees irq_flag, scans the table, loads *)
(* expired timers again and calls their functions.  IRQ_LOCK and           *)
(* IRQ_UNLOCK are empty macros: the interrupt may strike between any two   *)
(* steps of the scan.  Timers are created by the initcalls, before         *)
(* start_sys_timer() enables the interrupt.                                *)
(*                                                                         *)
(* A definition whose name ends in _Something is a broken variant of the   *)
(* one it precedes: it shows that a property notices the difference.       *)
(***************************************************************************)
EXTENDS Integers

CONSTANTS
  NumSlots,   \* MAX_TIMER_NUM
  Period,     \* cfg.period_us, TIM2_PERIOD_US
  Timeouts,   \* the timeouts create_timer() is called with
  Flags,      \* the flags it is called with: ONE_TIME, LOOP
  Procs,      \* the functions it is called with
  NoProc,     \* NULL
  Horizon     \* bound: elapsed time is not followed beyond this

ONE_TIME == 0
LOOP     == 1

ASSUME TimerAssumption ==
  /\ NumSlots \in Nat \ {0}
  /\ Period \in Nat \ {0}
  /\ Timeouts \subseteq Nat
  /\ Flags \subseteq {ONE_TIME, LOOP}
  /\ NoProc \notin Procs
  /\ Horizon \in Nat
  /\ \A t \in Timeouts : t <= Horizon

VARIABLES
  timer_list, \* cfg.timer_list
  timer_num,  \* cfg.timer_num
  irq_flag,   \* TimerDevice.irq_flag
  pc,         \* where the super-loop is
  j,          \* the loop variable of timer_srv()
  elapsed     \* history: time counted since a slot's timeout was last loaded

vars == <<timer_list, timer_num, irq_flag, pc, j, elapsed>>

Slots == 0 .. NumSlots - 1

(* timer_var_init()                                                        *)
TimerVarInit ==
  [used |-> FALSE, flag |-> ONE_TIME, fn |-> NoProc,
   reload_timeout_us |-> 0, timeout_us |-> 0]

Expired(i) == timer_list[i].used /\ timer_list[i].timeout_us <= 0

-----------------------------------------------------------------------------
Init ==
  /\ timer_list = [i \in Slots |-> TimerVarInit]
  /\ timer_num = 0
  /\ irq_flag = FALSE
  /\ pc = "boot"
  /\ j = 0
  /\ elapsed = [i \in Slots |-> 0]

(* get_free_timer_id() returns the first slot not in use.                  *)
FreeSlots   == {i \in Slots : ~timer_list[i].used}
FirstFree   == CHOOSE i \in FreeSlots : \A k \in FreeSlots : i <= k

(***************************************************************************)
(* create_timer(), called by an initcall.  When the table is full it       *)
(* changes nothing.                                                        *)
(***************************************************************************)
create_timer(timeout_us, fn, flag) ==
  /\ pc = "boot"
  /\ timer_num < NumSlots
  /\ FreeSlots # {}
  /\ timer_list' = [timer_list EXCEPT ![FirstFree] =
       [used |-> TRUE, flag |-> flag, fn |-> fn,
        reload_timeout_us |-> timeout_us, timeout_us |-> timeout_us]]
  /\ timer_num' = timer_num + 1
  /\ elapsed' = [elapsed EXCEPT ![FirstFree] = 0]
  /\ UNCHANGED <<irq_flag, pc, j>>

(* StartJob(): start_sys_timer() enables the update interrupt.             *)
StartJob ==
  /\ pc = "boot"
  /\ pc' = "loop"
  /\ UNCHANGED <<timer_list, timer_num, irq_flag, j, elapsed>>

-----------------------------------------------------------------------------
CountDown(timer) ==
  IF timer.used /\ timer.timeout_us > 0
    THEN [timer EXCEPT !.timeout_us = @ - Period]
    ELSE timer

Elapse(e) == IF e + Period < Horizon THEN e + Period ELSE Horizon

(* do_timer(), the whole body of TIM2_IRQHandler().                        *)
do_timer_NoFlag ==
  /\ pc # "boot"
  /\ timer_list' = [i \in Slots |-> CountDown(timer_list[i])]
  /\ elapsed' = [i \in Slots |-> Elapse(elapsed[i])]
  /\ UNCHANGED <<timer_num, irq_flag, pc, j>>

do_timer ==
  /\ pc # "boot"
  /\ timer_list' = [i \in Slots |-> CountDown(timer_list[i])]
  /\ irq_flag' = TRUE
  /\ elapsed' = [i \in Slots |-> Elapse(elapsed[i])]
  /\ UNCHANGED <<timer_num, pc, j>>

-----------------------------------------------------------------------------
(* timer_srv(), entered from the super-loop: test irq_flag.                *)
SrvTest ==
  /\ pc = "loop"
  /\ pc' = IF irq_flag /\ timer_num > 0 THEN "scan" ELSE "clear"
  /\ j' = 0
  /\ UNCHANGED <<timer_list, timer_num, irq_flag, elapsed>>

(* Slot j of the scan is not due: on to the next one.                      *)
ScanSkip ==
  /\ pc = "scan" /\ j < NumSlots
  /\ ~Expired(j) \/ timer_list[j].fn = NoProc
  /\ j' = j + 1
  /\ UNCHANGED <<timer_list, timer_num, irq_flag, pc, elapsed>>

ScanDue ==
  /\ pc = "scan" /\ j < NumSlots
  /\ Expired(j) /\ timer_list[j].fn # NoProc
  /\ pc' = "due"
  /\ UNCHANGED <<timer_list, timer_num, irq_flag, j, elapsed>>

(***************************************************************************)
(* The interrupt may have struck since the test: a one-time timer is wiped *)
(* with timer_var_init(), a periodic one is loaded again.                  *)
(***************************************************************************)
Reload_First ==
  LET timer == timer_list[j] IN
  /\ pc = "due"
  /\ timer_list' = [timer_list EXCEPT ![j] =
       IF timer.flag = ONE_TIME
         THEN TimerVarInit
         ELSE [timer EXCEPT !.timeout_us = timer.reload_timeout_us - Period]]
  /\ elapsed' = [elapsed EXCEPT ![j] = 0]
  /\ pc' = "call"
  /\ UNCHANGED <<timer_num, irq_flag, j>>

Reload ==
  LET timer == timer_list[j] IN
  /\ pc = "due"
  /\ timer_list' = [timer_list EXCEPT ![j] =
       IF timer.flag = ONE_TIME
         THEN TimerVarInit
         ELSE [timer EXCEPT !.timeout_us = timer.reload_timeout_us]]
  /\ elapsed' = [elapsed EXCEPT ![j] = 0]
  /\ pc' = "call"
  /\ UNCHANGED <<timer_num, irq_flag, j>>

(* timer[j].fn(...): no function in the program touches the timer table.   *)
CallBack_Twice ==
  /\ pc = "call"
  /\ pc' = "scan"
  /\ j' = j + 2
  /\ UNCHANGED <<timer_list, timer_num, irq_flag, elapsed>>

CallBack ==
  /\ pc = "call"
  /\ pc' = "scan"
  /\ j' = j + 1
  /\ UNCHANGED <<timer_list, timer_num, irq_flag, elapsed>>

ScanEnd ==
  /\ pc = "scan" /\ j = NumSlots
  /\ pc' = "clear"
  /\ UNCHANGED <<timer_list, timer_num, irq_flag, j, elapsed>>

(***************************************************************************)
(* irq_flag = 0, whether or not it was seen set: a tick that struck since  *)
(* SrvTest is forgotten.  The rest of the super-loop, network_srv() and    *)
(* anybus_service(), runs before the next SrvTest.                         *)
(***************************************************************************)
SrvClear ==
  /\ pc = "clear"
  /\ irq_flag' = FALSE
  /\ pc' = "loop"
  /\ UNCHANGED <<timer_list, timer_num, j, elapsed>>

timer_srv ==
  \/ SrvTest
  \/ ScanSkip \/ ScanDue \/ Reload \/ CallBack \/ ScanEnd
  \/ SrvClear

Next ==
  \/ \E t \in Timeouts, p \in Procs, f \in Flags : create_timer(t, p, f)
  \/ StartJob
  \/ do_timer
  \/ timer_srv

Spec == Init /\ [][Next]_vars

(***************************************************************************)
(* The super-loop never stops.  The update interrupt is periodic and the   *)
(* super-loop is not: of infinitely many ticks infinitely many strike      *)
(* outside timer_srv(), where the loop spends nearly all of its time.      *)
(***************************************************************************)
TickOutsideSrv == pc = "loop" /\ do_timer

FairSpec ==
  /\ Spec
  /\ WF_vars(StartJob)
  /\ WF_vars(timer_srv)
  /\ SF_vars(TickOutsideSrv)

-----------------------------------------------------------------------------
TypeOK ==
  /\ timer_list \in [Slots ->
       [used : BOOLEAN, flag : {ONE_TIME, LOOP}, fn : Procs \cup {NoProc},
        reload_timeout_us : 0 .. Horizon, timeout_us : Int]]
  /\ timer_num \in 0 .. NumSlots
  /\ irq_flag \in BOOLEAN
  /\ pc \in {"boot", "loop", "scan", "due", "call", "clear"}
  /\ j \in 0 .. NumSlots
  /\ pc \in {"due", "call"} => j < NumSlots
  /\ elapsed \in [Slots -> 0 .. Horizon]

(***************************************************************************)
(* No timer is called early: when timer_srv() is about to load slot j      *)
(* again and call it, its whole timeout has been counted by the interrupt  *)
(* since it was last loaded, however ticks, test, load and call interleave *)
(* (timer.c:210-220 against timer.c:235-236).                              *)
(***************************************************************************)
NeverEarly == pc = "due" => elapsed[j] >= timer_list[j].reload_timeout_us

(***************************************************************************)
(* Every timer that expires is called, although irq_flag is cleared after  *)
(* the scan (timer.c:224) and forgets the ticks that struck meanwhile.     *)
(***************************************************************************)
TimerServed ==
  \A i \in Slots :
    (pc # "boot" /\ Expired(i)) ~> (pc = "call" /\ j = i)

(***************************************************************************)
(* timer.h:18 gives flag 0 the meaning "once": the function of a timer     *)
(* that expires is called once, so there is a function to call.            *)
(***************************************************************************)
CallTargetValid == pc = "call" => timer_list[j].fn # NoProc

-----------------------------------------------------------------------------
(***************************************************************************)
(* Why no timer is early: what is left of a timeout and what has elapsed   *)
(* of it add up to the whole, and an expired timer has had it all.         *)
(***************************************************************************)
TimeAccounted ==
  \A i \in Slots :
    timer_list[i].used =>
      \/ elapsed[i] >= timer_list[i].reload_timeout_us
      \/ /\ timer_list[i].timeout_us > 0
         /\ timer_list[i].timeout_us + elapsed[i]
              >= timer_list[i].reload_timeout_us

DueExpired == pc = "due" => Expired(j)

TimerInv == TimeAccounted /\ DueExpired

=============================================================================
