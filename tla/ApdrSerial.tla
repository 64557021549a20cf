----------------------------- MODULE ApdrSerial -----------------------------
(***************************************************************************)
(* The serial data link between the board and its Anybus module:           *)
(* APDR_RunDataLinkStateMachine (apdr_ser.c) with the three UTIL timers    *)
(* that drive it, the tick handler anybus_timeout (testsuite.c) that polls *)
(* the receive FIFO of the USART, and the serial port adaptation           *)
(* (sys_adpt.c).  The driver is a master with one telegram outstanding:    *)
(* it toggles the T-bit of every new telegram, waits for an answer with a  *)
(* toggled T-bit and a good CRC, retransmits on a telegram timeout, and    *)
(* reports a lost module when its watchdog expires.                        *)
(*                                                                         *)
(* Everything but the receive interrupt runs in the main loop (StartJob in *)
(* main.c): each turn calls timer_srv, which runs anybus_timeout when a    *)
(* tick elapsed, and then anybus_service, which runs the state machine     *)
(* until it returns.  One action below is one case of its switch.          *)
(*                                                                         *)
(* Data is abstracted to what the link has to keep apart: a telegram       *)
(* carries a number (its contents), the T-bit, the M-bit and a message     *)
(* fragment; an answer travels in Parts pieces, so that a poll may come in *)
(* the middle of it and lost bytes shift all that follows; time is counted *)
(* in ticks of ABCC_TIMER_RESOLUTION_MS.                                   *)
(*                                                                         *)
(* A definition whose name ends in _Something is a broken variant of the   *)
(* one it precedes: it shows that a property notices the difference.       *)
(***************************************************************************)
EXTENDS Naturals, Sequences

CONSTANTS
  Ids,            \* telegrams are numbered modulo Ids
  TelegramTime,   \* iTelegramToTime in ticks
  WdTime,         \* ABCC_WATCHDOG_TIMEOUT_TIME_MS in ticks
  HsTime,         \* ABCC_INTIAL_HANDSHAKE_DELAY_TIME_MS in ticks
  PollEvery,      \* the receive FIFO is polled every PollEvery-th tick
  RxSize,         \* capacity of the receive FIFO, in pieces of an answer
  WireSize,       \* telegrams the module can be late with
  Frags,          \* the numbers of fragments a message to the module may have
  FragsUp,        \* the numbers of fragments a message of the module may have
  MaxQueued,      \* messages to the module that wait in the two queues, at most
  Bufs,           \* buffers for messages to the application
  IgnoresR,       \* whether the module sends messages against the R-bit
  Ready,          \* values of the R-bit of the module while it is not healthy
  Spoils,         \* whether the line also changes what it carries
  Works, Heals    \* whether line and module work from the start, or one day

Parts == 2        \* pieces an answer travels in

APDR_SERIAL_MESSAGE_MAX_FRAGS == 17

ASSUME ApdrAssumption ==
  /\ Ids \in Nat /\ Ids > 2
  /\ {TelegramTime, WdTime, HsTime, PollEvery, WireSize} \subseteq Nat \ {0}
  /\ RxSize \in Nat /\ RxSize >= Parts
  /\ Frags \subseteq Nat \ {0}
  /\ FragsUp \subseteq 1 .. APDR_SERIAL_MESSAGE_MAX_FRAGS   \* 8 + 255 bytes by 16
  /\ MaxQueued \in Nat
  /\ Bufs \in Nat \ {0}
  /\ {IgnoresR, Spoils, Works, Heals} \subseteq BOOLEAN
  /\ Ready \subseteq BOOLEAN /\ Ready # {}

VARIABLES
  \* the driver, apdr_s
  eState, bLastStatusReg, bCurrentStatusReg, fTelegramReceived,
  pbReceptionBuffer, abTransmissionBuffer, psWriteMsgBuffer,
  bLastSentMsgType, iNbrRecFrags, fAbccTelegramTo, fAbccWdTo, fInitHsTo,
  fAbccWdToOccured,
  \* the UTIL timers, the poll counter and receive FIFO of anybus_timeout, and
  \* whether the main loop is inside the state machine
  timers, cnt, rxFifo, running,
  \* the layers above: messages queued to the module, free buffers for messages
  \* to the application, the link status the application was told, and the
  \* number of the answer whose process data was handed up last
  cmdQueue, rspQueue, freeBufs, abcc_fWdTimeout, handled,
  \* external: the line in both directions, whether what is on it is late, and
  \* whether line and module work; the module's last answer, the fragments it
  \* took since the last telegram without one, and the message it is sending
  toModule, fromModule, late, healthy, reply, taken, out

flags  == <<fAbccTelegramTo, fAbccWdTo, fInitHsTo>>
link   == <<bLastStatusReg, bCurrentStatusReg, fTelegramReceived,
            pbReceptionBuffer, iNbrRecFrags>>
sender == <<abTransmissionBuffer, psWriteMsgBuffer, bLastSentMsgType>>
polling == <<cnt, rxFifo>>
queues == <<cmdQueue, rspQueue>>
upper  == <<freeBufs, abcc_fWdTimeout, handled>>
line   == <<toModule, fromModule, late, healthy>>
module == <<reply, taken, out>>
vars   == <<eState, flags, fAbccWdToOccured, link, sender, timers, polling,
            running, queues, upper, line, module>>

Timer == {"Telegram", "Wd", "Hs"}

-----------------------------------------------------------------------------
(* Data.  A message is known by its kind and number of fragments; sFragInfo *)
(* counts the fragments sent.  NULL is the message with no fragment.        *)

NULL   == [kind |-> "none", n |-> 0, sent |-> 0]
NoFrag == [kind |-> "none", n |-> 0, i |-> 0]
Reset  == [id |-> 0, t |-> FALSE, m |-> FALSE, r |-> FALSE]

Pieces(answer) == [p \in 1 .. Parts |-> [answer |-> answer, part |-> p]]
Rubbish        == [answer |-> Reset, part |-> 0]

(* CRC_Crc16 over the telegram agrees with its last two bytes: what is in   *)
(* the buffer is one answer, whole and from its first byte.                 *)
CrcGood(buffer) == buffer = Pieces(buffer[1].answer)

Status(answer) == [t |-> answer.t, m |-> answer.m, r |-> answer.r]

-----------------------------------------------------------------------------
(* The UTIL timers: reloading also starts a timer, starting one continues   *)
(* with the time that is left, stopping one keeps it.                       *)

UTIL_ReloadTimer(tm, x, time) == [tm EXCEPT ![x] = [left |-> time, on |-> TRUE]]
UTIL_StartTimer(tm, x)        == [tm EXCEPT ![x].on = TRUE]
UTIL_StopTimer(tm, x)         == [tm EXCEPT ![x].on = FALSE]

Runs(x)    == timers[x].on /\ timers[x].left # 0
Expires(x) == Runs(x) /\ timers[x].left = 1

UTIL_RunTimerSystem ==
  /\ timers' = [x \in Timer |-> IF Runs(x) THEN [timers[x] EXCEPT !.left = @ - 1]
                                           ELSE timers[x]]
  /\ fAbccTelegramTo' = (fAbccTelegramTo \/ Expires("Telegram"))
  /\ fAbccWdTo'       = (fAbccWdTo \/ Expires("Wd"))
  /\ fInitHsTo'       = (fInitHsTo \/ Expires("Hs"))

(* SYS_SendSerialTelegram: the telegram goes out to the module, unless the  *)
(* module still has to take WireSize earlier ones.                          *)
SYS_SendSerialTelegram(telegram) ==
  /\ toModule' = IF Len(toModule) < WireSize THEN Append(toModule, telegram)
                                             ELSE toModule
  /\ late' = FALSE
  /\ UNCHANGED <<fromModule, healthy>>

Return == running' = FALSE     \* the state machine returns to the main loop
Loop   == running' = TRUE      \* while( 1 )

-----------------------------------------------------------------------------
(* The state after APDR_Init and APLINK_Init: the timers are created but    *)
(* not started.  The variables APDR_SM_INIT sets later have their zero.     *)
Init ==
  /\ eState = "INIT"
  /\ bLastStatusReg = Status(Reset) /\ bCurrentStatusReg = Status(Reset)
  /\ fTelegramReceived = FALSE
  /\ pbReceptionBuffer = Pieces(Reset)
  /\ abTransmissionBuffer = [id |-> 0, t |-> FALSE, r |-> FALSE, frag |-> NoFrag]
  /\ psWriteMsgBuffer = NULL
  /\ bLastSentMsgType = "rsp"
  /\ iNbrRecFrags = 0
  /\ fAbccTelegramTo = FALSE /\ fAbccWdTo = FALSE /\ fInitHsTo = FALSE
  /\ fAbccWdToOccured = FALSE
  /\ timers = [x \in Timer |-> [left |-> CASE x = "Telegram" -> TelegramTime
                                           [] x = "Wd"       -> WdTime
                                           [] x = "Hs"       -> HsTime,
                                on |-> FALSE]]
  /\ cnt = 0 /\ rxFifo = <<>> /\ running = TRUE
  /\ cmdQueue = <<>> /\ rspQueue = <<>> /\ freeBufs = Bufs
  /\ abcc_fWdTimeout = FALSE /\ handled = 0
  /\ toModule = <<>> /\ fromModule = <<>> /\ late = FALSE /\ healthy = Works
  /\ reply = Reset /\ taken = <<>> /\ out = [left |-> 0, size |-> 0]

(* case APDR_SM_INIT.  SYS_ReStartSerialComm opens the port: the receive    *)
(* FIFO has been empty since usart_open initialised it.                     *)
SmInit ==
  /\ running /\ eState = "INIT"
  /\ iNbrRecFrags' = 0
  /\ fAbccWdToOccured' = FALSE
  /\ bLastSentMsgType' = "rsp"
  /\ psWriteMsgBuffer' = NULL
  /\ abTransmissionBuffer' = [abTransmissionBuffer EXCEPT !.t = FALSE]
  /\ bLastStatusReg' = Status(Reset)
  /\ fInitHsTo' = FALSE
  /\ fTelegramReceived' = FALSE
  /\ timers' = UTIL_ReloadTimer(timers, "Hs", HsTime)
  /\ eState' = "INITIAL_HANDSHAKE"
  /\ Loop
  /\ UNCHANGED <<bCurrentStatusReg, pbReceptionBuffer, fAbccTelegramTo, fAbccWdTo,
                 polling, queues, upper, line, module>>

(* case APDR_SM_INITIAL_HANDSHAKE: nothing is sent before the module had    *)
(* its time to start.                                                       *)
SmInitialHandshake ==
  /\ running /\ eState = "INITIAL_HANDSHAKE"
  /\ \/ /\ fInitHsTo
        /\ timers' = UTIL_StopTimer(timers, "Hs")
        /\ eState' = "IDLE"
        /\ Loop
     \/ /\ ~fInitHsTo
        /\ Return
        /\ UNCHANGED <<eState, timers>>
  /\ UNCHANGED <<flags, fAbccWdToOccured, link, sender, polling, queues, upper,
                 line, module>>

(* The fragment apdr_BuildSerialTelegram copies; when the fragment counter  *)
(* is out of range it reports an error and the previous one stays in place. *)
NextFrag_First(w) == [kind |-> w.kind, n |-> w.n, i |-> 1]

NextFrag(w) == IF w.sent < w.n THEN [kind |-> w.kind, n |-> w.n, i |-> w.sent + 1]
                               ELSE abTransmissionBuffer.frag

(* A new telegram: the T-bit is toggled, the R-bit says whether there is    *)
(* room for a command of the module (APLINK_FreeCmdSlots).  The watchdog    *)
(* runs on with the time it has left, the telegram timer starts anew.       *)
SendTelegram(frag) ==
  LET telegram == [id |-> (abTransmissionBuffer.id + 1) % Ids,
                   t |-> ~abTransmissionBuffer.t, r |-> freeBufs > 0, frag |-> frag]
  IN /\ abTransmissionBuffer' = telegram
     /\ SYS_SendSerialTelegram(telegram)
     /\ timers' = UTIL_ReloadTimer(UTIL_StartTimer(timers, "Wd"), "Telegram", TelegramTime)
     /\ eState' = "WAIT_FOR_TELEGRAM"
     /\ Return

(* case APDR_SM_SEND_TELEGRAM_WITH_MESSAGE: the next fragment goes out.     *)
SmSendWithMessage ==
  /\ running /\ eState = "SEND_TELEGRAM_WITH_MESSAGE"
  /\ SendTelegram(NextFrag(psWriteMsgBuffer))
  /\ psWriteMsgBuffer' = [psWriteMsgBuffer EXCEPT !.sent =
                            IF @ < psWriteMsgBuffer.n THEN @ + 1 ELSE psWriteMsgBuffer.n]
  /\ UNCHANGED <<flags, fAbccWdToOccured, link, bLastSentMsgType, polling, queues,
                 upper, module>>

(* case APDR_SM_SEND_TELEGRAM_WITHOUT_MESSAGE: process data only.           *)
SmSendWithoutMessage ==
  /\ running /\ eState = "SEND_TELEGRAM_WITHOUT_MESSAGE"
  /\ SendTelegram(NoFrag)
  /\ UNCHANGED <<flags, fAbccWdToOccured, link, psWriteMsgBuffer, bLastSentMsgType,
                 polling, queues, upper, module>>

(* case APDR_SM_WAIT_FOR_TELEGRAM, a telegram was received: the answer      *)
(* counts if its T-bit toggled and its CRC is good.                         *)
IsAnswer_AnyT == CrcGood(pbReceptionBuffer)

IsAnswer_NoCrc == bLastStatusReg.t # pbReceptionBuffer[1].answer.t

IsAnswer == /\ bLastStatusReg.t # pbReceptionBuffer[1].answer.t
            /\ CrcGood(pbReceptionBuffer)

WaitAccept ==
  /\ running /\ eState = "WAIT_FOR_TELEGRAM" /\ fTelegramReceived
  /\ IsAnswer
  /\ fTelegramReceived' = FALSE
  /\ bCurrentStatusReg' = Status(pbReceptionBuffer[1].answer)
  /\ timers' = UTIL_StopTimer(UTIL_StopTimer(timers, "Wd"), "Telegram")
  /\ fAbccWdTo' = FALSE /\ fAbccTelegramTo' = FALSE
  /\ abcc_fWdTimeout' = IF fAbccWdToOccured THEN FALSE ELSE abcc_fWdTimeout
  /\ fAbccWdToOccured' = FALSE
  /\ eState' = "PROCESS_RECEIVED_TELEGRAM"
  /\ Loop
  /\ UNCHANGED <<fInitHsTo, bLastStatusReg, pbReceptionBuffer, iNbrRecFrags, sender,
                 polling, queues, freeBufs, handled, line, module>>

WaitIgnore ==
  /\ running /\ eState = "WAIT_FOR_TELEGRAM" /\ fTelegramReceived
  /\ ~IsAnswer
  /\ fTelegramReceived' = FALSE
  /\ Loop
  /\ UNCHANGED <<eState, flags, fAbccWdToOccured, bLastStatusReg, bCurrentStatusReg,
                 pbReceptionBuffer, iNbrRecFrags, sender, timers, polling, queues,
                 upper, line, module>>

(* The restart of the reception: SYS_ReStartSerialComm asks for the length  *)
(* it already has and opens a port that is already open, for which          *)
(* usart_open returns at once.  The receive FIFO stays as it is.            *)
SYS_ReStartSerialComm == UNCHANGED rxFifo

Retransmit_NoReload == /\ SYS_SendSerialTelegram(abTransmissionBuffer)
                       /\ UNCHANGED timers
                       /\ Return

Retransmit == /\ SYS_SendSerialTelegram(abTransmissionBuffer)
              /\ timers' = UTIL_ReloadTimer(timers, "Telegram", TelegramTime)
              /\ Return

(* No telegram, but the telegram timer expired: the same bytes go out again.*)
WaitTelegramTimeout ==
  /\ running /\ eState = "WAIT_FOR_TELEGRAM" /\ ~fTelegramReceived
  /\ fAbccTelegramTo
  /\ fAbccTelegramTo' = FALSE
  /\ SYS_ReStartSerialComm
  /\ Retransmit
  /\ UNCHANGED <<eState, fAbccWdTo, fInitHsTo, fAbccWdToOccured, link, sender, cnt,
                 queues, upper, module>>

(* No telegram, but the watchdog expired.                                   *)
WaitWdTimeout ==
  /\ running /\ eState = "WAIT_FOR_TELEGRAM" /\ ~fTelegramReceived
  /\ ~fAbccTelegramTo /\ fAbccWdTo
  /\ timers' = UTIL_StopTimer(timers, "Wd")
  /\ eState' = "ABCC_COM_LOST"
  /\ Loop
  /\ UNCHANGED <<flags, fAbccWdToOccured, link, sender, polling, queues, upper,
                 line, module>>

WaitNothing ==
  /\ running /\ eState = "WAIT_FOR_TELEGRAM" /\ ~fTelegramReceived
  /\ ~fAbccTelegramTo /\ ~fAbccWdTo
  /\ Return
  /\ UNCHANGED <<eState, flags, fAbccWdToOccured, link, sender, timers, polling,
                 queues, upper, line, module>>

(* case APDR_SM_ABCC_COM_LOST: the application is told, the telegram is     *)
(* sent again and the telegram timer goes on; the watchdog does not.        *)
SmComLost_ReloadWd ==
  /\ running /\ eState = "ABCC_COM_LOST"
  /\ abcc_fWdTimeout' = TRUE
  /\ fAbccWdToOccured' = TRUE
  /\ fAbccWdTo' = FALSE /\ fAbccTelegramTo' = FALSE
  /\ SYS_SendSerialTelegram(abTransmissionBuffer)
  /\ timers' = UTIL_ReloadTimer(UTIL_ReloadTimer(timers, "Wd", WdTime), "Telegram",
                                TelegramTime)
  /\ Return
  /\ eState' = "WAIT_FOR_TELEGRAM"
  /\ UNCHANGED <<fInitHsTo, link, sender, polling, queues, freeBufs, handled, module>>

SmComLost ==
  /\ running /\ eState = "ABCC_COM_LOST"
  /\ abcc_fWdTimeout' = TRUE
  /\ fAbccWdToOccured' = TRUE
  /\ fAbccWdTo' = FALSE /\ fAbccTelegramTo' = FALSE
  /\ Retransmit
  /\ eState' = "WAIT_FOR_TELEGRAM"
  /\ UNCHANGED <<fInitHsTo, link, sender, polling, queues, freeBufs, handled, module>>

(* case APDR_SM_PROCESS_RECEIVED_TELEGRAM.  An answer with M-bit carries a  *)
(* fragment; the first one without closes the message, which goes up in a   *)
(* buffer of APLINK_asMsgToApplBuf.                                         *)
Closes == ~bCurrentStatusReg.m /\ bLastStatusReg.m

(* No buffer: the state machine gives up and tries again in its next run.   *)
ProcessNoBuffer ==
  /\ running /\ eState = "PROCESS_RECEIVED_TELEGRAM"
  /\ Closes /\ freeBufs = 0
  /\ Return
  /\ UNCHANGED <<eState, flags, fAbccWdToOccured, link, sender, timers, polling,
                 queues, upper, line, module>>

(* Where a processed telegram leads: on with the message, its last fragment *)
(* being followed by a telegram without one, or to a new choice.            *)
AfterProcess_Early ==
  \/ /\ psWriteMsgBuffer.sent + 1 < psWriteMsgBuffer.n
     /\ eState' = "SEND_TELEGRAM_WITH_MESSAGE"
     /\ UNCHANGED psWriteMsgBuffer
  \/ /\ psWriteMsgBuffer.n # 0 /\ psWriteMsgBuffer.sent + 1 >= psWriteMsgBuffer.n
     /\ eState' = "SEND_TELEGRAM_WITHOUT_MESSAGE"
     /\ psWriteMsgBuffer' = NULL
  \/ /\ psWriteMsgBuffer = NULL
     /\ eState' = "IDLE"
     /\ UNCHANGED psWriteMsgBuffer

AfterProcess ==
  \/ /\ psWriteMsgBuffer.sent < psWriteMsgBuffer.n
     /\ eState' = "SEND_TELEGRAM_WITH_MESSAGE"
     /\ UNCHANGED psWriteMsgBuffer
  \/ /\ psWriteMsgBuffer.n # 0 /\ psWriteMsgBuffer.sent = psWriteMsgBuffer.n
     /\ eState' = "SEND_TELEGRAM_WITHOUT_MESSAGE"
     /\ psWriteMsgBuffer' = NULL
  \/ /\ psWriteMsgBuffer = NULL
     /\ eState' = "IDLE"
     /\ UNCHANGED psWriteMsgBuffer

(* The fragment is counted, the process data go up, and a message that ends *)
(* goes up.  A fragment beyond APDR_SERIAL_MESSAGE_MAX_FRAGS would be       *)
(* counted but not stored; no message has so many.                          *)
SmProcess_KeepFrags ==
  /\ running /\ eState = "PROCESS_RECEIVED_TELEGRAM"
  /\ Closes => freeBufs # 0
  /\ freeBufs' = IF Closes THEN freeBufs - 1 ELSE freeBufs
  /\ iNbrRecFrags' = IF bCurrentStatusReg.m THEN iNbrRecFrags + 1 ELSE iNbrRecFrags
  /\ handled' = pbReceptionBuffer[Parts].answer.id
  /\ AfterProcess
  /\ bLastStatusReg' = bCurrentStatusReg
  /\ Loop
  /\ UNCHANGED <<flags, fAbccWdToOccured, bCurrentStatusReg, fTelegramReceived,
                 pbReceptionBuffer, abTransmissionBuffer, bLastSentMsgType, timers,
                 polling, queues, abcc_fWdTimeout, line, module>>

SmProcess ==
  /\ running /\ eState = "PROCESS_RECEIVED_TELEGRAM"
  /\ Closes => freeBufs # 0
  /\ freeBufs' = IF Closes THEN freeBufs - 1 ELSE freeBufs
  /\ iNbrRecFrags' = CASE bCurrentStatusReg.m -> iNbrRecFrags + 1
                       [] Closes              -> 0
                       [] OTHER               -> iNbrRecFrags
  /\ handled' = pbReceptionBuffer[Parts].answer.id
  /\ AfterProcess
  /\ bLastStatusReg' = bCurrentStatusReg
  /\ Loop
  /\ UNCHANGED <<flags, fAbccWdToOccured, bCurrentStatusReg, fTelegramReceived,
                 pbReceptionBuffer, abTransmissionBuffer, bLastSentMsgType, timers,
                 polling, queues, abcc_fWdTimeout, line, module>>

(* case APDR_SM_IDLE: the watchdog starts anew and the next message is      *)
(* chosen.  Responses only while the module is not ready for commands, else *)
(* commands and responses take turns when both wait.                        *)
Sends(kind) ==
  IF kind = "cmd"
  THEN /\ bLastStatusReg.r /\ cmdQueue # <<>>
       /\ bLastSentMsgType = "rsp" \/ rspQueue = <<>>
  ELSE /\ rspQueue # <<>>
       /\ ~bLastStatusReg.r \/ bLastSentMsgType = "cmd" \/ cmdQueue = <<>>

IdleMessage(kind) ==
  /\ running /\ eState = "IDLE"
  /\ Sends(kind)
  /\ LET queue == IF kind = "cmd" THEN cmdQueue ELSE rspQueue
     IN psWriteMsgBuffer' = [kind |-> kind, n |-> Head(queue), sent |-> 0]
  /\ IF kind = "cmd" THEN cmdQueue' = Tail(cmdQueue) /\ UNCHANGED rspQueue
                     ELSE rspQueue' = Tail(rspQueue) /\ UNCHANGED cmdQueue
  /\ bLastSentMsgType' = kind
  /\ timers' = UTIL_ReloadTimer(timers, "Wd", WdTime)
  /\ eState' = "SEND_TELEGRAM_WITH_MESSAGE"
  /\ Loop
  /\ UNCHANGED <<flags, fAbccWdToOccured, link, abTransmissionBuffer, polling, upper,
                 line, module>>

IdleNoMessage ==
  /\ running /\ eState = "IDLE"
  /\ ~Sends("cmd") /\ ~Sends("rsp")
  /\ timers' = UTIL_ReloadTimer(timers, "Wd", WdTime)
  /\ eState' = "SEND_TELEGRAM_WITHOUT_MESSAGE"
  /\ Loop
  /\ UNCHANGED <<flags, fAbccWdToOccured, link, sender, polling, queues, upper, line,
                 module>>

StateMachine ==
  \/ SmInit \/ SmInitialHandshake \/ SmSendWithMessage \/ SmSendWithoutMessage
  \/ WaitAccept \/ WaitIgnore \/ WaitTelegramTimeout \/ WaitWdTimeout \/ WaitNothing
  \/ SmComLost \/ ProcessNoBuffer \/ SmProcess
  \/ \E kind \in {"cmd", "rsp"} : IdleMessage(kind)
  \/ IdleNoMessage

-----------------------------------------------------------------------------
(* The rest of the main loop.  A turn in which no tick elapsed goes straight*)
(* to anybus_service; only the ones that find something to do are steps.    *)
Pending == fTelegramReceived \/ fAbccTelegramTo \/ fAbccWdTo
           \/ eState = "PROCESS_RECEIVED_TELEGRAM"

anybus_service ==
  /\ ~running /\ Pending
  /\ Loop
  /\ UNCHANGED <<eState, flags, fAbccWdToOccured, link, sender, timers, polling,
                 queues, upper, line, module>>

(* The poll takes all there is as soon as it is enough for a telegram and   *)
(* hands up as much as one telegram holds, from the first byte.             *)
Poll ==
  IF Len(rxFifo) >= Parts
  THEN /\ rxFifo' = <<>>
       /\ pbReceptionBuffer' = SubSeq(rxFifo, 1, Parts)
       /\ fTelegramReceived' = TRUE
  ELSE UNCHANGED <<rxFifo, pbReceptionBuffer, fTelegramReceived>>

InFlight == toModule # <<>> \/ fromModule # <<>>

(* A turn in which a tick elapsed: anybus_timeout, then anybus_service.     *)
(* External: while line and module work, an answer is in after at most one  *)
(* tick from the request.                                                   *)
anybus_timeout ==
  /\ ~running
  /\ healthy /\ late => ~InFlight
  /\ late' = (healthy /\ InFlight)
  /\ UTIL_RunTimerSystem
  /\ cnt' = (cnt + 1) % PollEvery
  /\ IF cnt = 0 THEN Poll
                ELSE UNCHANGED <<rxFifo, pbReceptionBuffer, fTelegramReceived>>
  /\ Loop
  /\ UNCHANGED <<eState, fAbccWdToOccured, bLastStatusReg, bCurrentStatusReg,
                 iNbrRecFrags, sender, queues, upper, toModule, fromModule, healthy,
                 module>>

(* The application, between two runs of the driver: it queues a command or  *)
(* a response of n fragments, or returns a message buffer.                  *)
QueueCommand(n) ==
  /\ ~running /\ Len(cmdQueue) + Len(rspQueue) < MaxQueued
  /\ cmdQueue' = Append(cmdQueue, n)
  /\ UNCHANGED <<eState, flags, fAbccWdToOccured, link, sender, timers, polling,
                 running, rspQueue, upper, line, module>>

QueueResponse(n) ==
  /\ ~running /\ Len(cmdQueue) + Len(rspQueue) < MaxQueued
  /\ rspQueue' = Append(rspQueue, n)
  /\ UNCHANGED <<eState, flags, fAbccWdToOccured, link, sender, timers, polling,
                 running, cmdQueue, upper, line, module>>

ReturnBuffer ==
  /\ ~running /\ freeBufs < Bufs
  /\ freeBufs' = freeBufs + 1
  /\ UNCHANGED <<eState, flags, fAbccWdToOccured, link, sender, timers, polling,
                 running, queues, abcc_fWdTimeout, handled, line, module>>

-----------------------------------------------------------------------------
(* External: the Anybus module and the line.  They move between the runs of *)
(* the state machine only: a run sends at most one telegram, as its last    *)
(* step, and reads neither the line nor the FIFO, so that a step of theirs  *)
(* in the middle of a run comes to the same as one right before it.         *)

(* The fragments the module has of the message it is taking: a telegram     *)
(* with M-bit adds one, a telegram without closes the message.              *)
Takes(telegram) == IF telegram.frag = NoFrag THEN <<>> ELSE Append(taken, telegram.frag)

(* What the module sends next: the next fragment of its message, a telegram *)
(* that closes the message, a new message if it may, or none.               *)
Offers(telegram) ==
  IF out.left > 0 THEN {[left |-> out.left - 1, size |-> out.size]}
  ELSE {[left |-> 0, size |-> 0]} \cup
       (IF reply.m \/ ~(telegram.r \/ IgnoresR) THEN {}
        ELSE {[left |-> n - 1, size |-> n] : n \in FragsUp})

Answers(telegram) ==
  /\ taken' = Takes(telegram)
  /\ \E o \in Offers(telegram), r \in IF healthy THEN {TRUE} ELSE Ready :
       /\ out' = IF o.size = 0 THEN [out EXCEPT !.left = 0] ELSE o
       /\ reply' = [id |-> telegram.id, t |-> telegram.t, m |-> o.size # 0, r |-> r]

(* A telegram with a toggled T-bit is acted on, any other one is a          *)
(* repetition and gets the last answer again.                               *)
ModuleReceives ==
  /\ ~running /\ toModule # <<>> /\ fromModule = <<>>
  /\ toModule' = Tail(toModule)
  /\ IF Head(toModule).t # reply.t THEN Answers(Head(toModule)) ELSE UNCHANGED module
  /\ fromModule' = Pieces(reply')
  /\ UNCHANGED <<eState, flags, fAbccWdToOccured, link, sender, timers, polling,
                 running, queues, upper, late, healthy>>

(* The receive interrupt puts a piece into the FIFO, over the oldest one    *)
(* when it is full.                                                         *)
Arrives_NoDrop(piece) == rxFifo' = Append(rxFifo, piece)

Arrives(piece) ==
  rxFifo' = Append(IF Len(rxFifo) = RxSize THEN Tail(rxFifo) ELSE rxFifo, piece)

PieceArrives ==
  /\ ~running /\ fromModule # <<>>
  /\ fromModule' = Tail(fromModule)
  /\ Arrives(Head(fromModule))
  /\ UNCHANGED <<eState, flags, fAbccWdToOccured, link, sender, timers, cnt,
                 running, queues, upper, toModule, late, healthy, module>>

PieceSpoilt ==
  /\ ~running /\ ~healthy /\ Spoils /\ fromModule # <<>>
  /\ fromModule' = Tail(fromModule)
  /\ Arrives(Rubbish)
  /\ UNCHANGED <<eState, flags, fAbccWdToOccured, link, sender, timers, cnt,
                 running, queues, upper, toModule, late, healthy, module>>

PieceLost ==
  /\ ~running /\ ~healthy /\ fromModule # <<>>
  /\ fromModule' = Tail(fromModule)
  /\ UNCHANGED <<eState, flags, fAbccWdToOccured, link, sender, timers, polling,
                 running, queues, upper, toModule, late, healthy, module>>

(* Lost on the way to the module, or dropped by it for its CRC.             *)
TelegramLost ==
  /\ ~running /\ ~healthy /\ toModule # <<>>
  /\ toModule' = Tail(toModule)
  /\ UNCHANGED <<eState, flags, fAbccWdToOccured, link, sender, timers, polling,
                 running, queues, upper, fromModule, late, healthy, module>>

(* From here on nothing is lost or spoilt, and the module is prompt and     *)
(* ready for commands.                                                      *)
Repaired ==
  /\ Heals /\ ~healthy /\ healthy' = TRUE
  /\ UNCHANGED <<eState, flags, fAbccWdToOccured, link, sender, timers, polling,
                 running, queues, upper, toModule, fromModule, late, module>>

Line == ModuleReceives \/ PieceArrives

Application == \/ \E n \in Frags : QueueCommand(n) \/ QueueResponse(n)
               \/ ReturnBuffer

Next == \/ StateMachine \/ anybus_service \/ anybus_timeout
        \/ Application \/ Line
        \/ PieceSpoilt \/ PieceLost \/ TelegramLost \/ Repaired

Spec == Init /\ [][Next]_vars

(* The main loop keeps turning and a tick that elapsed is seen in one of    *)
(* its turns; the application returns buffers; what is on the line moves;   *)
(* one day line and module work.                                            *)
FairSpec == /\ Spec
            /\ WF_vars(StateMachine) /\ SF_vars(anybus_timeout)
            /\ SF_vars(ReturnBuffer)
            /\ SF_vars(Line) /\ WF_vars(Repaired)

-----------------------------------------------------------------------------
(* The variables have their types; the counters of a message to the module, *)
(* of the FIFO and of the buffers stay in their bounds.                     *)
Tel    == [id : 0 .. Ids - 1, t : BOOLEAN, r : BOOLEAN,
           frag : {NoFrag} \cup [kind : {"cmd", "rsp"}, n : Frags, i : Nat \ {0}]]
Answer == [id : 0 .. Ids - 1, t : BOOLEAN, m : BOOLEAN, r : BOOLEAN]
Piece  == [answer : Answer, part : 0 .. Parts]
Msg    == {NULL} \cup {w \in [kind : {"cmd", "rsp"}, n : Frags, sent : Nat] : w.sent <= w.n}
State  == {"INIT", "INITIAL_HANDSHAKE", "SEND_TELEGRAM_WITH_MESSAGE",
           "SEND_TELEGRAM_WITHOUT_MESSAGE", "WAIT_FOR_TELEGRAM",
           "PROCESS_RECEIVED_TELEGRAM", "ABCC_COM_LOST", "IDLE"}
Stat   == [t : BOOLEAN, m : BOOLEAN, r : BOOLEAN]

TypeOK ==
  /\ eState \in State
  /\ bLastStatusReg \in Stat /\ bCurrentStatusReg \in Stat
  /\ {fTelegramReceived, fAbccTelegramTo, fAbccWdTo, fInitHsTo, fAbccWdToOccured,
      running, abcc_fWdTimeout, late, healthy} \subseteq BOOLEAN
  /\ pbReceptionBuffer \in [1 .. Parts -> Piece]
  /\ abTransmissionBuffer \in Tel
  /\ psWriteMsgBuffer \in Msg
  /\ bLastSentMsgType \in {"cmd", "rsp"}
  /\ iNbrRecFrags \in Nat
  /\ timers \in [Timer -> [left : Nat, on : BOOLEAN]]
  /\ cnt \in 0 .. PollEvery - 1
  /\ rxFifo \in Seq(Piece) /\ Len(rxFifo) <= RxSize
  /\ cmdQueue \in Seq(Frags) /\ rspQueue \in Seq(Frags)
  /\ Len(cmdQueue) + Len(rspQueue) <= MaxQueued
  /\ freeBufs \in 0 .. Bufs
  /\ handled \in 0 .. Ids - 1
  /\ toModule \in Seq(Tel) /\ Len(toModule) <= WireSize
  /\ fromModule \in Seq(Piece)
  /\ reply \in Answer
  /\ out \in [left : Nat, size : Nat]

(* Over a line that loses, spoils and repeats, the link is a stop-and-wait  *)
(* channel: the module acts on every telegram exactly once and in order, no *)
(* telegram is issued before the answer to the previous one was handed up,  *)
(* and what is handed up is that answer (retransmissions 597-637, T-bit and *)
(* CRC check 516-579, the stale bytes a restart leaves in the FIFO).        *)
Link == INSTANCE StopAndWait WITH issued <- abTransmissionBuffer.id,
                                  acted <- reply.id

LinkIsStopAndWait == Link!Spec

(* The module gets messages whole: when a telegram without fragment closes  *)
(* a message, the module has its fragments 1 .. n, each once and in order.  *)
FragmentsWhole ==
  [][taken # <<>> /\ taken' = <<>> =>
       taken = [i \in 1 .. taken[1].n |-> [taken[1] EXCEPT !.i = i]]]_vars

(* The buffer of a message to the module is given back (APLINK_Complete-    *)
(* MsgTrans) only after the module took the last fragment of it.            *)
BufferKeptUntilTaken ==
  [][psWriteMsgBuffer # NULL /\ psWriteMsgBuffer' = NULL =>
       taken # <<>> /\ Len(taken) = psWriteMsgBuffer.n
                    /\ taken[1].kind = psWriteMsgBuffer.kind]_vars

(* A message that goes up to the application has as many fragments as the   *)
(* module gave it: none is lost or counted twice across retransmissions.    *)
MessageUpWhole == [][freeBufs' < freeBufs => iNbrRecFrags = out.size]_vars

(* The application is not told of a lost module again before it was told    *)
(* of its recovery: the watchdog that fired stays silent until then.        *)
LossReportedOnce == [][eState = "ABCC_COM_LOST" /\ eState' # eState => ~abcc_fWdTimeout]_vars

(* Every telegram is answered in the end, whatever rubbish the receive FIFO *)
(* holds and wherever the poll falls, once the line works.                  *)
TelegramAnswered == (handled # abTransmissionBuffer.id) ~> (handled = abTransmissionBuffer.id)

-----------------------------------------------------------------------------
(***************************************************************************)
(* What the properties of the link rest on.  Whatever is on the line and   *)
(* in the FIFO belongs to the exchange under way, or, while its answer is  *)
(* awaited, to the one before, and the T-bit tells the two apart; rubbish  *)
(* is told by its CRC.  Nothing is left of the one before once the answer  *)
(* was accepted: the poll that brought the answer has emptied the FIFO.    *)
(***************************************************************************)
Waiting    == eState \in {"WAIT_FOR_TELEGRAM", "ABCC_COM_LOST"}
Processing == eState = "PROCESS_RECEIVED_TELEGRAM"

Cur(x)  == x.id = abTransmissionBuffer.id /\ x.t = abTransmissionBuffer.t
Prev(x) == abTransmissionBuffer.id = (x.id + 1) % Ids /\ x.t # abTransmissionBuffer.t

Known(piece) == IF piece.part = 0 THEN Spoils
                ELSE \/ piece.answer = reply /\ Cur(reply)
                     \/ Waiting /\ Prev(piece.answer)

ExchangeInv ==
  /\ IF Waiting \/ Processing THEN bLastStatusReg.t # abTransmissionBuffer.t
                               ELSE bLastStatusReg.t = abTransmissionBuffer.t
  /\ Processing => bCurrentStatusReg = Status(reply)
  /\ eState = "INIT" => abTransmissionBuffer.t = FALSE
  /\ eState = "ABCC_COM_LOST" => running /\ ~fTelegramReceived
  /\ Cur(reply) \/ (Waiting /\ Prev(reply))

RequestsInv ==
  \A i \in 1 .. Len(toModule) :
    /\ toModule[i] = abTransmissionBuffer \/ (Waiting /\ Prev(toModule[i]) /\ Prev(reply))
    /\ Cur(toModule[i]) => \A j \in i .. Len(toModule) : Cur(toModule[j])

AnswersInv ==
  \A i \in 1 .. Len(fromModule) : fromModule[i].answer = reply /\ fromModule[i].part # 0

FifoInv == \A i \in 1 .. Len(rxFifo) : Known(rxFifo[i])

ReceivedInv ==
  /\ fTelegramReceived \/ Processing => \A p \in 1 .. Parts : Known(pbReceptionBuffer[p])
  /\ Waiting /\ fTelegramReceived =>
       \/ rxFifo = <<>> /\ running
       \/ \A p \in 1 .. Parts : pbReceptionBuffer[p].part = 0 \/ Prev(pbReceptionBuffer[p].answer)

LinkInv == ExchangeInv /\ RequestsInv /\ AnswersInv /\ FifoInv /\ ReceivedInv

(* LinkIsStopAndWait also says what is handed up.  A processing that waits  *)
(* for a buffer leaves the reception open, and over a line that spoils the  *)
(* accepted answer may then be overwritten with rubbish (apdr_ser.c 788).   *)
BufferInTime == [][Spoils => ~ProcessNoBuffer]_vars

HandledInv ==
  /\ abTransmissionBuffer.id = IF Waiting \/ Processing THEN (handled + 1) % Ids ELSE handled
  /\ Spoils /\ Processing => running /\ \A p \in 1 .. Parts : pbReceptionBuffer[p].part # 0

(***************************************************************************)
(* The messages on top of the exchanges.  What the module has taken is the *)
(* message in hand up to the fragment of the telegram it acted on last.    *)
(***************************************************************************)
Acted == Cur(reply)

Fragments(kind, n, k) == [i \in 1 .. k |-> [kind |-> kind, n |-> n, i |-> i]]

TakenWhole == \/ taken = <<>>
              \/ \E kind \in {"cmd", "rsp"}, n \in Frags : taken = Fragments(kind, n, n)

InHandNone ==
  /\ abTransmissionBuffer.frag = NoFrag
  /\ IF Acted THEN taken = <<>> ELSE TakenWhole

InHandSome(w) ==
  /\ w.sent > 0
  /\ abTransmissionBuffer.frag = [kind |-> w.kind, n |-> w.n, i |-> w.sent]
  /\ taken = Fragments(w.kind, w.n, IF Acted THEN w.sent ELSE w.sent - 1)

MsgInv ==
  LET w == psWriteMsgBuffer
  IN /\ Waiting \/ Processing => IF w = NULL THEN InHandNone ELSE InHandSome(w)
     /\ eState = "SEND_TELEGRAM_WITH_MESSAGE" =>
          w # NULL /\ w.sent < w.n /\ taken = Fragments(w.kind, w.n, w.sent)
     /\ eState = "SEND_TELEGRAM_WITHOUT_MESSAGE" => w = NULL /\ TakenWhole
     /\ eState \in {"INIT", "INITIAL_HANDSHAKE", "IDLE"} => w = NULL /\ taken = <<>>

(***************************************************************************)
(* The other direction.  The driver has counted the fragments of the       *)
(* answers it handed up, which are those the module has sent of its        *)
(* message, except for the one under way.                                  *)
(***************************************************************************)
SentUp == out.size - out.left

UpInv ==
  /\ out.left <= out.size
  /\ IF reply.m THEN out.left < out.size ELSE out.left = 0
  /\ eState = "INIT" => ~reply.m
  /\ IF (Waiting \/ Processing) /\ Acted
     THEN IF reply.m THEN iNbrRecFrags = SentUp - 1 /\ (bLastStatusReg.m <=> SentUp > 1)
                     ELSE iNbrRecFrags = IF bLastStatusReg.m THEN out.size ELSE 0
     ELSE /\ bLastStatusReg.m = reply.m
          /\ iNbrRecFrags = IF reply.m THEN SentUp ELSE 0

(* A module that heeds the R-bit finds a buffer for its message: there was  *)
(* one when the telegram that allowed the message was built, and nothing    *)
(* but the end of this message takes one.                                   *)
ReadyInv ==
  /\ reply.m \/ bLastStatusReg.m => freeBufs > 0
  /\ Waiting /\ ~Acted /\ abTransmissionBuffer.r => freeBufs > 0

(***************************************************************************)
(* The watchdog that fired stays silent until an answer is accepted.       *)
(***************************************************************************)
WdInv ==
  /\ abcc_fWdTimeout => /\ eState = "WAIT_FOR_TELEGRAM" /\ fAbccWdToOccured
                        /\ ~timers["Wd"].on /\ ~fAbccWdTo
  /\ eState = "ABCC_COM_LOST" => running /\ ~timers["Wd"].on /\ ~abcc_fWdTimeout
=============================================================================
