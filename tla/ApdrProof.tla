----------------------------- MODULE ApdrProof -----------------------------
(***************************************************************************)
(* Proofs about the serial data link for every telegram and watchdog time, *)
(* poll period, FIFO size, number of fragments, and any sequence of lost   *)
(* telegrams and pieces: the types of its variables, and that it is the    *)
(* stop-and-wait channel of StopAndWait, on which messages go whole in both*)
(* directions, and that the loss of the module is reported once.           *)
(***************************************************************************)
EXTENDS ApdrSerial, TLAPS

-----------------------------------------------------------------------------
(* What the assumptions say of the constants, without their sets.          *)
LEMMA ConstantFacts ==
  /\ Ids \in Nat /\ Ids > 2
  /\ TelegramTime \in Nat /\ WdTime \in Nat /\ HsTime \in Nat
  /\ PollEvery \in Nat \ {0} /\ WireSize \in Nat \ {0}
  /\ RxSize \in Nat /\ RxSize >= 2 /\ Parts = 2
  /\ Frags \subseteq Nat \ {0} /\ FragsUp \subseteq Nat \ {0}
  /\ MaxQueued \in Nat /\ Bufs \in Nat \ {0}
  /\ Ready \subseteq BOOLEAN
BY ApdrAssumption DEF Parts

(* The next number is a number, and another one.                           *)
LEMMA NextNumber ==
  ASSUME NEW n \in 0 .. Ids - 1
  PROVE  (n + 1) % Ids \in 0 .. Ids - 1 /\ (n + 1) % Ids # n
<1>1. CASE n + 1 = Ids
  <2>1. (n + 1) % Ids = 0
    BY <1>1, ConstantFacts
  <2> QED BY <1>1, <2>1, ConstantFacts
<1>2. CASE n + 1 < Ids
  <2>1. (n + 1) % Ids = n + 1
    BY <1>2, ConstantFacts
  <2> QED BY <1>2, <2>1, ConstantFacts
<1> QED BY <1>1, <1>2, ConstantFacts

(* A sequence without its first element.                                   *)
LEMMA TailFacts ==
  ASSUME NEW S, NEW s \in Seq(S), s # <<>>
  PROVE  /\ Head(s) \in S /\ Head(s) = s[1] /\ Tail(s) \in Seq(S)
         /\ Len(s) \in Nat /\ Len(Tail(s)) = Len(s) - 1
         /\ \A i \in 1 .. Len(Tail(s)) : i + 1 \in 1 .. Len(s) /\ Tail(s)[i] = s[i + 1]
OBVIOUS

(* A sequence with one element more.                                       *)
LEMMA AppendFacts ==
  ASSUME NEW S, NEW s \in Seq(S), NEW x \in S
  PROVE  /\ Append(s, x) \in Seq(S) /\ Len(s) \in Nat /\ Len(Append(s, x)) = Len(s) + 1
         /\ \A i \in 1 .. Len(s) : Append(s, x)[i] = s[i]
         /\ Append(s, x)[Len(s) + 1] = x
OBVIOUS

(* The empty message and the answer before the first are of their types.   *)
LEMMA DataFacts ==
  /\ NULL \in Msg
  /\ NoFrag \in {NoFrag} \cup [kind : {"cmd", "rsp"}, n : Frags, i : Nat \ {0}]
  /\ Reset \in Answer /\ Rubbish \in Piece
  /\ \A a \in Answer : /\ Pieces(a) \in [1 .. Parts -> Piece]
                       /\ Pieces(a) \in Seq(Piece) /\ Len(Pieces(a)) = Parts
                       /\ Status(a) \in Stat
<1>1. NULL \in Msg /\ NoFrag \in {NoFrag} \cup [kind : {"cmd", "rsp"}, n : Frags, i : Nat \ {0}]
  BY DEF Msg
<1>2. Reset \in Answer
  BY ConstantFacts DEF Reset, Answer
<1>3. Rubbish \in Piece
  BY <1>2, ConstantFacts DEF Rubbish, Piece
<1>4. ASSUME NEW a \in Answer
      PROVE  /\ Pieces(a) \in [1 .. Parts -> Piece]
             /\ Pieces(a) \in Seq(Piece) /\ Len(Pieces(a)) = Parts
             /\ Status(a) \in Stat
  <2>1. Pieces(a) \in [1 .. Parts -> Piece]
    BY ConstantFacts DEF Pieces, Piece
  <2>2. Pieces(a) \in Seq(Piece) /\ Len(Pieces(a)) = Parts
    BY <2>1, ConstantFacts DEF Pieces
  <2>3. Status(a) \in Stat
    BY DEF Answer, Stat, Status
  <2> QED BY <2>1, <2>2, <2>3
<1> QED BY <1>1, <1>2, <1>3, <1>4

-----------------------------------------------------------------------------
(* The initial state is well typed.                                        *)
LEMMA TypeInit == Init => TypeOK
<1> SUFFICES ASSUME Init PROVE TypeOK
  OBVIOUS
<1>1. bLastStatusReg \in Stat /\ bCurrentStatusReg \in Stat
  BY DataFacts DEF Init
<1>2. abTransmissionBuffer \in Tel
  BY DataFacts, ConstantFacts DEF Init, Tel
<1>3. timers \in [Timer -> [left : Nat, on : BOOLEAN]]
  BY ConstantFacts DEF Init, Timer
<1>4. {fTelegramReceived, fAbccTelegramTo, fAbccWdTo, fInitHsTo, fAbccWdToOccured,
      running, abcc_fWdTimeout, late, healthy} \subseteq BOOLEAN
  BY ApdrAssumption DEF Init
<1>5. /\ pbReceptionBuffer \in [1 .. Parts -> Piece] /\ psWriteMsgBuffer \in Msg
      /\ reply \in Answer
  BY DataFacts DEF Init
<1>6. /\ rxFifo \in Seq(Piece) /\ Len(rxFifo) <= RxSize
      /\ cmdQueue \in Seq(Frags) /\ rspQueue \in Seq(Frags)
      /\ Len(cmdQueue) + Len(rspQueue) <= MaxQueued
      /\ toModule \in Seq(Tel) /\ Len(toModule) <= WireSize
      /\ fromModule \in Seq(Piece)
  BY ConstantFacts DEF Init
<1>7. /\ cnt \in 0 .. PollEvery - 1 /\ freeBufs \in 0 .. Bufs /\ handled \in 0 .. Ids - 1
      /\ out \in [left : Nat, size : Nat] /\ iNbrRecFrags \in Nat
      /\ eState \in State /\ bLastSentMsgType \in {"cmd", "rsp"}
  BY ConstantFacts DEF Init, State
<1> QED BY <1>1, <1>2, <1>3, <1>4, <1>5, <1>6, <1>7 DEF TypeOK

(* A new message, and one of which a fragment more is sent, are messages.   *)
LEMMA MsgFacts ==
  /\ \A kind \in {"cmd", "rsp"}, n \in Frags : [kind |-> kind, n |-> n, sent |-> 0] \in Msg
  /\ \A w \in Msg : [w EXCEPT !.sent = IF @ < w.n THEN @ + 1 ELSE w.n] \in Msg
<1>1. ASSUME NEW kind \in {"cmd", "rsp"}, NEW n \in Frags
      PROVE  [kind |-> kind, n |-> n, sent |-> 0] \in Msg
  <2> DEFINE w == [kind |-> kind, n |-> n, sent |-> 0]
  <2>1. n \in Nat
    BY ConstantFacts
  <2>2. w \in [kind : {"cmd", "rsp"}, n : Frags, sent : Nat] /\ w.sent <= w.n
    BY <2>1
  <2> QED BY <2>2 DEF Msg
<1>2. ASSUME NEW w \in Msg
      PROVE  [w EXCEPT !.sent = IF @ < w.n THEN @ + 1 ELSE w.n] \in Msg
  <2> DEFINE v == [w EXCEPT !.sent = IF @ < w.n THEN @ + 1 ELSE w.n]
  <2>1. CASE w = NULL
    <3>1. v = NULL
      BY <2>1 DEF NULL
    <3> QED BY <3>1 DEF Msg
  <2>2. CASE w # NULL
    <3>1. w \in [kind : {"cmd", "rsp"}, n : Frags, sent : Nat] /\ w.sent <= w.n /\ w.n \in Nat
      BY <2>2, ConstantFacts DEF Msg
    <3>2. v \in [kind : {"cmd", "rsp"}, n : Frags, sent : Nat] /\ v.sent <= v.n
      BY <3>1
    <3> QED BY <3>2 DEF Msg
  <2> QED BY <2>1, <2>2
<1> QED BY <1>1, <1>2

(* The operations of the UTIL timers keep them timers.                     *)
LEMMA TimerFacts ==
  ASSUME NEW tm \in [Timer -> [left : Nat, on : BOOLEAN]], NEW x \in Timer, NEW time \in Nat
  PROVE  /\ UTIL_ReloadTimer(tm, x, time) \in [Timer -> [left : Nat, on : BOOLEAN]]
         /\ UTIL_StartTimer(tm, x) \in [Timer -> [left : Nat, on : BOOLEAN]]
         /\ UTIL_StopTimer(tm, x) \in [Timer -> [left : Nat, on : BOOLEAN]]
BY DEF UTIL_ReloadTimer, UTIL_StartTimer, UTIL_StopTimer

(* A telegram goes to the line or is lost.                                 *)
LEMMA SendFacts ==
  ASSUME TypeOK, NEW telegram \in Tel, SYS_SendSerialTelegram(telegram)
  PROVE  /\ toModule' \in Seq(Tel) /\ Len(toModule') <= WireSize
         /\ late' \in BOOLEAN /\ UNCHANGED <<fromModule, healthy>>
<1>1. /\ toModule \in Seq(Tel) /\ Len(toModule) <= WireSize
      /\ Len(toModule) \in Nat /\ WireSize \in Nat
  BY ConstantFacts DEF TypeOK
<1>2. Append(toModule, telegram) \in Seq(Tel)
      /\ Len(Append(toModule, telegram)) = Len(toModule) + 1
  BY <1>1
<1>3. toModule' \in Seq(Tel) /\ Len(toModule') <= WireSize
  <2>1. CASE Len(toModule) < WireSize
    <3>1. toModule' = Append(toModule, telegram)
      BY <2>1 DEF SYS_SendSerialTelegram
    <3> QED BY <1>1, <1>2, <2>1, <3>1
  <2>2. CASE ~(Len(toModule) < WireSize)
    <3>1. toModule' = toModule
      BY <2>2 DEF SYS_SendSerialTelegram
    <3> QED BY <1>1, <3>1
  <2> QED BY <2>1, <2>2
<1> QED BY <1>3 DEF SYS_SendSerialTelegram

(***************************************************************************)
(* Type correctness is inductive; the actions of the state machine, then   *)
(* the others.                                                             *)
(***************************************************************************)
LEMMA TypeMachine ==
  ASSUME TypeOK, StateMachine
  PROVE  TypeOK'
<1>0. /\ timers \in [Timer -> [left : Nat, on : BOOLEAN]]
      /\ "Telegram" \in Timer /\ "Wd" \in Timer /\ "Hs" \in Timer
      /\ TelegramTime \in Nat /\ WdTime \in Nat /\ HsTime \in Nat
  BY ConstantFacts DEF TypeOK, Timer
<1> USE DEF TypeOK
<1>1. ASSUME SmInit PROVE TypeOK'
  <2>1. timers' \in [Timer -> [left : Nat, on : BOOLEAN]]
    <3> HIDE DEF TypeOK
    <3> QED BY <1>0, <1>1, TimerFacts DEF SmInit
  <2>2. abTransmissionBuffer' \in Tel
    BY <1>1 DEF SmInit, Tel
  <2>3. bLastStatusReg' \in Stat /\ psWriteMsgBuffer' \in Msg
    BY <1>1, DataFacts DEF SmInit
  <2> QED BY <1>1, <2>1, <2>2, <2>3 DEF SmInit, State, Return, Loop, polling, queues, upper, line, module
<1>2. ASSUME SmInitialHandshake PROVE TypeOK'
  <2>1. timers' \in [Timer -> [left : Nat, on : BOOLEAN]]
    <3>1. timers' = timers \/ timers' = UTIL_StopTimer(timers, "Hs")
      BY <1>2 DEF SmInitialHandshake
    <3> HIDE DEF TypeOK
    <3> QED BY <1>0, <3>1, TimerFacts
  <2> QED BY <1>2, <2>1 DEF SmInitialHandshake, State, Return, Loop, flags, link, sender, polling, queues, upper, line, module
<1>3. ASSUME SmSendWithMessage \/ SmSendWithoutMessage PROVE TypeOK'
  <2>1. PICK frag \in {NoFrag} \cup [kind : {"cmd", "rsp"}, n : Frags, i : Nat \ {0}] :
          SendTelegram(frag)
    <3>1. NextFrag(psWriteMsgBuffer) \in {NoFrag} \cup [kind : {"cmd", "rsp"}, n : Frags, i : Nat \ {0}]
      <4>1. CASE psWriteMsgBuffer.sent < psWriteMsgBuffer.n
        <5>1. psWriteMsgBuffer \in [kind : {"cmd", "rsp"}, n : Frags, sent : Nat]
          BY <4>1 DEF Msg, NULL
        <5>2. NextFrag(psWriteMsgBuffer) = [kind |-> psWriteMsgBuffer.kind, n |-> psWriteMsgBuffer.n,
                                            i |-> psWriteMsgBuffer.sent + 1]
          BY <4>1 DEF NextFrag
        <5> HIDE DEF TypeOK
        <5> QED BY <5>1, <5>2
      <4>2. CASE ~(psWriteMsgBuffer.sent < psWriteMsgBuffer.n)
        BY <4>2 DEF NextFrag, Tel
      <4> QED BY <4>1, <4>2
    <3> QED BY <1>3, <3>1, DataFacts DEF SmSendWithMessage, SmSendWithoutMessage
  <2>2. abTransmissionBuffer' \in Tel /\ SYS_SendSerialTelegram(abTransmissionBuffer')
    <3>1. (abTransmissionBuffer.id + 1) % Ids \in 0 .. Ids - 1
      BY NextNumber DEF Tel
    <3> QED BY <2>1, <3>1 DEF SendTelegram, Tel
  <2>3. /\ toModule' \in Seq(Tel) /\ Len(toModule') <= WireSize
        /\ late' \in BOOLEAN /\ UNCHANGED <<fromModule, healthy>>
    BY <2>2, SendFacts
  <2>4. timers' \in [Timer -> [left : Nat, on : BOOLEAN]]
    <3> HIDE DEF TypeOK
    <3> QED BY <1>0, <2>1, TimerFacts DEF SendTelegram
  <2>5. psWriteMsgBuffer' \in Msg
    BY <1>3, MsgFacts DEF SmSendWithMessage, SmSendWithoutMessage
  <2>6. eState' \in State /\ running' \in BOOLEAN
    BY <2>1 DEF SendTelegram, Return, State
  <2> QED BY <1>3, <2>2, <2>3, <2>4, <2>5, <2>6
         DEF SmSendWithMessage, SmSendWithoutMessage, flags, link, polling, queues, upper, module
<1>4. ASSUME WaitAccept PROVE TypeOK'
  <2>1. timers' \in [Timer -> [left : Nat, on : BOOLEAN]]
    <3> HIDE DEF TypeOK
    <3> QED BY <1>0, <1>4, TimerFacts DEF WaitAccept
  <2>2. bCurrentStatusReg' \in Stat
    <3>1. pbReceptionBuffer[1].answer \in Answer
      BY ConstantFacts DEF Piece
    <3> QED BY <1>4, <3>1, DataFacts DEF WaitAccept
  <2> QED BY <1>4, <2>1, <2>2 DEF WaitAccept, State, Loop, sender, polling, queues, line, module
<1>5. ASSUME WaitIgnore PROVE TypeOK'
  BY <1>5 DEF WaitIgnore, Loop, flags, sender, polling, queues, upper, line, module
<1>6. ASSUME Retransmit PROVE /\ toModule' \in Seq(Tel) /\ Len(toModule') <= WireSize
                              /\ late' \in BOOLEAN /\ UNCHANGED <<fromModule, healthy>>
                              /\ timers' \in [Timer -> [left : Nat, on : BOOLEAN]]
                              /\ running' = FALSE
  <2>1. abTransmissionBuffer \in Tel
    OBVIOUS
  <2> HIDE DEF TypeOK
  <2> QED BY <1>0, <1>6, <2>1, SendFacts, TimerFacts DEF Retransmit, Return
<1>7. ASSUME WaitTelegramTimeout PROVE TypeOK'
  BY <1>6, <1>7 DEF WaitTelegramTimeout, SYS_ReStartSerialComm, link, sender, queues, upper, module
<1>8. ASSUME WaitWdTimeout PROVE TypeOK'
  <2>1. timers' \in [Timer -> [left : Nat, on : BOOLEAN]]
    <3> HIDE DEF TypeOK
    <3> QED BY <1>0, <1>8, TimerFacts DEF WaitWdTimeout
  <2> QED BY <1>8, <2>1 DEF WaitWdTimeout, State, Loop, flags, link, sender, polling, queues, upper, line, module
<1>9. ASSUME WaitNothing \/ ProcessNoBuffer PROVE TypeOK'
  BY <1>9 DEF WaitNothing, ProcessNoBuffer, Return, flags, link, sender, polling, queues, upper, line, module
<1>10. ASSUME SmComLost PROVE TypeOK'
  BY <1>6, <1>10 DEF SmComLost, State, link, sender, polling, queues, module
<1>11. ASSUME SmProcess PROVE TypeOK'
  <2>1. freeBufs' \in 0 .. Bufs /\ iNbrRecFrags' \in Nat
    <3>1. freeBufs \in 0 .. Bufs /\ iNbrRecFrags \in Nat /\ Bufs \in Nat
      BY ConstantFacts
    <3>2. freeBufs' \in 0 .. Bufs
      <4>1. (Closes => freeBufs # 0) /\ freeBufs' = IF Closes THEN freeBufs - 1 ELSE freeBufs
        BY <1>11 DEF SmProcess
      <4> QED BY <3>1, <4>1
    <3>3. iNbrRecFrags' \in {iNbrRecFrags, iNbrRecFrags + 1, 0}
      BY <1>11 DEF SmProcess
    <3> QED BY <3>1, <3>2, <3>3
  <2>2. handled' \in 0 .. Ids - 1
    <3>1. pbReceptionBuffer[Parts] \in Piece
      BY ConstantFacts
    <3>2. pbReceptionBuffer[Parts].answer.id \in 0 .. Ids - 1
      BY <3>1 DEF Piece, Answer
    <3> QED BY <1>11, <3>2 DEF SmProcess
  <2>3. eState' \in State /\ psWriteMsgBuffer' \in Msg
    BY <1>11, DataFacts DEF SmProcess, AfterProcess, State
  <2> QED BY <1>11, <2>1, <2>2, <2>3 DEF SmProcess, Loop, flags, polling, queues, line, module
<1>12. ASSUME NEW kind \in {"cmd", "rsp"}, IdleMessage(kind) PROVE TypeOK'
  <2>1. timers' \in [Timer -> [left : Nat, on : BOOLEAN]]
    <3> HIDE DEF TypeOK
    <3> QED BY <1>0, <1>12, TimerFacts DEF IdleMessage
  <2>2. /\ cmdQueue' \in Seq(Frags) /\ rspQueue' \in Seq(Frags)
        /\ Len(cmdQueue') + Len(rspQueue') <= MaxQueued
        /\ psWriteMsgBuffer' \in Msg
    <3> DEFINE queue == IF kind = "cmd" THEN cmdQueue ELSE rspQueue
    <3>1. queue \in Seq(Frags) /\ queue # <<>>
      BY <1>12 DEF IdleMessage, Sends
    <3>2. Head(queue) \in Frags /\ Tail(queue) \in Seq(Frags) /\ Len(Tail(queue)) = Len(queue) - 1
      BY <3>1
    <3>3. [kind |-> kind, n |-> Head(queue), sent |-> 0] \in Msg
      BY <3>2, MsgFacts
    <3>4. Len(cmdQueue) \in Nat /\ Len(rspQueue) \in Nat
      OBVIOUS
    <3>5. psWriteMsgBuffer' \in Msg
      BY <1>12, <3>3 DEF IdleMessage
    <3>6. CASE kind = "cmd"
      <4>1. queue = cmdQueue /\ cmdQueue' = Tail(queue) /\ rspQueue' = rspQueue
        BY <1>12, <3>6 DEF IdleMessage
      <4>2. Len(cmdQueue') = Len(cmdQueue) - 1
        BY <3>2, <4>1
      <4> HIDE DEF queue
      <4> QED BY <3>2, <3>4, <3>5, <4>1, <4>2, ConstantFacts
    <3>7. CASE kind = "rsp"
      <4>1. queue = rspQueue /\ rspQueue' = Tail(queue) /\ cmdQueue' = cmdQueue
        BY <1>12, <3>7 DEF IdleMessage
      <4>2. Len(rspQueue') = Len(rspQueue) - 1
        BY <3>2, <4>1
      <4> HIDE DEF queue
      <4> QED BY <3>2, <3>4, <3>5, <4>1, <4>2, ConstantFacts
    <3> QED BY <3>6, <3>7
  <2> QED BY <1>12, <2>1, <2>2 DEF IdleMessage, State, Loop, flags, link, polling, upper, line, module
<1>13. ASSUME IdleNoMessage PROVE TypeOK'
  <2>1. timers' \in [Timer -> [left : Nat, on : BOOLEAN]]
    <3> HIDE DEF TypeOK
    <3> QED BY <1>0, <1>13, TimerFacts DEF IdleNoMessage
  <2> QED BY <1>13, <2>1 DEF IdleNoMessage, State, Loop, flags, link, sender, polling, queues, upper, line, module
<1> QED
  BY <1>1, <1>2, <1>3, <1>4, <1>5, <1>7, <1>8, <1>9, <1>10, <1>11, <1>12, <1>13
     DEF StateMachine

(* What arrives finds room, over the oldest piece if need be.              *)
LEMMA ArrivesFacts ==
  ASSUME TypeOK, NEW piece \in Piece, Arrives(piece)
  PROVE  rxFifo' \in Seq(Piece) /\ Len(rxFifo') <= RxSize
<1> DEFINE room == IF Len(rxFifo) = RxSize THEN Tail(rxFifo) ELSE rxFifo
<1>1. room \in Seq(Piece) /\ Len(room) \in Nat /\ Len(room) < RxSize
  <2>1. rxFifo \in Seq(Piece) /\ Len(rxFifo) \in Nat /\ Len(rxFifo) <= RxSize
        /\ RxSize \in Nat /\ RxSize >= 2
    BY ConstantFacts DEF TypeOK
  <2>2. CASE Len(rxFifo) = RxSize
    <3>1. Tail(rxFifo) \in Seq(Piece) /\ Len(Tail(rxFifo)) = Len(rxFifo) - 1
      BY <2>1, <2>2
    <3> QED BY <2>1, <2>2, <3>1
  <2>3. CASE Len(rxFifo) # RxSize
    BY <2>1, <2>3
  <2> QED BY <2>2, <2>3
<1>2. rxFifo' = Append(room, piece)
  BY DEF Arrives
<1> HIDE DEF room
<1>3. Append(room, piece) \in Seq(Piece) /\ Len(Append(room, piece)) = Len(room) + 1
  BY <1>1
<1> QED BY <1>1, <1>2, <1>3, ConstantFacts

(* The steps of the main loop, the application and the line keep the types. *)
LEMMA TypeOthers ==
  ASSUME TypeOK, anybus_service \/ anybus_timeout \/ Application \/ Line
                 \/ PieceSpoilt \/ PieceLost \/ TelegramLost \/ Repaired \/ UNCHANGED vars
  PROVE  TypeOK'
<1> USE DEF TypeOK
<1>1. ASSUME anybus_service \/ Repaired \/ UNCHANGED vars PROVE TypeOK'
  BY <1>1 DEF anybus_service, Repaired, vars, Loop, flags, link, sender, polling, queues,
              upper, line, module
<1>2. ASSUME anybus_timeout PROVE TypeOK'
  <2>1. timers' \in [Timer -> [left : Nat, on : BOOLEAN]]
    <3>1. timers' = [x \in Timer |-> IF Runs(x) THEN [timers[x] EXCEPT !.left = @ - 1]
                                                ELSE timers[x]]
      BY <1>2 DEF anybus_timeout, UTIL_RunTimerSystem
    <3>2. ASSUME NEW x \in Timer, Runs(x)
          PROVE  [timers[x] EXCEPT !.left = @ - 1] \in [left : Nat, on : BOOLEAN]
      <4>1. timers[x] \in [left : Nat, on : BOOLEAN] /\ timers[x].left # 0
        BY <3>2 DEF Runs
      <4> HIDE DEF TypeOK
      <4> QED BY <4>1
    <3> QED BY <3>1, <3>2
  <2>2. {fAbccTelegramTo', fAbccWdTo', fInitHsTo'} \subseteq BOOLEAN
    BY <1>2 DEF anybus_timeout, UTIL_RunTimerSystem, Expires, Runs
  <2>3. cnt' \in 0 .. PollEvery - 1
    <3>1. cnt' = (cnt + 1) % PollEvery
      BY <1>2 DEF anybus_timeout
    <3> QED BY <3>1, ConstantFacts
  <2>4. /\ rxFifo' \in Seq(Piece) /\ Len(rxFifo') <= RxSize
        /\ pbReceptionBuffer' \in [1 .. Parts -> Piece]
        /\ fTelegramReceived' \in BOOLEAN
    <3>1. CASE cnt = 0 /\ Len(rxFifo) >= Parts
      <4>1. /\ rxFifo' = <<>> /\ pbReceptionBuffer' = SubSeq(rxFifo, 1, Parts)
            /\ fTelegramReceived' = TRUE
        BY <1>2, <3>1 DEF anybus_timeout, Poll
      <4>2. SubSeq(rxFifo, 1, Parts) = [p \in 1 .. Parts |-> rxFifo[p]]
        BY <3>1, ConstantFacts
      <4>3. \A p \in 1 .. Parts : rxFifo[p] \in Piece
        BY <3>1, ConstantFacts
      <4>4. pbReceptionBuffer' \in [1 .. Parts -> Piece]
        BY <4>1, <4>2, <4>3
      <4>5. rxFifo' \in Seq(Piece) /\ Len(rxFifo') = 0
        BY <4>1
      <4> QED BY <4>1, <4>4, <4>5, ConstantFacts
    <3>2. CASE ~(cnt = 0 /\ Len(rxFifo) >= Parts)
      BY <1>2, <3>2 DEF anybus_timeout, Poll
    <3> QED BY <3>1, <3>2
  <2>5. late' \in BOOLEAN /\ running' \in BOOLEAN
    BY <1>2 DEF anybus_timeout, InFlight, Loop
  <2> QED BY <1>2, <2>1, <2>2, <2>3, <2>4, <2>5 DEF anybus_timeout, sender, queues, upper, module
<1>3. ASSUME NEW n \in Frags, QueueCommand(n) \/ QueueResponse(n) PROVE TypeOK'
  <2>1. /\ cmdQueue \in Seq(Frags) /\ rspQueue \in Seq(Frags)
        /\ Len(cmdQueue) \in Nat /\ Len(rspQueue) \in Nat /\ MaxQueued \in Nat
    BY AppendFacts, ConstantFacts
  <2>2. Len(cmdQueue) + Len(rspQueue) < MaxQueued
    BY <1>3 DEF QueueCommand, QueueResponse
  <2>3. \/ cmdQueue' = Append(cmdQueue, n) /\ rspQueue' = rspQueue
        \/ rspQueue' = Append(rspQueue, n) /\ cmdQueue' = cmdQueue
    BY <1>3 DEF QueueCommand, QueueResponse
  <2>4. /\ Append(cmdQueue, n) \in Seq(Frags) /\ Len(Append(cmdQueue, n)) = Len(cmdQueue) + 1
        /\ Append(rspQueue, n) \in Seq(Frags) /\ Len(Append(rspQueue, n)) = Len(rspQueue) + 1
    BY <2>1, AppendFacts
  <2> HIDE DEF TypeOK
  <2>5. /\ cmdQueue' \in Seq(Frags) /\ rspQueue' \in Seq(Frags)
        /\ Len(cmdQueue') + Len(rspQueue') <= MaxQueued
    <3>1. CASE cmdQueue' = Append(cmdQueue, n) /\ rspQueue' = rspQueue
      <4>1. Len(cmdQueue') = Len(cmdQueue) + 1 /\ Len(rspQueue') = Len(rspQueue)
        BY <2>4, <3>1
      <4>2. Len(cmdQueue') + Len(rspQueue') <= MaxQueued
        BY <2>1, <2>2, <4>1
      <4> QED BY <2>1, <2>4, <3>1, <4>2
    <3>2. CASE rspQueue' = Append(rspQueue, n) /\ cmdQueue' = cmdQueue
      <4>1. Len(rspQueue') = Len(rspQueue) + 1 /\ Len(cmdQueue') = Len(cmdQueue)
        BY <2>4, <3>2
      <4>2. Len(cmdQueue') + Len(rspQueue') <= MaxQueued
        BY <2>1, <2>2, <4>1
      <4> QED BY <2>1, <2>4, <3>2, <4>2
    <3> QED BY <2>3, <3>1, <3>2
  <2> QED BY <1>3, <2>5 DEF TypeOK, QueueCommand, QueueResponse, flags, link, sender, polling,
                            upper, line, module
<1>4. ASSUME ReturnBuffer PROVE TypeOK'
  <2>1. freeBufs' \in 0 .. Bufs
    BY <1>4, ConstantFacts DEF ReturnBuffer
  <2> QED BY <1>4, <2>1 DEF ReturnBuffer, flags, link, sender, polling, queues, line, module
<1>5. ASSUME ModuleReceives PROVE TypeOK'
  <2>1. Head(toModule) \in Tel /\ toModule' \in Seq(Tel) /\ Len(toModule') <= WireSize
    <3>1. /\ toModule \in Seq(Tel) /\ toModule # <<>> /\ toModule' = Tail(toModule)
          /\ Len(toModule) <= WireSize
      BY <1>5 DEF ModuleReceives
    <3>2. /\ Head(toModule) \in Tel /\ Tail(toModule) \in Seq(Tel)
          /\ Len(Tail(toModule)) = Len(toModule) - 1 /\ Len(toModule) \in Nat
      BY <3>1, TailFacts
    <3>3. WireSize \in Nat
      BY ConstantFacts
    <3>4. Len(toModule') <= WireSize
      <4> HIDE DEF TypeOK
      <4> QED BY <3>1, <3>2, <3>3
    <3> QED BY <3>1, <3>2, <3>4
  <2>2. reply' \in Answer /\ out' \in [left : Nat, size : Nat]
    <3>1. CASE Answers(Head(toModule))
      <4>1. PICK o \in Offers(Head(toModule)), r \in IF healthy THEN {TRUE} ELSE Ready :
              /\ out' = IF o.size = 0 THEN [out EXCEPT !.left = 0] ELSE o
              /\ reply' = [id |-> Head(toModule).id, t |-> Head(toModule).t,
                           m |-> o.size # 0, r |-> r]
        BY <3>1 DEF Answers
      <4>2. o \in [left : Nat, size : Nat]
        <5>1. CASE out.left > 0
          <6>1. o = [left |-> out.left - 1, size |-> out.size]
            BY <4>1, <5>1 DEF Offers
          <6> QED BY <5>1, <6>1
        <5>2. CASE ~(out.left > 0)
          <6>1. \/ o = [left |-> 0, size |-> 0]
                \/ \E n \in FragsUp : o = [left |-> n - 1, size |-> n]
            BY <4>1, <5>2 DEF Offers
          <6>2. \A n \in FragsUp : n \in Nat /\ n - 1 \in Nat
            BY ConstantFacts
          <6> QED BY <6>1, <6>2
        <5> QED BY <5>1, <5>2
      <4>3. r \in BOOLEAN
        BY ConstantFacts
      <4> QED BY <2>1, <4>1, <4>2, <4>3 DEF Tel, Answer
    <3>2. CASE UNCHANGED module
      BY <3>2 DEF module
    <3> QED BY <1>5, <3>1, <3>2 DEF ModuleReceives
  <2>3. fromModule' \in Seq(Piece)
    BY <1>5, <2>2, DataFacts DEF ModuleReceives
  <2> QED BY <1>5, <2>1, <2>2, <2>3 DEF ModuleReceives, flags, link, sender, polling, queues, upper
<1>6. ASSUME PieceArrives \/ PieceSpoilt \/ PieceLost PROVE TypeOK'
  <2>1. fromModule' \in Seq(Piece)
    <3>1. fromModule \in Seq(Piece) /\ fromModule # <<>> /\ fromModule' = Tail(fromModule)
      BY <1>6 DEF PieceArrives, PieceSpoilt, PieceLost
    <3> QED BY <3>1, TailFacts
  <2>2. rxFifo' \in Seq(Piece) /\ Len(rxFifo') <= RxSize
    <3>1. Head(fromModule) \in Piece
      BY <1>6 DEF PieceArrives, PieceSpoilt, PieceLost
    <3> QED BY <1>6, <3>1, DataFacts, ArrivesFacts DEF PieceArrives, PieceSpoilt, PieceLost, polling
  <2> QED BY <1>6, <2>1, <2>2 DEF PieceArrives, PieceSpoilt, PieceLost, flags, link, sender, polling,
                                  queues, upper, module
<1>7. ASSUME TelegramLost PROVE TypeOK'
  <2>1. toModule' \in Seq(Tel) /\ Len(toModule') <= WireSize
    <3>1. /\ toModule \in Seq(Tel) /\ toModule # <<>> /\ toModule' = Tail(toModule)
          /\ Len(toModule) <= WireSize
      BY <1>7 DEF TelegramLost
    <3>2. /\ Tail(toModule) \in Seq(Tel)
          /\ Len(Tail(toModule)) = Len(toModule) - 1 /\ Len(toModule) \in Nat
      BY <3>1, TailFacts
    <3> HIDE DEF TypeOK
    <3> QED BY <3>1, <3>2, ConstantFacts
  <2> QED BY <1>7, <2>1 DEF TelegramLost, flags, link, sender, polling, queues, upper, module
<1> QED BY <1>1, <1>2, <1>3, <1>4, <1>5, <1>6, <1>7 DEF Application, Line

(* Every step keeps the types.                                             *)
LEMMA TypeStep == TypeOK /\ [Next]_vars => TypeOK'
BY TypeMachine, TypeOthers DEF Next

(* Whatever is lost or repeated, the variables of the link keep their      *)
(* types: no FIFO, queue, fragment counter or buffer count leaves its      *)
(* bounds.                                                                 *)
THEOREM TypeCorrect == Spec => []TypeOK
BY TypeInit, TypeStep, PTL DEF Spec

-----------------------------------------------------------------------------
(***************************************************************************)
(* The stop-and-wait channel, over a line that loses, spoils and repeats.  *)
(***************************************************************************)

(* Two bits that both differ from a third are equal.                       *)
LEMMA TwoBits ==
  ASSUME NEW a \in BOOLEAN, NEW b \in BOOLEAN, NEW c \in BOOLEAN
  PROVE  a # c /\ b # c => a = b
OBVIOUS

(* The bits the invariant compares.                                        *)
LEMMA BitFacts ==
  ASSUME TypeOK
  PROVE  /\ abTransmissionBuffer.t \in BOOLEAN /\ bLastStatusReg.t \in BOOLEAN
         /\ bCurrentStatusReg.t \in BOOLEAN /\ reply.t \in BOOLEAN
         /\ \A i \in 1 .. Len(toModule) : toModule[i].t \in BOOLEAN
         /\ \A p \in 1 .. Parts : pbReceptionBuffer[p].answer.t \in BOOLEAN
         /\ handled \in 0 .. Ids - 1
<1>1. abTransmissionBuffer.t \in BOOLEAN /\ reply.t \in BOOLEAN /\ handled \in 0 .. Ids - 1
  BY DEF TypeOK, Tel, Answer
<1>2. bLastStatusReg.t \in BOOLEAN /\ bCurrentStatusReg.t \in BOOLEAN
  BY DEF TypeOK, Stat
<1>3. ASSUME NEW i \in 1 .. Len(toModule) PROVE toModule[i].t \in BOOLEAN
  <2>1. toModule[i] \in Tel
    BY DEF TypeOK
  <2> QED BY <2>1 DEF Tel
<1>4. ASSUME NEW p \in 1 .. Parts PROVE pbReceptionBuffer[p].answer.t \in BOOLEAN
  <2>1. pbReceptionBuffer[p] \in Piece
    BY DEF TypeOK
  <2> QED BY <2>1 DEF Piece, Answer
<1> QED BY <1>1, <1>2, <1>3, <1>4

(* No exchange has begun.                                                  *)
LEMMA LinkInit == Init => LinkInv
<1> SUFFICES ASSUME Init PROVE LinkInv
  OBVIOUS
<1>1. ~Waiting /\ ~Processing
  BY DEF Init, Waiting, Processing
<1>2. ExchangeInv
  BY <1>1 DEF Init, ExchangeInv, Cur, Reset, Status
<1>3. RequestsInv /\ AnswersInv /\ FifoInv
  BY DEF Init, RequestsInv, AnswersInv, FifoInv
<1>4. ReceivedInv
  BY <1>1 DEF Init, ReceivedInv
<1> QED BY <1>2, <1>3, <1>4 DEF LinkInv

(* What a step may do without touching the exchange under way.             *)
LEMMA Quiet ==
  ASSUME LinkInv,
         UNCHANGED <<abTransmissionBuffer, bLastStatusReg, bCurrentStatusReg,
                     reply, toModule, fromModule, rxFifo, pbReceptionBuffer>>,
         Waiting' <=> Waiting, Processing' <=> Processing,
         eState' = "INIT" => eState = "INIT",
         eState' = "ABCC_COM_LOST" => running' /\ ~fTelegramReceived',
         fTelegramReceived' => fTelegramReceived,
         Waiting /\ fTelegramReceived' => running'
  PROVE  LinkInv'
<1>1. ExchangeInv'
  BY DEF LinkInv, ExchangeInv, Cur, Prev
<1>2. RequestsInv' /\ AnswersInv'
  BY DEF LinkInv, RequestsInv, AnswersInv, Cur, Prev
<1>3. FifoInv' /\ ReceivedInv'
  BY DEF LinkInv, FifoInv, ReceivedInv, Known, Cur, Prev
<1> QED BY <1>1, <1>2, <1>3 DEF LinkInv

(* A new telegram turns all that is under way into what was before.        *)
LEMMA LinkSend ==
  ASSUME TypeOK, LinkInv, SmSendWithMessage \/ SmSendWithoutMessage
  PROVE  LinkInv'
<1> DEFINE tel == abTransmissionBuffer'
<1>1. PICK frag : SendTelegram(frag)
  BY DEF SmSendWithMessage, SmSendWithoutMessage
<1>2. /\ tel.id = (abTransmissionBuffer.id + 1) % Ids /\ tel.t = ~abTransmissionBuffer.t
      /\ eState' = "WAIT_FOR_TELEGRAM"
      /\ SYS_SendSerialTelegram(tel)
  BY <1>1 DEF SendTelegram
<1>3. UNCHANGED <<reply, bLastStatusReg, rxFifo, pbReceptionBuffer, fTelegramReceived>>
  BY DEF SmSendWithMessage, SmSendWithoutMessage, link, polling, module
<1>4. ~Waiting /\ ~Processing /\ Waiting' /\ ~Processing'
  BY <1>2 DEF SmSendWithMessage, SmSendWithoutMessage, Waiting, Processing
<1>5. bLastStatusReg.t = abTransmissionBuffer.t /\ Cur(reply)
  BY <1>4 DEF LinkInv, ExchangeInv
<1>6. tel.t # abTransmissionBuffer.t
  BY <1>2, BitFacts
<1>7. ASSUME NEW x, Cur(x) PROVE tel.id = (x.id + 1) % Ids /\ x.t # tel.t
  BY <1>2, <1>6, <1>7 DEF Cur
<1>8. ExchangeInv'
  BY <1>2, <1>3, <1>4, <1>5, <1>6, <1>7 DEF ExchangeInv, Waiting, Processing, Prev
<1>9. RequestsInv'
  <2>1. /\ toModule \in Seq(Tel) /\ tel \in Tel /\ Len(toModule) \in Nat
        /\ \A i \in 1 .. Len(toModule) : Cur(toModule[i])
    <3>1. tel \in Tel
      <4>1. TypeOK'
        BY TypeMachine DEF StateMachine
      <4> QED BY <4>1 DEF TypeOK
    <3> QED BY <1>4, <3>1 DEF TypeOK, LinkInv, RequestsInv, Cur
  <2>2. \A i \in 1 .. Len(toModule) : tel.id = (toModule[i].id + 1) % Ids
                                       /\ toModule[i].t # tel.t
    BY <1>7, <2>1
  <2>3. tel.id = (reply'.id + 1) % Ids /\ reply'.t # tel.t
    BY <1>3, <1>5, <1>7
  <2>4. CASE toModule' = toModule
    BY <1>4, <2>2, <2>3, <2>4 DEF RequestsInv, Cur, Prev
  <2>5. CASE toModule' = Append(toModule, tel)
    <3>1. /\ Len(toModule') = Len(toModule) + 1
          /\ \A i \in 1 .. Len(toModule) : toModule'[i] = toModule[i]
          /\ toModule'[Len(toModule) + 1] = tel
      BY <2>1, <2>5, AppendFacts
    <3> HIDE DEF tel
    <3>2. ASSUME NEW i \in 1 .. Len(toModule')
          PROVE  \/ /\ i \in 1 .. Len(toModule)
                    /\ tel.id = (toModule'[i].id + 1) % Ids /\ toModule'[i].t # tel.t
                 \/ i = Len(toModule') /\ toModule'[i] = tel
      BY <2>1, <2>2, <3>1
    <3> QED BY <1>4, <2>1, <2>3, <3>1, <3>2 DEF RequestsInv, Cur, Prev, tel
  <2> QED BY <1>2, <2>4, <2>5 DEF SYS_SendSerialTelegram
<1>10. AnswersInv'
  BY <1>2, <1>3 DEF LinkInv, AnswersInv, SYS_SendSerialTelegram
<1>11. ASSUME NEW piece, Known(piece)
       PROVE  IF piece.part = 0 THEN Spoils ELSE /\ tel.id = (piece.answer.id + 1) % Ids
                                                 /\ piece.answer.t # tel.t
  BY <1>4, <1>7, <1>11 DEF Known
<1>12. FifoInv'
  BY <1>3, <1>4, <1>11 DEF LinkInv, FifoInv, Known, Prev
<1>13. ReceivedInv'
  BY <1>3, <1>4, <1>11 DEF LinkInv, ReceivedInv, Known, Prev
<1> QED BY <1>8, <1>9, <1>10, <1>12, <1>13 DEF LinkInv

(* The same telegram goes out again.                                       *)
LEMMA LinkRetransmit ==
  ASSUME TypeOK, LinkInv, WaitTelegramTimeout \/ SmComLost
  PROVE  LinkInv'
<1>1. /\ UNCHANGED <<abTransmissionBuffer, bLastStatusReg, bCurrentStatusReg, handled, reply,
                     rxFifo, pbReceptionBuffer, fTelegramReceived>>
      /\ SYS_SendSerialTelegram(abTransmissionBuffer)
  BY DEF WaitTelegramTimeout, SmComLost, Retransmit, SYS_ReStartSerialComm, link, sender, polling,
         upper, module
<1>2. Waiting /\ ~Processing /\ Waiting' /\ ~Processing' /\ eState' = "WAIT_FOR_TELEGRAM"
      /\ ~fTelegramReceived
  BY DEF WaitTelegramTimeout, SmComLost, Waiting, Processing, LinkInv, ExchangeInv
<1>3. ExchangeInv'
  BY <1>1, <1>2 DEF LinkInv, ExchangeInv, Cur, Prev
<1>4. RequestsInv'
  <2>1. toModule \in Seq(Tel) /\ abTransmissionBuffer \in Tel /\ Len(toModule) \in Nat
    BY DEF TypeOK
  <2>2. CASE toModule' = toModule
    BY <1>1, <1>2, <2>2 DEF LinkInv, RequestsInv, Cur, Prev
  <2>3. CASE toModule' = Append(toModule, abTransmissionBuffer)
    <3>1. /\ Len(toModule') = Len(toModule) + 1
          /\ \A i \in 1 .. Len(toModule) : toModule'[i] = toModule[i]
          /\ toModule'[Len(toModule) + 1] = abTransmissionBuffer
      BY <2>1, <2>3, AppendFacts
    <3>2. \A i \in 1 .. Len(toModule') : i \in 1 .. Len(toModule) \/ i = Len(toModule) + 1
      BY <2>1, <3>1
    <3>3. RequestsInv
      BY DEF LinkInv
    <3>4. ASSUME NEW i \in 1 .. Len(toModule')
          PROVE  /\ \/ toModule'[i] = abTransmissionBuffer
                    \/ Prev(toModule'[i]) /\ Prev(reply)
                 /\ Cur(toModule'[i]) => \A j \in i .. Len(toModule') : Cur(toModule'[j])
      <4>1. CASE i \in 1 .. Len(toModule)
        <5>1. Cur(toModule[i]) => \A j \in i .. Len(toModule) : Cur(toModule[j])
          BY <3>3, <4>1 DEF RequestsInv
        <5>2. \A j \in i .. Len(toModule') : j \in i .. Len(toModule) \/ j = Len(toModule) + 1
          BY <2>1, <3>1, <4>1
        <5>3. \A j \in i .. Len(toModule) : toModule'[j] = toModule[j]
          BY <2>1, <3>1, <4>1
        <5> QED BY <3>1, <3>3, <4>1, <5>1, <5>2, <5>3 DEF RequestsInv, Cur
      <4>2. CASE i = Len(toModule) + 1
        <5>1. \A j \in i .. Len(toModule') : j = i
          BY <2>1, <3>1, <4>2
        <5> QED BY <3>1, <4>2, <5>1 DEF Cur
      <4> QED BY <3>2, <4>1, <4>2
    <3> QED BY <1>1, <1>2, <3>4 DEF RequestsInv, Cur, Prev
  <2> QED BY <1>1, <2>2, <2>3 DEF SYS_SendSerialTelegram
<1>5. AnswersInv' /\ FifoInv'
  BY <1>1, <1>2 DEF LinkInv, AnswersInv, FifoInv, Known, Cur, Prev, SYS_SendSerialTelegram
<1>6. ReceivedInv'
  BY <1>1, <1>2 DEF LinkInv, ReceivedInv
<1> QED BY <1>3, <1>4, <1>5, <1>6 DEF LinkInv

(* The answer is accepted: its T-bit is that of the telegram, nothing of   *)
(* the exchange before is left.                                            *)
LEMMA LinkAccept ==
  ASSUME TypeOK, LinkInv, WaitAccept
  PROVE  LinkInv'
<1>1. /\ UNCHANGED <<abTransmissionBuffer, bLastStatusReg, handled, reply, toModule, fromModule,
                     rxFifo, pbReceptionBuffer>>
      /\ bCurrentStatusReg' = Status(pbReceptionBuffer[1].answer)
      /\ ~fTelegramReceived' /\ eState' = "PROCESS_RECEIVED_TELEGRAM"
      /\ fTelegramReceived /\ IsAnswer
  BY DEF WaitAccept, sender, polling, line, module
<1>2. Waiting /\ ~Processing /\ ~Waiting' /\ Processing'
  BY <1>1 DEF WaitAccept, Waiting, Processing
<1> DEFINE answer == pbReceptionBuffer[1].answer
<1>3. answer.t = abTransmissionBuffer.t
  <2>1. bLastStatusReg.t # abTransmissionBuffer.t
    BY <1>2 DEF LinkInv, ExchangeInv
  <2>2. bLastStatusReg.t # answer.t
    BY <1>1 DEF IsAnswer
  <2>3. answer.t \in BOOLEAN /\ abTransmissionBuffer.t \in BOOLEAN /\ bLastStatusReg.t \in BOOLEAN
    BY BitFacts, ConstantFacts
  <2> HIDE DEF answer
  <2> QED BY <2>1, <2>2, <2>3, TwoBits
<1>4. \A p \in 1 .. Parts : pbReceptionBuffer[p].answer = answer /\ pbReceptionBuffer[p].part = p
  <2>1. pbReceptionBuffer = Pieces(answer)
    BY <1>1 DEF IsAnswer, CrcGood
  <2> HIDE DEF answer
  <2> QED BY <2>1 DEF Pieces
<1>5. answer = reply /\ Cur(reply)
  <2>1. Known(pbReceptionBuffer[1]) /\ pbReceptionBuffer[1].part # 0
    BY <1>1, <1>4, ConstantFacts DEF LinkInv, ReceivedInv
  <2> QED BY <1>3, <2>1 DEF Known, Prev
<1>6. rxFifo = <<>>
  <2>1. 1 \in 1 .. Parts /\ pbReceptionBuffer[1].part # 0 /\ ~Prev(answer)
    BY <1>3, <1>4, ConstantFacts DEF Prev
  <2> QED BY <1>1, <1>2, <2>1 DEF LinkInv, ReceivedInv
<1>7. ExchangeInv'
  BY <1>1, <1>2, <1>5 DEF LinkInv, ExchangeInv, Cur, Status
<1>8. RequestsInv'
  BY <1>1, <1>5 DEF LinkInv, RequestsInv, Cur, Prev
<1>9. AnswersInv' /\ FifoInv'
  BY <1>1, <1>6 DEF LinkInv, AnswersInv, FifoInv
<1>10. ReceivedInv'
  <2>1. \A p \in 1 .. Parts : Known(pbReceptionBuffer[p])'
    BY <1>1, <1>4, <1>5, ConstantFacts DEF Known, Cur
  <2> QED BY <1>1, <1>2, <2>1 DEF ReceivedInv
<1> QED BY <1>7, <1>8, <1>9, <1>10 DEF LinkInv

(* The answer is processed and closes the exchange.                        *)
LEMMA LinkProcess ==
  ASSUME TypeOK, LinkInv, SmProcess
  PROVE  LinkInv'
<1>1. /\ UNCHANGED <<abTransmissionBuffer, reply, toModule, fromModule, rxFifo,
                     pbReceptionBuffer, fTelegramReceived>>
      /\ bLastStatusReg' = bCurrentStatusReg
      /\ eState' \in {"SEND_TELEGRAM_WITH_MESSAGE", "SEND_TELEGRAM_WITHOUT_MESSAGE", "IDLE"}
  BY DEF SmProcess, AfterProcess, polling, line, module
<1>2. ~Waiting /\ Processing /\ ~Waiting' /\ ~Processing'
  BY <1>1 DEF SmProcess, Waiting, Processing
<1>3. Cur(reply)
  BY <1>2 DEF LinkInv, ExchangeInv
<1>4. ExchangeInv'
  BY <1>1, <1>2, <1>3 DEF LinkInv, ExchangeInv, Cur, Status
<1>5. RequestsInv' /\ AnswersInv'
  BY <1>1, <1>2 DEF LinkInv, RequestsInv, AnswersInv, Cur
<1>6. FifoInv' /\ ReceivedInv'
  BY <1>1, <1>2 DEF LinkInv, FifoInv, ReceivedInv, Known, Cur
<1> QED BY <1>4, <1>5, <1>6 DEF LinkInv

(* The other cases of the state machine.                                   *)
LEMMA LinkMachine ==
  ASSUME TypeOK, LinkInv, StateMachine
  PROVE  LinkInv'
<1>1. ASSUME SmInit PROVE LinkInv'
  <2>1. abTransmissionBuffer' = abTransmissionBuffer
    <3>1. abTransmissionBuffer.t = FALSE
      BY <1>1 DEF SmInit, LinkInv, ExchangeInv
    <3> QED BY <1>1, <3>1 DEF SmInit, TypeOK, Tel
  <2>2. UNCHANGED <<handled, reply, toModule, fromModule, rxFifo, pbReceptionBuffer>>
        /\ ~fTelegramReceived' /\ eState' = "INITIAL_HANDSHAKE"
        /\ bLastStatusReg'.t = FALSE
    BY <1>1 DEF SmInit, polling, upper, line, module, Status, Reset
  <2>3. ~Waiting /\ ~Processing /\ ~Waiting' /\ ~Processing'
    BY <1>1, <2>2 DEF SmInit, Waiting, Processing
  <2>4. ExchangeInv'
    BY <1>1, <2>1, <2>2, <2>3 DEF SmInit, LinkInv, ExchangeInv, Cur
  <2>5. RequestsInv' /\ AnswersInv' /\ FifoInv' /\ ReceivedInv'
    BY <2>1, <2>2, <2>3 DEF LinkInv, RequestsInv, AnswersInv, FifoInv, ReceivedInv, Known, Cur
  <2> QED BY <2>4, <2>5 DEF LinkInv
<1>2. ASSUME SmInitialHandshake PROVE LinkInv'
  BY <1>2, Quiet DEF SmInitialHandshake, Waiting, Processing, link, sender, polling, upper, line, module
<1>3. ASSUME SmSendWithMessage \/ SmSendWithoutMessage PROVE LinkInv'
  BY <1>3, LinkSend
<1>4. ASSUME WaitAccept PROVE LinkInv'
  BY <1>4, LinkAccept
<1>5. ASSUME WaitIgnore PROVE LinkInv'
  <2>1. /\ UNCHANGED <<eState, abTransmissionBuffer, bLastStatusReg, bCurrentStatusReg, handled,
                       reply, toModule, fromModule, rxFifo, pbReceptionBuffer>>
        /\ running' /\ ~fTelegramReceived'
    BY <1>5 DEF WaitIgnore, Loop, sender, polling, upper, line, module
  <2> QED BY <2>1, Quiet DEF Waiting, Processing
<1>6. ASSUME WaitTelegramTimeout \/ SmComLost PROVE LinkInv'
  BY <1>6, LinkRetransmit
<1>7. ASSUME WaitWdTimeout \/ WaitNothing PROVE LinkInv'
  <2>1. /\ UNCHANGED <<abTransmissionBuffer, bLastStatusReg, bCurrentStatusReg, handled,
                       reply, toModule, fromModule, rxFifo, pbReceptionBuffer, fTelegramReceived>>
        /\ ~fTelegramReceived /\ eState = "WAIT_FOR_TELEGRAM"
        /\ \/ eState' = "ABCC_COM_LOST" /\ running'
           \/ eState' = "WAIT_FOR_TELEGRAM"
    BY <1>7 DEF WaitWdTimeout, WaitNothing, Loop, link, sender, polling, upper, line, module
  <2> QED BY <2>1, Quiet DEF Waiting, Processing
<1>8. ASSUME ProcessNoBuffer PROVE LinkInv'
  <2>1. /\ UNCHANGED <<eState, abTransmissionBuffer, bLastStatusReg, bCurrentStatusReg, handled,
                       reply, toModule, fromModule, rxFifo, pbReceptionBuffer, fTelegramReceived>>
        /\ eState = "PROCESS_RECEIVED_TELEGRAM"
    BY <1>8 DEF ProcessNoBuffer, link, sender, polling, upper, line, module
  <2> QED BY <2>1, Quiet DEF Waiting, Processing
<1>9. ASSUME SmProcess PROVE LinkInv'
  BY <1>9, LinkProcess
<1>10. ASSUME NEW kind \in {"cmd", "rsp"}, IdleMessage(kind) \/ IdleNoMessage PROVE LinkInv'
  <2>1. /\ UNCHANGED <<abTransmissionBuffer, bLastStatusReg, bCurrentStatusReg, handled,
                       reply, toModule, fromModule, rxFifo, pbReceptionBuffer, fTelegramReceived>>
        /\ eState = "IDLE"
        /\ eState' \in {"SEND_TELEGRAM_WITH_MESSAGE", "SEND_TELEGRAM_WITHOUT_MESSAGE"}
    BY <1>10 DEF IdleMessage, IdleNoMessage, link, sender, polling, upper, line, module
  <2> QED BY <2>1, Quiet DEF Waiting, Processing
<1> QED
  BY <1>1, <1>2, <1>3, <1>4, <1>5, <1>6, <1>7, <1>8, <1>9, <1>10 DEF StateMachine

(* The module acts on a telegram it has not seen, or repeats its answer.   *)
LEMMA ModuleActs ==
  ASSUME TypeOK, LinkInv, ModuleReceives, Head(toModule).t # reply.t
  PROVE  /\ Waiting /\ Prev(reply) /\ ~Cur(reply)
         /\ Head(toModule) = abTransmissionBuffer
         /\ \A i \in 1 .. Len(toModule) : toModule[i] = abTransmissionBuffer
         /\ reply'.id = abTransmissionBuffer.id /\ reply'.t = abTransmissionBuffer.t
         /\ Answers(abTransmissionBuffer)
<1>1. toModule \in Seq(Tel) /\ toModule # <<>> /\ 1 \in 1 .. Len(toModule)
      /\ Head(toModule) = toModule[1]
  BY DEF ModuleReceives, TypeOK
<1>2. \/ toModule[1] = abTransmissionBuffer
      \/ Prev(toModule[1]) /\ Prev(reply)
  BY <1>1 DEF LinkInv, RequestsInv
<1>3. ~Cur(reply)
  <2>1. CASE toModule[1] = abTransmissionBuffer
    BY <1>1, <2>1 DEF Cur
  <2>2. CASE Prev(reply)
    BY <2>2 DEF Cur, Prev
  <2> QED BY <1>2, <2>1, <2>2
<1>4. Waiting /\ Prev(reply)
  BY <1>3 DEF LinkInv, ExchangeInv
<1>5. toModule[1].t = abTransmissionBuffer.t
  <2>1. toModule[1].t # reply.t /\ abTransmissionBuffer.t # reply.t
    BY <1>1, <1>4 DEF Prev
  <2> QED BY <1>1, <2>1, BitFacts, TwoBits
<1>6. toModule[1] = abTransmissionBuffer /\ Cur(toModule[1])
  BY <1>2, <1>5 DEF Prev, Cur
<1>7. \A i \in 1 .. Len(toModule) : toModule[i] = abTransmissionBuffer
  <2>1. \A i \in 1 .. Len(toModule) : Cur(toModule[i])
    BY <1>1, <1>6 DEF LinkInv, RequestsInv
  <2> QED BY <2>1 DEF LinkInv, RequestsInv, Cur, Prev
<1>8. reply'.id = Head(toModule).id /\ reply'.t = Head(toModule).t
  <2>1. Answers(Head(toModule))
    BY DEF ModuleReceives
  <2>2. PICK o, r : reply' = [id |-> Head(toModule).id, t |-> Head(toModule).t,
                              m |-> o.size # 0, r |-> r]
    BY <2>1 DEF Answers
  <2> QED BY <2>2
<1> QED BY <1>1, <1>3, <1>4, <1>6, <1>7, <1>8 DEF ModuleReceives

(* Requests stay in order when the first of them is gone.                  *)
LEMMA RequestsTail ==
  ASSUME TypeOK, RequestsInv, toModule # <<>>, toModule' = Tail(toModule)
  PROVE  \A i \in 1 .. Len(toModule') :
           /\ toModule'[i] = abTransmissionBuffer \/ (Waiting /\ Prev(toModule'[i]) /\ Prev(reply))
           /\ Cur(toModule'[i]) => \A j \in i .. Len(toModule') : Cur(toModule'[j])
<1>1. /\ Len(toModule) \in Nat /\ Len(toModule') = Len(toModule) - 1
      /\ \A i \in 1 .. Len(toModule') : i + 1 \in 1 .. Len(toModule)
                                        /\ toModule'[i] = toModule[i + 1]
  BY TailFacts DEF TypeOK
<1> SUFFICES ASSUME NEW i \in 1 .. Len(toModule')
             PROVE  /\ toModule'[i] = abTransmissionBuffer \/ (Waiting /\ Prev(toModule'[i]) /\ Prev(reply))
                    /\ Cur(toModule'[i]) => \A j \in i .. Len(toModule') : Cur(toModule'[j])
  OBVIOUS
<1>2. /\ toModule[i + 1] = abTransmissionBuffer \/ (Waiting /\ Prev(toModule[i + 1]) /\ Prev(reply))
      /\ Cur(toModule[i + 1]) => \A j \in i + 1 .. Len(toModule) : Cur(toModule[j])
  BY <1>1 DEF RequestsInv
<1>3. \A j \in i .. Len(toModule') : /\ j \in 1 .. Len(toModule')
                                     /\ j + 1 \in i + 1 .. Len(toModule)
  BY <1>1
<1> QED BY <1>1, <1>2, <1>3

(* What the FIFO holds stays known when a known piece arrives.             *)
LEMMA ArrivesKnown ==
  ASSUME TypeOK, FifoInv, NEW piece \in Piece, Known(piece),
         rxFifo' = rxFifo \/ Arrives(piece)
  PROVE  \A i \in 1 .. Len(rxFifo') : Known(rxFifo'[i])
<1> DEFINE room == IF Len(rxFifo) = RxSize THEN Tail(rxFifo) ELSE rxFifo
<1>1. rxFifo \in Seq(Piece) /\ \A i \in 1 .. Len(rxFifo) : Known(rxFifo[i])
  BY DEF TypeOK, FifoInv
<1>2. CASE rxFifo' = rxFifo
  BY <1>1, <1>2
<1>3. CASE rxFifo' = Append(room, piece)
  <2>1. room \in Seq(Piece) /\ \A i \in 1 .. Len(room) : Known(room[i])
    <3>1. CASE Len(rxFifo) = RxSize
      <4>1. rxFifo # <<>>
        BY <3>1, ConstantFacts
      <4>2. /\ Tail(rxFifo) \in Seq(Piece)
            /\ \A i \in 1 .. Len(Tail(rxFifo)) : i + 1 \in 1 .. Len(rxFifo)
                                                /\ Tail(rxFifo)[i] = rxFifo[i + 1]
        BY <1>1, <4>1, TailFacts
      <4> QED BY <1>1, <3>1, <4>2
    <3>2. CASE Len(rxFifo) # RxSize
      BY <1>1, <3>2
    <3> QED BY <3>1, <3>2
  <2> HIDE DEF room
  <2>2. /\ Len(room) \in Nat /\ Len(rxFifo') = Len(room) + 1
        /\ \A i \in 1 .. Len(room) : rxFifo'[i] = room[i]
        /\ rxFifo'[Len(room) + 1] = piece
    BY <1>3, <2>1, AppendFacts
  <2>3. \A i \in 1 .. Len(rxFifo') : i \in 1 .. Len(room) \/ i = Len(room) + 1
    BY <2>2
  <2> QED BY <2>1, <2>2, <2>3
<1> QED BY <1>2, <1>3 DEF Arrives

(* Both keep the invariant.                                                *)
LEMMA LinkModule ==
  ASSUME TypeOK, LinkInv, ModuleReceives
  PROVE  LinkInv'
<1>1. /\ UNCHANGED <<eState, abTransmissionBuffer, bLastStatusReg, bCurrentStatusReg, handled,
                     rxFifo, pbReceptionBuffer, fTelegramReceived, running>>
      /\ toModule' = Tail(toModule) /\ fromModule' = Pieces(reply')
  BY DEF ModuleReceives, link, sender, polling, upper
<1>2. (Waiting' <=> Waiting) /\ (Processing' <=> Processing)
  BY <1>1 DEF Waiting, Processing
<1>3. /\ Len(toModule) \in Nat /\ Len(toModule') = Len(toModule) - 1
      /\ \A i \in 1 .. Len(toModule') : i + 1 \in 1 .. Len(toModule)
                                        /\ toModule'[i] = toModule[i + 1]
  BY <1>1, TailFacts DEF TypeOK, ModuleReceives
<1>4. AnswersInv'
  <2>1. \A i \in 1 .. Len(fromModule') :
          fromModule'[i].answer = reply' /\ fromModule'[i].part # 0
    BY <1>1, ConstantFacts DEF Pieces
  <2> QED BY <2>1 DEF AnswersInv
<1>5. CASE reply' = reply
  <2>1. ExchangeInv'
    BY <1>1, <1>2, <1>5 DEF LinkInv, ExchangeInv, Cur, Prev
  <2>2. RequestsInv'
    <3>1. \A i \in 1 .. Len(toModule') :
            /\ toModule'[i] = abTransmissionBuffer \/ (Waiting /\ Prev(toModule'[i]) /\ Prev(reply))
            /\ Cur(toModule'[i]) => \A j \in i .. Len(toModule') : Cur(toModule'[j])
      BY <1>1, RequestsTail DEF LinkInv, ModuleReceives
    <3> QED BY <1>1, <1>2, <1>5, <3>1 DEF RequestsInv, Cur, Prev
  <2>3. FifoInv' /\ ReceivedInv'
    BY <1>1, <1>2, <1>5 DEF LinkInv, FifoInv, ReceivedInv, Known, Cur, Prev
  <2> QED BY <1>4, <2>1, <2>2, <2>3 DEF LinkInv
<1>6. CASE Head(toModule).t # reply.t
  <2>1. Waiting /\ (\A i \in 1 .. Len(toModule) : toModule[i] = abTransmissionBuffer)
        /\ reply'.id = abTransmissionBuffer.id /\ reply'.t = abTransmissionBuffer.t
        /\ ~Cur(reply)
    BY <1>6, ModuleActs
  <2>2. ExchangeInv'
    <3>1. ~Processing
      BY <2>1 DEF Waiting, Processing
    <3> QED BY <1>1, <1>2, <2>1, <3>1 DEF LinkInv, ExchangeInv, Cur
  <2>3. RequestsInv'
    <3>1. \A i \in 1 .. Len(toModule') : toModule'[i] = abTransmissionBuffer
      BY <1>3, <2>1
    <3>2. \A i \in 1 .. Len(toModule') : \A j \in i .. Len(toModule') : j \in 1 .. Len(toModule')
      BY <1>3
    <3> QED BY <1>1, <3>1, <3>2 DEF RequestsInv, Cur
  <2>4. ASSUME NEW piece, Known(piece) PROVE Known(piece)'
    BY <1>1, <1>2, <2>1, <2>4 DEF Known, Cur, Prev
  <2>5. FifoInv' /\ ReceivedInv'
    <3>1. FifoInv'
      BY <1>1, <2>4 DEF LinkInv, FifoInv
    <3>2. \A p \in 1 .. Parts : Prev(pbReceptionBuffer[p].answer)
                                => Prev(pbReceptionBuffer[p].answer)'
      BY <1>1 DEF Prev
    <3>3. ReceivedInv'
      BY <1>1, <1>2, <2>4, <3>2 DEF LinkInv, ReceivedInv
    <3> QED BY <3>1, <3>3
  <2> QED BY <1>4, <2>2, <2>3, <2>5 DEF LinkInv
<1> QED BY <1>5, <1>6 DEF ModuleReceives, module

(* The steps of the main loop, the application and the line.               *)
LEMMA LinkOthers ==
  ASSUME TypeOK, LinkInv,
         anybus_service \/ anybus_timeout \/ Application \/ Line
         \/ PieceSpoilt \/ PieceLost \/ TelegramLost \/ Repaired \/ UNCHANGED vars
  PROVE  LinkInv'
<1>1. ASSUME anybus_service \/ Application \/ Repaired \/ UNCHANGED vars PROVE LinkInv'
  <2>1. /\ UNCHANGED <<eState, abTransmissionBuffer, bLastStatusReg, bCurrentStatusReg, handled,
                       reply, toModule, fromModule, rxFifo, pbReceptionBuffer,
                       fTelegramReceived>>
        /\ running => running'
    BY <1>1 DEF anybus_service, Application, QueueCommand, QueueResponse, ReturnBuffer, Repaired,
                vars, Loop, flags, link, sender, polling, upper, line, module
  <2>2. CASE running' \/ ~fTelegramReceived
    BY <2>1, <2>2, Quiet DEF Waiting, Processing, LinkInv, ExchangeInv
  <2>3. CASE ~running' /\ fTelegramReceived
    <3>1. ~running
      BY <2>1, <2>3
    <3>2. (Waiting' <=> Waiting) /\ (Processing' <=> Processing)
      BY <2>1 DEF Waiting, Processing
    <3>3. ExchangeInv'
      BY <2>1, <3>1, <3>2 DEF LinkInv, ExchangeInv, Cur, Prev
    <3>4. RequestsInv' /\ AnswersInv' /\ FifoInv' /\ ReceivedInv'
      BY <2>1, <3>1, <3>2 DEF LinkInv, RequestsInv, AnswersInv, FifoInv, ReceivedInv, Known, Cur,
                              Prev
    <3> QED BY <3>3, <3>4 DEF LinkInv
  <2> QED BY <2>2, <2>3
<1>2. ASSUME anybus_timeout PROVE LinkInv'
  <2>1. /\ UNCHANGED <<eState, abTransmissionBuffer, bLastStatusReg, bCurrentStatusReg, handled,
                       reply, toModule, fromModule>>
        /\ ~running /\ running' = TRUE
    BY <1>2 DEF anybus_timeout, Loop, sender, upper, module
  <2>2. (Waiting' <=> Waiting) /\ (Processing' <=> Processing)
    BY <2>1 DEF Waiting, Processing
  <2>3. ExchangeInv'
    BY <2>1, <2>2 DEF LinkInv, ExchangeInv, Cur, Prev
  <2>4. RequestsInv' /\ AnswersInv'
    BY <2>1, <2>2 DEF LinkInv, RequestsInv, AnswersInv, Cur, Prev
  <2>5. CASE cnt = 0 /\ Len(rxFifo) >= Parts
    <3>1. rxFifo' = <<>> /\ pbReceptionBuffer' = SubSeq(rxFifo, 1, Parts)
      BY <1>2, <2>5 DEF anybus_timeout, Poll
    <3>2. \A p \in 1 .. Parts : p \in 1 .. Len(rxFifo) /\ pbReceptionBuffer'[p] = rxFifo[p]
      BY <2>5, <3>1, ConstantFacts DEF TypeOK
    <3>3. \A p \in 1 .. Parts : Known(pbReceptionBuffer[p])'
      BY <2>1, <2>2, <3>2 DEF LinkInv, FifoInv, Known, Cur, Prev
    <3>4. FifoInv' /\ ReceivedInv'
      <4>1. FifoInv'
        BY <3>1 DEF FifoInv
      <4>2. ReceivedInv'
        BY <2>1, <3>1, <3>3, Zenon DEF ReceivedInv
      <4> QED BY <4>1, <4>2
    <3> QED BY <2>3, <2>4, <3>4 DEF LinkInv
  <2>6. CASE ~(cnt = 0 /\ Len(rxFifo) >= Parts)
    <3>1. UNCHANGED <<rxFifo, pbReceptionBuffer, fTelegramReceived>>
      BY <1>2, <2>6 DEF anybus_timeout, Poll
    <3>2. FifoInv' /\ ReceivedInv'
      BY <2>1, <2>2, <3>1 DEF LinkInv, FifoInv, ReceivedInv, Known, Cur, Prev
    <3> QED BY <2>3, <2>4, <3>2 DEF LinkInv
  <2> QED BY <2>5, <2>6
<1>3. ASSUME ModuleReceives PROVE LinkInv'
  BY <1>3, LinkModule
<1>4. ASSUME PieceArrives \/ PieceSpoilt \/ PieceLost PROVE LinkInv'
  <2> DEFINE piece == IF PieceSpoilt THEN Rubbish ELSE Head(fromModule)
  <2>1. /\ UNCHANGED <<eState, abTransmissionBuffer, bLastStatusReg, bCurrentStatusReg, handled,
                       reply, toModule, pbReceptionBuffer, fTelegramReceived, running>>
        /\ ~running
        /\ fromModule # <<>> /\ fromModule' = Tail(fromModule)
        /\ rxFifo' = rxFifo \/ Arrives(piece)
        /\ PieceSpoilt => Spoils
    BY <1>4 DEF PieceArrives, PieceSpoilt, PieceLost, link, sender, polling, upper, module
  <2>2. (Waiting' <=> Waiting) /\ (Processing' <=> Processing)
    BY <2>1 DEF Waiting, Processing
  <2>3. ExchangeInv' /\ RequestsInv'
    BY <2>1, <2>2 DEF LinkInv, ExchangeInv, RequestsInv, Cur, Prev
  <2>4. /\ Head(fromModule) \in Piece /\ Head(fromModule) = fromModule[1]
        /\ 1 \in 1 .. Len(fromModule)
        /\ \A i \in 1 .. Len(fromModule') : i + 1 \in 1 .. Len(fromModule)
                                            /\ fromModule'[i] = fromModule[i + 1]
    <3>1. fromModule \in Seq(Piece)
      BY DEF TypeOK
    <3> QED BY <2>1, <3>1, TailFacts
  <2>5. AnswersInv'
    BY <2>1, <2>4 DEF LinkInv, AnswersInv
  <2>6. \A i \in 1 .. Len(rxFifo') : Known(rxFifo'[i])
    <3>1. CASE PieceSpoilt
      <4>1. Rubbish \in Piece /\ Known(Rubbish)
        BY <2>1, <3>1, ConstantFacts DEF Known, Rubbish, Reset, Piece, Answer
      <4> QED BY <2>1, <3>1, <4>1, ArrivesKnown DEF LinkInv
    <3>2. CASE ~PieceSpoilt
      <4>1. fromModule[1].answer = reply /\ fromModule[1].part # 0
        BY <2>4 DEF LinkInv, AnswersInv
      <4>2. Known(Head(fromModule))
        BY <2>4, <4>1 DEF LinkInv, ExchangeInv, Known
      <4> QED BY <2>1, <2>4, <3>2, <4>2, ArrivesKnown DEF LinkInv
    <3> QED BY <3>1, <3>2
  <2>7. FifoInv' /\ ReceivedInv'
    BY <2>1, <2>2, <2>6 DEF LinkInv, FifoInv, ReceivedInv, Known, Cur, Prev
  <2> QED BY <2>3, <2>5, <2>7 DEF LinkInv
<1>5. ASSUME TelegramLost PROVE LinkInv'
  <2>1. /\ UNCHANGED <<eState, abTransmissionBuffer, bLastStatusReg, bCurrentStatusReg, handled,
                       reply, fromModule, rxFifo, pbReceptionBuffer, fTelegramReceived, running>>
        /\ toModule # <<>> /\ toModule' = Tail(toModule)
    BY <1>5 DEF TelegramLost, link, sender, polling, upper, module
  <2>2. (Waiting' <=> Waiting) /\ (Processing' <=> Processing)
    BY <2>1 DEF Waiting, Processing
  <2>3. ExchangeInv' /\ AnswersInv' /\ FifoInv' /\ ReceivedInv'
    BY <2>1, <2>2 DEF LinkInv, ExchangeInv, AnswersInv, FifoInv, ReceivedInv, Known, Cur, Prev
  <2>4. RequestsInv'
    BY <2>1, <2>2, RequestsTail DEF LinkInv, RequestsInv, Cur, Prev
  <2> QED BY <2>3, <2>4 DEF LinkInv
<1> QED BY <1>1, <1>2, <1>3, <1>4, <1>5 DEF Line

(* Every step keeps the invariant.                                         *)
LEMMA LinkStep ==
  ASSUME TypeOK, LinkInv, [Next]_vars
  PROVE  LinkInv'
BY LinkMachine, LinkOthers DEF Next

(***************************************************************************)
(* Every step of the link is a step of the channel or leaves its variables *)
(* alone: sending a new telegram issues, the module that sees a toggled    *)
(* T-bit acts, processing the answer handles.                              *)
(***************************************************************************)
LEMMA ChannelInit == Init => Link!Init
BY DEF Init, Link!Init, Reset

(* A new telegram issues the next exchange: the previous one is closed.    *)
LEMMA ChannelIssue ==
  ASSUME HandledInv, SmSendWithMessage \/ SmSendWithoutMessage
  PROVE  Link!Issue
<1>1. PICK frag : SendTelegram(frag)
  BY DEF SmSendWithMessage, SmSendWithoutMessage
<1>2. ~Waiting /\ ~Processing
  BY DEF SmSendWithMessage, SmSendWithoutMessage, Waiting, Processing
<1>3. UNCHANGED <<reply, handled>>
  BY DEF SmSendWithMessage, SmSendWithoutMessage, upper, module
<1> QED BY <1>1, <1>2, <1>3 DEF SendTelegram, HandledInv, Link!Issue, Link!Succ

(* The module acts on a telegram with a toggled T-bit, and on no other.    *)
LEMMA ChannelAct ==
  ASSUME TypeOK, LinkInv, ModuleReceives
  PROVE  Link!Act \/ UNCHANGED Link!vars
<1>1. UNCHANGED <<abTransmissionBuffer, handled>>
  BY DEF ModuleReceives, sender, upper
<1>2. CASE Head(toModule).t # reply.t
  <2>1. Waiting /\ Prev(reply) /\ reply'.id = abTransmissionBuffer.id
    BY <1>2, ModuleActs
  <2>2. abTransmissionBuffer.id = (reply.id + 1) % Ids /\ (reply.id + 1) % Ids # reply.id
    BY <2>1, NextNumber DEF TypeOK, Answer, Prev
  <2> QED BY <1>1, <2>1, <2>2 DEF Link!Act
<1>3. CASE UNCHANGED reply
  BY <1>1, <1>3 DEF Link!vars
<1> QED BY <1>2, <1>3 DEF ModuleReceives, module

(* What is processed is the answer to the telegram issued last.            *)
LEMMA ProcessedIsAnswer ==
  ASSUME TypeOK, LinkInv, HandledInv, SmProcess
  PROVE  /\ UNCHANGED <<abTransmissionBuffer, reply>>
         /\ handled' = abTransmissionBuffer.id /\ handled' = reply.id /\ handled' # handled
<1>1. /\ UNCHANGED <<abTransmissionBuffer, reply>>
      /\ handled' = pbReceptionBuffer[Parts].answer.id
      /\ ~Waiting /\ Processing
  BY DEF SmProcess, Waiting, Processing, module
<1>2. Known(pbReceptionBuffer[Parts]) /\ (Spoils => pbReceptionBuffer[Parts].part # 0)
  BY <1>1, ConstantFacts DEF LinkInv, ReceivedInv, HandledInv
<1>3. Cur(reply) /\ pbReceptionBuffer[Parts].answer = reply
  BY <1>1, <1>2 DEF LinkInv, ExchangeInv, Known
<1>4. abTransmissionBuffer.id # handled
  BY <1>1, BitFacts, NextNumber DEF HandledInv
<1> QED BY <1>1, <1>3, <1>4 DEF Cur

(* What has been handed up stays in step with what is issued: an answer is *)
(* accepted whole, and without waiting for a buffer nothing can come       *)
(* between its acceptance and its processing.                              *)
LEMMA HandledStep ==
  ASSUME TypeOK, LinkInv, HandledInv, [Next]_vars, [Spoils => ~ProcessNoBuffer]_vars
  PROVE  HandledInv'
<1>1. CASE SmSendWithMessage \/ SmSendWithoutMessage
  <2>1. PICK frag : SendTelegram(frag)
    BY <1>1 DEF SmSendWithMessage, SmSendWithoutMessage
  <2>2. /\ ~Waiting /\ ~Processing /\ Waiting' /\ ~Processing' /\ UNCHANGED handled
        /\ abTransmissionBuffer'.id = (abTransmissionBuffer.id + 1) % Ids
    BY <1>1, <2>1 DEF SmSendWithMessage, SmSendWithoutMessage, SendTelegram, Waiting, Processing,
                      upper
  <2> QED BY <2>2 DEF HandledInv
<1>2. CASE SmProcess
  <2>1. ~Waiting' /\ ~Processing'
    BY <1>2 DEF SmProcess, AfterProcess, Waiting, Processing
  <2> QED BY <1>2, <2>1, ProcessedIsAnswer DEF HandledInv
<1>3. CASE WaitAccept
  <2>1. /\ Waiting /\ ~Waiting' /\ Processing' /\ running'
        /\ UNCHANGED <<abTransmissionBuffer, handled, pbReceptionBuffer>> /\ IsAnswer
    BY <1>3 DEF WaitAccept, Loop, Waiting, Processing, sender
  <2>2. \A p \in 1 .. Parts : pbReceptionBuffer[p].part # 0
    BY <2>1, ConstantFacts DEF IsAnswer, CrcGood, Pieces
  <2> QED BY <2>1, <2>2 DEF HandledInv
<1>4. CASE SmInit
  <2>1. /\ UNCHANGED handled /\ abTransmissionBuffer'.id = abTransmissionBuffer.id
        /\ ~Waiting /\ ~Processing /\ ~Waiting' /\ ~Processing'
    BY <1>4 DEF SmInit, TypeOK, Tel, upper, Waiting, Processing
  <2> QED BY <2>1 DEF HandledInv
<1>5. CASE \/ SmInitialHandshake \/ WaitIgnore \/ WaitTelegramTimeout \/ WaitWdTimeout
           \/ WaitNothing \/ SmComLost \/ \E kind \in {"cmd", "rsp"} : IdleMessage(kind)
           \/ IdleNoMessage
  <2>1. UNCHANGED <<abTransmissionBuffer, handled>>
    BY <1>5 DEF SmInitialHandshake, WaitIgnore, WaitTelegramTimeout, WaitWdTimeout, WaitNothing,
                SmComLost, IdleMessage, IdleNoMessage, sender, upper
  <2>2. (Waiting' <=> Waiting) /\ ~Processing /\ ~Processing'
    BY <1>5 DEF SmInitialHandshake, WaitIgnore, WaitTelegramTimeout, WaitWdTimeout, WaitNothing,
                SmComLost, IdleMessage, IdleNoMessage, Waiting, Processing
  <2> QED BY <2>1, <2>2 DEF HandledInv
<1>6. CASE ProcessNoBuffer
  <2>1. UNCHANGED <<eState, abTransmissionBuffer, handled>>
    BY <1>6 DEF ProcessNoBuffer, sender, upper
  <2>2. running /\ ~running'
    BY <1>6 DEF ProcessNoBuffer, Return
  <2>3. ~Spoils
    BY <1>6, <2>2 DEF vars
  <2> QED BY <2>1, <2>3 DEF HandledInv, Waiting, Processing
<1>7. CASE anybus_timeout
  <2>1. UNCHANGED <<eState, abTransmissionBuffer, handled>> /\ ~running
    BY <1>7 DEF anybus_timeout, sender, upper
  <2> QED BY <2>1 DEF HandledInv, Waiting, Processing
<1>8. CASE \/ anybus_service \/ Application \/ Line \/ PieceSpoilt \/ PieceLost \/ TelegramLost
           \/ Repaired \/ UNCHANGED vars
  <2>1. UNCHANGED <<eState, abTransmissionBuffer, handled, pbReceptionBuffer>>
        /\ (running => running')
    BY <1>8 DEF anybus_service, Application, QueueCommand, QueueResponse, ReturnBuffer, Line,
                ModuleReceives, PieceArrives, PieceSpoilt, PieceLost, TelegramLost, Repaired, vars,
                Loop, link, sender, upper
  <2> QED BY <2>1 DEF HandledInv, Waiting, Processing
<1> QED BY <1>1, <1>2, <1>3, <1>4, <1>5, <1>6, <1>7, <1>8 DEF Next, StateMachine

(* Every step of the link maps to a step of the channel or a stutter.      *)
LEMMA ChannelStep ==
  ASSUME TypeOK, LinkInv, HandledInv, [Next]_vars
  PROVE  [Link!Next]_Link!vars
<1>1. CASE SmSendWithMessage \/ SmSendWithoutMessage
  BY <1>1, ChannelIssue DEF Link!Next
<1>2. CASE ModuleReceives
  BY <1>2, ChannelAct DEF Link!Next
<1>3. CASE SmProcess
  BY <1>3, ProcessedIsAnswer DEF Link!Handle, Link!Next
<1>4. CASE SmInit
  <2>1. UNCHANGED <<abTransmissionBuffer.id, reply, handled>>
    BY <1>4 DEF SmInit, TypeOK, Tel, upper, module
  <2> QED BY <2>1 DEF Link!vars
<1>5. CASE \/ SmInitialHandshake \/ WaitAccept \/ WaitIgnore \/ WaitTelegramTimeout
           \/ WaitWdTimeout \/ WaitNothing \/ SmComLost \/ ProcessNoBuffer
           \/ \E kind \in {"cmd", "rsp"} : IdleMessage(kind)
           \/ IdleNoMessage
  <2>1. UNCHANGED <<abTransmissionBuffer, reply, handled>>
    BY <1>5 DEF SmInitialHandshake, WaitAccept, WaitIgnore, WaitTelegramTimeout, WaitWdTimeout,
                WaitNothing, SmComLost, ProcessNoBuffer, IdleMessage, IdleNoMessage,
                sender, upper, module
  <2> QED BY <2>1 DEF Link!vars
<1>6. CASE \/ anybus_service \/ anybus_timeout \/ Application \/ PieceArrives
           \/ PieceSpoilt \/ PieceLost \/ TelegramLost \/ Repaired \/ UNCHANGED vars
  <2>1. UNCHANGED <<abTransmissionBuffer, reply, handled>>
    BY <1>6 DEF anybus_service, anybus_timeout, Application, QueueCommand, QueueResponse,
                ReturnBuffer, PieceArrives, PieceSpoilt, PieceLost, TelegramLost, Repaired,
                vars, sender, upper, module
  <2> QED BY <2>1 DEF Link!vars
<1> QED BY <1>1, <1>2, <1>3, <1>4, <1>5, <1>6 DEF Next, StateMachine, Line

(* Over a line that loses, spoils and repeats, and wherever the polls      *)
(* fall, the link is the stop-and-wait channel: each telegram is issued    *)
(* after the answer to the one before, acted on exactly once, and its own  *)
(* answer is the one that is handed up.  Where the line spoils, this is so *)
(* as long as no processing has to wait for a message buffer.              *)
THEOREM LinkRefinesInTime == Spec /\ BufferInTime => LinkIsStopAndWait
<1>1. Init => TypeOK /\ LinkInv /\ HandledInv /\ Link!Init
  BY TypeInit, LinkInit, ChannelInit DEF Init, HandledInv, Waiting, Processing
<1>2. TypeOK /\ LinkInv /\ HandledInv /\ [Next]_vars /\ [Spoils => ~ProcessNoBuffer]_vars
        => TypeOK' /\ LinkInv' /\ HandledInv' /\ [Link!Next]_Link!vars
  BY TypeStep, LinkStep, HandledStep, ChannelStep
<1> QED BY <1>1, <1>2, PTL DEF Spec, BufferInTime, LinkIsStopAndWait, Link!Spec

-----------------------------------------------------------------------------
(***************************************************************************)
(* The watchdog.                                                           *)
(***************************************************************************)

(* Which timers the operations on another timer leave alone.               *)
LEMMA OtherTimer ==
  ASSUME NEW tm \in [Timer -> [left : Nat, on : BOOLEAN]], NEW time \in Nat
  PROVE  /\ UTIL_ReloadTimer(tm, "Telegram", time)["Wd"] = tm["Wd"]
         /\ UTIL_StopTimer(tm, "Telegram")["Wd"] = tm["Wd"]
         /\ ~UTIL_StopTimer(tm, "Wd")["Wd"].on
BY DEF UTIL_ReloadTimer, UTIL_StopTimer, Timer

(* From its firing until an answer is accepted the watchdog is stopped.    *)
LEMMA WdStep ==
  ASSUME TypeOK, WdInv, [Next]_vars
  PROVE  WdInv'
<1>0. timers \in [Timer -> [left : Nat, on : BOOLEAN]] /\ TelegramTime \in Nat
  BY ConstantFacts DEF TypeOK
<1>1. ASSUME SmInit \/ SmSendWithMessage \/ SmSendWithoutMessage \/ IdleNoMessage
             \/ SmInitialHandshake \/ SmProcess \/ ProcessNoBuffer
             \/ \E kind \in {"cmd", "rsp"} : IdleMessage(kind)
      PROVE  WdInv'
  <2>1. /\ eState \notin {"WAIT_FOR_TELEGRAM", "ABCC_COM_LOST"} /\ eState' # "ABCC_COM_LOST"
        /\ UNCHANGED abcc_fWdTimeout
    BY <1>1 DEF SmInit, SmSendWithMessage, SmSendWithoutMessage, SendTelegram, IdleNoMessage,
                SmInitialHandshake, SmProcess, AfterProcess, ProcessNoBuffer, IdleMessage, upper
  <2> QED BY <2>1 DEF WdInv
<1>2. ASSUME WaitAccept PROVE WdInv'
  <2>1. ~abcc_fWdTimeout' /\ eState' # "ABCC_COM_LOST"
    BY <1>2 DEF WaitAccept, WdInv
  <2> QED BY <2>1 DEF WdInv
<1>3. ASSUME WaitIgnore \/ WaitNothing PROVE WdInv'
  <2>1. /\ eState = "WAIT_FOR_TELEGRAM"
        /\ UNCHANGED <<eState, abcc_fWdTimeout, fAbccWdToOccured, timers, fAbccWdTo>>
    BY <1>3 DEF WaitIgnore, WaitNothing, flags, upper
  <2> QED BY <2>1 DEF WdInv
<1>4. ASSUME WaitTelegramTimeout PROVE WdInv'
  <2>1. /\ eState = "WAIT_FOR_TELEGRAM"
        /\ UNCHANGED <<eState, abcc_fWdTimeout, fAbccWdToOccured, fAbccWdTo>>
        /\ timers'["Wd"] = timers["Wd"]
    BY <1>0, <1>4, OtherTimer DEF WaitTelegramTimeout, Retransmit, upper
  <2> QED BY <2>1 DEF WdInv
<1>5. ASSUME WaitWdTimeout PROVE WdInv'
  <2>1. /\ ~abcc_fWdTimeout /\ UNCHANGED abcc_fWdTimeout
        /\ running' /\ ~timers'["Wd"].on
    BY <1>0, <1>5, OtherTimer DEF WaitWdTimeout, Loop, WdInv, upper
  <2> QED BY <2>1 DEF WdInv
<1>6. ASSUME SmComLost PROVE WdInv'
  <2>1. /\ eState' = "WAIT_FOR_TELEGRAM" /\ fAbccWdToOccured' /\ ~fAbccWdTo'
        /\ ~timers["Wd"].on /\ timers'["Wd"] = timers["Wd"]
    BY <1>0, <1>6, OtherTimer DEF SmComLost, Retransmit, WdInv
  <2> QED BY <2>1 DEF WdInv
<1>7. ASSUME anybus_timeout PROVE WdInv'
  <2>1. /\ ~running /\ UNCHANGED <<eState, abcc_fWdTimeout, fAbccWdToOccured>>
        /\ ~timers["Wd"].on => ~timers'["Wd"].on /\ fAbccWdTo' = fAbccWdTo
    BY <1>0, <1>7 DEF anybus_timeout, UTIL_RunTimerSystem, Expires, Runs, Timer, upper, TypeOK
  <2> QED BY <2>1 DEF WdInv
<1>8. ASSUME \/ anybus_service \/ Application \/ Line \/ PieceSpoilt \/ PieceLost \/ TelegramLost
             \/ Repaired \/ UNCHANGED vars
      PROVE  WdInv'
  <2>1. /\ UNCHANGED <<eState, abcc_fWdTimeout, fAbccWdToOccured, timers, fAbccWdTo>>
        /\ running => running'
    BY <1>8 DEF anybus_service, Application, QueueCommand, QueueResponse, ReturnBuffer, Line,
                ModuleReceives, PieceArrives, PieceSpoilt, PieceLost, TelegramLost, Repaired,
                vars, Loop, flags, upper
  <2> QED BY <2>1 DEF WdInv
<1> QED BY <1>1, <1>2, <1>3, <1>4, <1>5, <1>6, <1>7, <1>8 DEF Next, StateMachine

(* A loss is reported once: when it is, the application was not told of    *)
(* one it has not been told the end of.                                    *)
THEOREM LossOnce == Spec => LossReportedOnce
<1>1. Init => TypeOK /\ WdInv
  BY TypeInit DEF Init, WdInv
<1>2. TypeOK /\ WdInv /\ [Next]_vars => TypeOK' /\ WdInv'
  BY TypeStep, WdStep
<1>3. WdInv => [eState = "ABCC_COM_LOST" /\ eState' # eState => ~abcc_fWdTimeout]_vars
  BY DEF WdInv
<1> QED BY <1>1, <1>2, <1>3, PTL DEF Spec, LossReportedOnce

-----------------------------------------------------------------------------
(***************************************************************************)
(* Messages to the module.                                                 *)
(***************************************************************************)

(* The fragments up to k, none of them, and one more.                      *)
LEMMA FragmentFacts ==
  ASSUME NEW kind, NEW n, NEW k \in Nat
  PROVE  /\ Fragments(kind, n, 0) = <<>>
         /\ Len(Fragments(kind, n, k)) = k
         /\ k # 0 => /\ Fragments(kind, n, k) # <<>>
                     /\ Fragments(kind, n, k)[1] = [kind |-> kind, n |-> n, i |-> 1]
         /\ Append(Fragments(kind, n, k), [kind |-> kind, n |-> n, i |-> k + 1])
              = Fragments(kind, n, k + 1)
<1> DEFINE S == [kind : {kind}, n : {n}, i : Nat]
           F(j) == [i \in 1 .. j |-> [kind |-> kind, n |-> n, i |-> i]]
<1>1. \A j \in Nat : F(j) \in Seq(S) /\ Len(F(j)) = j
  OBVIOUS
<1>2. F(0) = <<>>
  <2>1. F(0) \in Seq(S) /\ Len(F(0)) = 0
    BY <1>1
  <2> HIDE DEF F, S
  <2> QED BY <2>1
<1>3. k # 0 => F(k) # <<>> /\ F(k)[1] = [kind |-> kind, n |-> n, i |-> 1]
  OBVIOUS
<1>4. Append(F(k), [kind |-> kind, n |-> n, i |-> k + 1]) = F(k + 1)
  <2> DEFINE x == [kind |-> kind, n |-> n, i |-> k + 1]
             A == Append(F(k), x)
  <2>1. F(k) \in Seq(S) /\ Len(F(k)) = k /\ x \in S
    BY <1>1
  <2>2. /\ A \in Seq(S) /\ Len(A) = k + 1
        /\ \A i \in 1 .. k : A[i] = F(k)[i]
        /\ A[k + 1] = x
    <3> HIDE DEF F, S, x
    <3> QED BY <2>1, AppendFacts
  <2>3. \A i \in 1 .. k + 1 : A[i] = F(k + 1)[i]
    <3>1. ASSUME NEW i \in 1 .. k + 1 PROVE A[i] = F(k + 1)[i]
      <4>1. CASE i = k + 1
        BY <2>2, <4>1
      <4>2. CASE i # k + 1
        <5>1. i \in 1 .. k /\ F(k)[i] = F(k + 1)[i]
          BY <4>2
        <5> HIDE DEF F, A
        <5> QED BY <2>2, <5>1
      <4> QED BY <4>1, <4>2
    <3> QED BY <3>1
  <2>4. F(k + 1) \in Seq(S) /\ Len(F(k + 1)) = k + 1
    BY <1>1
  <2>5. A = F(k + 1)
    <3> HIDE DEF F, A, S
    <3> QED BY <2>2, <2>3, <2>4
  <2> QED BY <2>5
<1> QED BY <1>1, <1>2, <1>3, <1>4 DEF Fragments

(* What a message taken whole looks like.                                  *)
LEMMA WholeFacts ==
  ASSUME TakenWhole, taken # <<>>
  PROVE  taken = [i \in 1 .. taken[1].n |-> [taken[1] EXCEPT !.i = i]]
<1>1. PICK kind \in {"cmd", "rsp"}, n \in Frags : taken = Fragments(kind, n, n)
  BY DEF TakenWhole
<1>2. n \in Nat /\ n # 0
  BY ConstantFacts
<1>3. taken[1] = [kind |-> kind, n |-> n, i |-> 1]
  BY <1>1, <1>2, FragmentFacts
<1>4. taken[1].n = n /\ \A i \in 1 .. n : [taken[1] EXCEPT !.i = i] = [kind |-> kind, n |-> n, i |-> i]
  BY <1>3
<1> QED BY <1>1, <1>4 DEF Fragments

(* Steps that leave the messages alone.                                    *)
LEMMA MsgQuiet ==
  ASSUME MsgInv, UNCHANGED <<abTransmissionBuffer, psWriteMsgBuffer, taken, reply>>,
         (Waiting \/ Processing)' <=> (Waiting \/ Processing),
         eState' \in {"SEND_TELEGRAM_WITH_MESSAGE", "SEND_TELEGRAM_WITHOUT_MESSAGE"}
           => eState' = eState,
         eState' \in {"INIT", "INITIAL_HANDSHAKE", "IDLE"}
           => eState \in {"INIT", "INITIAL_HANDSHAKE", "IDLE"}
  PROVE  MsgInv'
BY DEF MsgInv, InHandNone, InHandSome, TakenWhole, Acted, Cur

(* What is known of a message that is not NULL.                            *)
LEMMA SomeMsg ==
  ASSUME TypeOK
  PROVE  psWriteMsgBuffer # NULL =>
           /\ psWriteMsgBuffer.kind \in {"cmd", "rsp"} /\ psWriteMsgBuffer.n \in Nat \ {0}
           /\ psWriteMsgBuffer.sent \in Nat /\ psWriteMsgBuffer.sent <= psWriteMsgBuffer.n
BY ConstantFacts DEF TypeOK, Msg

(* A new telegram carries the next fragment of the message in hand, or     *)
(* closes the one before.                                                  *)
LEMMA MsgSend ==
  ASSUME TypeOK, LinkInv, MsgInv, SmSendWithMessage \/ SmSendWithoutMessage
  PROVE  MsgInv'
<1> DEFINE w == psWriteMsgBuffer
<1>1. PICK frag : SendTelegram(frag) /\ \/ SmSendWithMessage /\ frag = NextFrag(w)
                                        \/ SmSendWithoutMessage /\ frag = NoFrag
  BY DEF SmSendWithMessage, SmSendWithoutMessage
<1>2. /\ abTransmissionBuffer'.frag = frag
      /\ abTransmissionBuffer'.t = ~abTransmissionBuffer.t
      /\ eState' = "WAIT_FOR_TELEGRAM"
      /\ UNCHANGED <<taken, reply>>
  BY <1>1 DEF SendTelegram, SmSendWithMessage, SmSendWithoutMessage, module
<1>3. ~Acted'
  <2>1. reply.t = abTransmissionBuffer.t
    BY <1>1 DEF SmSendWithMessage, SmSendWithoutMessage, LinkInv, ExchangeInv, Waiting, Cur
  <2> QED BY <1>2, <2>1, BitFacts DEF Acted, Cur
<1>4. CASE SmSendWithoutMessage /\ frag = NoFrag
  <2>1. w = NULL /\ TakenWhole /\ UNCHANGED psWriteMsgBuffer
    BY <1>4 DEF MsgInv, SmSendWithoutMessage
  <2> QED BY <1>2, <1>3, <1>4, <2>1 DEF MsgInv, InHandNone, TakenWhole
<1>5. CASE SmSendWithMessage /\ frag = NextFrag(w)
  <2>1. /\ w # NULL /\ w.sent < w.n /\ taken = Fragments(w.kind, w.n, w.sent)
        /\ psWriteMsgBuffer' = [w EXCEPT !.sent = w.sent + 1]
        /\ frag = [kind |-> w.kind, n |-> w.n, i |-> w.sent + 1]
    BY <1>5 DEF MsgInv, SmSendWithMessage, NextFrag
  <2>2. w \in [kind : {"cmd", "rsp"}, n : Frags, sent : Nat]
    BY <2>1 DEF TypeOK, Msg
  <2>3. /\ psWriteMsgBuffer'.kind = w.kind /\ psWriteMsgBuffer'.n = w.n
        /\ psWriteMsgBuffer'.sent = w.sent + 1 /\ psWriteMsgBuffer' # NULL
        /\ w.sent \in Nat /\ w.sent + 1 > 0 /\ w.sent + 1 - 1 = w.sent
    BY <2>1, <2>2 DEF NULL
  <2>4. /\ psWriteMsgBuffer'.sent > 0 /\ psWriteMsgBuffer'.sent - 1 = w.sent
        /\ abTransmissionBuffer'.frag = [kind |-> psWriteMsgBuffer'.kind, n |-> psWriteMsgBuffer'.n,
                                         i |-> psWriteMsgBuffer'.sent]
        /\ taken' = Fragments(psWriteMsgBuffer'.kind, psWriteMsgBuffer'.n,
                              psWriteMsgBuffer'.sent - 1)
    BY <1>2, <2>1, <2>3
  <2>5. InHandSome(psWriteMsgBuffer)'
    BY <1>3, <2>4 DEF InHandSome
  <2> QED BY <1>2, <2>3, <2>5 DEF MsgInv
<1> QED BY <1>1, <1>4, <1>5

(* The module takes the fragment of the telegram, or closes the message.   *)
LEMMA MsgTake ==
  ASSUME TypeOK, LinkInv, MsgInv, ModuleReceives, Head(toModule).t # reply.t
  PROVE  MsgInv' /\ (taken' = <<>> => TakenWhole)
<1>1. /\ Waiting /\ ~Acted /\ Acted'
      /\ Answers(abTransmissionBuffer)
      /\ UNCHANGED <<eState, abTransmissionBuffer, psWriteMsgBuffer>>
  BY ModuleActs DEF Acted, Cur, ModuleReceives, sender
<1>2. taken' = Takes(abTransmissionBuffer) /\ Waiting'
  BY <1>1 DEF Answers, Waiting
<1>3. CASE psWriteMsgBuffer = NULL
  <2>1. InHandNone
    BY <1>1, <1>3 DEF MsgInv
  <2>2. taken' = <<>> /\ TakenWhole
    BY <1>1, <1>2, <2>1 DEF InHandNone, Takes
  <2>3. InHandNone'
    BY <1>1, <2>1, <2>2 DEF InHandNone
  <2> QED BY <1>1, <1>2, <1>3, <2>2, <2>3 DEF MsgInv, Waiting
<1>4. CASE psWriteMsgBuffer # NULL
  <2> DEFINE w == psWriteMsgBuffer
  <2>1. InHandSome(w)
    BY <1>1, <1>4 DEF MsgInv
  <2>2. /\ w.sent > 0 /\ w.sent \in Nat /\ w.kind \in {"cmd", "rsp"}
        /\ abTransmissionBuffer.frag = [kind |-> w.kind, n |-> w.n, i |-> w.sent]
        /\ taken = Fragments(w.kind, w.n, w.sent - 1)
    BY <1>1, <1>4, <2>1, SomeMsg DEF InHandSome
  <2>3. taken' = Append(taken, [kind |-> w.kind, n |-> w.n, i |-> w.sent])
    <3>1. abTransmissionBuffer.frag # NoFrag
      BY <2>2 DEF NoFrag
    <3> QED BY <1>2, <2>2, <3>1 DEF Takes
  <2>4. taken' = Fragments(w.kind, w.n, w.sent) /\ taken' # <<>>
    <3> DEFINE k == w.sent - 1
    <3>1. k \in Nat /\ w.sent = k + 1
      BY <2>2
    <3>2. /\ Fragments(w.kind, w.n, k + 1) = Append(taken, [kind |-> w.kind, n |-> w.n, i |-> k + 1])
          /\ Fragments(w.kind, w.n, k + 1) # <<>>
      <4>1. taken = Fragments(w.kind, w.n, k)
        BY <2>2
      <4>2. k + 1 \in Nat /\ k + 1 # 0
        BY <3>1
      <4> HIDE DEF k, w
      <4>3. Fragments(w.kind, w.n, k + 1) # <<>>
        BY <4>2, FragmentFacts
      <4>4. Fragments(w.kind, w.n, k + 1) = Append(taken, [kind |-> w.kind, n |-> w.n, i |-> k + 1])
        BY <3>1, <4>1, FragmentFacts
      <4> QED BY <4>3, <4>4
    <3> QED BY <2>3, <3>1, <3>2
  <2>5. InHandSome(w)'
    BY <1>1, <2>2, <2>4 DEF InHandSome
  <2> QED BY <1>1, <1>2, <1>4, <2>4, <2>5 DEF MsgInv, Waiting
<1> QED BY <1>3, <1>4

(* The answer is handed up: the module has the fragment that was sent, and *)
(* a message is let go when that was its last.                             *)
LEMMA MsgProcess ==
  ASSUME TypeOK, LinkInv, MsgInv, SmProcess
  PROVE  /\ MsgInv' /\ UNCHANGED taken
         /\ psWriteMsgBuffer # NULL /\ psWriteMsgBuffer' = NULL =>
              taken # <<>> /\ Len(taken) = psWriteMsgBuffer.n
                           /\ taken[1].kind = psWriteMsgBuffer.kind
<1>1. /\ Processing /\ ~Waiting /\ Acted
      /\ AfterProcess
      /\ UNCHANGED <<taken, abTransmissionBuffer, reply>>
  BY DEF SmProcess, Processing, Waiting, Acted, LinkInv, ExchangeInv, module
<1>2. ~Waiting' /\ ~Processing'
  BY <1>1 DEF AfterProcess, Waiting, Processing
<1>3. CASE psWriteMsgBuffer = NULL
  <2>1. taken = <<>>
    BY <1>1, <1>3 DEF MsgInv, InHandNone
  <2>2. eState' = "IDLE" /\ psWriteMsgBuffer' = NULL
    BY <1>1, <1>3 DEF AfterProcess, NULL
  <2> QED BY <1>1, <1>2, <1>3, <2>1, <2>2 DEF MsgInv
<1>4. CASE psWriteMsgBuffer # NULL
  <2>1. /\ psWriteMsgBuffer.sent > 0
        /\ taken = Fragments(psWriteMsgBuffer.kind, psWriteMsgBuffer.n, psWriteMsgBuffer.sent)
    BY <1>1, <1>4 DEF MsgInv, InHandSome
  <2>2. psWriteMsgBuffer.kind \in {"cmd", "rsp"} /\ psWriteMsgBuffer.n \in Frags
        /\ psWriteMsgBuffer.n \in Nat /\ psWriteMsgBuffer.sent \in Nat
    BY <1>4, ConstantFacts DEF TypeOK, Msg
  <2>3. CASE psWriteMsgBuffer.sent < psWriteMsgBuffer.n
    <3>1. eState' = "SEND_TELEGRAM_WITH_MESSAGE" /\ UNCHANGED psWriteMsgBuffer
      BY <1>1, <1>4, <2>2, <2>3 DEF AfterProcess
    <3> QED BY <1>1, <1>2, <1>4, <2>1, <2>3, <3>1 DEF MsgInv
  <2>4. CASE psWriteMsgBuffer.sent = psWriteMsgBuffer.n
    <3>1. eState' = "SEND_TELEGRAM_WITHOUT_MESSAGE" /\ psWriteMsgBuffer' = NULL
      BY <1>1, <1>4, <2>2, <2>4 DEF AfterProcess
    <3>2. TakenWhole /\ TakenWhole'
      BY <1>1, <2>1, <2>2, <2>4 DEF TakenWhole
    <3>3. taken # <<>> /\ Len(taken) = psWriteMsgBuffer.n /\ taken[1].kind = psWriteMsgBuffer.kind
      <4> DEFINE w == psWriteMsgBuffer
      <4>1. taken = Fragments(w.kind, w.n, w.n) /\ w.n \in Nat /\ w.n # 0
        BY <2>1, <2>2, <2>4
      <4>2. taken # <<>> /\ Len(taken) = w.n /\ taken[1] = [kind |-> w.kind, n |-> w.n, i |-> 1]
        <5> HIDE DEF w
        <5>1. Len(Fragments(w.kind, w.n, w.n)) = w.n
          BY <4>1, FragmentFacts
        <5>2. /\ Fragments(w.kind, w.n, w.n) # <<>>
              /\ Fragments(w.kind, w.n, w.n)[1] = [kind |-> w.kind, n |-> w.n, i |-> 1]
          BY <4>1, FragmentFacts
        <5> QED BY <4>1, <5>1, <5>2
      <4> QED BY <4>2
    <3> QED BY <1>1, <1>2, <3>1, <3>2, <3>3 DEF MsgInv
  <2> QED BY <1>1, <1>4, <2>2, <2>3, <2>4 DEF AfterProcess
<1> QED BY <1>3, <1>4

(* Every step keeps the invariant, closes a message only whole, and lets   *)
(* one go only when the module has all of it.                              *)
LEMMA MsgStep ==
  ASSUME TypeOK, LinkInv, MsgInv, [Next]_vars
  PROVE  /\ MsgInv'
         /\ taken # <<>> /\ taken' = <<>> =>
              taken = [i \in 1 .. taken[1].n |-> [taken[1] EXCEPT !.i = i]]
         /\ psWriteMsgBuffer # NULL /\ psWriteMsgBuffer' = NULL =>
              taken # <<>> /\ Len(taken) = psWriteMsgBuffer.n
                           /\ taken[1].kind = psWriteMsgBuffer.kind
<1> DEFINE Kept == UNCHANGED <<taken, psWriteMsgBuffer>>
<1>1. ASSUME SmInit PROVE MsgInv' /\ Kept
  <2>1. psWriteMsgBuffer = NULL /\ taken = <<>>
    BY <1>1 DEF SmInit, MsgInv
  <2>2. eState' = "INITIAL_HANDSHAKE" /\ psWriteMsgBuffer' = NULL /\ UNCHANGED taken
    BY <1>1 DEF SmInit, module
  <2> QED BY <2>1, <2>2 DEF MsgInv, Waiting, Processing
<1>2. ASSUME \/ SmInitialHandshake \/ WaitAccept \/ WaitIgnore \/ WaitTelegramTimeout
             \/ WaitWdTimeout \/ WaitNothing \/ SmComLost \/ ProcessNoBuffer
      PROVE  MsgInv' /\ Kept
  <2>1. UNCHANGED <<abTransmissionBuffer, psWriteMsgBuffer, taken, reply>>
    BY <1>2 DEF SmInitialHandshake, WaitAccept, WaitIgnore, WaitTelegramTimeout, WaitWdTimeout,
                WaitNothing, SmComLost, ProcessNoBuffer, sender, module
  <2>2. /\ (Waiting \/ Processing)' <=> (Waiting \/ Processing)
        /\ eState' \notin {"SEND_TELEGRAM_WITH_MESSAGE", "SEND_TELEGRAM_WITHOUT_MESSAGE"}
        /\ eState' \in {"INIT", "INITIAL_HANDSHAKE", "IDLE"} => eState = "INITIAL_HANDSHAKE"
    BY <1>2 DEF SmInitialHandshake, WaitAccept, WaitIgnore, WaitTelegramTimeout, WaitWdTimeout,
                WaitNothing, SmComLost, ProcessNoBuffer, Waiting, Processing
  <2> QED BY <2>1, <2>2, MsgQuiet
<1>3. ASSUME \E kind \in {"cmd", "rsp"} : IdleMessage(kind) PROVE MsgInv' /\ UNCHANGED taken
                                                                  /\ psWriteMsgBuffer = NULL
  <2>1. PICK kind \in {"cmd", "rsp"} : IdleMessage(kind)
    BY <1>3
  <2> DEFINE queue == IF kind = "cmd" THEN cmdQueue ELSE rspQueue
  <2>2. queue \in Seq(Frags) /\ queue # <<>>
    BY <2>1 DEF TypeOK, IdleMessage, Sends
  <2>3. Head(queue) \in Nat /\ Head(queue) > 0
    <3> HIDE DEF queue
    <3>1. Head(queue) \in Frags
      BY <2>2, TailFacts
    <3>2. \A n \in Frags : n \in Nat /\ n > 0
      BY ConstantFacts
    <3> QED BY <3>1, <3>2
  <2>4. /\ psWriteMsgBuffer' = [kind |-> kind, n |-> Head(queue), sent |-> 0]
        /\ eState' = "SEND_TELEGRAM_WITH_MESSAGE" /\ UNCHANGED taken /\ eState = "IDLE"
    BY <2>1 DEF IdleMessage, module
  <2>5. psWriteMsgBuffer = NULL /\ taken = <<>>
    BY <2>4 DEF MsgInv
  <2>6. /\ psWriteMsgBuffer' # NULL /\ psWriteMsgBuffer'.sent = 0
        /\ psWriteMsgBuffer'.sent < psWriteMsgBuffer'.n
    <3> HIDE DEF queue
    <3> QED BY <2>3, <2>4 DEF NULL
  <2>7. taken' = Fragments(psWriteMsgBuffer'.kind, psWriteMsgBuffer'.n, psWriteMsgBuffer'.sent)
    BY <2>4, <2>5, <2>6, FragmentFacts
  <2> QED BY <2>4, <2>5, <2>6, <2>7 DEF MsgInv, Waiting, Processing
<1>4. ASSUME IdleNoMessage PROVE MsgInv' /\ Kept
  BY <1>4 DEF IdleNoMessage, MsgInv, TakenWhole, Waiting, Processing, sender, module
<1>5. ASSUME SmSendWithMessage \/ SmSendWithoutMessage
      PROVE  MsgInv' /\ UNCHANGED taken /\ (psWriteMsgBuffer' = NULL => psWriteMsgBuffer = NULL)
  <2>1. MsgInv' /\ UNCHANGED taken
    BY <1>5, MsgSend DEF SmSendWithMessage, SmSendWithoutMessage, module
  <2>2. eState' = "WAIT_FOR_TELEGRAM"
    BY <1>5 DEF SmSendWithMessage, SmSendWithoutMessage, SendTelegram
  <2>3. CASE SmSendWithoutMessage
    BY <2>1, <2>3 DEF SmSendWithoutMessage
  <2>4. CASE SmSendWithMessage
    <3>1. psWriteMsgBuffer # NULL /\ psWriteMsgBuffer.n # 0
      BY <2>4, SomeMsg DEF MsgInv, SmSendWithMessage
    <3>2. psWriteMsgBuffer'.n = psWriteMsgBuffer.n
      BY <2>4, <3>1 DEF SmSendWithMessage, TypeOK, Msg
    <3> QED BY <2>1, <3>1, <3>2 DEF NULL
  <2> QED BY <1>5, <2>1, <2>3, <2>4
<1>6. ASSUME ModuleReceives
      PROVE  MsgInv' /\ (taken' = <<>> => TakenWhole) /\ UNCHANGED psWriteMsgBuffer
  <2>1. UNCHANGED <<eState, abTransmissionBuffer, psWriteMsgBuffer>>
    BY <1>6 DEF ModuleReceives, sender
  <2>2. CASE Head(toModule).t # reply.t
    BY <1>6, <2>1, <2>2, MsgTake
  <2>3. CASE Head(toModule).t = reply.t
    <3>1. UNCHANGED <<reply, taken>>
      BY <1>6, <2>3 DEF ModuleReceives, module
    <3> QED BY <2>1, <3>1, MsgQuiet DEF Waiting, Processing, TakenWhole
  <2> QED BY <2>2, <2>3
<1>7. ASSUME \/ anybus_service \/ anybus_timeout \/ Application \/ PieceArrives
             \/ PieceSpoilt \/ PieceLost \/ TelegramLost \/ Repaired \/ UNCHANGED vars
      PROVE  MsgInv' /\ Kept
  <2>1. UNCHANGED <<eState, abTransmissionBuffer, psWriteMsgBuffer, taken, reply>>
    BY <1>7 DEF anybus_service, anybus_timeout, Application, QueueCommand, QueueResponse,
                ReturnBuffer, PieceArrives, PieceSpoilt, PieceLost, TelegramLost, Repaired, vars,
                sender, module
  <2> QED BY <2>1, MsgQuiet DEF Waiting, Processing
<1> QED
  BY <1>1, <1>2, <1>3, <1>4, <1>5, <1>6, <1>7, MsgProcess, WholeFacts DEF Next, StateMachine, Line

(* Over a line that loses, spoils and repeats, the module gets every       *)
(* message whole: when a telegram without fragment closes it, the module   *)
(* has each of its fragments once and in order.                            *)
THEOREM FragmentsArrive == Spec => FragmentsWhole
<1>1. Init => TypeOK /\ LinkInv /\ MsgInv
  BY TypeInit, LinkInit DEF Init, MsgInv, Waiting, Processing
<1>2. TypeOK /\ LinkInv /\ MsgInv /\ [Next]_vars => TypeOK' /\ LinkInv' /\ MsgInv'
  BY TypeStep, LinkStep, MsgStep
<1>3. TypeOK /\ LinkInv /\ MsgInv /\ [Next]_vars =>
        [taken # <<>> /\ taken' = <<>> =>
           taken = [i \in 1 .. taken[1].n |-> [taken[1] EXCEPT !.i = i]]]_vars
  BY MsgStep
<1> QED BY <1>1, <1>2, <1>3, PTL DEF Spec, FragmentsWhole

(* Over the same line, the buffer of a message to the module is given back *)
(* only when the module has all fragments of that message.                 *)
THEOREM BufferKept == Spec => BufferKeptUntilTaken
<1>1. Init => TypeOK /\ LinkInv /\ MsgInv
  BY TypeInit, LinkInit DEF Init, MsgInv, Waiting, Processing
<1>2. TypeOK /\ LinkInv /\ MsgInv /\ [Next]_vars => TypeOK' /\ LinkInv' /\ MsgInv'
  BY TypeStep, LinkStep, MsgStep
<1>3. TypeOK /\ LinkInv /\ MsgInv /\ [Next]_vars =>
        [psWriteMsgBuffer # NULL /\ psWriteMsgBuffer' = NULL =>
           taken # <<>> /\ Len(taken) = psWriteMsgBuffer.n
                        /\ taken[1].kind = psWriteMsgBuffer.kind]_vars
  BY MsgStep
<1> QED BY <1>1, <1>2, <1>3, PTL DEF Spec, BufferKeptUntilTaken

-----------------------------------------------------------------------------
(***************************************************************************)
(* Messages of the module.                                                 *)
(***************************************************************************)

(* The counts of fragments are numbers.                                    *)
LEMMA UpFacts ==
  ASSUME TypeOK
  PROVE  /\ iNbrRecFrags \in Nat /\ out.left \in Nat /\ out.size \in Nat
         /\ reply.m \in BOOLEAN /\ bLastStatusReg.m \in BOOLEAN
BY DEF TypeOK, Answer, Stat

(* Steps that leave the count alone.                                       *)
LEMMA UpQuiet ==
  ASSUME UpInv, UNCHANGED <<abTransmissionBuffer, reply, out, iNbrRecFrags, bLastStatusReg>>,
         (Waiting \/ Processing)' <=> (Waiting \/ Processing),
         eState' = "INIT" => eState = "INIT"
  PROVE  UpInv'
BY DEF UpInv, SentUp, Acted, Cur

(* A new telegram: the module has not answered it yet.                     *)
LEMMA UpSend ==
  ASSUME TypeOK, LinkInv, UpInv, SmSendWithMessage \/ SmSendWithoutMessage
  PROVE  UpInv'
<1>1. PICK frag : SendTelegram(frag)
  BY DEF SmSendWithMessage, SmSendWithoutMessage
<1>2. /\ abTransmissionBuffer'.t = ~abTransmissionBuffer.t
      /\ eState' = "WAIT_FOR_TELEGRAM" /\ ~Waiting /\ ~Processing
      /\ UNCHANGED <<out, reply, iNbrRecFrags, bLastStatusReg>>
  BY <1>1 DEF SendTelegram, SmSendWithMessage, SmSendWithoutMessage, link, module, Waiting,
              Processing
<1>3. ~Acted'
  <2>1. reply.t = abTransmissionBuffer.t
    BY <1>2 DEF LinkInv, ExchangeInv, Cur
  <2> QED BY <1>2, <2>1, BitFacts DEF Acted, Cur
<1> QED BY <1>2, <1>3 DEF UpInv, SentUp

(* The module answers: with the next fragment of its message, without one  *)
(* after the last, with the first of a new message, or as before.          *)
LEMMA UpAnswer ==
  ASSUME TypeOK, LinkInv, UpInv, ModuleReceives, Head(toModule).t # reply.t
  PROVE  UpInv'
<1>1. /\ Waiting /\ ~Acted /\ Acted' /\ Waiting' /\ eState' # "INIT"
      /\ Answers(abTransmissionBuffer)
      /\ UNCHANGED <<iNbrRecFrags, bLastStatusReg>>
  BY ModuleActs DEF Acted, Cur, ModuleReceives, sender, link, Waiting
<1>2. /\ out.left <= out.size
      /\ IF reply.m THEN out.left < out.size ELSE out.left = 0
      /\ bLastStatusReg.m = reply.m
      /\ iNbrRecFrags = IF reply.m THEN out.size - out.left ELSE 0
  BY <1>1 DEF UpInv, SentUp
<1>3. PICK o \in Offers(abTransmissionBuffer) :
        /\ out' = IF o.size = 0 THEN [out EXCEPT !.left = 0] ELSE o
        /\ reply'.m = (o.size # 0)
  BY <1>1 DEF Answers
<1>4. SUFFICES /\ out'.left <= out'.size
               /\ IF reply'.m THEN out'.left < out'.size ELSE out'.left = 0
               /\ IF reply'.m THEN /\ iNbrRecFrags = out'.size - out'.left - 1
                                   /\ bLastStatusReg.m <=> out'.size - out'.left > 1
                              ELSE iNbrRecFrags = IF bLastStatusReg.m THEN out'.size ELSE 0
  BY <1>1 DEF UpInv, SentUp
<1>5. CASE out.left > 0
  <2>1. o = [left |-> out.left - 1, size |-> out.size] /\ reply.m
    BY <1>2, <1>3, <1>5 DEF Offers
  <2>2. o.size = out.size /\ o.left = out.left - 1 /\ out.size # 0
    BY <1>2, <1>5, <2>1, UpFacts
  <2>3. out'.left = out.left - 1 /\ out'.size = out.size /\ reply'.m
    BY <1>3, <2>2
  <2> QED BY <1>2, <1>5, <2>1, <2>3, UpFacts
<1>6. CASE out.left = 0 /\ o = [left |-> 0, size |-> 0]
  <2>1. out'.left = 0 /\ out'.size = out.size /\ ~reply'.m
    BY <1>3, <1>6 DEF TypeOK
  <2> QED BY <1>2, <1>6, <2>1, UpFacts
<1>7. CASE out.left = 0 /\ ~reply.m /\ \E n \in FragsUp : o = [left |-> n - 1, size |-> n]
  <2>1. PICK n \in FragsUp : o = [left |-> n - 1, size |-> n]
    BY <1>7
  <2>2. n \in Nat /\ n # 0
    BY ConstantFacts
  <2>3. out'.left = n - 1 /\ out'.size = n /\ reply'.m
    BY <1>3, <2>1, <2>2
  <2> QED BY <1>2, <1>7, <2>2, <2>3, UpFacts
<1> QED BY <1>3, <1>5, <1>6, <1>7, UpFacts DEF Offers

(* The answer is handed up: its fragment is counted, a message it closes   *)
(* has as many as the module gave it.                                      *)
LEMMA UpProcess ==
  ASSUME TypeOK, LinkInv, UpInv, SmProcess
  PROVE  UpInv' /\ (freeBufs' < freeBufs => iNbrRecFrags = out.size)
<1>1. /\ Processing /\ ~Waiting /\ Acted
      /\ UNCHANGED <<reply, out>>
      /\ bCurrentStatusReg.m = reply.m /\ bLastStatusReg'.m = reply.m
  BY DEF SmProcess, Processing, Waiting, Acted, LinkInv, ExchangeInv, module, Status
<1>2. ~Waiting' /\ ~Processing' /\ eState' # "INIT"
  BY DEF SmProcess, AfterProcess, Waiting, Processing
<1>3. /\ out.left <= out.size
      /\ IF reply.m THEN out.left < out.size ELSE out.left = 0
      /\ IF reply.m THEN iNbrRecFrags = out.size - out.left - 1
                    ELSE iNbrRecFrags = IF bLastStatusReg.m THEN out.size ELSE 0
  BY <1>1 DEF UpInv, SentUp
<1>4. iNbrRecFrags' = IF reply.m THEN out.size - out.left ELSE 0
  <2>1. CASE reply.m
    <3>1. iNbrRecFrags' = iNbrRecFrags + 1
      BY <1>1, <2>1 DEF SmProcess, Closes
    <3> QED BY <1>3, <2>1, <3>1, UpFacts
  <2>2. CASE ~reply.m /\ bLastStatusReg.m
    BY <1>1, <2>2 DEF SmProcess, Closes
  <2>3. CASE ~reply.m /\ ~bLastStatusReg.m
    BY <1>1, <1>3, <2>3 DEF SmProcess, Closes
  <2> QED BY <2>1, <2>2, <2>3, UpFacts
<1>5. freeBufs' < freeBufs => iNbrRecFrags = out.size
  <2>1. freeBufs' < freeBufs => Closes
    BY DEF SmProcess, TypeOK
  <2> QED BY <1>1, <1>3, <2>1 DEF Closes
<1> QED BY <1>1, <1>2, <1>3, <1>4, <1>5 DEF UpInv, SentUp

(* Every step keeps the invariant and hands up only whole messages.        *)
LEMMA UpStep ==
  ASSUME TypeOK, LinkInv, UpInv, [Next]_vars
  PROVE  UpInv' /\ (freeBufs' < freeBufs => iNbrRecFrags = out.size)
<1>0. freeBufs \in Nat
  BY ConstantFacts DEF TypeOK
<1>1. ASSUME SmInit PROVE UpInv' /\ UNCHANGED freeBufs
  <2>1. /\ ~Waiting /\ ~Processing /\ ~Waiting' /\ ~Processing' /\ eState = "INIT"
        /\ eState' = "INITIAL_HANDSHAKE" /\ iNbrRecFrags' = 0 /\ bLastStatusReg'.m = FALSE
        /\ UNCHANGED <<reply, out, freeBufs>>
    BY <1>1 DEF SmInit, Waiting, Processing, Status, Reset, upper, module
  <2> QED BY <2>1, UpFacts DEF UpInv, SentUp
<1>2. ASSUME \/ SmInitialHandshake \/ WaitAccept \/ WaitIgnore \/ WaitTelegramTimeout
             \/ WaitWdTimeout \/ WaitNothing \/ SmComLost \/ ProcessNoBuffer \/ IdleNoMessage
             \/ \E kind \in {"cmd", "rsp"} : IdleMessage(kind)
      PROVE  UpInv' /\ UNCHANGED freeBufs
  <2>1. UNCHANGED <<abTransmissionBuffer, reply, out, iNbrRecFrags, bLastStatusReg, freeBufs>>
    BY <1>2 DEF SmInitialHandshake, WaitAccept, WaitIgnore, WaitTelegramTimeout, WaitWdTimeout,
                WaitNothing, SmComLost, ProcessNoBuffer, IdleNoMessage, IdleMessage, sender, link,
                upper, module
  <2>2. ((Waiting \/ Processing)' <=> (Waiting \/ Processing)) /\ eState' # "INIT"
    BY <1>2 DEF SmInitialHandshake, WaitAccept, WaitIgnore, WaitTelegramTimeout, WaitWdTimeout,
                WaitNothing, SmComLost, ProcessNoBuffer, IdleNoMessage, IdleMessage, Waiting,
                Processing
  <2> QED BY <2>1, <2>2, UpQuiet
<1>3. ASSUME SmSendWithMessage \/ SmSendWithoutMessage PROVE UpInv' /\ UNCHANGED freeBufs
  BY <1>3, UpSend DEF SmSendWithMessage, SmSendWithoutMessage, upper
<1>4. ASSUME ModuleReceives PROVE UpInv' /\ UNCHANGED freeBufs
  <2>1. CASE Head(toModule).t # reply.t
    BY <1>4, <2>1, UpAnswer DEF ModuleReceives, upper
  <2>2. CASE Head(toModule).t = reply.t
    BY <1>4, <2>2, UpQuiet DEF ModuleReceives, upper, module, sender, link, Waiting, Processing
  <2> QED BY <2>1, <2>2
<1>5. ASSUME \/ anybus_service \/ anybus_timeout \/ Application \/ PieceArrives
             \/ PieceSpoilt \/ PieceLost \/ TelegramLost \/ Repaired \/ UNCHANGED vars
      PROVE  UpInv' /\ ~(freeBufs' < freeBufs)
  <2>1. /\ UNCHANGED <<eState, abTransmissionBuffer, reply, out, iNbrRecFrags, bLastStatusReg>>
        /\ freeBufs' \in {freeBufs, freeBufs + 1}
    BY <1>5 DEF anybus_service, anybus_timeout, Application, QueueCommand, QueueResponse,
                ReturnBuffer, PieceArrives, PieceSpoilt, PieceLost, TelegramLost, Repaired, vars,
                sender, link, upper, module
  <2>2. ~(freeBufs' < freeBufs)
    BY <1>0, <2>1
  <2> QED BY <2>1, <2>2, UpQuiet DEF Waiting, Processing
<1>6. UNCHANGED freeBufs => ~(freeBufs' < freeBufs)
  BY <1>0
<1> QED
  BY <1>1, <1>2, <1>3, <1>4, <1>5, <1>6, UpProcess DEF Next, StateMachine, Line

(* Over a line that loses, spoils and repeats, a message that goes up to   *)
(* the application has as many fragments as the module gave it.  The count *)
(* goes by the status register kept at the acceptance, so that it is right *)
(* even when the reception buffer is overwritten during the wait for a     *)
(* message buffer.                                                         *)
THEOREM MessagesWhole == Spec => MessageUpWhole
<1>1. Init => TypeOK /\ LinkInv /\ UpInv
  BY TypeInit, LinkInit DEF Init, UpInv, SentUp, Waiting, Processing, Reset, Status
<1>2. TypeOK /\ LinkInv /\ UpInv /\ [Next]_vars => TypeOK' /\ LinkInv' /\ UpInv'
  BY TypeStep, LinkStep, UpStep
<1>3. TypeOK /\ LinkInv /\ UpInv /\ [Next]_vars =>
        [freeBufs' < freeBufs => iNbrRecFrags = out.size]_vars
  BY UpStep
<1> QED BY <1>1, <1>2, <1>3, PTL DEF Spec, MessageUpWhole

-----------------------------------------------------------------------------
(***************************************************************************)
(* The buffers for the messages of a module that heeds the R-bit.          *)
(***************************************************************************)

(* Every step keeps a buffer for the message under way.                    *)
LEMMA ReadyStep ==
  ASSUME TypeOK, LinkInv, UpInv, ReadyInv, IgnoresR = FALSE, [Next]_vars
  PROVE  ReadyInv' /\ ~ProcessNoBuffer
<1>0. freeBufs \in Nat /\ reply.m \in BOOLEAN
  BY ConstantFacts, UpFacts DEF TypeOK
<1>1. ~ProcessNoBuffer
  BY DEF ProcessNoBuffer, Closes, ReadyInv
<1>2. ASSUME SmInit PROVE ReadyInv'
  <2>1. ~Waiting' /\ bLastStatusReg'.m = FALSE /\ UNCHANGED <<reply, freeBufs>>
    BY <1>2 DEF SmInit, Waiting, Status, Reset, upper, module
  <2> QED BY <2>1 DEF ReadyInv
<1>3. ASSUME \/ SmInitialHandshake \/ WaitAccept \/ WaitIgnore \/ WaitTelegramTimeout
             \/ WaitWdTimeout \/ WaitNothing \/ SmComLost \/ IdleNoMessage
             \/ \E kind \in {"cmd", "rsp"} : IdleMessage(kind)
      PROVE  ReadyInv'
  <2>1. UNCHANGED <<abTransmissionBuffer, reply, bLastStatusReg, freeBufs>>
    BY <1>3 DEF SmInitialHandshake, WaitAccept, WaitIgnore, WaitTelegramTimeout, WaitWdTimeout,
                WaitNothing, SmComLost, IdleNoMessage, IdleMessage, sender, link, upper, module
  <2>2. Waiting' => Waiting
    BY <1>3 DEF SmInitialHandshake, WaitAccept, WaitIgnore, WaitTelegramTimeout, WaitWdTimeout,
                WaitNothing, SmComLost, IdleNoMessage, IdleMessage, Waiting
  <2> QED BY <2>1, <2>2 DEF ReadyInv, Acted, Cur
<1>4. ASSUME SmSendWithMessage \/ SmSendWithoutMessage PROVE ReadyInv'
  <2>1. PICK frag : SendTelegram(frag)
    BY <1>4 DEF SmSendWithMessage, SmSendWithoutMessage
  <2>2. abTransmissionBuffer'.r = (freeBufs > 0) /\ UNCHANGED <<reply, bLastStatusReg, freeBufs>>
    BY <1>4, <2>1 DEF SendTelegram, SmSendWithMessage, SmSendWithoutMessage, link, upper, module
  <2> QED BY <2>2 DEF ReadyInv
<1>5. ASSUME SmProcess PROVE ReadyInv'
  <2>1. ~Waiting' /\ bLastStatusReg'.m = reply.m /\ bCurrentStatusReg.m = reply.m
        /\ UNCHANGED reply
    BY <1>5 DEF SmProcess, AfterProcess, Waiting, Processing, LinkInv, ExchangeInv, Status, module
  <2>2. reply.m => UNCHANGED freeBufs
    BY <1>5, <2>1 DEF SmProcess, Closes
  <2> QED BY <2>1, <2>2 DEF ReadyInv
<1>6. ASSUME ModuleReceives PROVE ReadyInv'
  <2>1. UNCHANGED <<eState, abTransmissionBuffer, bLastStatusReg, freeBufs>>
    BY <1>6 DEF ModuleReceives, sender, link, upper
  <2>2. CASE Head(toModule).t # reply.t
    <3>1. Waiting /\ ~Acted /\ Acted' /\ Answers(abTransmissionBuffer)
      BY <1>6, <2>1, <2>2, ModuleActs DEF Acted, Cur
    <3>2. PICK o \in Offers(abTransmissionBuffer) : reply'.m = (o.size # 0)
      BY <3>1 DEF Answers
    <3>3. o.size # 0 => out.left > 0 \/ abTransmissionBuffer.r
      BY <3>2 DEF Offers
    <3>4. out.left > 0 => reply.m
      BY UpFacts DEF UpInv
    <3> QED BY <2>1, <3>1, <3>2, <3>3, <3>4 DEF ReadyInv
  <2>3. CASE Head(toModule).t = reply.t
    <3>1. UNCHANGED reply
      BY <1>6, <2>3 DEF ModuleReceives, module
    <3> QED BY <2>1, <3>1 DEF ReadyInv, Waiting, Acted, Cur
  <2> QED BY <2>2, <2>3
<1>7. ASSUME \/ anybus_service \/ anybus_timeout \/ Application \/ PieceArrives
             \/ PieceSpoilt \/ PieceLost \/ TelegramLost \/ Repaired \/ UNCHANGED vars
      PROVE  ReadyInv'
  <2>1. /\ UNCHANGED <<eState, abTransmissionBuffer, reply, bLastStatusReg>>
        /\ freeBufs' \in {freeBufs, freeBufs + 1}
    BY <1>7 DEF anybus_service, anybus_timeout, Application, QueueCommand, QueueResponse,
                ReturnBuffer, PieceArrives, PieceSpoilt, PieceLost, TelegramLost, Repaired, vars,
                sender, link, upper, module
  <2>2. freeBufs > 0 => freeBufs' > 0
    BY <1>0, <2>1
  <2> QED BY <2>1, <2>2 DEF ReadyInv, Waiting, Acted, Cur
<1> QED
  BY <1>1, <1>2, <1>3, <1>4, <1>5, <1>6, <1>7 DEF Next, StateMachine, Line

(* With a module that heeds the R-bit processing never waits for a message *)
(* buffer, so that nothing overwrites an answer between its acceptance and *)
(* its processing (apdr_ser.c 788).                                        *)
THEOREM NeverOutOfBuffers ==
  ASSUME IgnoresR = FALSE
  PROVE  Spec => [][~ProcessNoBuffer]_vars
<1>1. Init => TypeOK /\ LinkInv /\ UpInv /\ ReadyInv
  BY TypeInit, LinkInit
     DEF Init, UpInv, ReadyInv, SentUp, Waiting, Processing, Reset, Status
<1>2. TypeOK /\ LinkInv /\ UpInv /\ ReadyInv /\ [Next]_vars
        => TypeOK' /\ LinkInv' /\ UpInv' /\ ReadyInv' /\ [~ProcessNoBuffer]_vars
  BY TypeStep, LinkStep, UpStep, ReadyStep
<1> QED BY <1>1, <1>2, PTL DEF Spec

(* The link is the stop-and-wait channel unless both fail: a line that     *)
(* spoils and a module that sends messages the driver has no room for.     *)
THEOREM LinkRefines ==
  ASSUME ~(Spoils /\ IgnoresR)
  PROVE  Spec => LinkIsStopAndWait
<1>1. CASE Spoils = FALSE
  <2>1. [Spoils => ~ProcessNoBuffer]_vars
    BY <1>1
  <2> QED BY <2>1, LinkRefinesInTime, PTL DEF BufferInTime
<1>2. CASE IgnoresR = FALSE
  <2>1. [~ProcessNoBuffer]_vars => [Spoils => ~ProcessNoBuffer]_vars
    OBVIOUS
  <2> QED BY <1>2, <2>1, NeverOutOfBuffers, LinkRefinesInTime, PTL DEF BufferInTime
<1>3. {Spoils, IgnoresR} \subseteq BOOLEAN
  BY ApdrAssumption
<1> QED BY <1>1, <1>2, <1>3

=============================================================================
