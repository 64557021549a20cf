------------------------------- MODULE Aplink -------------------------------
(***************************************************************************)
(* The link layer of the Anybus driver (aplink.c) between the data link    *)
(* and the application: the states of the driver, the configuration it     *)
(* does by itself (aplink_RunCfgStateMachine), the queues and buffer pools *)
(* for messages, the counters of commands in use, the lengths of the       *)
(* process data, and above it the start-up client APPC (appc.c) and the    *)
(* servers of the application (abcc_cbf.c, appd.c).                        *)
(*                                                                         *)
(* Everything runs in the main loop: one turn of APLINK_RunStateMachine is *)
(* a run of the data link and then the work of the driver state.  The data *)
(* link appears with what concerns this layer.  That a telegram and its    *)
(* answer are each taken once, in turn, is what StopAndWait states and     *)
(* ApdrSerial implements; here neither is lost.  A message is one fragment *)
(* followed by a telegram without one.  The application calls no shutdown  *)
(* of the driver.                                                          *)
(*                                                                         *)
(* A definition whose name ends in _Something is a broken variant of the   *)
(* one it precedes: it shows that a property notices the difference.       *)
(***************************************************************************)
EXTENDS Naturals, Sequences, FiniteSets

CONSTANTS
  AbccCmds,     \* ABCC_NBR_SIMULTANEOUS_ABCC_COMMANDS
  ApplCmds,     \* ABCC_NBR_SIMULTANEOUS_APPL_COMMANDS
  ReadMaps,     \* objects of APPD mapped to read process data, one unit each
  WriteMaps,    \* and to write process data
  Lens,         \* lengths the module may ask for when it remaps
  Fails         \* whether the module refuses configuration commands

ASSUME AplinkAssumption ==
  /\ AbccCmds \in 1 .. 255 /\ ApplCmds \in 1 .. 255
  /\ ReadMaps \in 0 .. 256 /\ WriteMaps \in 0 .. 256
  /\ Lens \subseteq 0 .. 256
  /\ Fails \in BOOLEAN

VARIABLES
  phase,                      \* where the main loop is in its turn
  eDriverState, eCfgState, iMapCntr,
  bNbrOfCmdsActiveFromAbcc, bNbrOfCmdsActiveToAbcc,
  xRspsToAbccQueue, xCmdsToAbccQueue, xMsgsFromAbccQueue,
  usedRsp, usedCmd, usedMsg,  \* entries in use of the three pools of buffers
  iReadPdLength, iWritePdLength, iNewWritePdLength,
  fRemappingReadPd, fRemappingWritePd,
  \* the data link, apdr_s: the last answer, whether the one before it had a
  \* fragment, and the message that fragment belongs to
  eState, psWriteMsgBuffer, bLastSentMsgType, fCompleteWrPdRemap,
  iPdReadLength, iPdWriteLength, answer, lastM, sMsgRead,
  appc_eState,
  \* external: telegram and answer under way, the message the module has half
  \* received, the commands it has to answer, the number of its own commands
  \* without response, the message it is sending, whether it is set up, the
  \* number of objects it has mapped, and the lengths of process data it uses;
  \* history: its resets that the application has taken
  toModule, fromModule, got, owed, asked, out, isSetUp, mapped, modRead, modWrite, resets

driver  == <<eDriverState, eCfgState, iMapCntr>>
counts  == <<bNbrOfCmdsActiveFromAbcc, bNbrOfCmdsActiveToAbcc>>
toAbcc  == <<xRspsToAbccQueue, xCmdsToAbccQueue, usedRsp, usedCmd>>
toAppl  == <<xMsgsFromAbccQueue, usedMsg>>
lengths == <<iReadPdLength, iWritePdLength, iNewWritePdLength, iPdReadLength,
             iPdWriteLength>>
remap   == <<fRemappingReadPd, fRemappingWritePd, fCompleteWrPdRemap>>
link    == <<eState, psWriteMsgBuffer, bLastSentMsgType, answer, lastM, sMsgRead>>
own     == <<got, owed, asked, out, isSetUp, mapped, modRead, modWrite>>
module  == <<own, resets>>
line    == <<toModule, fromModule>>
vars    == <<phase, driver, counts, toAbcc, toAppl, lengths, remap, link,
             appc_eState, line, module>>

-----------------------------------------------------------------------------
(* Messages: the C-bit, what is asked for, whether the response is positive *)
(* (E-bit clear) and the length a remap leads to.                           *)

Query == {"MODULE_TYPE", "NW_TYPE", "NW_PARAM_SUPPORT", "NW_DATA_FORMAT"}
Map   == {"READ_MAPPING", "WRITE_MAPPING"}
Appc  == {"NW_TYPE_STR", "FIRMWARE", "SERIAL_NO", "DIP_SW1", "DIP_SW2", "SETUP_COMPLETE"}
Remap == {"REMAP_READ", "REMAP_WRITE"}

NULL == [c |-> FALSE, op |-> "none", ok |-> FALSE, len |-> 0]
Cmd(op)        == [c |-> TRUE, op |-> op, ok |-> TRUE, len |-> 0]
Rsp(cmd, good) == [cmd EXCEPT !.c = FALSE, !.ok = good]

Nothing == [frag |-> NULL, r |-> FALSE, len |-> 0, sent |-> FALSE]
Telegram(frag, r, len) == [frag |-> frag, r |-> r, len |-> len, sent |-> TRUE]

Count(P) == IF P THEN 1 ELSE 0

(* The counters are of type UINT8.                                          *)
Decrement(count) == (count + 255) % 256
Increment(count) == (count + 1) % 256

-----------------------------------------------------------------------------
(* APLINK_SendMessage of a command, with the counter of commands to the     *)
(* module at n: refused when the pool, the counter or the queue is full.    *)
CanSend(n) == /\ usedCmd < ApplCmds
              /\ n < ApplCmds
              /\ Len(xCmdsToAbccQueue) < ApplCmds

Send(m, n) == /\ xCmdsToAbccQueue' = Append(xCmdsToAbccQueue, m)
              /\ usedCmd' = usedCmd + 1
              /\ bNbrOfCmdsActiveToAbcc' = Increment(n)
              /\ UNCHANGED <<xRspsToAbccQueue, usedRsp>>

(* APPC_RunStateMachine: the next command of the start-up, or the same one  *)
(* again in the next call when the driver would not take it.  Both switches *)
(* have been set (anybus_init).                                             *)
NextAppc == [x \in Appc |-> CASE x = "NW_TYPE_STR"    -> "FIRMWARE"
                              [] x = "FIRMWARE"       -> "SERIAL_NO"
                              [] x = "SERIAL_NO"      -> "DIP_SW1"
                              [] x = "DIP_SW1"        -> "DIP_SW2"
                              [] x = "DIP_SW2"        -> "SETUP_COMPLETE"
                              [] x = "SETUP_COMPLETE" -> "DONE"]

APPC_RunStateMachine(n) ==
  \/ /\ appc_eState # "DONE" /\ CanSend(n)
     /\ Send(Cmd(appc_eState), n)
     /\ appc_eState' = NextAppc[appc_eState]
  \/ /\ appc_eState = "DONE" \/ ~CanSend(n)
     /\ bNbrOfCmdsActiveToAbcc' = n
     /\ UNCHANGED <<toAbcc, appc_eState>>

(* APDR_SetPdSize: the data link uses these lengths from now on.            *)
APDR_SetPdSize(read, write) == iPdReadLength' = read /\ iPdWriteLength' = write

-----------------------------------------------------------------------------
(* After ABCC_StartDriver (anybus_init).  APLINK_Init and APDR_Init, which  *)
(* the state SETUP calls, set what is zero already.                         *)
Init ==
  /\ phase = "main"
  /\ eDriverState = "SETUP" /\ eCfgState = <<"INIT">> /\ iMapCntr = 0
  /\ bNbrOfCmdsActiveFromAbcc = 0 /\ bNbrOfCmdsActiveToAbcc = 0
  /\ xRspsToAbccQueue = <<>> /\ xCmdsToAbccQueue = <<>> /\ xMsgsFromAbccQueue = <<>>
  /\ usedRsp = 0 /\ usedCmd = 0 /\ usedMsg = 0
  /\ iReadPdLength = 0 /\ iWritePdLength = 0 /\ iNewWritePdLength = 0
  /\ fRemappingReadPd = FALSE /\ fRemappingWritePd = FALSE
  /\ eState = "IDLE" /\ psWriteMsgBuffer = NULL /\ bLastSentMsgType = "rsp"
  /\ fCompleteWrPdRemap = FALSE /\ iPdReadLength = 0 /\ iPdWriteLength = 0
  /\ answer = Nothing /\ lastM = FALSE /\ sMsgRead = NULL
  /\ appc_eState = "NW_TYPE_STR"
  /\ toModule = Nothing /\ fromModule = Nothing /\ got = NULL /\ owed = <<>>
  /\ asked = 0 /\ out = NULL /\ isSetUp = FALSE
  /\ mapped = [op \in Map |-> 0] /\ modRead = 0 /\ modWrite = 0 /\ resets = 0

(* APLINK_RunStateMachine in SETUP.                                         *)
RunSetup ==
  /\ phase = "main" /\ eDriverState = "SETUP"
  /\ eDriverState' = "IN_CONFIGURATION" /\ eCfgState' = <<"INIT">>
  /\ UNCHANGED <<phase, iMapCntr, counts, toAbcc, toAppl, lengths, remap, link,
                 appc_eState, line, module>>

(* In the states after it a turn starts with the data link.                 *)
RunLink ==
  /\ phase = "main" /\ eDriverState \in {"IN_CONFIGURATION", "IN_RUN_NO_PD", "IN_RUN"}
  /\ phase' = "link"
  /\ UNCHANGED <<driver, counts, toAbcc, toAppl, lengths, remap, link, appc_eState,
                 line, module>>

-----------------------------------------------------------------------------
(* The data link, as far as it calls this layer.                            *)

(* APLINK_FreeCmdSlots, the R-bit.                                          *)
APLINK_FreeCmdSlots_Queue == Len(xMsgsFromAbccQueue) < AbccCmds + ApplCmds

APLINK_FreeCmdSlots == /\ bNbrOfCmdsActiveFromAbcc < AbccCmds
                       /\ Len(xMsgsFromAbccQueue) < AbccCmds + ApplCmds

(* case APDR_SM_IDLE: a response or a command from its queue, in turns when *)
(* there are both; commands only while the module takes them.               *)
Turn_Strict(kind) ==
  IF kind = "cmd"
  THEN /\ answer.r /\ xCmdsToAbccQueue # <<>>
       /\ bLastSentMsgType = "rsp" \/ xRspsToAbccQueue = <<>>
  ELSE xRspsToAbccQueue # <<>> /\ (~answer.r \/ bLastSentMsgType = "cmd")

Turn(kind) ==
  IF kind = "cmd"
  THEN /\ answer.r /\ xCmdsToAbccQueue # <<>>
       /\ bLastSentMsgType = "rsp" \/ xRspsToAbccQueue = <<>>
  ELSE /\ xRspsToAbccQueue # <<>>
       /\ ~answer.r \/ bLastSentMsgType = "cmd" \/ xCmdsToAbccQueue = <<>>

LinkIdle ==
  /\ phase = "link" /\ eState = "IDLE"
  /\ \/ /\ Turn("cmd")
        /\ psWriteMsgBuffer' = Head(xCmdsToAbccQueue)
        /\ xCmdsToAbccQueue' = Tail(xCmdsToAbccQueue)
        /\ bLastSentMsgType' = "cmd" /\ eState' = "SEND_TELEGRAM_WITH_MESSAGE"
        /\ UNCHANGED xRspsToAbccQueue
     \/ /\ Turn("rsp")
        /\ psWriteMsgBuffer' = Head(xRspsToAbccQueue)
        /\ xRspsToAbccQueue' = Tail(xRspsToAbccQueue)
        /\ bLastSentMsgType' = "rsp" /\ eState' = "SEND_TELEGRAM_WITH_MESSAGE"
        /\ UNCHANGED xCmdsToAbccQueue
     \/ /\ ~Turn("cmd") /\ ~Turn("rsp")
        /\ eState' = "SEND_TELEGRAM_WITHOUT_MESSAGE"
        /\ UNCHANGED <<psWriteMsgBuffer, bLastSentMsgType, xRspsToAbccQueue,
                       xCmdsToAbccQueue>>
  /\ UNCHANGED <<phase, driver, counts, usedRsp, usedCmd, toAppl, lengths, remap,
                 answer, lastM, sMsgRead, appc_eState, line, module>>

LinkSend ==
  /\ phase = "link"
  /\ eState \in {"SEND_TELEGRAM_WITH_MESSAGE", "SEND_TELEGRAM_WITHOUT_MESSAGE"}
  /\ toModule' = Telegram(psWriteMsgBuffer, APLINK_FreeCmdSlots, iPdWriteLength)
  /\ eState' = "WAIT_FOR_TELEGRAM"
  /\ phase' = "upper"
  /\ UNCHANGED <<driver, counts, toAbcc, toAppl, lengths, remap, psWriteMsgBuffer,
                 bLastSentMsgType, answer, lastM, sMsgRead, appc_eState, fromModule,
                 module>>

(* case APDR_SM_WAIT_FOR_TELEGRAM without and with an answer, which is one  *)
(* of the length the data link expects.  An answer after the one that       *)
(* acknowledged a response to REMAP_ADI_WRITE_AREA shows that the module    *)
(* has that response: APLINK_UseNewWritePdMap.                              *)
Answered == fromModule.sent /\ fromModule.len = iPdReadLength

LinkWait ==
  /\ phase = "link" /\ eState = "WAIT_FOR_TELEGRAM" /\ ~Answered
  /\ phase' = "upper"
  /\ UNCHANGED <<driver, counts, toAbcc, toAppl, lengths, remap, link, appc_eState,
                 line, module>>

LinkAccept ==
  /\ phase = "link" /\ eState = "WAIT_FOR_TELEGRAM" /\ Answered
  /\ answer' = fromModule /\ fromModule' = Nothing
  /\ lastM' = (answer.frag # NULL)
  /\ IF fCompleteWrPdRemap
     THEN /\ iWritePdLength' = iNewWritePdLength
          /\ APDR_SetPdSize(iReadPdLength, iNewWritePdLength)
          /\ fRemappingWritePd' = FALSE /\ fCompleteWrPdRemap' = FALSE
     ELSE UNCHANGED <<iWritePdLength, iPdReadLength, iPdWriteLength, fRemappingWritePd,
                      fCompleteWrPdRemap>>
  /\ eState' = "PROCESS_RECEIVED_TELEGRAM"
  /\ UNCHANGED <<phase, driver, counts, toAbcc, toAppl, iReadPdLength,
                 iNewWritePdLength, fRemappingReadPd, psWriteMsgBuffer,
                 bLastSentMsgType, sMsgRead, appc_eState, toModule, module>>

(* case APDR_SM_PROCESS_RECEIVED_TELEGRAM.  A message is complete with the  *)
(* first answer without a fragment.                                         *)
Closes == answer.frag = NULL /\ lastM

(* APLINK_MessageReceived: a command is counted; a positive response to     *)
(* SETUP_COMPLETE sets the lengths the application mapped (the sizes of     *)
(* APPD) and starts the exchange of process data.                           *)
IsSetupAck(m) == ~m.c /\ m.op = "SETUP_COMPLETE" /\ m.ok

MessageReceived_Any(m) ==
  /\ bNbrOfCmdsActiveFromAbcc' = Increment(bNbrOfCmdsActiveFromAbcc)
  /\ UNCHANGED <<iReadPdLength, iWritePdLength, iPdReadLength, iPdWriteLength,
                 eDriverState>>
  /\ xMsgsFromAbccQueue' = Append(xMsgsFromAbccQueue, m)
  /\ usedMsg' = usedMsg + 1

MessageReceived(m) ==
  /\ bNbrOfCmdsActiveFromAbcc' = IF m.c THEN Increment(bNbrOfCmdsActiveFromAbcc)
                                        ELSE bNbrOfCmdsActiveFromAbcc
  /\ IF IsSetupAck(m)
     THEN /\ iReadPdLength' = ReadMaps /\ iWritePdLength' = WriteMaps
          /\ APDR_SetPdSize(ReadMaps, WriteMaps)
          /\ eDriverState' = IF eDriverState = "IN_RUN_NO_PD" THEN "IN_RUN"
                                                              ELSE eDriverState
     ELSE UNCHANGED <<iReadPdLength, iWritePdLength, iPdReadLength, iPdWriteLength,
                      eDriverState>>
  /\ IF Len(xMsgsFromAbccQueue) < AbccCmds + ApplCmds
     THEN /\ xMsgsFromAbccQueue' = Append(xMsgsFromAbccQueue, m)
          /\ usedMsg' = usedMsg + 1
     ELSE UNCHANGED <<xMsgsFromAbccQueue, usedMsg>>

(* APLINK_CompleteMsgTrans: the module has the whole of a message.  The     *)
(* read length of a remap holds at once, the write length from the answer   *)
(* after next.                                                              *)
IsRemapAck(m, op) == ~m.c /\ m.op = op /\ m.ok

CompleteMsgTrans_Parallel(m) ==
  /\ usedRsp' = usedRsp - Count(~m.c) /\ usedCmd' = usedCmd - Count(m.c)
  /\ bNbrOfCmdsActiveFromAbcc' = bNbrOfCmdsActiveFromAbcc - Count(~m.c)
  /\ iPdReadLength' = IF IsRemapAck(m, "REMAP_READ") THEN m.len ELSE iPdReadLength
  /\ iReadPdLength' = iPdReadLength'
  /\ iPdWriteLength' = IF IsRemapAck(m, "REMAP_WRITE") THEN m.len ELSE iPdWriteLength
  /\ fRemappingReadPd' = (fRemappingReadPd /\ ~IsRemapAck(m, "REMAP_READ"))
  /\ UNCHANGED <<iNewWritePdLength, fCompleteWrPdRemap>>

CompleteMsgTrans(m) ==
  /\ IF m.c
     THEN /\ usedCmd' = usedCmd - 1
          /\ UNCHANGED <<usedRsp, bNbrOfCmdsActiveFromAbcc>>
     ELSE /\ usedRsp' = usedRsp - 1
          /\ bNbrOfCmdsActiveFromAbcc' = IF bNbrOfCmdsActiveFromAbcc > 0
                                         THEN bNbrOfCmdsActiveFromAbcc - 1 ELSE 0
          /\ UNCHANGED usedCmd
  /\ IF IsRemapAck(m, "REMAP_WRITE")
     THEN iNewWritePdLength' = m.len /\ fCompleteWrPdRemap' = TRUE
     ELSE UNCHANGED <<iNewWritePdLength, fCompleteWrPdRemap>>
  /\ IF IsRemapAck(m, "REMAP_READ")
     THEN /\ iReadPdLength' = m.len /\ APDR_SetPdSize(m.len, iWritePdLength)
          /\ fRemappingReadPd' = FALSE
     ELSE UNCHANGED <<iReadPdLength, iPdReadLength, iPdWriteLength, fRemappingReadPd>>

(* A fragment is kept; without one a message that was under way is complete *)
(* and delivered in a buffer.  Were there none the data link would stay     *)
(* here: PoolsSuffice states that there is.  Then the data link turns to    *)
(* what it sent itself.                                                     *)
LinkReceive ==
  /\ phase = "link" /\ eState = "PROCESS_RECEIVED_TELEGRAM"
  /\ \/ /\ Closes /\ usedMsg < AbccCmds + ApplCmds
        /\ MessageReceived(sMsgRead)
        /\ sMsgRead' = NULL
     \/ /\ ~Closes
        /\ sMsgRead' = IF answer.frag # NULL THEN answer.frag ELSE sMsgRead
        /\ UNCHANGED <<bNbrOfCmdsActiveFromAbcc, toAppl, eDriverState, iReadPdLength,
                       iWritePdLength, iPdReadLength, iPdWriteLength>>
  /\ phase' = "sent"
  /\ UNCHANGED <<eCfgState, iMapCntr, bNbrOfCmdsActiveToAbcc, toAbcc,
                 iNewWritePdLength, remap, eState, psWriteMsgBuffer, bLastSentMsgType,
                 answer, lastM, appc_eState, line, module>>

LinkSent ==
  /\ phase = "sent"
  /\ IF psWriteMsgBuffer = NULL
     THEN /\ eState' = "IDLE"
          /\ UNCHANGED <<psWriteMsgBuffer, bNbrOfCmdsActiveFromAbcc, usedRsp, usedCmd,
                         iReadPdLength, iNewWritePdLength, iPdReadLength,
                         iPdWriteLength, fRemappingReadPd, fCompleteWrPdRemap>>
     ELSE /\ eState' = "SEND_TELEGRAM_WITHOUT_MESSAGE"
          /\ CompleteMsgTrans(psWriteMsgBuffer)
          /\ psWriteMsgBuffer' = NULL
  /\ phase' = "link"
  /\ UNCHANGED <<driver, bNbrOfCmdsActiveToAbcc, xRspsToAbccQueue, xCmdsToAbccQueue,
                 toAppl, iWritePdLength, fRemappingWritePd, bLastSentMsgType, answer,
                 lastM, sMsgRead, appc_eState, line, module>>

-----------------------------------------------------------------------------
(* aplink_RunCfgStateMachine, one state a turn.  A command is <<"SEND", op>> *)
(* and then <<"WAIT", op>>; after a map comes <<"NEXT", op>>.               *)
NextQuery == [q \in Query |-> CASE q = "MODULE_TYPE"      -> <<"SEND", "NW_TYPE">>
                                [] q = "NW_TYPE"          -> <<"SEND", "NW_PARAM_SUPPORT">>
                                [] q = "NW_PARAM_SUPPORT" -> <<"SEND", "NW_DATA_FORMAT">>
                                [] q = "NW_DATA_FORMAT"   -> <<"NEXT", "READ_MAPPING">>]

Configures == phase = "upper" /\ eDriverState = "IN_CONFIGURATION"

CfgInit ==
  /\ Configures /\ eCfgState = <<"INIT">>
  /\ iReadPdLength' = 0 /\ iWritePdLength' = 0
  /\ eCfgState' = <<"SEND", "MODULE_TYPE">>
  /\ phase' = "main"
  /\ UNCHANGED <<eDriverState, iMapCntr, counts, toAbcc, toAppl, iNewWritePdLength,
                 iPdReadLength, iPdWriteLength, remap, link, appc_eState, line, module>>

(* A buffer is taken and written without a look whether there was one;      *)
(* PoolsSuffice states that there is.  The result of posting is ignored.    *)
CfgSend ==
  /\ Configures /\ eCfgState[1] = "SEND" /\ usedCmd < ApplCmds
  /\ IF CanSend(bNbrOfCmdsActiveToAbcc)
     THEN Send(Cmd(eCfgState[2]), bNbrOfCmdsActiveToAbcc)
     ELSE UNCHANGED <<toAbcc, bNbrOfCmdsActiveToAbcc>>
  /\ eCfgState' = <<"WAIT", eCfgState[2]>>
  /\ phase' = "main"
  /\ UNCHANGED <<eDriverState, iMapCntr, bNbrOfCmdsActiveFromAbcc, toAppl, lengths,
                 remap, link, appc_eState, line, module>>

CfgWait ==
  /\ Configures /\ eCfgState[1] = "WAIT" /\ xMsgsFromAbccQueue = <<>>
  /\ phase' = "main"
  /\ UNCHANGED <<driver, counts, toAbcc, toAppl, lengths, remap, link, appc_eState,
                 line, module>>

(* Whatever message comes first is taken for the response.  Without a good  *)
(* response to a query the configuration is given up; a map is counted.     *)
TakeMessage == /\ xMsgsFromAbccQueue # <<>>
               /\ xMsgsFromAbccQueue' = Tail(xMsgsFromAbccQueue)
               /\ usedMsg' = usedMsg - 1

CfgResponse ==
  /\ Configures /\ eCfgState[1] = "WAIT" /\ TakeMessage
  /\ bNbrOfCmdsActiveToAbcc' = Decrement(bNbrOfCmdsActiveToAbcc)
  /\ LET op   == eCfgState[2]
         good == Head(xMsgsFromAbccQueue) = Rsp(Cmd(op), TRUE)
     IN  \/ /\ op \in Query /\ good
            /\ eCfgState' = NextQuery[op]
            /\ iMapCntr' = IF op = "NW_DATA_FORMAT" THEN 0 ELSE iMapCntr
            /\ UNCHANGED <<eDriverState, iReadPdLength, iWritePdLength>>
         \/ /\ op \in Query /\ ~good
            /\ eDriverState' = "IN_RUN_NO_PD"
            /\ UNCHANGED <<eCfgState, iMapCntr, iReadPdLength, iWritePdLength>>
         \/ /\ op \in Map
            /\ iReadPdLength'  = iReadPdLength + Count(good /\ op = "READ_MAPPING")
            /\ iWritePdLength' = iWritePdLength + Count(good /\ op = "WRITE_MAPPING")
            /\ iMapCntr' = iMapCntr + 1
            /\ eCfgState' = <<"NEXT", op>>
            /\ UNCHANGED eDriverState
  /\ phase' = "main"
  /\ UNCHANGED <<bNbrOfCmdsActiveFromAbcc, toAbcc, iNewWritePdLength, iPdReadLength,
                 iPdWriteLength, remap, link, appc_eState, line, module>>

(* The read maps, then the write maps; after them ABCC_CbfCfgCompleted      *)
(* starts APPC from its first command.                                      *)
CfgNext ==
  /\ Configures /\ eCfgState[1] = "NEXT"
  /\ LET reading == eCfgState[2] = "READ_MAPPING"
         more    == iMapCntr < IF reading THEN ReadMaps ELSE WriteMaps
         turns   == reading /\ ~more /\ WriteMaps # 0
     IN  \/ /\ more
            /\ eCfgState' = <<"SEND", eCfgState[2]>>
            /\ UNCHANGED <<eDriverState, iMapCntr, bNbrOfCmdsActiveToAbcc, toAbcc,
                           appc_eState>>
         \/ /\ turns
            /\ iMapCntr' = 0 /\ eCfgState' = <<"SEND", "WRITE_MAPPING">>
            /\ UNCHANGED <<eDriverState, bNbrOfCmdsActiveToAbcc, toAbcc, appc_eState>>
         \/ /\ ~more /\ ~turns
            /\ eDriverState' = "IN_RUN_NO_PD"
            /\ APPC_RunStateMachine(bNbrOfCmdsActiveToAbcc)
            /\ UNCHANGED <<eCfgState, iMapCntr>>
  /\ phase' = "main"
  /\ UNCHANGED <<bNbrOfCmdsActiveFromAbcc, toAppl, lengths, remap, link, line, module>>

-----------------------------------------------------------------------------
(* aplink_HandleQueuedMsgsToAppl: one message a turn.                       *)
Serves == phase = "upper" /\ eDriverState \in {"IN_RUN_NO_PD", "IN_RUN"}

NoMessage ==
  /\ Serves /\ xMsgsFromAbccQueue = <<>>
  /\ phase' = "main"
  /\ UNCHANGED <<driver, counts, toAbcc, toAppl, lengths, remap, link, appc_eState,
                 line, module>>

(* A response: the counter goes down before APPC, the only client, is told  *)
(* and may send its next command.                                           *)
ResponseToAppl_Late ==
  /\ Serves /\ TakeMessage /\ ~Head(xMsgsFromAbccQueue).c
  /\ IF appc_eState # "DONE" /\ CanSend(bNbrOfCmdsActiveToAbcc)
     THEN /\ Send(Cmd(appc_eState), Decrement(bNbrOfCmdsActiveToAbcc))
          /\ appc_eState' = NextAppc[appc_eState]
     ELSE /\ bNbrOfCmdsActiveToAbcc' = Decrement(bNbrOfCmdsActiveToAbcc)
          /\ UNCHANGED <<toAbcc, appc_eState>>
  /\ phase' = "main"
  /\ UNCHANGED <<driver, bNbrOfCmdsActiveFromAbcc, lengths, remap, link, line, module>>

ResponseToAppl ==
  /\ Serves /\ TakeMessage /\ ~Head(xMsgsFromAbccQueue).c
  /\ APPC_RunStateMachine(Decrement(bNbrOfCmdsActiveToAbcc))
  /\ phase' = "main"
  /\ UNCHANGED <<driver, bNbrOfCmdsActiveFromAbcc, lengths, remap, link, line, module>>

(* A command: the server of its object answers it at once, a remap with the *)
(* new size or an error.  The flag of a remap is set when its good response *)
(* gets a buffer; without a buffer the response is lost.                    *)
CommandToAppl_Refused ==
  /\ Serves /\ TakeMessage /\ Head(xMsgsFromAbccQueue).c /\ Head(xMsgsFromAbccQueue).op # "RESET"
  /\ usedRsp < AbccCmds /\ usedRsp' = usedRsp + 1
  /\ \E good \in (IF Head(xMsgsFromAbccQueue).op \in Remap THEN BOOLEAN ELSE {TRUE}) :
        LET op == Head(xMsgsFromAbccQueue).op
        IN  /\ fRemappingReadPd'  = (fRemappingReadPd \/ op = "REMAP_READ")
            /\ fRemappingWritePd' = (fRemappingWritePd \/ op = "REMAP_WRITE")
            /\ xRspsToAbccQueue' = Append(xRspsToAbccQueue,
                                          Rsp(Head(xMsgsFromAbccQueue), good))
  /\ phase' = "main"
  /\ UNCHANGED <<driver, counts, xCmdsToAbccQueue, usedCmd, lengths, fCompleteWrPdRemap,
                 link, appc_eState, line, module>>

CommandToAppl ==
  /\ Serves /\ TakeMessage /\ Head(xMsgsFromAbccQueue).c /\ Head(xMsgsFromAbccQueue).op # "RESET"
  /\ \E good \in (IF Head(xMsgsFromAbccQueue).op \in Remap THEN BOOLEAN ELSE {TRUE}) :
        LET rsp == Rsp(Head(xMsgsFromAbccQueue), good)
        IN  IF usedRsp < AbccCmds
            THEN /\ fRemappingReadPd'  = (fRemappingReadPd \/ IsRemapAck(rsp, "REMAP_READ"))
                 /\ fRemappingWritePd' = (fRemappingWritePd \/ IsRemapAck(rsp, "REMAP_WRITE"))
                 /\ xRspsToAbccQueue' = Append(xRspsToAbccQueue, rsp)
                 /\ usedRsp' = usedRsp + 1
            ELSE UNCHANGED <<fRemappingReadPd, fRemappingWritePd, xRspsToAbccQueue, usedRsp>>
  /\ phase' = "main"
  /\ UNCHANGED <<driver, counts, xCmdsToAbccQueue, usedCmd, lengths, fCompleteWrPdRemap,
                 link, appc_eState, line, module>>

(* The reset command to the Application object (app_ObjectCommand): nothing *)
(* makes a response of it, and APP_ProcessCmdMsg sends the message as it    *)
(* is, which is a command to the module.  The slot of the reset is lost.    *)
ResetToAppl ==
  /\ Serves /\ TakeMessage /\ Head(xMsgsFromAbccQueue).c /\ Head(xMsgsFromAbccQueue).op = "RESET"
  /\ IF CanSend(bNbrOfCmdsActiveToAbcc)
     THEN Send(Head(xMsgsFromAbccQueue), bNbrOfCmdsActiveToAbcc)
     ELSE UNCHANGED <<toAbcc, bNbrOfCmdsActiveToAbcc>>
  /\ resets' = resets + 1
  /\ phase' = "main"
  /\ UNCHANGED <<driver, bNbrOfCmdsActiveFromAbcc, lengths, remap, link, appc_eState, line, own>>

Driver == \/ RunSetup \/ RunLink
          \/ LinkIdle \/ LinkSend \/ LinkWait \/ LinkAccept
          \/ LinkReceive \/ LinkSent
          \/ CfgInit \/ CfgSend \/ CfgWait \/ CfgResponse \/ CfgNext
          \/ NoMessage \/ ResponseToAppl \/ CommandToAppl \/ ResetToAppl

-----------------------------------------------------------------------------
(* External: the module.  It answers a telegram of the length it expects.   *)
(* A telegram without fragment after one with makes a message complete: a   *)
(* command is owed a response, a response to one of its remaps gives it the *)
(* new length, for reading in this answer and for writing from the next     *)
(* telegram on.                                                             *)
Received == IF toModule.frag = NULL THEN got ELSE NULL

OwedNow    == IF Received.c THEN Append(owed, Received) ELSE owed
ModReadNow == IF IsRemapAck(Received, "REMAP_READ") THEN Received.len ELSE modRead

Receives == toModule.sent /\ toModule.len = modWrite /\ ~fromModule.sent

Answer(frag, owedNext) ==
  /\ toModule' = Nothing /\ got' = toModule.frag
  /\ fromModule' = Telegram(frag, owedNext = <<>>, ModReadNow)
  /\ owed' = owedNext
  /\ UNCHANGED <<phase, driver, counts, toAbcc, toAppl, lengths, remap, link, appc_eState, resets>>

(* Lengths of process data after the answer.                                *)
KeepLengths == /\ modRead' = ModReadNow
               /\ modWrite' = IF IsRemapAck(Received, "REMAP_WRITE") THEN Received.len
                                                                   ELSE modWrite

AskedNow == IF ~Received.c /\ Received # NULL THEN asked - 1 ELSE asked

ModuleIdle ==
  /\ Receives /\ out = NULL
  /\ Answer(NULL, OwedNow)
  /\ asked' = AskedNow /\ KeepLengths
  /\ UNCHANGED <<out, isSetUp, mapped>>

(* The answer that ends its message.  With a good response to SETUP_COMPLETE *)
(* the process data mapped so far is exchanged from the next telegram on.   *)
ModuleCloses ==
  /\ Receives /\ out # NULL
  /\ Answer(NULL, OwedNow)
  /\ asked' = AskedNow /\ out' = NULL
  /\ IF IsSetupAck(out)
     THEN /\ isSetUp' = TRUE
          /\ modRead' = mapped["READ_MAPPING"] /\ modWrite' = mapped["WRITE_MAPPING"]
     ELSE KeepLengths /\ UNCHANGED isSetUp
  /\ UNCHANGED mapped

ModuleResponds ==
  /\ Receives /\ out = NULL /\ OwedNow # <<>>
  /\ \E good \in {TRUE, ~Fails} :
        /\ out' = Rsp(Head(OwedNow), good)
        /\ Answer(out', Tail(OwedNow))
        /\ mapped' = IF good /\ out'.op \in Map THEN [mapped EXCEPT ![out'.op] = @ + 1]
                                                ELSE mapped
  /\ asked' = AskedNow /\ KeepLengths
  /\ UNCHANGED isSetUp

(* Once set up it sends a command when the driver has room for one.         *)
ModuleCommands ==
  /\ Receives /\ out = NULL /\ isSetUp /\ toModule.r
  /\ \E op \in {"GET", "RESET"} \union Remap, len \in Lens :
        /\ op \notin Remap => len = CHOOSE l \in Lens : TRUE
        /\ out' = [Cmd(op) EXCEPT !.len = len]
        /\ Answer(out', OwedNow)
  /\ asked' = AskedNow + 1 /\ KeepLengths
  /\ UNCHANGED <<isSetUp, mapped>>

Module == ModuleIdle \/ ModuleCloses \/ ModuleResponds \/ ModuleCommands

Next == Driver \/ Module

(* The main loop keeps running and the module keeps answering; a module     *)
(* that owes a response again and again gets to send it.                    *)
Fairness == WF_vars(Driver) /\ WF_vars(Module) /\ SF_vars(ModuleResponds)

Spec == Init /\ [][Next]_vars /\ Fairness

-----------------------------------------------------------------------------
(* Properties.                                                              *)

Message == [c : BOOLEAN, ok : BOOLEAN, len : Lens \union {0},
            op : Query \union Map \union Appc \union Remap \union {"GET", "RESET"}]
Length  == 0 .. 256
Line    == [frag : Message \union {NULL}, r : BOOLEAN, len : Nat, sent : BOOLEAN]

ControlOK ==
  /\ phase \in {"main", "link", "sent", "upper"}
  /\ eDriverState \in {"SETUP", "IN_CONFIGURATION", "IN_RUN_NO_PD", "IN_RUN"}
  /\ eCfgState \in {<<"INIT">>} \union ({"SEND", "WAIT"} \X (Query \union Map))
                                \union ({"NEXT"} \X Map)
  /\ eState \in {"IDLE", "SEND_TELEGRAM_WITH_MESSAGE", "SEND_TELEGRAM_WITHOUT_MESSAGE",
                 "WAIT_FOR_TELEGRAM", "PROCESS_RECEIVED_TELEGRAM"}
  /\ bLastSentMsgType \in {"cmd", "rsp"}
  /\ appc_eState \in Appc \union {"DONE"}
  /\ {fRemappingReadPd, fRemappingWritePd, fCompleteWrPdRemap, lastM, isSetUp} \subseteq BOOLEAN

QueuesOK == {xRspsToAbccQueue, xCmdsToAbccQueue, xMsgsFromAbccQueue, owed} \subseteq Seq(Message)

MessagesOK == /\ {psWriteMsgBuffer, sMsgRead, got, out} \subseteq Message \union {NULL}
              /\ {answer, toModule, fromModule} \subseteq Line

LengthsOK == /\ {iReadPdLength, iWritePdLength, iNewWritePdLength, iPdReadLength,
                 iPdWriteLength} \subseteq Length
             /\ iMapCntr \in Nat /\ {modRead, modWrite} \subseteq Nat /\ mapped \in [Map -> Nat]

DataOK == ControlOK /\ QueuesOK /\ MessagesOK /\ LengthsOK

(* The counters and pools stay within the build's limits.                   *)
WithinLimits ==
  /\ bNbrOfCmdsActiveFromAbcc \in 0 .. AbccCmds /\ bNbrOfCmdsActiveToAbcc \in 0 .. ApplCmds
  /\ usedRsp \in 0 .. AbccCmds /\ usedCmd \in 0 .. ApplCmds
  /\ usedMsg \in 0 .. AbccCmds + ApplCmds
  /\ asked \in 0 .. AbccCmds /\ resets \in 0 .. AbccCmds

(* Types, which also bound the queues and pools by the build's limits       *)
(* (aplink_priv.h:144-173).                                                 *)
TypeOK == DataOK /\ WithinLimits

(* Where the messages are.  The data link holds a message of its own until  *)
(* the answer to its fragment, then the module holds it; a message of the   *)
(* module is on the way until the data link delivers it.                    *)
Commands       == {m \in Message : m.c}
Responses      == {m \in Message : ~m.c}
One(m, K)      == IF m \in K THEN 1 ELSE 0
CountIn(q, K)  == Cardinality({i \in DOMAIN q : q[i] \in K})
AtModule       == IF psWriteMsgBuffer # NULL THEN NULL ELSE got
OnTheWay       == IF out # NULL THEN out ELSE sMsgRead

(* Each counter is the number of commands of its direction that have no     *)
(* response yet, wherever command and response are, and each pool of        *)
(* buffers holds exactly the messages queued from it (aplink.c:1036-1041,   *)
(* 2236-2246): a slot or a buffer lost would stop messages for good, one    *)
(* given back twice would let too many in.  Of the slots for commands of    *)
(* the module each reset to the Application object loses one, and nothing   *)
(* else does (app.c:112, 315-322).                                          *)
CommandsBalanced ==
  /\ bNbrOfCmdsActiveToAbcc =
       Len(xCmdsToAbccQueue) + One(psWriteMsgBuffer, Commands) + One(AtModule, Commands)
         + Len(owed) + One(OnTheWay, Responses) + CountIn(xMsgsFromAbccQueue, Responses)
  /\ bNbrOfCmdsActiveFromAbcc =
       CountIn(xMsgsFromAbccQueue, Commands) + Len(xRspsToAbccQueue)
         + One(psWriteMsgBuffer, Responses) + resets
  /\ usedCmd = Len(xCmdsToAbccQueue) + One(psWriteMsgBuffer, Commands)
  /\ usedRsp = Len(xRspsToAbccQueue) + One(psWriteMsgBuffer, Responses)
  /\ usedMsg = Len(xMsgsFromAbccQueue)

(* The pools are large enough whatever the module does (aplink.h:112): the  *)
(* configuration never writes through the NULL of an empty pool, the data   *)
(* link is never left without a buffer for a message it has received        *)
(* (apdr_ser.c:748), and no response to a command is lost for want of one.  *)
PoolsSuffice ==
  /\ (eDriverState = "IN_CONFIGURATION" /\ eCfgState[1] = "SEND") => usedCmd < ApplCmds
  /\ (eState = "PROCESS_RECEIVED_TELEGRAM" /\ phase = "link" /\ Closes)
        => usedMsg < AbccCmds + ApplCmds
  /\ (xMsgsFromAbccQueue # <<>> /\ Head(xMsgsFromAbccQueue) \in Commands) => usedRsp < AbccCmds

(* Driver and module switch the lengths of the process data at the same     *)
(* telegram, at the end of the set-up and in a remap of either direction    *)
(* (aplink.c:1084-1089, apdr_ser.c:563-567), provided that the module       *)
(* accepted every object: a telegram of another length is never answered.   *)
AllMapped == mapped = [op \in Map |-> IF op = "READ_MAPPING" THEN ReadMaps ELSE WriteMaps]

LengthsAgree ==
  (isSetUp => AllMapped) => /\ toModule.sent => toModule.len = modWrite
                            /\ fromModule.sent => fromModule.len = iPdReadLength

(* The exchange of process data is held off exactly while a remap is        *)
(* between its good response and the switch of the length (aplink.c:716,    *)
(* 843): neither is data used across the switch nor does the exchange stop  *)
(* for good.                                                                *)
Pending(op) == \/ IsRemapAck(psWriteMsgBuffer, op)
               \/ \E i \in DOMAIN xRspsToAbccQueue : IsRemapAck(xRspsToAbccQueue[i], op)

RemapGuarded ==
  /\ fRemappingReadPd <=> Pending("REMAP_READ")
  /\ fRemappingWritePd <=> (Pending("REMAP_WRITE") \/ fCompleteWrPdRemap)

(* Start-up ends: the exchange of process data runs, or the module refused  *)
(* a query, or APPC has done all its commands and none of them is left.     *)
GaveUp == eDriverState = "IN_RUN_NO_PD" /\ eCfgState[2] \in Query

StartupCompletes ==
  <>(\/ eDriverState = "IN_RUN"
     \/ GaveUp
     \/ appc_eState = "DONE" /\ bNbrOfCmdsActiveToAbcc = 0)

(* A command of the module that has no response yet leads to the module     *)
(* receiving one, again provided that it accepted every object, until the   *)
(* application takes a reset: with one slot no command comes after it.      *)
CommandAnswered == asked > 0 ~> (got \in Responses \/ ~AllMapped \/ resets > 0)

-----------------------------------------------------------------------------
(***************************************************************************)
(* The inductive strengthening.  Where a message is while it is sent: in   *)
(* psWriteMsgBuffer until the answer to its fragment was processed, and    *)
(* with the module (got) from that answer to the next telegram.            *)
(***************************************************************************)
SendInv ==
  /\ phase = "sent" => eState = "PROCESS_RECEIVED_TELEGRAM"
  /\ eState = "PROCESS_RECEIVED_TELEGRAM" => phase \in {"link", "sent"}
  /\ eState = "WAIT_FOR_TELEGRAM" => toModule.sent # fromModule.sent
  /\ eState # "WAIT_FOR_TELEGRAM" => ~toModule.sent /\ ~fromModule.sent
  /\ toModule.sent => toModule.frag = psWriteMsgBuffer
  /\ fromModule.sent \/ eState = "PROCESS_RECEIVED_TELEGRAM" => got = psWriteMsgBuffer
  /\ eState = "IDLE" => psWriteMsgBuffer = NULL /\ got = NULL
  /\ eState = "SEND_TELEGRAM_WITH_MESSAGE" => psWriteMsgBuffer # NULL
  /\ eState = "SEND_TELEGRAM_WITHOUT_MESSAGE" => psWriteMsgBuffer = NULL
  /\ (eState = "SEND_TELEGRAM_WITH_MESSAGE" \/ toModule.sent) /\ psWriteMsgBuffer # NULL
       => got = NULL

(* Where a message of the module is: the answer with its fragment, then     *)
(* sMsgRead, until the answer that closes it was processed.                 *)
ReceiveInv ==
  CASE fromModule.sent ->
         /\ out = fromModule.frag /\ sMsgRead = answer.frag
         /\ fromModule.frag # NULL => answer.frag = NULL
    [] eState = "PROCESS_RECEIVED_TELEGRAM" /\ phase = "link" ->
         /\ out = answer.frag /\ (sMsgRead # NULL <=> lastM)
         /\ answer.frag # NULL => sMsgRead = NULL
    [] OTHER -> out = answer.frag /\ sMsgRead = answer.frag

(* Commands and responses keep to their queues.                             *)
KindInv ==
  /\ xCmdsToAbccQueue \in Seq(Commands) /\ xRspsToAbccQueue \in Seq(Responses)
  /\ owed \in Seq(Commands)

(* The commands of the module: on the way up, counted, or their response on *)
(* its way into the module.  It sends one only when there is room.          *)
AskedInv ==
  /\ asked = One(OnTheWay, Commands) + bNbrOfCmdsActiveFromAbcc + One(AtModule, Responses)
  /\ toModule.sent /\ toModule.r => bNbrOfCmdsActiveFromAbcc < AbccCmds

(* While the driver configures, no SETUP_COMPLETE is anywhere.              *)
Early == {m \in Message : m.op # "SETUP_COMPLETE"}

EarlyInv == /\ {psWriteMsgBuffer, got, out, sMsgRead} \subseteq Early \union {NULL}
            /\ xCmdsToAbccQueue \in Seq(Early) /\ owed \in Seq(Early)

(* The configuration has one command out while it waits, and none else; the *)
(* module is not set up and sends no commands.                              *)
SetupInv ==
  /\ eDriverState \in {"SETUP", "IN_CONFIGURATION"} =>
       /\ appc_eState = "NW_TYPE_STR" /\ ~isSetUp
       /\ bNbrOfCmdsActiveToAbcc = Count(eCfgState[1] = "WAIT")
       /\ EarlyInv
  /\ eDriverState = "SETUP" => eCfgState = <<"INIT">>
  /\ ~isSetUp => asked = 0 /\ ~fCompleteWrPdRemap

(* The configuration counts no more objects than it has offered.            *)
OfferInv ==
  eDriverState = "IN_CONFIGURATION" =>
    /\ eCfgState[1] # "INIT" /\ eCfgState[2] \in Query => iReadPdLength = 0
    /\ eCfgState[1] # "INIT" /\ eCfgState[2] # "WRITE_MAPPING" => iWritePdLength = 0
    /\ eCfgState[1] # "INIT" /\ eCfgState[2] = "READ_MAPPING" =>
         iReadPdLength <= iMapCntr
           /\ IF eCfgState[1] = "NEXT" THEN iMapCntr <= ReadMaps ELSE iMapCntr < ReadMaps
    /\ eCfgState[1] # "INIT" /\ eCfgState[2] = "WRITE_MAPPING" =>
         iWritePdLength <= iMapCntr
           /\ IF eCfgState[1] = "NEXT" THEN iMapCntr <= WriteMaps ELSE iMapCntr < WriteMaps

LayerInv == /\ SendInv /\ ReceiveInv /\ KindInv
            /\ CommandsBalanced /\ AskedInv /\ SetupInv /\ OfferInv

(* With one command at a time, the module has none under way while a write  *)
(* length waits for its switch.                                             *)
SwitchInv ==
  fCompleteWrPdRemap => /\ bNbrOfCmdsActiveFromAbcc = 0
                        /\ eState \in {"SEND_TELEGRAM_WITHOUT_MESSAGE", "WAIT_FOR_TELEGRAM"}

(* The reset commands of the module, sent back, and the responses to them.  *)
Echo == {m \in Message : m.op = "RESET"}

(* Until the module is set up the driver has one command under way at a     *)
(* time, whatever ApplCmds allows: APPC sends the next when it is told of a *)
(* response.  SETUP_COMPLETE is its last: before it none is about, after it *)
(* the driver's only commands are resets sent back.                         *)
OnceInv ==
  /\ ~isSetUp => bNbrOfCmdsActiveToAbcc <= 1
  /\ appc_eState # "DONE" => ~isSetUp /\ EarlyInv
  /\ isSetUp => /\ xCmdsToAbccQueue \in Seq(Echo) /\ owed \in Seq(Echo)
                /\ {psWriteMsgBuffer, AtModule} \intersect Commands \subseteq Echo
                /\ {out} \intersect Responses \subseteq Echo

(* The module has sent the last of its response to SETUP_COMPLETE, and the  *)
(* driver has not delivered it yet.                                         *)
JustSetUp == out = NULL /\ IsSetupAck(sMsgRead)

(* How the lengths of driver and module relate: zero before the set-up; the *)
(* read length follows a remap when the module is about to have its         *)
(* response, the write length when the answer to that has come.             *)
Related ==
  IF isSetUp /\ ~JustSetUp
  THEN /\ iReadPdLength = iPdReadLength /\ iWritePdLength = iPdWriteLength
       /\ iPdReadLength = IF IsRemapAck(AtModule, "REMAP_READ") THEN AtModule.len ELSE modRead
       /\ IF fCompleteWrPdRemap /\ fromModule.sent
          THEN iNewWritePdLength = modWrite
          ELSE iPdWriteLength = modWrite
       /\ fCompleteWrPdRemap /\ ~fromModule.sent => iNewWritePdLength = got.len
  ELSE /\ iPdReadLength = 0 /\ iPdWriteLength = 0
       /\ modRead = IF isSetUp THEN ReadMaps ELSE 0
       /\ modWrite = IF isSetUp THEN WriteMaps ELSE 0

AgreeInv ==
  /\ toModule.sent => toModule.len = iPdWriteLength
  /\ fCompleteWrPdRemap => /\ eState \in {"SEND_TELEGRAM_WITHOUT_MESSAGE", "WAIT_FOR_TELEGRAM"}
                           /\ psWriteMsgBuffer = NULL
  /\ IF fCompleteWrPdRemap THEN fromModule.sent \/ IsRemapAck(got, "REMAP_WRITE")
                           ELSE ~IsRemapAck(AtModule, "REMAP_WRITE")
  /\ JustSetUp => isSetUp /\ asked = 0 /\ ~fCompleteWrPdRemap
  /\ (isSetUp => AllMapped) => /\ Related
                               /\ fromModule.sent => fromModule.len = iPdReadLength
=============================================================================
