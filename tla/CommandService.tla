--------------------------- MODULE CommandService ---------------------------
(***************************************************************************)
(* The command service: the tool on the PC (FormMain.cpp) reads and writes *)
(* the settings of the board over a TCP connection.  DebugComm.c takes the *)
(* frames of a segment one by one, looks the command up, reads or writes   *)
(* the variable behind it and its place in the FRAM, and answers through   *)
(* network.c.  All answers are built in one buffer, m_send_buf, and        *)
(* tcp_write is told not to copy (network.c:78): what an answer says is    *)
(* fixed when TCP puts it on the wire, and again when TCP sends it again.  *)
(*                                                                         *)
(* At a start the settings come from the FRAM; holding the key for five    *)
(* seconds stores the defaults and restarts the board (testsuite.c).       *)
(*                                                                         *)
(* Of lwIP the sending side is here, in answers for bytes: the queue with  *)
(* its limit in pbufs, the segments under way, Nagle's rule, the timer for *)
(* retransmission.  A segment from the tool carries whole frames, in       *)
(* order; of more than RecvFrames the rest is lost.  One connection.       *)
(***************************************************************************)
EXTENDS DateTime, SequencesExt

CONSTANTS
  Cmds,         \* commands the tool uses
  Numbers,      \* numbers it writes
  Dates,        \* dates it writes
  MaxPending,   \* requests without an answer, at most
  RecvFrames,   \* frames that fit into recv_buf: BUF_SIZE by MSG_LEN, 11
  TCP_SND_QUEUELEN,     \* pbufs TCP queues, 22
  MaxTicks      \* seconds that pass after the clock is set, at most

DIR_READ  == 1
DIR_WRITE == 2

Unknown == <<>>                 \* the history cannot tell
Torn    == <<"cut", "short">>   \* what is left of a write that power cut short

(* The settings: the variable behind a command is the one its var_list      *)
(* names.                                                                   *)
VarOf == [CMD_READ_INT1 |-> "int_var1", CMD_LOCAL_IP |-> "ip",
          CMD_GATEWAY |-> "netmask", CMD_NETMASK |-> "gateway"]

Settings  == DOMAIN VarOf
Variables == {VarOf[c] : c \in Settings}

(* main.h: IP_ADDR0 .., NETMASK_ADDR0 .., GW_ADDR0 ..; network_restore_def  *)
Default == [CMD_LOCAL_IP |-> <<192, 168, 50, 14>>, CMD_NETMASK |-> <<255, 255, 255, 0>>,
            CMD_GATEWAY |-> <<192, 168, 50, 1>>]

ASSUME CommandServiceAssumption ==
  /\ Cmds \subseteq Settings \cup {"CMD_READ_DATE", "CMD_MAC"}
  /\ MaxPending \in 1 .. 132      \* whole frames in a segment, TCP_MSS by MSG_LEN
  /\ RecvFrames \in Nat \ {0} /\ TCP_SND_QUEUELEN \in Nat /\ MaxTicks \in Nat
  /\ Dates # {} /\ \A d \in Dates : IsDate(d) /\ d[1] \in 2012 .. 2022

VARIABLES
  memory, fram,             \* the variables and their places in the FRAM
  netif,                    \* the addresses the interface works with
  rtc,                      \* counter of the RTC
  cnt_net_restore,
  m_send_buf,
  queued,                   \* answers TCP holds
  sent,                     \* of these in the unacknowledged segments ...
  sent1,                    \* ... and in the first of them
  wire,                     \* segments on their way to the tool
  received,                 \* of the answers TCP holds those the tool has
  requests,                 \* requests on their way to the board
  shown,                    \* what the tool shows of each setting
  \* history: requests that are to be answered; whether the last segment of
  \* requests lost some; the last request; what was written last to each
  \* setting; the true time and how far it has gone on
  unanswered, missed, last, expected, trueTime, ticks

store      == <<memory, fram, netif>>
tcp        == <<queued, sent, sent1, wire, received>>
clock      == <<rtc, trueTime, ticks>>
history    == <<unanswered, missed, last, expected>>
vars       == <<store, clock, cnt_net_restore, m_send_buf, tcp, requests, shown, history>>

-----------------------------------------------------------------------------
(* Frames.  A parameter is a tuple: of one number, of an address, or the    *)
(* fields of a zipped date.                                                 *)
Params(cmd) == IF cmd = "CMD_READ_DATE" THEN {datetime_zip(d) : d \in Dates}
               ELSE {<<n>> : n \in Numbers}

Frame == [dir : {DIR_READ}, cmd : Cmds, param : {<<0>>}]
           \cup UNION {[dir : {DIR_WRITE}, cmd : {c}, param : Params(c)] : c \in Cmds}

NoFrame == [dir |-> 0, cmd |-> "none", param |-> Unknown]

(* Commands with a handler or a variable; others get no answer.             *)
Registered(cmd) == cmd \in Settings \cup {"CMD_READ_DATE"}

(* test_cmd_parse *)
test_cmd_parse(s, f) ==
  IF f.dir = DIR_READ
    THEN [s EXCEPT !.answer = [f EXCEPT !.param = datetime_zip(datetime_convert(s.rtc))]]
    ELSE [s EXCEPT !.answer = f, !.rtc = datetime_mktime(datetime_unzip(f.param))]

(* For mutation: the variable is written, its place in the FRAM is not.     *)
Var_Auto_Update_Service_MemoryOnly(s, f) ==
  IF f.dir = DIR_READ
    THEN [s EXCEPT !.answer = [f EXCEPT !.param = s.memory[VarOf[f.cmd]]]]
    ELSE [s EXCEPT !.answer = f, !.memory = [s.memory EXCEPT ![VarOf[f.cmd]] = f.param]]

(* Var_Auto_Update_Service *)
Var_Auto_Update_Service(s, f) ==
  IF f.dir = DIR_READ
    THEN [s EXCEPT !.answer = [f EXCEPT !.param = s.memory[VarOf[f.cmd]]]]
    ELSE [s EXCEPT !.answer = f,
                   !.memory = [s.memory EXCEPT ![VarOf[f.cmd]] = f.param],
                   !.fram = [s.fram EXCEPT ![f.cmd] = f.param]]

(* The sending side of TCP: s.wire gets the answers that are not yet in a    *)
(* segment, as they read now.                                               *)
Emit(s) ==
  IF s.queued = s.sent THEN s
  ELSE [s EXCEPT !.wire = s.wire \cup {[from |-> s.sent, to |-> s.queued, says |-> s.answer]},
                 !.sent1 = IF s.sent = 0 THEN s.queued ELSE s.sent1,
                 !.sent = s.queued]

(* tcp_output, with Nagle's rule: nothing goes out before the last segment  *)
(* is acknowledged.                                                         *)
tcp_output(s) == IF s.sent = 0 THEN Emit(s) ELSE s

(* pbufs on the queues: one for each answer and one for each segment.       *)
snd_queuelen(s) ==
  s.queued + (IF s.sent1 > 0 THEN 1 ELSE 0) + (IF s.sent > s.sent1 THEN 1 ELSE 0)
           + (IF s.queued > s.sent THEN 1 ELSE 0)

(* send_data: tcp_write wants two pbufs.  If it gets none the answer is     *)
(* lost, and what is queued goes out at once (TF_NAGLEMEMERR).              *)
send_data(s) ==
  IF snd_queuelen(s) + 2 <= TCP_SND_QUEUELEN
    THEN tcp_output([s EXCEPT !.queued = s.queued + 1])
    ELSE [Emit(s) EXCEPT !.refused = s.refused + 1]

(* Cmd_Service: the board after a frame, with the answer in m_send_buf and  *)
(* handed to TCP.                                                           *)
Cmd_Service(s, f) ==
  IF ~Registered(f.cmd) THEN s
  ELSE send_data(IF f.cmd \in Settings THEN Var_Auto_Update_Service(s, f)
                 ELSE test_cmd_parse(s, f))

(* For mutation: left > 11 leaves the last frame of a segment.              *)
ParseDebugCommMsg_NotLast(s, frames) ==
  FoldLeft(Cmd_Service, s, IF frames = <<>> THEN frames ELSE Front(frames))

(* ParseDebugCommMsg: the frames in recv_buf, one after the other.          *)
ParseDebugCommMsg(s, frames) == FoldLeft(Cmd_Service, s, frames)

(* What a restart does to the settings: net_var_init, test_var_init.        *)
Loaded(m) == [v \in Variables |->
                CASE v = "int_var1" -> m["CMD_READ_INT1"]
                  [] v = "ip"       -> m["CMD_LOCAL_IP"]
                  [] v = "netmask"  -> m["CMD_NETMASK"]
                  [] v = "gateway"  -> m["CMD_GATEWAY"]]

(* For mutation: each address under its own name.                           *)
LwIP_Init_ByName(conf) ==
  [ip |-> conf["ip"], netmask |-> conf["netmask"], gw |-> conf["gateway"]]

LwIP_Init(conf) ==
  [ip |-> conf["ip"], netmask |-> conf["gateway"], gw |-> conf["netmask"]]

(* The order in which network_restore_def writes, and the FRAM after n of   *)
(* its writes.                                                              *)
Restored == <<"CMD_LOCAL_IP", "CMD_NETMASK", "CMD_GATEWAY">>

network_restore_def(m, n) ==
  [c \in Settings |-> IF \E k \in 1 .. n : Restored[k] = c THEN Default[c] ELSE m[c]]

-----------------------------------------------------------------------------
Factory == [c \in Settings |-> IF c \in DOMAIN Default THEN Default[c] ELSE <<0>>]

Init ==
  /\ fram = Factory /\ memory = Loaded(Factory) /\ netif = LwIP_Init(Loaded(Factory))
  /\ rtc = check_rtc_exist(0)
  /\ cnt_net_restore = 0 /\ m_send_buf = NoFrame
  /\ queued = 0 /\ sent = 0 /\ sent1 = 0 /\ wire = {} /\ received = 0
  /\ requests = <<>> /\ shown = [c \in Settings |-> Unknown]
  /\ unanswered = 0 /\ missed = FALSE /\ last = NoFrame /\ expected = Factory
  /\ trueTime = Seconds(DefaultDate) /\ ticks = 0

(* The tool sends a request: a double click reads a setting, the return key *)
(* writes it and reads it back without waiting for the first answer.        *)
Request ==
  /\ Len(requests) < MaxPending
  /\ \E f \in Frame :
       /\ Registered(f.cmd) => unanswered < MaxPending
       /\ requests' = Append(requests, f) /\ last' = f
       /\ unanswered' = IF Registered(f.cmd) THEN unanswered + 1 ELSE unanswered
  /\ UNCHANGED <<store, clock, cnt_net_restore, m_send_buf, tcp, shown, missed, expected>>

(* History: the true time, once the frames have been taken.                 *)
DateWrites(frames) ==
  {k \in DOMAIN frames : frames[k].cmd = "CMD_READ_DATE" /\ frames[k].dir = DIR_WRITE}

TimeSet(frames) ==
  IF DateWrites(frames) = {} THEN UNCHANGED <<trueTime, ticks>>
  ELSE /\ trueTime' = Seconds(datetime_unzip(frames[Max(DateWrites(frames))].param))
       /\ ticks' = 0

Wrote(e, f) == IF f.cmd \in Settings /\ f.dir = DIR_WRITE THEN [e EXCEPT ![f.cmd] = f.param] ELSE e

(* tcp_receive: an acknowledgement of the first a answers frees the         *)
(* segments it covers.                                                      *)
Freed(a) ==
  IF a >= queued THEN queued ELSE IF a >= sent THEN sent ELSE IF a >= sent1 THEN sent1 ELSE 0

(* The board when that is done.                                             *)
Acknowledged(a) ==
  LET k    == Freed(a)
      left == IF k >= sent THEN 0 ELSE sent - k IN
  [memory |-> memory, fram |-> fram, rtc |-> rtc, answer |-> m_send_buf, refused |-> 0,
   queued |-> queued - k, sent |-> left, sent1 |-> IF k = 0 THEN sent1 ELSE left,
   wire |-> {[from |-> w.from - k, to |-> w.to - k, says |-> w.says] :
               w \in {v \in wire : v.to > k}}]

Awaited(frames) == {k \in DOMAIN frames : Registered(frames[k].cmd)}

(* network_srv: a segment from the tool with n requests and the             *)
(* acknowledgement of a answers.  tcp_input frees what is acknowledged,     *)
(* then socket_recv takes what fits into recv_buf, tcp_output ends it.      *)
Segment(n, a) ==
  LET k      == IF n <= RecvFrames THEN n ELSE RecvFrames
      frames == SubSeq(requests, 1, k)
      cut    == SubSeq(requests, k + 1, n) IN
  /\ n > 0 \/ a > 0
  /\ requests' = SubSeq(requests, n + 1, Len(requests))
  /\ UNCHANGED <<netif, cnt_net_restore, shown, last>>
  /\ \E s \in {tcp_output(ParseDebugCommMsg(Acknowledged(a), frames))},
        lost \in {Cardinality(Awaited(cut))} :
       /\ memory' = s.memory /\ fram' = s.fram /\ rtc' = s.rtc /\ m_send_buf' = s.answer
       /\ queued' = s.queued /\ sent' = s.sent /\ sent1' = s.sent1 /\ wire' = s.wire
       /\ received' = received - Freed(a)
       /\ unanswered' = unanswered - (lost + s.refused)
       /\ missed' = IF n = 0 THEN missed ELSE lost + s.refused > 0
  /\ TimeSet(frames) /\ expected' = FoldLeft(Wrote, expected, frames)

NetworkSrv == \E n \in 0 .. Len(requests), a \in 0 .. received : Segment(n, a)

(* The tool takes the answers of a segment it does not have yet; one that   *)
(* comes too early waits for those before it.  The field of a setting shows *)
(* the last answer, DealData does not look at dir.                          *)
DealData(sh, f) == IF f.cmd \in Settings THEN [sh EXCEPT ![f.cmd] = f.param] ELSE sh

ToolReceives ==
  \E w \in wire :
    /\ w.from <= received
    /\ wire' = wire \ {w}
    /\ IF w.to <= received THEN UNCHANGED <<received, unanswered, shown>>
       ELSE /\ received' = w.to /\ unanswered' = unanswered - (w.to - received)
            /\ shown' = DealData(shown, w.says)
    /\ UNCHANGED <<store, clock, cnt_net_restore, m_send_buf, queued, sent, sent1, requests,
                   missed, last, expected>>

SegmentLost ==
  \E w \in wire :
    /\ wire' = wire \ {w}
    /\ UNCHANGED <<store, clock, cnt_net_restore, m_send_buf, queued, sent, sent1, received,
                   requests, shown, history>>

(* tcp_rexmit_rto, when what was sent does not get through: all segments    *)
(* are queued again, and the first goes out as it reads by now.  A second   *)
(* one is the last, TCP's queue is full then: Nagle's rule holds it back.   *)
Retransmit ==
  /\ received < sent /\ \A w \in wire : w.from > received
  /\ wire' = wire \cup {[from |-> 0, to |-> sent1, says |-> m_send_buf]}
  /\ sent' = sent1
  /\ UNCHANGED <<store, clock, cnt_net_restore, m_send_buf, queued, sent1, received, requests,
                 shown, history>>

Second ==
  /\ ticks < MaxTicks
  /\ rtc' = rtc + 1 /\ trueTime' = trueTime + 1 /\ ticks' = ticks + 1
  /\ UNCHANGED <<store, cnt_net_restore, m_send_buf, tcp, requests, shown, history>>

(* History: a clock that shows the day after the last of a month, or a year *)
(* after 2022, is set back to the default date by a restart.                *)
Forgotten(secs) ==
  StartsMonth(secs) \/ secs >= Seconds(<<2023, 1, 1, 0, 0, 0>>)

(* network_init and test_suite_init with the FRAM as it is; the tool has to *)
(* connect again.  The RTC runs on from its battery.                        *)
Restart(m) ==
  /\ fram' = m /\ memory' = Loaded(m) /\ netif' = LwIP_Init(Loaded(m))
  /\ rtc' = check_rtc_exist(rtc)
  /\ trueTime' = IF Forgotten(trueTime) /\ rtc' # rtc THEN Seconds(DefaultDate) ELSE trueTime
  /\ ticks' = ticks
  /\ cnt_net_restore' = 0
  /\ m_send_buf' = NoFrame /\ queued' = 0 /\ sent' = 0 /\ sent1' = 0 /\ wire' = {} /\ received' = 0
  /\ requests' = <<>> /\ unanswered' = 0 /\ missed' = FALSE /\ last' = NoFrame
  /\ UNCHANGED shown

(* Power fails, perhaps while the next request is being written: the FRAM   *)
(* takes its bytes one by one.                                              *)
PowerFailure ==
  \/ /\ Restart(fram) /\ UNCHANGED expected
  \/ /\ requests # <<>> /\ Head(requests).dir = DIR_WRITE /\ Head(requests).cmd \in Settings
     /\ Restart([fram EXCEPT ![Head(requests).cmd] = Torn])
     /\ expected' = [expected EXCEPT ![Head(requests).cmd] = Unknown]

(* For mutation: one time too many.                                         *)
NetConfig_Restore_Check_Sixth ==
  IF cnt_net_restore < 5
    THEN /\ cnt_net_restore' = cnt_net_restore + 1
         /\ UNCHANGED <<store, clock, m_send_buf, tcp, requests, shown, history>>
    ELSE /\ Restart(network_restore_def(fram, 3))
         /\ expected' = network_restore_def(expected, 3)

(* NetConfig_Restore_Check, once a second while the key is pressed; the     *)
(* count is not reset when the key is let go.  The fifth time stores the    *)
(* defaults and lets the watchdog restart the board.                        *)
NetConfig_Restore_Check ==
  IF cnt_net_restore < 4
    THEN /\ cnt_net_restore' = cnt_net_restore + 1
         /\ UNCHANGED <<store, clock, m_send_buf, tcp, requests, shown, history>>
    ELSE /\ Restart(network_restore_def(fram, 3))
         /\ expected' = network_restore_def(expected, 3)

(* Power fails between or in the middle of the writes of the restore.       *)
RestoreCut ==
  /\ cnt_net_restore = 4
  /\ \E n \in 0 .. 2 :
       \/ /\ Restart(network_restore_def(fram, n))
          /\ expected' = network_restore_def(expected, n)
       \/ /\ Restart([network_restore_def(fram, n) EXCEPT ![Restored[n + 1]] = Torn])
          /\ expected' = [network_restore_def(expected, n) EXCEPT ![Restored[n + 1]] = Unknown]

Next ==
  \/ Request \/ NetworkSrv \/ Second \/ NetConfig_Restore_Check \/ PowerFailure \/ RestoreCut
  \/ ToolReceives \/ SegmentLost \/ Retransmit

Spec == Init /\ [][Next]_vars

-----------------------------------------------------------------------------
TypeOK ==
  /\ DOMAIN memory = Variables /\ DOMAIN fram = Settings
  /\ rtc \in Nat /\ trueTime \in Nat /\ ticks \in 0 .. MaxTicks
  /\ cnt_net_restore \in 0 .. 4
  /\ m_send_buf.dir \in 0 .. 2
  /\ {queued, sent, sent1, received} \subseteq Nat
  /\ received <= queued /\ sent1 <= sent /\ sent <= queued
  /\ \A w \in wire : w.from < w.to /\ w.to <= queued
  /\ requests \in Seq(Frame) /\ Len(requests) <= MaxPending
  /\ unanswered \in 0 .. MaxPending /\ missed \in BOOLEAN
  /\ DOMAIN shown = Settings

(* The tool has an answer to all it asked, and the last request was taken.  *)
Quiet == requests = <<>> /\ received = queued /\ ~missed

(* When everything asked has been answered, the setting that was read last  *)
(* shows what was written to it last, whatever restarts, lost segments and  *)
(* answers built over one another came between: a written setting survives  *)
(* in the FRAM, and the last answer is never an older one.                  *)
(* (DebugComm.c:63-106, 260-264; network.c:60-96, 378-391;                  *)
(* testsuite.c:297-313)                                                     *)
ReadsBack ==
  Quiet /\ last.dir = DIR_READ /\ last.cmd \in Settings /\ expected[last.cmd] # Unknown
    => shown[last.cmd] = expected[last.cmd]

(* Every request of a known command is answered exactly once, unless it was *)
(* cut off with the end of a long segment or its answer found TCP's queue   *)
(* full: what the tool waits for are the requests not yet taken and the     *)
(* answers TCP holds, whichever segments are lost, sent again in other      *)
(* pieces or acknowledged late.                                             *)
(* (network.c:60-145; DebugComm.c:152-216, 266-315)                         *)
OneAnswerEach == unanswered = Cardinality(Awaited(requests)) + (queued - received)

(* The clock keeps the date it was set to over seconds and restarts: it     *)
(* reads as the true date except in the first second of a month.  A restart *)
(* in that second or after 2022 sets it back (Forgotten).                   *)
(* (datetime.c:71-151, 243-322; testsuite.c:253-278)                        *)
ClockKept ==
  ~StartsMonth(trueTime) =>
    /\ IsDate(datetime_convert(rtc))
    /\ Seconds(datetime_convert(rtc)) = trueTime

(* Until something is written the interface works with the addresses the    *)
(* tool reads: net_var_init, var_list and LwIP_Init agree about which       *)
(* variable is the netmask, although its name is gateway.                   *)
(* (network.c:372-391, netconf.c:81-86)                                     *)
InterfaceAsShown ==
  last = NoFrame =>
    /\ netif.ip      = memory[VarOf["CMD_LOCAL_IP"]]
    /\ netif.netmask = memory[VarOf["CMD_NETMASK"]]
    /\ netif.gw      = memory[VarOf["CMD_GATEWAY"]]
=============================================================================
