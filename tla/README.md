# A verification project for start01

The repository is the firmware of a board with an STM32F107 that connects a
motor drive to a fieldbus through an Anybus CompactCom module, and to a PC
through Ethernet. There is no operating system: `main()` runs the initcalls and
then the super-loop of `StartJob()` (`App/Src/main.c:61-73`), interrupted by one
hardware timer and by the USARTs. This directory holds TLA+ modules of the parts
in which steps of several actors meet, TLC configurations that check them on
small instances, and proofs of what matters most for instances of any size.

Paths below are relative to `src/src/`.

## 1. Inventory

| Component | Source | State | Operations | Interacts with |
|---|---|---|---|---|
| Byte FIFO | `Core/src/kfifo.c`, `kfifo.h` | `in`, `out`, `buffer` | `kfifo_put`, `kfifo_get`, `kfifo_putc`, `kfifo_getc`, `kfifo_len` | shared by USART interrupt and super-loop, no lock |
| USART driver | `Bsp/Src/stm32usart.c`, `serial.c` | two FIFOs per port, TC interrupt enable | `usart_irq_route`, `usart_getdatasize`, `usart_getpacket`, `usart_sendstring` | hardware, Anybus glue |
| Software timers | `Bsp/Src/timer.c`, `tim2_init.c` | `timer_list`, `timer_num`, `irq_flag` | `create_timer`, `do_timer` (interrupt), `timer_srv` (super-loop) | calls `anybus_timeout` and others |
| Anybus glue | `App/Src/testsuite.c`, `main.c` | poll counter `cnt`, `anybus_recv_buf` | `anybus_timeout`, `anybus_service` | USART, APDR, UTIL timers |
| Serial data link APDR | `anybus/std_driver/APDR/apdr_ser.c`, `apdr.c` | `apdr_s`: state, T-bit, status registers, buffers, timeout flags | `APDR_RunDataLinkStateMachine`, `APDR_SerialTelegramReceived`, timeout callbacks | SYS, UTIL, APLINK |
| UTIL and SYS | `UTIL/util.c`, `SYS/sys_adpt.c` | timers, message queues, buffer pools | start, stop, reload, run; send, restart | APDR, APLINK, USART |
| Link layer APLINK | `APLINK/aplink.c` | driver state, commands in use, queues, process data lengths | messages up and down, configuration state machine | APDR, APPD, APPC |
| Application objects | `APPD`, `APPC`, `APP`, `DEV`, `DPV1`, `ABCC` | parameter tables, process data | answers to requests | APLINK |
| Clock | `Core/src/clock.c`, `clocksource.c` | `cycle_last`, accumulated ns | `get_time_ns`, `is_timeout`, delays | called from both contexts |
| Heap | `Core/src/dlmem.c` | free list | `rt_malloc`, `rt_free`, `rt_realloc` | FIFO allocation |
| Command service | `App/Src/DebugComm.c`, `ParamCfg.c` | `cmdlist`, `var_list`, static answer buffer | register, dispatch, answer | TCP, parameter stores |
| TCP server | `network/src/network.c`, `netconf.c` | `peer_pcb`, receive buffer, `send_len` | accept, receive, send | lwIP callbacks, command service |
| Parameter stores | `Bsp/Src/fm25l16.c`, `stm32_bpk.c` | FRAM, backup registers | read, write | command service |
| Date and time | `App/Src/datetime.c`, `Bsp/Src/rtc_stm32.c` | RTC counter | convert, zip, set, get | command service |
| GPIO, LEDs, watchdog, start-up | `Bsp/Src/*.c`, `App/Src/Startup.c` | registers | register writes, list of initcalls | |
| PC tool, vendored code | `../pc`, lwIP, STM32 libraries, CMSIS | | | |

What is hard, and what makes each component correct:

* **FIFO and USART.** The interrupt strikes between any two memory accesses of
  the super-loop. On the receive side `kfifo_putc` moves the reader's index when
  the FIFO is full; on the transmit side the FIFO has two readers. Correct: the
  counters never end further apart than the buffer is long, bytes come whole and
  in order as long as no overflow or overlap happens, nobody waits for ever.
* **Software timers.** `IRQ_LOCK` is empty, and `timer_srv` clears `irq_flag`
  after a scan during which ticks may strike. Correct: no callback early, none
  forgotten.
* **Serial link.** Telegrams and answers are lost, changed and late; the receive
  FIFO is polled and not cleared by a restart; three timers race the answer.
  Correct: each telegram is acted on once and its own answer is handed up,
  messages are transferred whole, buffers are kept as long as they are needed,
  a loss is reported once, every telegram is answered in the end, neither kind
  of message starves.
* **APLINK.** Counters of commands in use, queues and pools must agree; process
  data lengths change while telegrams are under way. Correct: no message without
  a buffer, no answer without a command, no slot of a command lost but those of resets.
* **Process data.** Three parties hold a map of the same bytes (APPD, the link layer by
  its lengths, the module) and change it at different times; data is sent and handed up
  only when it differs from the last. Correct: the maps agree outside a remap, nothing
  published is forgotten, no byte reaches an object it was not meant for.
* **TCP and command service.** Requests are pipelined, and there is one static
  answer buffer that lwIP refers to until it is acknowledged; settings live in a
  variable and in the FRAM, and power may fail while one is written. Correct: what is read
  last is what was written last, every request is answered once unless a full buffer or queue lost it.
* **Clock.** `get_time_ns` is called from the super-loop and from the USART
  interrupt. Correct: time never runs backwards.
* **Date and time.** Pure conversions with comparisons at the boundaries of days
  and months. Correct: they agree with a calendar and invert each other.

`PROJECT.json` lists the hazards at the lines where they bite and, for each, the
properties that would notice.

## 2. Modules

```
Kfifo ---------- UsartRx ------- UsartRxProof        KfifoProof is extended by
   \------------ UsartTx ------- UsartTxProof        the two USART proofs
SoftTimer ------ SoftTimerProof
StopAndWait <--- ApdrSerial ---- ApdrWatchdog        (<--- : is implemented by)
                      \--------- ApdrProof
Aplink --------- AplinkProof         (rests on what StopAndWait promises)
ProcessData ---- ProcessDataProof    (rests on the switch that Aplink checks)
DateTime ------- CommandService -- MCCommandService
                      \----------- CommandServiceProof
```

An action has the name of the function or of the `case` it stands for, variables
have the names of the C variables. A definition named `X_Something` is a broken
variant of `X`; it is part of no specification and exists to show that a property
notices the difference. `PROJECT.json` maps every definition to its lines.

### Kfifo

The arithmetic of the FIFO counters: `unsigned int` modulo `Mod` (2^32), the slot
a counter addresses, `min`. Its assumption is that `Mod` is a multiple of `Size`
and more than twice as large, which holds for 2^32 and the power of two (128) every
caller passes; `kfifo_alloc` says that it rounds sizes up (`kfifo.c:72`) and does
not.

### UsartRx

The receive path. `RxInterrupt` is the RXNE branch of `usart_irq_route` with the
whole `kfifo_putc`; the interrupt is atomic for the super-loop. The reader is
`anybus_timeout` taking a telegram, one action per memory access: the two loads
of `in - out` in `usart_getdatasize`, the wait of `usart_getpacket`, again two loads,
the copy byte by byte, and load and store of `fifo->out += len`. C leaves the order
of the two loads open and the build may keep `out` in a register: `FirstLoads` and
`GetAddress` cover both. Received bytes are numbered, so that order and loss show.

Left out: the time stamp the interrupt takes for nobody who reads it here, and
the content of bytes. The five-tick poll is not counted: `DataSizeBegin` may come
at any time, which is more than the program does.

### UsartTx

The transmit path. `sendstring` is one action per memory access from its wait for
an empty FIFO over `kfifo_put` and `kfifo_getc` to the data register and the TC
interrupt enable; `TxInterrupt` is the TC branch of the interrupt; `Shifted` is the
external shift register. `kfifo_put` is one action: until it advances `in`, at
its end, the interrupt finds the FIFO empty and touches nothing. The write of the data
register in the super-loop clears the TC flag only if the status register was read
before, so both are possible. Between two TC interrupts lies a character time
(87 us), longer than the piece of `sendstring` from `kfifo_put` to the data register, so
at most one strikes there (`struck`).

### SoftTimer

`create_timer` in the boot phase, `do_timer` in the interrupt, and `timer_srv` with a
step for each decision: test of `irq_flag`, each slot, reload, call, end of the
scan, clear. `suspend` is written and never read, no caller removes a timer, so
neither is in the model. The hardware timer is one (`TIM2`), as in the code.

### StopAndWait and ApdrSerial

`StopAndWait` is what the serial data link promises: numbered exchanges one at a
time, the module acts on each once, and the answer handed up is its own.

`ApdrSerial` is the link in detail. `eState` is the state of
`APDR_RunDataLinkStateMachine` and each action is one `case` of its switch, or one
branch of a large case (`WaitAccept`, `WaitIgnore`, `WaitTelegramTimeout`,
`WaitWdTimeout`, `WaitNothing`). `running` says whether the super-loop is inside the
state machine, which leaves its `while( 1 )` where the code has `return`.
`anybus_timeout` is a tick: it runs the UTIL timers and, every `PollEvery` ticks,
polls the FIFO, takes *all* bytes of it and hands up the first telegram's length of
them. `QueueCommand`, `QueueResponse` and `ReturnBuffer` are the layers above. The
module and the line are external: telegrams are lost, answers travel in two pieces
of which each may be lost or changed, and while the line is not `healthy` everything
may be late.

Abstractions, and why they are sound:

* A telegram is a number modulo `Ids`, T-bit, M-bit, R-bit and a fragment; CRC-16
  is taken to detect every change, so CRC collisions are excluded. Four numbers
  tell a repeated or stale exchange from the right one, and keep in step with the T-bit,
  which makes fewer states than three.
* An answer has two pieces. That is enough for a poll to come in its middle, for a
  loss to shift all that follows and for rubbish to be taken as the beginning.
* The line moves between runs of the state machine only. A run sends at most once,
  as its last step, and reads neither line nor FIFO; so a step of the line in the middle
  of a run can be exchanged with the steps before it.
* A message's bytes are not kept, only the number of its fragments. A message has a header of
  eight bytes and at most 255 of data (`bDataSize` is a byte), 17 fragments: so the branch for a fragment
  that finds no room (`apdr_ser.c:705-713`) is not reached (`ApdrAssumption`).
* The telegram's R-bit (`APLINK_FreeCmdSlots`) is set while a buffer is free. The
  process data lengths and `fCompleteWrPdRemap` are in `Aplink` and not
  here; the receive length therefore never changes.
* A turn of the super-loop without a tick goes straight to `anybus_service`; only a
  turn that finds something to do (`Pending`) is a step.
* Times are in ticks of 10 ms. In the program a telegram has 6 ticks, the poll
  comes every 5th, the watchdog has 500 and the handshake 150. The runs
  keep what matters: watchdog not shorter than the telegram time, and, where
  liveness is asked for, a telegram time and a poll period without common divisor.
  `TelegramAnswered` rests on that: with a poll every tick, or a telegram time of two ticks
  and a poll every second, a piece left over in the FIFO is followed by half an answer at
  every poll, the other half is left over, and no telegram is ever answered again. A
  change of `cnt%5` (`testsuite.c:218`) or of the baud rate must keep the two apart.

`SYS_ReStartSerialComm` is asked to clear the reception (`apdr_ser.c:606-609`,
`sys_adpt.c:219-222`) and does not: the port is open and `usart_open` returns at once. The
model has it that way (`UNCHANGED rxFifo`), and the properties below are shown
nevertheless: stale bytes cost time, never a wrong exchange.

### ApdrWatchdog

`ApdrSerial` with an observer that counts the ticks since the last accepted answer.

### Aplink

The link layer and what stands on it. A turn of `APLINK_RunStateMachine` is a turn
of the data link (`phase` "link", with "sent" for the second half of
`PROCESS_RECEIVED_TELEGRAM`) and then the work of the driver state ("upper"): a state
of `aplink_RunCfgStateMachine` or one message of `aplink_HandleQueuedMsgsToAppl`. The
twelve states of the configuration are `<<"INIT">>`, `<<"SEND", op>>`, `<<"WAIT", op>>`
and `<<"NEXT", op>>`; four queries are followed by the read and the write maps. A response is handed
to APPC, which sends its next command in the callback; a command is answered by its server in
the callback, with one exception. `ResetToAppl` is the reset command to the Application object: `app_ObjectCommand`
(`app.c:315-322`) makes no response of it, and `APP_ProcessCmdMsg` (112) sends the message back as it came, with its
C-bit, so that it leaves as a command of the driver. The module gets a command instead of an answer and its slot
(`bNbrOfCmdsActiveFromAbcc`) is never given back; `resets` counts them. If all slots of the driver are
taken the echo is refused and its slot is lost all the same. Queues are sequences of messages, pools are numbers of entries in use.

The data link is the one of `ApdrSerial` with loss and retransmission taken away, because
`LinkIsStopAndWait` says that each telegram and each answer is taken once and in
turn. What is added is what `ApdrSerial` leaves out: the length of telegrams, with the rule that
a telegram or an answer of another length than expected is not recognized, and the calls into
APLINK. A message is one fragment and the telegram without a fragment that ends it.

The module is external. It answers commands in order, may refuse queries, maps and the
set-up, sends commands of its own (attribute reads, remaps of either direction, resets) once it is
set up and while the R-bit allows it, and switches the lengths of process data when the driver's
comments say it does (`aplink.c:1084-1089`, `apdr_ser.c:563-567`). A remap
leads to any of the lengths in `Lens`; an object has length one. The bytes of process data are
in `ProcessData`; `APLINK_SM_IN_SHUTDOWN`, which nothing requests, is left out.

### ProcessData

What the bytes of process data mean. `value` holds the five objects of `appd.c`,
`psMaps` and `iNbrMaps` the two maps of APPD as arrays of five items, `layout` and
`newLayout` those of the module. A step is one call: the job that publishes once a second
(`TestSuiteJob` with `APPD_ProcessDataChanged` and `APLINK_WriteProcessData`), the
assembly of a telegram (`SendTelegram`), the process data and status of an answer
(`AnswerReceived` with `APLINK_PutProcessData`, `ABCC_CbfNewReadPd` and
`APPD_CbfNewReadProcessData`), a set command, a remap command with all its
checks, and the switch of lengths. `Aplink` shows that driver and module switch
at the same telegram, so here the switch is one step.

Bytes are numbers and are really encoded and decoded, most significant byte first and with the
sign of the object, because ranges and the compare of old and new data are about
them; what a buffer holds behind the data is a nondeterministic byte. The module's way of remapping is
splicing its own list, so `MapsAgree` compares the loops of
`appd_RemapProcessDataCommand` with a splice. Three constants say what the module does *not* do in the run:
`Inserts` (items in front of others), `Grows` (longer write process data), `Restless` (a
change of its state during a remap). Each is a case in which the code fails; see the hazards at
`appd.c:1378`, `aplink.c:490` and `apdr_ser.c:770`.

### DateTime

`datetime.c` as functions: seconds to date, date to seconds, zip and unzip, the check of a
date and of the clock at a start. They keep what the code does at its boundaries: `>`
for the first second of a month, the wrap of `u8 mon` in January. `Seconds`,
`IsDate` and `Leap` are the calendar they are compared with.

### CommandService

The tool on the PC, the command service of `DebugComm.c`, the connection of `network.c`, the settings
in RAM and FRAM, the interface of `netconf.c`, the clock and the restore key. `Segment` is what `tcp_input` does
with a segment of the tool: it frees the segments that are acknowledged (`Acknowledged`), calls `socket_recv`, which
copies what fits into `recv_buf` (`RecvFrames` whole frames; the rest of the segment is lost, `network.c:133-139`), takes
every frame through `Cmd_Service`, which leaves its answer in `m_send_buf` and hands it to TCP, and ends with `tcp_output`.

Of lwIP 1.3.1 the model has the sending side, in answers instead of bytes: `queued` answers are held, `sent` of
them are in segments that are not acknowledged, `sent1` in the first of those. `send_data` asks
`tcp_enqueue` for two pbufs; `snd_queuelen` counts what is in use, and without room the answer is lost (`network.c:86-95`: nothing is
kept and no caller looks at the result). `tcp_output` obeys Nagle's rule: the first answer leaves at once, later ones wait
for the acknowledgement, or for the refused `tcp_write` that sends them regardless; so there are two segments under way at
most. Because nothing is copied, what a segment `says` is what `m_send_buf` holds when it leaves, and again when
`Retransmit` sends it again. The tool takes segments in order and shows what it gets; it pipelines requests, as its
edit fields do (write, then read back), and acknowledges when it likes.

`Restart` is a start with whatever the FRAM holds, `PowerFailure` also one that cuts a
write short (`Torn`), `NetConfig_Restore_Check` the key that stores the defaults, `RestoreCut` the same with power
failing between or in the middle of its three writes.
`expected`, `trueTime`, `ticks`, `unanswered`, `missed` and `last` are history.

Abstractions: a parameter is a tuple (one number, an address, a date's six fields), not 32 bits;
a frame arrives whole, as the eleven bytes of one send of the tool do; one
connection at a time; a lost segment of the tool is not a step of its own, since TCP repeats it
until it arrives and `Request` may be delayed at will. Left out of lwIP: fast retransmission
after three duplicate acknowledgements (`tcp_in.c:765-806`), which sends what `Retransmit` sends, an empty heap, the connection
given up after twelve retransmissions, and windows, which the 220 bytes that fit into the queue never fill. RTC and FRAM keep running and keep
their contents without power.

## 3. Runs

| Run | Module, cfg | Question | Result |
|---|---|---|---|
| `usart_rx` | `UsartRx.cfg` | FIFO bounds, order, service of a full telegram | holds |
| `usart_rx_order` | `UsartRxOrder.cfg` | is order kept when the FIFO overflows? | violated |
| `usart_tx` | `UsartTx.cfg` | two readers of the transmit FIFO | holds |
| `soft_timer` | `SoftTimer.cfg` | never early, never forgotten | holds |
| `soft_timer_once` | `SoftTimerOnce.cfg` | can ONE_TIME timers be called? | violated |
| `apdr_link` | `ApdrLink.cfg` | stop-and-wait, messages down and up, loss reports | holds |
| `apdr_live` | `ApdrLive.cfg` | is every telegram answered, also after changed bytes? | holds |
| `aplink` | `Aplink.cfg` | slots, pools, lengths, start-up, remaps | holds |
| `apdr_watchdog` | `ApdrWatchdog.cfg` | does a loss report mean silence? | violated |
| `process_data` | `ProcessData.cfg` | maps, publication, hand-over across remaps | holds |
| `command_service` | `CommandService.cfg` | settings and clock over TCP, power failures | holds |
| `settings_swapped` | `SettingsSwapped.cfg` | do netmask and gateway read back? | violated |

**usart_rx.** FIFO of four bytes, telegrams of two, counters modulo 16 and 17 bytes,
so that counters wrap, the buffer is lapped, and up to two bytes
strike in every call: `FifoBounds` (the counters never end up more than a
buffer apart, though both sides write `out`), `StreamIntact` (without overflow what is
handed up is the line, gapless), `TelegramServed` (a complete telegram is
taken). The build loads `in` first; with `out` first an overflow between the loads
gives a length above the buffer size and `FifoBounds` fails, which is why the
theorem has that premise.

**usart_rx_order.** `kfifo.c:148-149` says that one reader and one writer need no
lock. Six bytes suffice: the FIFO is full, a byte strikes while `kfifo_get` copies, the newest
byte takes the place of the oldest and is handed up before older ones. In the
program the FIFO must fill to 128 bytes first, that is, more than a telegram must
be left in it.

**usart_tx.** FIFO of four, strings of two, three and five bytes (the last is cut),
14 bytes, counters modulo 12. `TxBounds`, `NothingStranded` (bytes in the FIFO
imply an interrupt to come), `SendReturns` (the busy-wait ends) hold also when a string
is handed over while the last one is leaving; `WireInOrder` needs that it is not:
with overlap `kfifo_getc` in the super-loop and in the interrupt may take the same
byte or send two in the wrong order. APDR sends at most once per 10 ms tick,
which the telegrams of the program do not fill; strings of one byte, which would
let `out` pass `in`, are not sent. Deadlock is not checked: the program may stop sending.

**soft_timer, soft_timer_once.** Two slots, a period of two units, timeouts of three and
four, so that one timeout is no multiple of the period. `Horizon` bounds the
observer of elapsed time, not the program. For `soft_timer_once` see the findings.

**apdr_link.** Telegram time two ticks, watchdog three, messages of two
fragments both ways, one that waits to go down at a time (`MaxQueued`), one buffer for what comes up, a FIFO that
overflows after three pieces, loss in both directions for ever, and a module that ignores the
R-bit, so that the driver runs out of buffers in the middle of processing. `LinkIsStopAndWait` is
the refinement of `StopAndWait` with `issued` the number of the last telegram, `acted` that of
the module's last answer and `handled` that of the last answer handed up. `FragmentsWhole`,
`BufferKeptUntilTaken`, `LossReportedOnce` and `MessageUpWhole` are action properties. About 2.6
million states.

**apdr_live.** Everything may go wrong, changed bytes included, until, one day, line and module work:
`TelegramAnswered`, and the refinement again, here with rubbish in the FIFO. Without
application messages, to keep the liveness check small. That commands are not starved
by responses is `CommandAnswered` of `aplink`.

**aplink.** One command in each direction, as in the build (`sys_adpt.h:294`, `:313`), two read
objects and one write object, remaps to lengths one and three, so that a remap may or may not change the
length, and a module that may refuse. `CommandsBalanced` locates every command and
response and compares with the counters and pools; what remains are the slots of resets. After a reset the module's
only slot is gone and it is never asked for anything again, so `CommandAnswered` speaks of the time before
(`resets > 0`). `PoolsSuffice` replaces the checks the code
does not make: the result of an allocation is used without a test (`aplink.c:1312`).
`LengthsAgree` follows the switch at set-up and in remaps. `RemapGuarded` ties the two
flags to a remap in progress; it fails with two commands of the module at a time, where two write
remaps share the flag. `StartupCompletes` and `CommandAnswered` are the liveness side. If the
module refuses an object, the lengths differ after the set-up and the link stops: the properties that
depend on it say so (`AllMapped`), and the hazard list names the line.

**apdr_watchdog.** One message of two fragments, watchdog four ticks. See the findings.

**process_data.** Two remaps, maps of up to two items, of an object of one byte, of an unknown object
and of what the maps hold at first (objects of one and two bytes), set commands to an object that may be set
and one that may not, two values of bytes of which one is out of range, one publication after another.
That is enough for each refusal of a remap, for an item that is mapped twice or with no
elements, and for a switch between any publication and its telegram. `MapsAgree`, `PublishedIsSent`,
`HandedUpRight` and `NetworkKeepsRange` hold. The last one leaves out the test job, which
assigns the reference speed past the range check (`testsuite.c:175`).

**command_service.** One setting and the clock, three requests at a time (`MaxPending`), a receive buffer of two frames
and a queue that takes two answers, so that requests are cut off and answers refused (11 and 22 in the build: `BUF_SIZE` by
`MSG_LEN`, `TCP_SND_QUEUELEN`), one number against the defaults, two seconds (`MaxTicks`) after either of two
dates, so that the clock passes 29 February of a leap year and the end of a year; together with torn writes,
lost segments and restarts. `Bound` keeps the product small: the clock has settings untouched and two requests under
way, and with the key held there is one. 138 thousand states. `OneAnswerEach` counts what is lost as lost; that nothing is for up to nine
requests is a theorem (`NothingMissed`).
`ReadsBack` speaks of moments when nothing is under way
and of the last request, because the answers before it may be overwritten in the buffer. `ClockKept`
leaves out the first second of a month, and the run sets no date in January. `InterfaceAsShown`
says that three mistakes cancel out: list, load and interface set-up agree until something is
written. The two dates are the ones at which a wrong table shows; that every day from 2001 to 2035
outside January agrees with the calendar can be had from TLC by
evaluating `\A y \in 2001 .. 2035, m \in 2 .. 12 : \A d \in 1 .. DaysOfMonth(y, m) :
LET t == <<y, m, d, 23, 59, 59>> IN datetime_mktime(t) = Seconds(t) /\ datetime_convert(Seconds(t)) = t`.

**settings_swapped.** The same, with the two settings whose variables are exchanged. See the findings.

### Fairness

* `UsartRx`: WF of the reader; `UsartTx`: WF of `sendstring`, of the interrupt and of
  the shift register. The super-loop never blocks and enabled interrupts are taken.
* `SoftTimer`: WF of `StartJob` and of `timer_srv`, and SF of a tick outside
  `timer_srv`: ticks are periodic, the loop is not, and it spends nearly all its
  time in the rest of its turn; without that every tick could fall into the few
  instructions before `irq_flag` is cleared, and be forgotten.
* `ApdrSerial`: WF of the state machine; SF of the tick, which is possible only between
  runs and only every so often, but comes round as long as the timer runs; SF of `ReturnBuffer`,
  since the application returns buffers whenever it is called; SF of the line,
  whose steps are likewise written between runs; WF of the repair, where a run
  asks for what happens after it.

* `ProcessData` and `CommandService` have none: their properties are about what is
  sent, shown or kept, not about when. A liveness property of the command service (every request
  is answered in the end) was tried and given up: the state space is too large for TLC's
  check of fairness within minutes, and without faults lwIP alone decides it.
* `Aplink`: WF of the super-loop and of the module's answers; SF of a module that owes a
  response: it may send its own command first, but not for ever.

## 4. Proofs

TLAPS checks these for every value of the constants within the named assumptions.

| Theorem | Statement | Premises |
|---|---|---|
| `UsartRxProof!TypeCorrect` | `Spec => []TypeOK` | `KfifoAssumption`, `RxAssumption` |
| `UsartRxProof!FifoNeverWedged` | `Spec => []FifoBounds` | and `FirstLoads = {"in"}` |
| `UsartRxProof!StreamDelivered` | `Spec => []StreamIntact` | and `FirstLoads = {"in"}` |
| `UsartTxProof!TypeCorrect` | `Spec => []TypeOK` | `KfifoAssumption`, `TxAssumption` |
| `UsartTxProof!TxNeverWedged` | `Spec => []TxBounds` | the same |
| `UsartTxProof!NoByteLeftBehind` | `Spec => []NothingStranded` | the same |
| `UsartTxProof!BytesInOrder` | `Spec => []WireInOrder` | the same |
| `SoftTimerProof!TypeCorrect` | `Spec => []TypeOK` | `TimerAssumption` |
| `SoftTimerProof!TimersNeverEarly` | `Spec => []NeverEarly` | the same |
| `ApdrProof!TypeCorrect` | `Spec => []TypeOK` | `ApdrAssumption` |
| `ApdrProof!LossOnce` | `Spec => LossReportedOnce` | the same |
| `ApdrProof!FragmentsArrive` | `Spec => FragmentsWhole` | the same |
| `ApdrProof!BufferKept` | `Spec => BufferKeptUntilTaken` | the same |
| `ApdrProof!MessagesWhole` | `Spec => MessageUpWhole` | the same |
| `ApdrProof!LinkRefinesInTime` | `Spec /\ BufferInTime => LinkIsStopAndWait` | the same |
| `ApdrProof!NeverOutOfBuffers` | `Spec => [][~ProcessNoBuffer]_vars` | and `IgnoresR = FALSE` |
| `ApdrProof!LinkRefines` | `Spec => LinkIsStopAndWait` | and `~(Spoils /\ IgnoresR)` |
| `AplinkProof!TypeCorrect` | `Spec => []TypeOK` | `AplinkAssumption` |
| `AplinkProof!Balanced` | `Spec => []CommandsBalanced` | the same |
| `AplinkProof!PoolsAreEnough` | `Spec => []PoolsSuffice` | the same |
| `AplinkProof!RemapIsGuarded` | `Spec => []RemapGuarded` | and `AbccCmds = 1` |
| `AplinkProof!LengthsMatch` | `Spec => []LengthsAgree` | `AplinkAssumption` |
| `CommandServiceProof!TypeCorrect` | `Spec => []TypeOK` | `CommandServiceAssumption` |
| `CommandServiceProof!AnsweredOnce` | `Spec => []OneAnswerEach` | the same |
| `CommandServiceProof!NothingMissed` | `Spec => []~missed` | and `Roomy` |
| `CommandServiceProof!UsedAsShown` | `Spec => []InterfaceAsShown` | the same |
| `CommandServiceProof!ReadsBackOthers` | `Spec => [](last.cmd \notin Swapped => ReadsBack)` | the same |
| `CommandServiceProof!ClockRight` | `Spec => []ClockKept` | and no date in January, no tick in 2100 |
| `ProcessDataProof!MapsAlwaysAgree` | `Spec => []MapsAgree` | `ProcessDataAssumption` and `Inserts = FALSE` |
| `ProcessDataProof!PublishedAlwaysSent` | `Spec => []PublishedIsSent` | and `Grows = FALSE` |
| `ProcessDataProof!HandedUpAlwaysRight` | `Spec => HandedUpRight` | `Inserts = FALSE`, `Restless = FALSE` |
| `ProcessDataProof!NetworkAlwaysKeepsRange` | `Spec => NetworkKeepsRange` | the same |

`KfifoAssumption`: the counters wrap at a multiple of the buffer size, more than
twice as large. `RxAssumption`: a telegram fits the FIFO, and at most `Burst` bytes, no more than a
telegram has, arrive during one kfifo call. `TxAssumption`: strings have at least two bytes. `CommandServiceAssumption`: the tool
uses commands of the list and dates of the years 2012 to 2022, the ones `valid_datetime` accepts, and has no more requests
without an answer than a segment holds (132). `Roomy`: as many requests as `recv_buf` holds, and two pbufs for each and three
more in TCP's queue; with 11 and 22 that is nine. `ApdrAssumption`: a message of the module has at most 17 fragments.

*Receive path.* `FifoBounds` is not inductive: whether the store of `out` is safe depends on how
much was granted and on what arrived since. `CountInv` follows the distances through
the phases of the reader: the operand loaded first is exactly `burst` bytes old; the
grant is at most what the FIFO holds and, unless that is everything, at least a
burst; so the bytes dropped since `out` was loaded are among those granted.
`DataInv` adds, until a byte is dropped, that all saved values of `out` are current and
that the slots from `out` to `in` hold the next bytes. It rests on
`SlotInjective`: positions less than a buffer apart never share a slot, across the
wrap-around too, which is where `Mod % Size = 0` is needed.

*Transmit path.* `TxInv`: `sendstring` puts at least two bytes into an empty FIFO, the
interrupt takes at most one of them before `sendstring` has its own, and so the value stored
back to `out` is at most `in`. Type correctness is proved together with it: only
because the FIFO was empty does the string fit its bound. `NothingStranded` needs `StrandInv`:
whatever is written to the data register is a byte (`Held` says what the slots between
`out` and `in` hold), so that a character is being shifted, and will raise the interrupt, when
`sendstring` enables it; and a value of `out` that is stored back late is not
behind `out` by more than the byte just taken. `WireInOrder` needs `OrderInv`: line, registers,
FIFO and the byte in `sendstring`'s hand add up to what was stored, and each
holds the next byte after the one before it.

*Timers.* `TimerInv`: what is left of a timeout and what has elapsed of it add up to at
least the whole, also while the interrupt counts down an entry the scan is about to reload.

*Serial link.* `LinkInv` says that everything under way, telegrams, answers, pieces in the FIFO and in the
reception buffer, belongs to the exchange of `abTransmissionBuffer` (`Cur`) or, only
while its answer is awaited, to the one before (`Prev`); the T-bit tells them apart. On the line no
older telegram follows a newer one. The delicate part is `ReceivedInv`: a received telegram that may be the
awaited answer was taken from the FIFO with everything that was in it, so nothing older is
left when it is accepted. That is where the poll that takes *all* bytes matters. Sending a new telegram is
`Issue`, the module that sees a toggled T-bit `Act`, `SmProcess` is `Handle`, everything
else stutters.

Rubbish on the line is no threat to `LinkInv`: a piece without a part number is known for what it is, and
the CRC keeps it out of an accepted answer. What is handed up needs more, `HandledInv`: the accepted answer is
still the one in the reception buffer when it is processed. That is so as long as nothing comes
between, and what can come between is a processing that waits for a buffer (`ProcessNoBuffer`): it leaves
the reception open, and the next poll overwrites the answer, with rubbish if the line spoils
(`apdr_ser.c:788`, on the list of hazards). `BufferInTime` excludes just this step, and the theorem
`LinkRefinesInTime` holds for every behaviour without it. `NeverOutOfBuffers` then says when
it cannot happen, by `ReadyInv`: a module that heeds the R-bit begins a message only on a telegram that was
built while a buffer was free, and nothing else takes buffers until that message ends. So the
refinement fails only if both fail, line and module (`LinkRefines`); for that case TLC finds the
counterexample, with `Spoils` and `IgnoresR` both TRUE in `ApdrLink.cfg`.

The messages rest on the exchanges. `MsgInv`: what the module has taken is the message in hand up to
the fragment of the telegram it acted on last (`Acted` says whether that is the present one), so
`sFragInfo` and the module never disagree by more than the fragment under way. `UpInv` is the same
for the other direction: `iNbrRecFrags` counts the fragments the module has sent, but for the one
whose answer is on its way. `WdInv`, for `LossOnce`, is about the driver alone: from the report of a loss
until an answer is accepted the watchdog is stopped and its flag is down.

*Link layer.* The counters are kept in one file and moved in four, so the proof first says where a
message can be: `SendInv` for one of the driver (the buffer of the data link until its
answer was processed, then the module), `ReceiveInv` for one of the module (its answer, then the
reception buffer until the closing fragment was processed), `KindInv` for the queues.
`CommandsBalanced` is then inductive: every step moves one message from one of
the places that add up to a counter to another, or adds one at an end where the counter is
moved too; a reset taken by the application moves from its place to `resets`. That sum is why the limits hold: a place holds at most what the counter allows, and
`PoolsSuffice` follows because the message about to be queued is itself among those counted. `SetupInv`
is needed for the configuration, which takes whatever message comes first for its
response: until the set-up is complete the module sends no commands, exactly one command is
out while a state waits, and no SETUP_COMPLETE is about. `OfferInv` bounds the lengths by the
objects offered. `RemapGuarded` needs `SwitchInv`: while a new write length waits for the telegram
that switches it, no command of the module is under way. That is true of the build, which
allows the module one command at a time (`ABCC_NBR_SIMULTANEOUS_ABCC_COMMANDS`, `sys_adpt.h:294`). With two it is not: a second remap may be answered
before the first has switched, which is why the theorem has the premise.

`LengthsAgree` holds with any number of commands. `OnceInv`: the driver never has two of its own commands out, because
APPC waits for a response, and SETUP_COMPLETE is its last; the only commands after it are resets sent back (`Echo`); so the
response that ends the set-up comes alone, comes once, and finds no remap under way. `Related` is the
agreement itself, which is not equality: after a good response to a read remap has left, the
driver already expects the new length while the module, which is about to receive the closing telegram, still
has the old one; after a write remap it is the module that is ahead, from its answer
until the driver accepts that answer. `JustSetUp` is the same moment at the end of the set-up.
`AgreeInv` adds that a write length waits only for the one telegram and answer that switch it.

*Command service.* `DeliveryInv` is what the queues have to do with each other: a segment on its way lies within what TCP holds
and was sent, the last request in the queue is `last`, and
the requests without an answer are those not yet taken (`Awaited`) and the answers that TCP holds and the tool does
not have. It carries its types with it, because the bounds of the queues follow from that sum only. `NoLoss` adds, for `Roomy`,
that at most one segment is under way and nothing was lost: then the answers of that segment and those the next requests add
are at most `MaxPending` each, and with a pbuf for each answer and each segment they fit into the queue.
`ReadsBack` needs `Stored`, variable, place in the FRAM and what was written last agree unless a
write was cut short, and `Answered`: `m_send_buf` answers the last request
taken, a segment that TCP will not send again says what the buffer says, and once nothing is under way
the tool shows it. It is the last line that makes one buffer enough: an answer that is
overwritten is followed by the one that overwrote it. For gateway and netmask `Stored` is false after
a start (section 5), so the theorem is about the other settings (`ReadsBackOthers`). `Started`, the interface works with what the variables hold,
gives `InterfaceAsShown`.

A segment holds any number of frames, and what happens to them is a fold. Facts about folds need induction;
the library states induction with an operator as parameter, which no prover here can instantiate, but
that `<` is well founded on the natural numbers it states as a fact about sets, and from it follow
`Least`, `Induct` (a set that contains 0 and with each number the next one, up to `n`, contains all of them)
and `FoldOf`, the function on sets of numbers by which the community modules define
their folds. `ServingExists`, `WritingExists` and `ShowingExists` unfold the three folds of the model
into a sequence of boards, one per frame; along it `Induct` carries an invariant of the segment.

*Date and time.* `Clock`: the counter is the true time, which lies between 2012 and as many
seconds after 2022 as have passed. That rests on lemmas about the conversions: `LeapYears` and
`SumOfMonths` count the days before a month, `MonthStart` compares them with the tables of
`datetime.c`, `ConvertRight` says that `datetime_convert` gives the calendar's date of every second
before 2100 but the first of a month, `MktimeRight` that `datetime_mktime` counts the seconds
of a date, `UnzipZip` that a date survives the wire. The premises are where the code goes wrong or ends:
in January `u8 mon` wraps to 255 (`MonthCounted`) and the counter is off; 2100 is taken for a leap
year. `ConvertValid` says that a restart leaves such a clock alone.

*Process data.* `MapsRight` is `MapsAgree` with the types of the maps and with `Announced`: the size announced for a
new layout is the one APPD computed. A remap keeps it because of `MapIsSpliced`, which follows the loops of
`appd_RemapProcessDataCommand` position by position: what they move and put is the list with the
items replaced, provided that a map that gets longer does so at its end. That is the premise
`Inserts = FALSE`; without it the loop moves an item onto the wrong place, and the lemma is false.
The sizes follow from `BytesOfBoth` and `SplicedBytes`: the bytes of a layout add up over its parts.
`SentRight` adds what is needed of the bytes. `Taken`: outside a switch the link layer holds what was published
last. `Fetched`: unless new data is signalled, the transmission buffer holds it too. `NotLonger`: a layout that is about
to be switched to is not longer than the one in use, since the bytes behind it in the transmission
buffer are a CRC; with `Grows` they would be sent as process data. `HandsRight` says of
`APPD_CbfNewReadProcessData` that each object gets the value of the last of its items that is in range:
by induction along the walk over the map (`ReadRight`), for a buffer that agrees with the received bytes as far as the
layout goes. While the read layout is being switched it need not; with `Restless = FALSE` nothing is
handed up then. `Bytes`, `Packed` and `NewReadProcessData` are folds and are unfolded as in the
command service (`AddingExists`, `PackingExists`, `HandingExists`); the few lemmas that takes are stated
in both modules, which have nothing else in common.

Only model-checked: all liveness (the prover has no rule for fairness and ENABLED), the watchdog
finding.

## 5. Findings

* `kfifo.c:148-149`: "with only one concurrent reader and one concurrent writer, you
  don't need extra locking". Not true of `kfifo_putc`, a writer that moves `out`:
  bytes are handed up out of order (`usart_rx_order`).
* `network.c:385-386`: after a start netmask and gateway read as each other, and the interface
  works with 192.168.50.1 as its netmask (`settings_swapped`). `var_list` (373-374) and `LwIP_Init`
  (`netconf.c:84-85`) exchange the two variables, `net_var_init` does not. The defaults
  in `main.h:80-90` and the tool name them rightly.
* `timer.h:18` offers one-time timers, and so does the manual (section 1: the function is called once, then the
  timer destroys itself); `timer_srv` wipes the entry, its function
  included, before it calls the function (`timer.c:215-220`): NULL is called
  (`soft_timer_once`). The program creates periodic timers only.
* `abcc.h:632-633` says that the watchdog callback signals "no communication with the
  ABCC module for at least the predefined time-out value". The watchdog is reloaded once per
  message (`apdr_ser.c:942`); over the further fragments it runs on with what it has
  left (362), so slow fragments add up and a loss is reported a tick after an
  answer was accepted (`apdr_watchdog`). It is stopped for good once it fired, until the
  next message: a module that is lost after that is not reported during that message.

## 6. Not modelled, and the plan

The program's own logic is modelled but for the parts below, and every safety property that a passing run
checks is proved, under the premises section 4 lists; where a premise fixes a constant it is the value of
the build (`AbccCmds = 1`, `sys_adpt.h:294`), an order of loads the language leaves to the compiler
(`FirstLoads`), or excludes a behaviour on the list of hazards. What could
still be added: `CommandService` with requests that TCP cuts into several segments, and with a second
connection.

Parts left out of modelled components, with the reason:

* More than one TCP connection, and frames split over segments: answers go to the newest
  connection and a split frame is lost, both by design of a service with one tool; listed as
  hazards.
* The command table's bounds (`cmdlist[4][23]` against 128): what lies behind the table is the linker's
  choice.
* `get_time_ns` from two contexts (`clock.c`): a hazard, but no modelled path reads the time.
* The heap: two allocations per port at the start, never freed.
* The watchdog flag in `ABCC_CbfNewReadPd` and the print of states.

The map covers a small share of the repository's lines, and will: of its 129000 lines
well over 110000 are lwIP, the STM32 and CMSIS libraries and the example web server. The program's own code
is about 5500 lines in `App`, `Bsp`, `Core` and `network/src`; the Anybus driver has
10000 more, of which the parallel half is not compiled in.

Not to be modelled: `apdr_par.c` (not compiled in, the access mode is serial), the application objects that
answer requests from tables, the polled and the console side of the USART driver,
register access (GPIO, LEDs, SPI, RTC), the start-up list, the user interface of the PC tool and vendored code.
