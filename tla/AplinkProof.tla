---------------------------- MODULE AplinkProof ----------------------------
(***************************************************************************)
(* Proofs about the link layer for any number of commands at a time, any   *)
(* number of mapped objects and any lengths of process data: types,        *)
(* balance of the counters, sufficiency of the pools, the flags of a remap *)
(* and the agreement of driver and module on the lengths.                  *)
(***************************************************************************)
EXTENDS Aplink, FiniteSetTheorems, TLAPS

-----------------------------------------------------------------------------
(* What the assumption says of the constants.                              *)
LEMMA ConstantFacts ==
  /\ AbccCmds \in Nat /\ 0 < AbccCmds /\ AbccCmds < 256
  /\ ApplCmds \in Nat /\ 0 < ApplCmds /\ ApplCmds < 256
  /\ ReadMaps \in Nat /\ ReadMaps <= 256 /\ WriteMaps \in Nat /\ WriteMaps <= 256
  /\ Lens \subseteq Length /\ Fails \in BOOLEAN
BY AplinkAssumption DEF Length

(* A sequence without its first element.                                   *)
LEMMA TailFacts ==
  ASSUME NEW S, NEW s \in Seq(S), s # <<>>
  PROVE  /\ Head(s) \in S /\ Head(s) = s[1] /\ Tail(s) \in Seq(S)
         /\ Len(s) \in Nat /\ Len(s) > 0 /\ Len(Tail(s)) = Len(s) - 1
         /\ \A i \in 1 .. Len(Tail(s)) : i + 1 \in 1 .. Len(s) /\ Tail(s)[i] = s[i + 1]
OBVIOUS

(* A sequence with one element more.                                       *)
LEMMA AppendFacts ==
  ASSUME NEW S, NEW s \in Seq(S), NEW x \in S
  PROVE  /\ Append(s, x) \in Seq(S) /\ Len(s) \in Nat /\ Len(Append(s, x)) = Len(s) + 1
         /\ \A i \in 1 .. Len(s) : Append(s, x)[i] = s[i]
         /\ Append(s, x)[Len(s) + 1] = x
OBVIOUS

-----------------------------------------------------------------------------
(***************************************************************************)
(* Counting messages in a queue.                                           *)
(***************************************************************************)

(* The messages counted are finitely many.                                 *)
LEMMA CountType ==
  ASSUME NEW S, NEW q \in Seq(S), NEW K
  PROVE  /\ IsFiniteSet({i \in DOMAIN q : q[i] \in K}) /\ CountIn(q, K) \in Nat
         /\ CountIn(<<>>, K) = 0
<1>1. IsFiniteSet(1 .. Len(q)) /\ DOMAIN q = 1 .. Len(q)
  BY FS_Interval
<1>2. {i \in DOMAIN q : q[i] \in K} \in SUBSET (1 .. Len(q))
  BY <1>1
<1>3. {i \in DOMAIN <<>> : <<>>[i] \in K} = {}
  OBVIOUS
<1> QED BY <1>1, <1>2, <1>3, FS_Subset, FS_CardinalityType, FS_EmptySet DEF CountIn

(* A message more.                                                         *)
LEMMA CountAppend ==
  ASSUME NEW S, NEW q \in Seq(S), NEW x \in S, NEW K
  PROVE  CountIn(Append(q, x), K) = CountIn(q, K) + One(x, K)
<1> DEFINE A == {i \in DOMAIN q : q[i] \in K}
           B == {i \in DOMAIN Append(q, x) : Append(q, x)[i] \in K}
           n == Len(q) + 1
<1>1. /\ DOMAIN q = 1 .. Len(q) /\ DOMAIN Append(q, x) = 1 .. n
      /\ \A i \in 1 .. Len(q) : Append(q, x)[i] = q[i]
      /\ Append(q, x)[n] = x /\ Len(q) \in Nat
  BY AppendFacts
<1>2. /\ IsFiniteSet(A) /\ Cardinality(A) \in Nat
      /\ CountIn(Append(q, x), K) = Cardinality(B) /\ CountIn(q, K) = Cardinality(A)
  BY CountType DEF CountIn
<1>3. n \notin A
  BY <1>1
<1>4. CASE x \in K
  <2>1. B = A \cup {n}
    BY <1>1, <1>4
  <2> HIDE DEF A, B
  <2>2. Cardinality(A \cup {n}) = Cardinality(A) + 1
    BY <1>2, <1>3, FS_AddElement
  <2> QED BY <1>2, <1>4, <2>1, <2>2 DEF One
<1>5. CASE x \notin K
  <2>1. B = A
    BY <1>1, <1>5
  <2> HIDE DEF A, B
  <2> QED BY <1>2, <1>5, <2>1 DEF One
<1> QED BY <1>4, <1>5

(* The first message is gone.                                              *)
LEMMA CountTail ==
  ASSUME NEW S, NEW q \in Seq(S), q # <<>>, NEW K
  PROVE  CountIn(q, K) = CountIn(Tail(q), K) + One(Head(q), K)
<1> DEFINE A == {i \in DOMAIN Tail(q) : Tail(q)[i] \in K}
           B == {i \in DOMAIN q : q[i] \in K}
           f == [i \in A |-> i + 1]
<1>1. /\ DOMAIN q = 1 .. Len(q) /\ Len(q) \in Nat /\ Len(q) > 0 /\ Len(Tail(q)) = Len(q) - 1
      /\ DOMAIN Tail(q) = 1 .. Len(q) - 1
      /\ \A i \in 1 .. Len(q) - 1 : Tail(q)[i] = q[i + 1]
      /\ Head(q) = q[1] /\ Tail(q) \in Seq(S)
  BY TailFacts
<1>2. IsFiniteSet(A) /\ Cardinality(A) \in Nat /\ IsFiniteSet(B) /\ Cardinality(B) \in Nat
  <2>1. IsFiniteSet(A) /\ Cardinality(A) \in Nat
    BY <1>1, CountType DEF CountIn
  <2>2. IsFiniteSet(B) /\ Cardinality(B) \in Nat
    BY CountType DEF CountIn
  <2> QED BY <2>1, <2>2
<1>3. f \in Bijection(A, B \ {1})
  <2>1. \A i \in A : i + 1 \in B \ {1}
    BY <1>1
  <2>2. \A j \in B \ {1} : j - 1 \in A /\ f[j - 1] = j
    BY <1>1
  <2>3. \A i, k \in A : f[i] = f[k] => i = k
    BY <1>1
  <2>4. f \in [A -> B \ {1}]
    BY <2>1
  <2> HIDE DEF f, A, B
  <2> QED BY <2>2, <2>3, <2>4 DEF Bijection, Injection, Surjection, IsInjective
<1>4. Cardinality(B \ {1}) = Cardinality(A)
  <2> HIDE DEF A, B, f
  <2> QED BY <1>2, <1>3, FS_Bijection DEF ExistsBijection
<1>5. Cardinality(B \ {1}) = IF 1 \in B THEN Cardinality(B) - 1 ELSE Cardinality(B)
  <2> HIDE DEF B
  <2> QED BY <1>2, FS_RemoveElement
<1>6. 1 \in B <=> Head(q) \in K
  BY <1>1
<1>7. CountIn(q, K) = Cardinality(B) /\ CountIn(Tail(q), K) = Cardinality(A)
  BY DEF CountIn
<1> HIDE DEF A, B
<1> QED BY <1>2, <1>4, <1>5, <1>6, <1>7 DEF One

(* Every message is a command or a response.                               *)
LEMMA CountBoth ==
  ASSUME NEW q \in Seq(Message)
  PROVE  CountIn(q, Commands) + CountIn(q, Responses) = Len(q)
<1> DEFINE T == {i \in DOMAIN q : q[i] \in Commands}
           F == {i \in DOMAIN q : q[i] \in Responses}
<1>1. T \cup F = 1 .. Len(q) /\ T \cap F = {} /\ Len(q) \in Nat
  <2>1. \A i \in 1 .. Len(q) : q[i] \in Message
    OBVIOUS
  <2>2. DOMAIN q = 1 .. Len(q) /\ Len(q) \in Nat
    OBVIOUS
  <2> QED BY <2>1, <2>2 DEF Commands, Responses
<1>2. /\ IsFiniteSet(T) /\ Cardinality(T) \in Nat /\ CountIn(q, Commands) = Cardinality(T)
      /\ IsFiniteSet(F) /\ Cardinality(F) \in Nat /\ CountIn(q, Responses) = Cardinality(F)
  BY CountType DEF CountIn
<1> HIDE DEF T, F
<1>3. Cardinality(T \cup F) = Cardinality(T) + Cardinality(F) - Cardinality(T \cap F)
  BY <1>2, FS_Union
<1>4. Cardinality(1 .. Len(q)) = Len(q)
  <2>1. Cardinality(1 .. Len(q)) = IF 1 > Len(q) THEN 0 ELSE Len(q) - 1 + 1
    BY <1>1, FS_Interval
  <2> QED BY <1>1, <2>1
<1>5. Cardinality(T \cap F) = 0
  BY <1>1, FS_EmptySet
<1>6. Cardinality(T \cup F) = Len(q)
  BY <1>1, <1>4, Zenon
<1> QED BY <1>1, <1>2, <1>3, <1>5, <1>6

-----------------------------------------------------------------------------
(***************************************************************************)
(* Where the messages are.                                                 *)
(***************************************************************************)

(* A message is a message: NULL is none.                                   *)
LEMMA NullFacts ==
  /\ NULL \notin Message /\ NULL.c = FALSE /\ One(NULL, Commands) = 0 /\ One(NULL, Responses) = 0
  /\ \A m \in Message : /\ m # NULL /\ m.c \in BOOLEAN /\ m.ok \in BOOLEAN /\ m.len \in Length
                        /\ One(m, Commands) = IF m.c THEN 1 ELSE 0
                        /\ One(m, Responses) = IF m.c THEN 0 ELSE 1
<1>1. \A m \in Message : m.op # "none" /\ m.len \in Lens \union {0} /\ m.c \in BOOLEAN /\ m.ok \in BOOLEAN
  BY DEF Message, Query, Map, Appc, Remap
<1>2. NULL.op = "none" /\ NULL.c = FALSE
  BY DEF NULL
<1>3. \A m \in Message : m # NULL
  BY <1>1, <1>2
<1>4. \A l \in Lens \union {0} : l \in Length
  BY ConstantFacts DEF Length
<1>5. \A m \in Message : m.len \in Length
  BY <1>1, <1>4
<1> QED BY <1>1, <1>2, <1>3, <1>5 DEF One, Commands, Responses

(* The steps of the upper half of a turn leave the lower half alone.       *)
LEMMA UpperFacts ==
  ASSUME CfgInit \/ CfgSend \/ CfgWait \/ CfgResponse \/ CfgNext
         \/ NoMessage \/ ResponseToAppl \/ CommandToAppl \/ ResetToAppl
  PROVE  phase = "upper" /\ phase' = "main" /\ UNCHANGED <<link, line, own, fCompleteWrPdRemap>>
<1>1. CASE CfgInit \/ CfgSend \/ CfgWait
  BY <1>1 DEF CfgInit, CfgSend, CfgWait, Configures, remap, module
<1>2. CASE CfgResponse
  BY <1>2 DEF CfgResponse, Configures, remap, module
<1>3. CASE CfgNext
  BY <1>3 DEF CfgNext, Configures, remap, module
<1>4. CASE NoMessage \/ ResponseToAppl
  BY <1>4 DEF NoMessage, ResponseToAppl, Serves, remap, module
<1>5. CASE CommandToAppl
  BY <1>5 DEF CommandToAppl, Serves, module
<1>6. CASE ResetToAppl
  BY <1>6 DEF ResetToAppl, Serves, remap
<1> QED BY <1>1, <1>2, <1>3, <1>4, <1>5, <1>6

(* The module answers the telegram it has.                                 *)
LEMMA ModuleFacts ==
  ASSUME Module
  PROVE  /\ toModule.sent /\ ~fromModule.sent /\ toModule.len = modWrite
         /\ toModule' = Nothing /\ got' = toModule.frag
         /\ fromModule'.sent /\ fromModule'.frag = out' /\ fromModule'.len = ModReadNow
         /\ out = NULL \/ out' = NULL
         /\ UNCHANGED <<phase, driver, counts, toAbcc, toAppl, lengths, remap, link, appc_eState,
                         resets>>
<1>1. CASE ModuleIdle
  BY <1>1 DEF ModuleIdle, Answer, Receives, Telegram
<1>2. CASE ModuleCloses
  BY <1>2 DEF ModuleCloses, Answer, Receives, Telegram
<1>3. CASE ModuleResponds
  BY <1>3 DEF ModuleResponds, Answer, Receives, Telegram
<1>4. CASE ModuleCommands
  BY <1>4 DEF ModuleCommands, Answer, Receives, Telegram
<1> QED BY <1>1, <1>2, <1>3, <1>4 DEF Module

(* Everything of the lower layer in order.                                 *)
LEMMA SendStep ==
  ASSUME TypeOK, SendInv, [Next]_vars
  PROVE  SendInv'
<1>0. toModule.sent \in BOOLEAN /\ fromModule.sent \in BOOLEAN
  BY DEF TypeOK, DataOK, ControlOK, MessagesOK, Line
<1>1. ASSUME \/ RunSetup \/ RunLink \/ CfgInit \/ CfgSend \/ CfgWait \/ CfgResponse \/ CfgNext
             \/ NoMessage \/ ResponseToAppl \/ CommandToAppl \/ ResetToAppl \/ UNCHANGED vars
      PROVE  SendInv'
  <2>1. /\ UNCHANGED <<eState, psWriteMsgBuffer, got, toModule, fromModule>>
        /\ phase' = phase \/ (phase \in {"upper", "main"} /\ phase' # "sent")
    BY <1>1, UpperFacts DEF RunSetup, RunLink, vars, link, line, module, own
  <2> QED BY <2>1 DEF SendInv
<1>2. ASSUME LinkIdle PROVE SendInv'
  <2>1. /\ eState = "IDLE" /\ phase = "link"
        /\ UNCHANGED <<phase, got, toModule, fromModule>>
        /\ \/ eState' = "SEND_TELEGRAM_WITH_MESSAGE" /\ psWriteMsgBuffer' # NULL
           \/ eState' = "SEND_TELEGRAM_WITHOUT_MESSAGE" /\ UNCHANGED psWriteMsgBuffer
    <3>1. CASE Turn("cmd") /\ psWriteMsgBuffer' = Head(xCmdsToAbccQueue)
      <4>1. xCmdsToAbccQueue # <<>> /\ xCmdsToAbccQueue \in Seq(Message)
        BY <3>1 DEF Turn, TypeOK, DataOK, QueuesOK
      <4> QED BY <1>2, <3>1, <4>1, TailFacts, NullFacts DEF LinkIdle, line, module, own
    <3>2. CASE Turn("rsp") /\ psWriteMsgBuffer' = Head(xRspsToAbccQueue)
      <4>1. xRspsToAbccQueue # <<>> /\ xRspsToAbccQueue \in Seq(Message)
        BY <3>2 DEF Turn, TypeOK, DataOK, QueuesOK
      <4> QED BY <1>2, <3>2, <4>1, TailFacts, NullFacts DEF LinkIdle, line, module, own
    <3>3. CASE ~Turn("cmd") /\ ~Turn("rsp")
      BY <1>2, <3>3 DEF LinkIdle, line, module, own
    <3> QED BY <1>2, <3>1, <3>2, <3>3 DEF LinkIdle
  <2> QED BY <2>1 DEF SendInv
<1>3. ASSUME LinkSend PROVE SendInv'
  BY <1>3, <1>0 DEF LinkSend, SendInv, Telegram, module, own
<1>4. ASSUME LinkWait \/ LinkAccept \/ LinkReceive PROVE SendInv'
  BY <1>4, <1>0 DEF LinkWait, LinkAccept, LinkReceive, SendInv, Answered, Nothing, link, line, module, own
<1>5. ASSUME LinkSent PROVE SendInv'
  BY <1>5 DEF LinkSent, SendInv, line, module, own
<1>6. ASSUME Module PROVE SendInv'
  BY <1>6, <1>0, ModuleFacts DEF Nothing, SendInv, link
<1> QED BY <1>1, <1>2, <1>3, <1>4, <1>5, <1>6 DEF Next, Driver

(* And of the messages that come up.                                       *)
LEMMA ReceiveStep ==
  ASSUME TypeOK, SendInv, ReceiveInv, [Next]_vars
  PROVE  ReceiveInv'
<1>0. toModule.sent \in BOOLEAN /\ fromModule.sent \in BOOLEAN /\ lastM \in BOOLEAN
  BY DEF TypeOK, DataOK, ControlOK, MessagesOK, Line
<1>1. ASSUME \/ RunSetup \/ RunLink \/ CfgInit \/ CfgSend \/ CfgWait \/ CfgResponse \/ CfgNext
             \/ NoMessage \/ ResponseToAppl \/ CommandToAppl \/ ResetToAppl \/ UNCHANGED vars
      PROVE  ReceiveInv'
  <2>1. /\ UNCHANGED <<eState, fromModule, out, answer, sMsgRead, lastM>>
        /\ phase' = phase \/ phase \in {"upper", "main"}
    BY <1>1, UpperFacts DEF RunSetup, RunLink, vars, link, line, module, own
  <2> QED BY <2>1 DEF ReceiveInv, SendInv
<1>2. ASSUME LinkIdle \/ LinkSend \/ LinkWait PROVE ReceiveInv'
  BY <1>2 DEF LinkIdle, LinkSend, LinkWait, ReceiveInv, SendInv, link, line, module, own
<1>3. ASSUME LinkAccept PROVE ReceiveInv'
  BY <1>3, <1>0 DEF LinkAccept, ReceiveInv, SendInv, Answered, Nothing, module, own
<1>4. ASSUME LinkReceive PROVE ReceiveInv'
  BY <1>4, <1>0 DEF LinkReceive, ReceiveInv, SendInv, Closes, line, module, own
<1>5. ASSUME LinkSent PROVE ReceiveInv'
  BY <1>5 DEF LinkSent, ReceiveInv, SendInv, line, module, own
<1>6. ASSUME Module PROVE ReceiveInv'
  <2>1. /\ toModule.sent /\ ~fromModule.sent /\ fromModule'.sent /\ eState = "WAIT_FOR_TELEGRAM"
        /\ UNCHANGED <<eState, answer, sMsgRead>>
    BY <1>6, ModuleFacts DEF SendInv, link
  <2>2. /\ fromModule'.frag = NULL \/ out = NULL
        /\ out' = fromModule'.frag
    BY <1>6, ModuleFacts
  <2>3. out = answer.frag /\ sMsgRead = answer.frag
    BY <2>1 DEF ReceiveInv
  <2> QED BY <2>1, <2>2, <2>3 DEF ReceiveInv
<1> QED BY <1>1, <1>2, <1>3, <1>4, <1>5, <1>6 DEF Next, Driver

-----------------------------------------------------------------------------
(***************************************************************************)
(* Types of everything but the counters.                                   *)
(***************************************************************************)

(* What is sent is a message.                                              *)
LEMMA MakeFacts ==
  /\ \A op \in Query \union Map \union Appc \union Remap \union {"GET", "RESET"} :
        /\ Cmd(op) \in Message /\ Cmd(op).c /\ Cmd(op).op = op
        /\ \A len \in Lens : [Cmd(op) EXCEPT !.len = len] \in Message
                             /\ [Cmd(op) EXCEPT !.len = len].c
  /\ \A m \in Message, good \in BOOLEAN : /\ Rsp(m, good) \in Message /\ ~Rsp(m, good).c
                                          /\ Rsp(m, good).op = m.op
<1>1. ASSUME NEW op \in Query \union Map \union Appc \union Remap \union {"GET", "RESET"}
      PROVE  /\ Cmd(op) \in Message /\ Cmd(op).c /\ Cmd(op).op = op
             /\ \A len \in Lens : [Cmd(op) EXCEPT !.len = len] \in Message
                                  /\ [Cmd(op) EXCEPT !.len = len].c
  BY DEF Cmd, Message
<1>2. ASSUME NEW m \in Message, NEW good \in BOOLEAN
      PROVE  Rsp(m, good) \in Message /\ ~Rsp(m, good).c /\ Rsp(m, good).op = m.op
  BY DEF Rsp, Message
<1> QED BY <1>1, <1>2

(* What APPC does to the queue of commands and its counter.                *)
LEMMA AppcFacts ==
  ASSUME DataOK, NEW n \in 0 .. ApplCmds, APPC_RunStateMachine(n)
  PROVE  /\ UNCHANGED <<xRspsToAbccQueue, usedRsp>> /\ appc_eState' \in Appc \union {"DONE"}
         /\ \/ /\ usedCmd < ApplCmds /\ n < ApplCmds
               /\ appc_eState \in Appc /\ appc_eState' = NextAppc[appc_eState]
               /\ xCmdsToAbccQueue' = Append(xCmdsToAbccQueue, Cmd(appc_eState))
               /\ usedCmd' = usedCmd + 1 /\ bNbrOfCmdsActiveToAbcc' = n + 1
            \/ UNCHANGED <<xCmdsToAbccQueue, usedCmd, appc_eState>> /\ bNbrOfCmdsActiveToAbcc' = n
<1>1. CASE appc_eState # "DONE" /\ CanSend(n) /\ Send(Cmd(appc_eState), n)
           /\ appc_eState' = NextAppc[appc_eState]
  <2>1. appc_eState \in Appc /\ usedCmd < ApplCmds /\ n < ApplCmds
    BY <1>1 DEF DataOK, ControlOK, CanSend
  <2>2. Increment(n) = n + 1
    BY <2>1, ConstantFacts DEF Increment
  <2>3. NextAppc[appc_eState] \in Appc \union {"DONE"}
    BY <2>1 DEF NextAppc, Appc
  <2> QED BY <1>1, <2>1, <2>2, <2>3 DEF Send
<1>2. CASE bNbrOfCmdsActiveToAbcc' = n /\ UNCHANGED <<toAbcc, appc_eState>>
  BY <1>2 DEF toAbcc, DataOK, ControlOK
<1> QED BY <1>1, <1>2 DEF APPC_RunStateMachine

-----------------------------------------------------------------------------
(***************************************************************************)
(* The counters.                                                           *)
(***************************************************************************)

(* The numbers that are added up: messages queued, commands owed, messages *)
(* in the queue to the application, held by the data link, with the module *)
(* and coming from it.                                                     *)
cq == Len(xCmdsToAbccQueue)
rq == Len(xRspsToAbccQueue)
mq == Len(xMsgsFromAbccQueue)
dq == Len(owed)
cIn == CountIn(xMsgsFromAbccQueue, Commands)
rIn == CountIn(xMsgsFromAbccQueue, Responses)
cHeld == One(psWriteMsgBuffer, Commands)
rHeld == One(psWriteMsgBuffer, Responses)
cThere == One(AtModule, Commands)
rThere == One(AtModule, Responses)
cComes == One(OnTheWay, Commands)
rComes == One(OnTheWay, Responses)

Natural == /\ cq \in Nat /\ rq \in Nat /\ mq \in Nat /\ dq \in Nat /\ cIn \in Nat /\ rIn \in Nat
           /\ cHeld \in Nat /\ rHeld \in Nat /\ cThere \in Nat /\ rThere \in Nat
           /\ cComes \in Nat /\ rComes \in Nat
           /\ mq = cIn + rIn

Limits == /\ AbccCmds \in Nat /\ 0 < AbccCmds /\ AbccCmds < 256
          /\ ApplCmds \in Nat /\ 0 < ApplCmds /\ ApplCmds < 256

(* The sums, from which the limits of every counter and pool follow.       *)
Balance == /\ bNbrOfCmdsActiveToAbcc = cq + cHeld + cThere + dq + rComes + rIn
           /\ bNbrOfCmdsActiveToAbcc <= ApplCmds
           /\ bNbrOfCmdsActiveFromAbcc = cIn + rq + rHeld + resets /\ resets \in Nat
           /\ usedCmd = cq + cHeld /\ usedRsp = rq + rHeld /\ usedMsg = mq
           /\ asked = cComes + bNbrOfCmdsActiveFromAbcc + rThere
           /\ asked <= AbccCmds

LEMMA NaturalFacts == DataOK => Natural
<1> SUFFICES ASSUME DataOK PROVE Natural
  OBVIOUS
<1>1. {xRspsToAbccQueue, xCmdsToAbccQueue, xMsgsFromAbccQueue, owed} \subseteq Seq(Message)
  BY DEF DataOK, QueuesOK
<1>2. cIn \in Nat /\ rIn \in Nat
  BY <1>1, CountType DEF cIn, rIn
<1>3. mq = cIn + rIn
  BY <1>1, CountBoth DEF cIn, rIn, mq
<1>4. cq \in Nat /\ rq \in Nat /\ mq \in Nat /\ dq \in Nat
  BY <1>1 DEF cq, rq, mq, dq
<1>5. /\ cHeld \in Nat /\ rHeld \in Nat /\ cThere \in Nat /\ rThere \in Nat
      /\ cComes \in Nat /\ rComes \in Nat
  BY DEF cHeld, rHeld, cThere, rThere, cComes, rComes, One
<1> QED BY <1>2, <1>3, <1>4, <1>5 DEF Natural

LEMMA BalanceFacts == TypeOK /\ CommandsBalanced /\ AskedInv => Natural /\ Limits /\ Balance
<1> SUFFICES ASSUME TypeOK, CommandsBalanced, AskedInv PROVE Natural /\ Limits /\ Balance
  OBVIOUS
<1>1. Natural
  BY NaturalFacts DEF TypeOK
<1>2. Limits
  BY ConstantFacts DEF Limits
<1>3. bNbrOfCmdsActiveToAbcc <= ApplCmds /\ asked <= AbccCmds /\ resets \in Nat
  BY <1>2 DEF TypeOK, WithinLimits, Limits
<1> QED BY <1>1, <1>2, <1>3
        DEF Balance, CommandsBalanced, AskedInv, cq, rq, mq, dq, cIn, rIn, cHeld, rHeld,
            cThere, rThere, cComes, rComes

(* The other way round.                                                    *)
LEMMA BalanceSuffices == DataOK /\ Balance => WithinLimits /\ CommandsBalanced
<1> SUFFICES ASSUME DataOK, Balance PROVE WithinLimits /\ CommandsBalanced
  OBVIOUS
<1>1. Natural /\ Limits
  BY NaturalFacts, ConstantFacts DEF Limits
<1>2. WithinLimits
  BY <1>1 DEF Natural, Limits, Balance, WithinLimits
<1>3. CommandsBalanced
  BY DEF Balance, CommandsBalanced, cq, rq, mq, dq, cIn, rIn, cHeld, rHeld, cThere, rThere,
         cComes, rComes
<1> QED BY <1>2, <1>3

(* A message is taken from the queue to the application.  A response has a *)
(* command counted, a command leaves room for its response.                *)
LEMMA TakeFacts ==
  ASSUME TypeOK, CommandsBalanced, AskedInv, TakeMessage
  PROVE  /\ Head(xMsgsFromAbccQueue) \in Message /\ xMsgsFromAbccQueue' \in Seq(Message)
         /\ mq' = mq - 1 /\ usedMsg' = usedMsg - 1
         /\ IF Head(xMsgsFromAbccQueue).c THEN /\ cIn' = cIn - 1 /\ rIn' = rIn
                                               /\ cIn > 0 /\ usedRsp < AbccCmds
                                          ELSE /\ cIn' = cIn /\ rIn' = rIn - 1 /\ rIn > 0
                                               /\ bNbrOfCmdsActiveToAbcc > 0
                                               /\ Decrement(bNbrOfCmdsActiveToAbcc)
                                                    = bNbrOfCmdsActiveToAbcc - 1
<1> DEFINE q == xMsgsFromAbccQueue
<1>0. Natural /\ Limits /\ Balance
  BY BalanceFacts
<1>1. q \in Seq(Message) /\ q # <<>> /\ q' = Tail(q) /\ usedMsg' = usedMsg - 1
  BY DEF TypeOK, DataOK, QueuesOK, TakeMessage
<1>2. Head(q) \in Message /\ Tail(q) \in Seq(Message) /\ Len(Tail(q)) = Len(q) - 1
  BY <1>1, TailFacts
<1>3. ASSUME NEW K
      PROVE  CountIn(q', K) \in Nat /\ CountIn(q, K) = CountIn(q', K) + One(Head(q), K)
  <2>1. CountIn(Tail(q), K) \in Nat
    BY <1>2, CountType
  <2>2. CountIn(q, K) = CountIn(Tail(q), K) + One(Head(q), K)
    BY <1>1, CountTail
  <2> QED BY <1>1, <2>1, <2>2
<1> DEFINE c == cIn'
           r == rIn'
<1>4. /\ c \in Nat /\ r \in Nat /\ mq' = mq - 1
      /\ cIn = c + IF Head(q).c THEN 1 ELSE 0
      /\ rIn = r + IF Head(q).c THEN 0 ELSE 1
  BY <1>1, <1>2, <1>3, NullFacts DEF cIn, rIn, mq
<1>5. CASE Head(q).c
  <2> HIDE DEF c, r
  <2>0. c \in Nat /\ r \in Nat /\ cIn = c + 1 /\ rIn = r + 0
    BY <1>4, <1>5
  <2>1. c = cIn - 1 /\ r = rIn /\ cIn > 0
    BY <1>0, <2>0 DEF Natural
  <2>2. usedRsp < AbccCmds
    BY <1>0, <2>1 DEF Natural, Limits, Balance
  <2> QED BY <1>1, <1>2, <1>4, <1>5, <2>1, <2>2 DEF c, r
<1>6. CASE ~Head(q).c
  <2> HIDE DEF c, r
  <2>0. c \in Nat /\ r \in Nat /\ cIn = c + 0 /\ rIn = r + 1
    BY <1>4, <1>6
  <2>1. c = cIn /\ r = rIn - 1 /\ rIn > 0
    BY <1>0, <2>0 DEF Natural
  <2>2. /\ bNbrOfCmdsActiveToAbcc > 0 /\ bNbrOfCmdsActiveToAbcc \in Nat
        /\ bNbrOfCmdsActiveToAbcc < 256
    BY <1>0, <2>1 DEF Natural, Limits, Balance
  <2>3. Decrement(bNbrOfCmdsActiveToAbcc) = bNbrOfCmdsActiveToAbcc - 1
    BY <2>2 DEF Decrement
  <2> QED BY <1>1, <1>2, <1>4, <1>6, <2>1, <2>2, <2>3 DEF c, r
<1> QED BY <1>5, <1>6

(* A message of the module is complete: it is one, and there is room.      *)
LEMMA CloseFacts ==
  ASSUME TypeOK, SendInv, ReceiveInv, CommandsBalanced, AskedInv,
         phase = "link", eState = "PROCESS_RECEIVED_TELEGRAM", Closes
  PROVE  /\ sMsgRead \in Message /\ out = NULL /\ OnTheWay = sMsgRead
         /\ mq < AbccCmds + ApplCmds /\ usedMsg < AbccCmds + ApplCmds
         /\ sMsgRead.c => bNbrOfCmdsActiveFromAbcc < AbccCmds
<1>0. Natural /\ Limits /\ Balance
  BY BalanceFacts
<1>1. /\ ~fromModule.sent /\ out = answer.frag /\ (sMsgRead # NULL <=> lastM)
      /\ answer.frag = NULL /\ lastM
  BY DEF SendInv, ReceiveInv, Closes
<1>2. sMsgRead \in Message
  BY <1>1 DEF TypeOK, DataOK, MessagesOK
<1>3. OnTheWay = sMsgRead
  BY <1>1 DEF OnTheWay
<1>4. IF sMsgRead.c THEN cComes = 1 ELSE rComes = 1
  BY <1>2, <1>3, NullFacts DEF cComes, rComes
<1>5. /\ mq < AbccCmds + ApplCmds /\ usedMsg < AbccCmds + ApplCmds
      /\ sMsgRead.c => bNbrOfCmdsActiveFromAbcc < AbccCmds
  <2>1. CASE sMsgRead.c
    <3>1. cComes = 1
      BY <1>4, <2>1
    <3>2. bNbrOfCmdsActiveFromAbcc < AbccCmds /\ mq < AbccCmds + ApplCmds
          /\ usedMsg < AbccCmds + ApplCmds
      BY <1>0, <3>1 DEF Natural, Limits, Balance
    <3> QED BY <3>2
  <2>2. CASE ~sMsgRead.c
    <3>1. rComes = 1
      BY <1>4, <2>2
    <3>2. mq < AbccCmds + ApplCmds /\ usedMsg < AbccCmds + ApplCmds
      BY <1>0, <3>1 DEF Natural, Limits, Balance
    <3> QED BY <2>2, <3>2
  <2> QED BY <2>1, <2>2
<1> QED BY <1>1, <1>2, <1>3, <1>5

-----------------------------------------------------------------------------
(***************************************************************************)
(* Which messages are where.                                               *)
(***************************************************************************)

(* Queues of one kind are queues of messages.                              *)
LEMMA KindFacts ==
  /\ Commands \subseteq Message /\ Responses \subseteq Message
  /\ Seq(Commands) \subseteq Seq(Message) /\ Seq(Responses) \subseteq Seq(Message)
  /\ \A m \in Message : (m.c => m \in Commands) /\ (~m.c => m \in Responses)
BY DEF Commands, Responses

(* A command of the driver, of its own or of APPC, goes to the queue with  *)
(* the counter of commands at n, or none.                                  *)
Adds(n) ==
  \/ UNCHANGED <<xCmdsToAbccQueue, usedCmd>> /\ bNbrOfCmdsActiveToAbcc' = n
  \/ /\ n < ApplCmds /\ bNbrOfCmdsActiveToAbcc' = n + 1 /\ usedCmd' = usedCmd + 1
     /\ \E m \in Commands : /\ xCmdsToAbccQueue' = Append(xCmdsToAbccQueue, m)
                            /\ m.op \in Query \union Map \union Appc \union {"RESET"}
                            /\ m.op = "RESET" => eDriverState # "IN_CONFIGURATION"
                            /\ m.op \in Appc => eDriverState # "IN_CONFIGURATION" \/ eDriverState' # "IN_CONFIGURATION"

LEMMA AddsFacts ==
  ASSUME TypeOK, CommandsBalanced, AskedInv
  PROVE  /\ CfgSend => Adds(bNbrOfCmdsActiveToAbcc)
         /\ CfgNext => Adds(bNbrOfCmdsActiveToAbcc)
         /\ ResponseToAppl => Adds(bNbrOfCmdsActiveToAbcc - 1)
         /\ ResetToAppl => Adds(bNbrOfCmdsActiveToAbcc)
<1>1. ASSUME CfgSend PROVE Adds(bNbrOfCmdsActiveToAbcc)
  <2>1. eCfgState[2] \in Query \union Map
    BY <1>1 DEF CfgSend, TypeOK, DataOK, ControlOK
  <2>2. Cmd(eCfgState[2]) \in Commands /\ Cmd(eCfgState[2]).op = eCfgState[2]
    BY <2>1, MakeFacts, KindFacts
  <2>3. CASE CanSend(bNbrOfCmdsActiveToAbcc)
    <3>1. bNbrOfCmdsActiveToAbcc < ApplCmds /\ bNbrOfCmdsActiveToAbcc \in Nat
      BY <2>3 DEF CanSend, TypeOK, WithinLimits
    <3>2. Increment(bNbrOfCmdsActiveToAbcc) = bNbrOfCmdsActiveToAbcc + 1
      BY <3>1, ConstantFacts DEF Increment
    <3>3. eCfgState[2] \notin Appc /\ eCfgState[2] # "RESET"
      BY <2>1 DEF Query, Map, Appc
    <3> QED BY <1>1, <2>1, <2>2, <2>3, <3>1, <3>2, <3>3 DEF CfgSend, Send, Adds
  <2>4. CASE ~CanSend(bNbrOfCmdsActiveToAbcc)
    BY <1>1, <2>4 DEF CfgSend, toAbcc, Adds
  <2> QED BY <2>3, <2>4
<1>2. ASSUME NEW n \in 0 .. ApplCmds, APPC_RunStateMachine(n),
             eDriverState' # "IN_CONFIGURATION"
      PROVE  Adds(n)
  <2>1. \A op \in Appc : Cmd(op) \in Commands /\ Cmd(op).op = op /\ op # "RESET"
    BY MakeFacts, KindFacts DEF Appc
  <2> QED BY <1>2, <2>1, AppcFacts DEF Adds, TypeOK
<1>3. ASSUME CfgNext PROVE Adds(bNbrOfCmdsActiveToAbcc)
  <2>1. CASE APPC_RunStateMachine(bNbrOfCmdsActiveToAbcc) /\ eDriverState' = "IN_RUN_NO_PD"
    BY <1>2, <2>1 DEF TypeOK, WithinLimits
  <2>2. CASE UNCHANGED <<bNbrOfCmdsActiveToAbcc, toAbcc>>
    BY <2>2 DEF toAbcc, Adds
  <2> QED BY <1>3, <2>1, <2>2 DEF CfgNext
<1>4. ASSUME ResponseToAppl PROVE Adds(bNbrOfCmdsActiveToAbcc - 1)
  <2>1. /\ Decrement(bNbrOfCmdsActiveToAbcc) = bNbrOfCmdsActiveToAbcc - 1
        /\ bNbrOfCmdsActiveToAbcc > 0
    BY <1>4, TakeFacts DEF ResponseToAppl
  <2>2. bNbrOfCmdsActiveToAbcc - 1 \in 0 .. ApplCmds
    BY <2>1, ConstantFacts DEF TypeOK, WithinLimits
  <2>3. eDriverState' # "IN_CONFIGURATION"
    BY <1>4 DEF ResponseToAppl, Serves, driver
  <2> QED BY <1>2, <1>4, <2>1, <2>2, <2>3 DEF ResponseToAppl
<1>5. ASSUME ResetToAppl PROVE Adds(bNbrOfCmdsActiveToAbcc)
  <2>1. /\ Head(xMsgsFromAbccQueue) \in Commands /\ Head(xMsgsFromAbccQueue).op = "RESET"
        /\ eDriverState # "IN_CONFIGURATION" /\ "RESET" \notin Appc
    BY <1>5, TakeFacts, KindFacts DEF ResetToAppl, Serves, Appc
  <2>2. CASE CanSend(bNbrOfCmdsActiveToAbcc)
    <3>1. bNbrOfCmdsActiveToAbcc < ApplCmds /\ bNbrOfCmdsActiveToAbcc \in Nat
      BY <2>2 DEF CanSend, TypeOK, WithinLimits
    <3>2. Increment(bNbrOfCmdsActiveToAbcc) = bNbrOfCmdsActiveToAbcc + 1
      BY <3>1, ConstantFacts DEF Increment
    <3> QED BY <1>5, <2>1, <2>2, <3>1, <3>2 DEF ResetToAppl, Send, Adds
  <2>3. CASE ~CanSend(bNbrOfCmdsActiveToAbcc)
    BY <1>5, <2>3 DEF ResetToAppl, toAbcc, Adds
  <2> QED BY <2>2, <2>3
<1> QED BY <1>1, <1>3, <1>4, <1>5

(* The module owes commands: those it had and the one it just received.    *)
LEMMA OwedFacts ==
  ASSUME TypeOK, KindInv
  PROVE  /\ OwedNow \in Seq(Commands) /\ Received \in Message \union {NULL}
         /\ Received.c => Received \in Commands /\ OwedNow = Append(owed, Received)
         /\ ~Received.c => OwedNow = owed
<1>1. Received \in Message \union {NULL}
  BY DEF Received, TypeOK, DataOK, MessagesOK
<1>2. Received.c => Received \in Commands
  BY <1>1, NullFacts, KindFacts
<1>3. owed \in Seq(Commands)
  BY DEF KindInv
<1> QED BY <1>1, <1>2, <1>3, AppendFacts DEF OwedNow

(* What the module does with its own queue.                                *)
LEMMA ModuleQueue ==
  ASSUME TypeOK, KindInv, Module
  PROVE  /\ owed' \in Seq(Commands)
         /\ \/ owed' = OwedNow /\ (out' = NULL \/ (out' \in Commands /\ toModule.r /\ isSetUp))
            \/ /\ OwedNow # <<>> /\ owed' = Tail(OwedNow)
               /\ out' \in Responses /\ out'.op = Head(OwedNow).op
<1>0. OwedNow \in Seq(Commands)
  BY OwedFacts
<1>1. CASE ModuleIdle \/ ModuleCloses
  BY <1>0, <1>1 DEF ModuleIdle, ModuleCloses, Answer, Receives
<1>2. CASE ModuleResponds
  <2>1. PICK good \in {TRUE, ~Fails} :
          out' = Rsp(Head(OwedNow), good) /\ owed' = Tail(OwedNow) /\ OwedNow # <<>>
    BY <1>2 DEF ModuleResponds, Answer
  <2>2. Head(OwedNow) \in Message /\ Tail(OwedNow) \in Seq(Commands)
    BY <1>0, <2>1, TailFacts, KindFacts
  <2>3. good \in BOOLEAN
    BY ConstantFacts
  <2>4. out' \in Responses /\ out'.op = Head(OwedNow).op
    BY <2>1, <2>2, <2>3, MakeFacts, KindFacts
  <2> QED BY <2>1, <2>2, <2>4
<1>3. CASE ModuleCommands
  <2>1. PICK op \in {"GET", "RESET"} \union Remap, len \in Lens :
          out' = [Cmd(op) EXCEPT !.len = len] /\ owed' = OwedNow /\ toModule.r /\ isSetUp
    BY <1>3 DEF ModuleCommands, Answer
  <2>2. out' \in Commands
    BY <2>1, MakeFacts, KindFacts
  <2> QED BY <1>0, <2>1, <2>2
<1> QED BY <1>1, <1>2, <1>3 DEF Module

(* When it responds, the message it sends is a response.                   *)
LEMMA RespondsFacts ==
  ASSUME TypeOK, KindInv, ModuleResponds
  PROVE  OwedNow # <<>> /\ owed' = Tail(OwedNow) /\ out' \in Responses
<1>1. PICK good \in {TRUE, ~Fails} :
        out' = Rsp(Head(OwedNow), good) /\ owed' = Tail(OwedNow) /\ OwedNow # <<>>
  BY DEF ModuleResponds, Answer
<1>2. Head(OwedNow) \in Message /\ good \in BOOLEAN
  BY <1>1, OwedFacts, TailFacts, KindFacts, ConstantFacts
<1> QED BY <1>1, <1>2, MakeFacts, KindFacts

LEMMA QueueStep ==
  ASSUME TypeOK, CommandsBalanced, AskedInv, SendInv, ReceiveInv, KindInv, [Next]_vars
  PROVE  KindInv' /\ QueuesOK'
<1> USE DEF KindInv
<1>0. QueuesOK /\ xMsgsFromAbccQueue \in Seq(Message)
  BY DEF TypeOK, DataOK, QueuesOK
<1>a. ASSUME NEW n, Adds(n) PROVE xCmdsToAbccQueue' \in Seq(Commands)
  <2>1. \/ UNCHANGED xCmdsToAbccQueue
        \/ \E m \in Commands : xCmdsToAbccQueue' = Append(xCmdsToAbccQueue, m)
    BY <1>a DEF Adds
  <2>2. \A m \in Commands : Append(xCmdsToAbccQueue, m) \in Seq(Commands)
    BY AppendFacts
  <2> QED BY <2>1, <2>2
<1>1. /\ xCmdsToAbccQueue' \in Seq(Commands)
      /\ xRspsToAbccQueue' \in Seq(Responses)
      /\ owed' \in Seq(Commands)
      /\ xMsgsFromAbccQueue' \in Seq(Message)
  <2>1. CASE \/ RunSetup \/ RunLink \/ LinkSend \/ LinkWait \/ LinkAccept \/ LinkSent
             \/ CfgInit \/ CfgWait \/ NoMessage \/ UNCHANGED vars
    BY <1>0, <2>1 DEF RunSetup, RunLink, LinkSend, LinkWait, LinkAccept, LinkSent, CfgInit, CfgWait,
       NoMessage, vars, toAbcc, toAppl, module, own
  <2>2. CASE LinkIdle
    <3>1. UNCHANGED <<owed, xMsgsFromAbccQueue>>
      BY <2>2 DEF LinkIdle, toAppl, module, own
    <3>2. CASE Turn("cmd") /\ xCmdsToAbccQueue' = Tail(xCmdsToAbccQueue) /\ UNCHANGED xRspsToAbccQueue
      BY <1>0, <3>1, <3>2, TailFacts DEF Turn
    <3>3. CASE Turn("rsp") /\ xRspsToAbccQueue' = Tail(xRspsToAbccQueue) /\ UNCHANGED xCmdsToAbccQueue
      BY <1>0, <3>1, <3>3, TailFacts DEF Turn
    <3>4. CASE UNCHANGED <<xRspsToAbccQueue, xCmdsToAbccQueue>>
      BY <1>0, <3>1, <3>4
    <3> QED BY <2>2, <3>2, <3>3, <3>4 DEF LinkIdle
  <2>3. CASE LinkReceive
    <3>1. UNCHANGED <<xRspsToAbccQueue, xCmdsToAbccQueue, owed>>
      BY <2>3 DEF LinkReceive, toAbcc, module, own
    <3>2. CASE Closes
      <4>1. sMsgRead \in Message
        BY <2>3, <3>2, CloseFacts DEF LinkReceive
      <4>2. \/ xMsgsFromAbccQueue' = Append(xMsgsFromAbccQueue, sMsgRead)
            \/ UNCHANGED xMsgsFromAbccQueue
        BY <2>3, <3>2 DEF LinkReceive, MessageReceived
      <4> QED BY <1>0, <3>1, <4>1, <4>2, AppendFacts
    <3>3. CASE ~Closes
      BY <1>0, <2>3, <3>1, <3>3 DEF LinkReceive, toAppl
    <3> QED BY <3>2, <3>3
  <2>4. CASE CfgSend \/ CfgNext
    <3>1. Adds(bNbrOfCmdsActiveToAbcc)
      BY <2>4, AddsFacts
    <3>2. UNCHANGED <<xRspsToAbccQueue, owed, xMsgsFromAbccQueue>>
      BY <2>4 DEF CfgSend, CfgNext, Send, APPC_RunStateMachine, toAbcc, toAppl, module, own
    <3> QED BY <1>0, <1>a, <3>1, <3>2
  <2>5. CASE CfgResponse
    <3>1. xMsgsFromAbccQueue' \in Seq(Message)
      BY <2>5, TakeFacts DEF CfgResponse
    <3>2. UNCHANGED <<xRspsToAbccQueue, xCmdsToAbccQueue, owed>>
      BY <2>5 DEF CfgResponse, toAbcc, module, own
    <3> QED BY <3>1, <3>2
  <2>6. CASE ResponseToAppl
    <3>1. Adds(bNbrOfCmdsActiveToAbcc - 1)
      BY <2>6, AddsFacts
    <3>2. xMsgsFromAbccQueue' \in Seq(Message)
      BY <2>6, TakeFacts DEF ResponseToAppl
    <3>3. UNCHANGED <<xRspsToAbccQueue, owed>>
      BY <2>6 DEF ResponseToAppl, Send, APPC_RunStateMachine, toAbcc, module, own
    <3> QED BY <1>a, <3>1, <3>2, <3>3
  <2>7. CASE CommandToAppl
    <3>1. xMsgsFromAbccQueue' \in Seq(Message) /\ Head(xMsgsFromAbccQueue) \in Message
      BY <2>7, TakeFacts DEF CommandToAppl
    <3>2. UNCHANGED <<xCmdsToAbccQueue, owed>>
      BY <2>7 DEF CommandToAppl, module, own
    <3>3. PICK good \in BOOLEAN :
            \/ xRspsToAbccQueue' = Append(xRspsToAbccQueue, Rsp(Head(xMsgsFromAbccQueue), good))
            \/ UNCHANGED xRspsToAbccQueue
      BY <2>7 DEF CommandToAppl
    <3>4. Rsp(Head(xMsgsFromAbccQueue), good) \in Responses
      BY <3>1, MakeFacts, KindFacts
    <3> QED BY <3>1, <3>2, <3>3, <3>4, AppendFacts
  <2>8. CASE Module
    BY <1>0, <2>8, ModuleFacts, ModuleQueue DEF toAbcc, toAppl
  <2>9. CASE ResetToAppl
    <3>1. Adds(bNbrOfCmdsActiveToAbcc)
      BY <2>9, AddsFacts
    <3>2. xMsgsFromAbccQueue' \in Seq(Message)
      BY <2>9, TakeFacts DEF ResetToAppl
    <3>3. UNCHANGED <<xRspsToAbccQueue, owed>>
      BY <2>9 DEF ResetToAppl, Send, toAbcc, own
    <3> QED BY <1>a, <3>1, <3>2, <3>3
  <2> QED BY <2>1, <2>2, <2>3, <2>4, <2>5, <2>6, <2>7, <2>8, <2>9 DEF Next, Driver
<1> QED BY <1>1, KindFacts DEF QueuesOK

LEMMA MessageStep ==
  ASSUME TypeOK, CommandsBalanced, AskedInv, SendInv, KindInv, [Next]_vars
  PROVE  MessagesOK'
<1>0. MessagesOK
  BY DEF TypeOK, DataOK
<1>1. CASE \/ RunSetup \/ RunLink \/ LinkWait \/ CfgInit \/ CfgSend \/ CfgWait \/ CfgResponse
           \/ CfgNext \/ NoMessage \/ ResponseToAppl \/ CommandToAppl \/ ResetToAppl \/ UNCHANGED vars
  <2>1. UNCHANGED <<link, line, own>>
    BY <1>1, UpperFacts DEF RunSetup, RunLink, LinkWait, vars, module
  <2> QED BY <1>0, <2>1 DEF link, line, module, own, MessagesOK
<1>2. CASE LinkIdle
  <2>1. UNCHANGED <<sMsgRead, got, out, answer, toModule, fromModule>>
    BY <1>2 DEF LinkIdle, line, module, own
  <2>2. psWriteMsgBuffer' \in Message \union {NULL}
    <3>1. CASE Turn("cmd") /\ psWriteMsgBuffer' = Head(xCmdsToAbccQueue)
      BY <3>1, TailFacts, KindFacts DEF Turn, KindInv
    <3>2. CASE Turn("rsp") /\ psWriteMsgBuffer' = Head(xRspsToAbccQueue)
      BY <3>2, TailFacts, KindFacts DEF Turn, KindInv
    <3>3. CASE UNCHANGED psWriteMsgBuffer
      BY <1>0, <3>3 DEF MessagesOK
    <3> QED BY <1>2, <3>1, <3>2, <3>3 DEF LinkIdle
  <2> QED BY <1>0, <2>1, <2>2 DEF MessagesOK
<1>3. CASE LinkSend
  <2>1. toModule' \in Line
    <3>1. APLINK_FreeCmdSlots \in BOOLEAN
      BY DEF APLINK_FreeCmdSlots
    <3>2. psWriteMsgBuffer \in Message \union {NULL} /\ iPdWriteLength \in Nat
      BY <1>0 DEF MessagesOK, TypeOK, DataOK, LengthsOK, Length
    <3> QED BY <1>3, <3>1, <3>2 DEF LinkSend, Telegram, Line
  <2> QED BY <1>0, <1>3, <2>1 DEF LinkSend, MessagesOK, module, own
<1>4. Nothing \in Line
  BY DEF Nothing, Line
<1>5. CASE LinkAccept
  BY <1>0, <1>4, <1>5 DEF LinkAccept, MessagesOK, module, own
<1>6. CASE LinkReceive
  <2>1. answer.frag \in Message \union {NULL} /\ sMsgRead' \in {NULL, answer.frag, sMsgRead}
    BY <1>0, <1>6 DEF LinkReceive, MessagesOK, Line
  <2> QED BY <1>0, <1>6, <2>1 DEF LinkReceive, MessagesOK, line, module, own
<1>7. CASE LinkSent
  BY <1>0, <1>7 DEF LinkSent, MessagesOK, line, module, own
<1>8. CASE Module
  <2>1. out' \in Message \union {NULL}
    BY <1>8, ModuleQueue, KindFacts
  <2>2. ModReadNow \in Nat
    <3>1. Received.len \in Nat
      <4>1. CASE Received \in Message
        BY <4>1, NullFacts DEF Length
      <4>2. CASE Received = NULL
        BY <4>2 DEF NULL
      <4> QED BY <4>1, <4>2, OwedFacts
    <3> QED BY <3>1 DEF ModReadNow, TypeOK, DataOK, LengthsOK
  <2>3. fromModule' \in Line
    <3>1. \E r \in BOOLEAN : fromModule' = Telegram(out', r, ModReadNow)
      <4>1. CASE ModuleIdle
        BY <4>1 DEF ModuleIdle, Answer
      <4>2. CASE ModuleCloses
        BY <4>2 DEF ModuleCloses, Answer
      <4>3. CASE ModuleResponds
        BY <4>3 DEF ModuleResponds, Answer
      <4>4. CASE ModuleCommands
        BY <4>4 DEF ModuleCommands, Answer
      <4> QED BY <1>8, <4>1, <4>2, <4>3, <4>4 DEF Module
    <3> QED BY <2>1, <2>2, <3>1 DEF Telegram, Line
  <2>4. got' \in Message \union {NULL}
    BY <1>0, <1>8, ModuleFacts DEF MessagesOK, Line
  <2> QED BY <1>0, <1>4, <1>8, <2>1, <2>3, <2>4, ModuleFacts DEF MessagesOK, link
<1> QED BY <1>1, <1>2, <1>3, <1>5, <1>6, <1>7, <1>8 DEF Next, Driver

-----------------------------------------------------------------------------
(***************************************************************************)
(* Control states and lengths.                                             *)
(***************************************************************************)

(* What the configuration does with a response.                            *)
LEMMA ResponseFacts ==
  ASSUME CfgResponse
  PROVE  \/ /\ eCfgState[2] \in Query
            /\ \/ eCfgState' \in {"SEND"} \X Query /\ UNCHANGED iMapCntr
               \/ eCfgState' = <<"NEXT", "READ_MAPPING">> /\ iMapCntr' = 0
            /\ UNCHANGED <<eDriverState, iReadPdLength, iWritePdLength>>
         \/ /\ eCfgState[2] \in Query /\ eDriverState' = "IN_RUN_NO_PD"
            /\ UNCHANGED <<eCfgState, iMapCntr, iReadPdLength, iWritePdLength>>
         \/ /\ eCfgState[2] = "READ_MAPPING" /\ eCfgState' = <<"NEXT", "READ_MAPPING">>
            /\ iReadPdLength' \in {iReadPdLength + 0, iReadPdLength + 1}
            /\ iWritePdLength' = iWritePdLength + 0 /\ iMapCntr' = iMapCntr + 1
            /\ UNCHANGED eDriverState
         \/ /\ eCfgState[2] = "WRITE_MAPPING" /\ eCfgState' = <<"NEXT", "WRITE_MAPPING">>
            /\ iReadPdLength' = iReadPdLength + 0
            /\ iWritePdLength' \in {iWritePdLength + 0, iWritePdLength + 1}
            /\ iMapCntr' = iMapCntr + 1
            /\ UNCHANGED eDriverState
<1> DEFINE op == eCfgState[2]
           good == Head(xMsgsFromAbccQueue) = Rsp(Cmd(op), TRUE)
<1>1. CASE op \in Query /\ good /\ eCfgState' = NextQuery[op]
           /\ iMapCntr' = (IF op = "NW_DATA_FORMAT" THEN 0 ELSE iMapCntr)
           /\ UNCHANGED <<eDriverState, iReadPdLength, iWritePdLength>>
  <2>1. CASE op = "NW_DATA_FORMAT"
    <3>1. NextQuery[op] = <<"NEXT", "READ_MAPPING">>
      BY <2>1 DEF NextQuery, Query
    <3> QED BY <1>1, <2>1, <3>1
  <2>2. CASE op # "NW_DATA_FORMAT"
    <3>1. NextQuery[op] \in {"SEND"} \X Query
      BY <1>1, <2>2 DEF NextQuery, Query
    <3> QED BY <1>1, <2>2, <3>1
  <2> QED BY <2>1, <2>2
<1>2. CASE /\ op \in Query /\ eDriverState' = "IN_RUN_NO_PD"
           /\ UNCHANGED <<eCfgState, iMapCntr, iReadPdLength, iWritePdLength>>
  BY <1>2
<1>3. CASE /\ op \in Map
           /\ iReadPdLength'  = iReadPdLength + Count(good /\ op = "READ_MAPPING")
           /\ iWritePdLength' = iWritePdLength + Count(good /\ op = "WRITE_MAPPING")
           /\ iMapCntr' = iMapCntr + 1
           /\ eCfgState' = <<"NEXT", op>>
           /\ UNCHANGED eDriverState
  <2> HIDE DEF good
  <2>1. CASE op = "READ_MAPPING"
    <3>1. ~(good /\ op = "WRITE_MAPPING")
      BY <2>1
    <3>2. Count(good /\ op = "READ_MAPPING") \in {0, 1} /\ Count(good /\ op = "WRITE_MAPPING") = 0
      BY <3>1 DEF Count
    <3> QED BY <1>3, <2>1, <3>2
  <2>2. CASE op = "WRITE_MAPPING"
    <3>1. ~(good /\ op = "READ_MAPPING")
      BY <2>2
    <3>2. Count(good /\ op = "WRITE_MAPPING") \in {0, 1} /\ Count(good /\ op = "READ_MAPPING") = 0
      BY <3>1 DEF Count
    <3> QED BY <1>3, <2>2, <3>2
  <2> QED BY <1>3, <2>1, <2>2 DEF Map
<1> QED BY <1>1, <1>2, <1>3 DEF CfgResponse

LEMMA ControlStep ==
  ASSUME TypeOK, CommandsBalanced, AskedInv, [Next]_vars
  PROVE  ControlOK'
<1>0. ControlOK
  BY DEF TypeOK, DataOK
<1>1. CASE RunSetup \/ RunLink \/ LinkWait \/ CfgWait \/ NoMessage \/ UNCHANGED vars
  BY <1>0, <1>1 DEF ControlOK, RunSetup, RunLink, LinkWait, CfgWait, NoMessage, vars, driver, remap,
     link, module, own
<1>2. CASE LinkIdle \/ LinkSend
  BY <1>0, <1>2 DEF ControlOK, LinkIdle, LinkSend, driver, remap, module, own
<1>3. CASE LinkAccept
  <2>1. lastM' \in BOOLEAN /\ fRemappingWritePd' \in BOOLEAN /\ fCompleteWrPdRemap' \in BOOLEAN
    BY <1>0, <1>3 DEF ControlOK, LinkAccept
  <2> QED BY <1>0, <1>3, <2>1 DEF ControlOK, LinkAccept, driver, module, own
<1>4. CASE LinkReceive
  <2>1. eDriverState' = eDriverState \/ eDriverState' = "IN_RUN"
    BY <1>4 DEF LinkReceive, MessageReceived
  <2> QED BY <1>0, <1>4, <2>1 DEF ControlOK, LinkReceive, remap, module, own
<1>5. CASE LinkSent
  <2>1. fRemappingReadPd' \in BOOLEAN /\ fCompleteWrPdRemap' \in BOOLEAN
    BY <1>0, <1>5 DEF ControlOK, LinkSent, CompleteMsgTrans
  <2> QED BY <1>0, <1>5, <2>1 DEF ControlOK, LinkSent, driver, module, own
<1>6. CASE CfgInit \/ CfgSend \/ CfgNext
  <2>1. UNCHANGED <<eState, bLastSentMsgType, fRemappingReadPd, fRemappingWritePd, fCompleteWrPdRemap,
                    lastM, isSetUp>> /\ phase' = "main"
    BY <1>6 DEF CfgInit, CfgSend, CfgNext, remap, link, module, own
  <2>2. appc_eState' \in Appc \union {"DONE"}
    BY <1>0, <1>6, AppcFacts DEF ControlOK, CfgInit, CfgSend, CfgNext, TypeOK, WithinLimits
  <2>3. eDriverState' \in {"SETUP", "IN_CONFIGURATION", "IN_RUN_NO_PD", "IN_RUN"}
    BY <1>0, <1>6 DEF ControlOK, CfgInit, CfgSend, CfgNext
  <2>4. eCfgState' = eCfgState \/ eCfgState' \in {"SEND", "WAIT"} \X (Query \union Map)
    BY <1>0, <1>6 DEF ControlOK, CfgInit, CfgSend, CfgNext, Query, Map
  <2> QED BY <1>0, <2>1, <2>2, <2>3, <2>4 DEF ControlOK
<1>7. CASE CfgResponse
  <2>1. /\ eCfgState' = eCfgState \/ eCfgState' \in {"SEND"} \X Query \/ eCfgState' \in {"NEXT"} \X Map
        /\ eDriverState' = eDriverState \/ eDriverState' = "IN_RUN_NO_PD"
    BY <1>7, ResponseFacts DEF Map
  <2> QED BY <1>0, <1>7, <2>1 DEF ControlOK, CfgResponse, remap, link, module, own
<1>8. CASE ResponseToAppl
  <2>1. bNbrOfCmdsActiveToAbcc - 1 \in 0 .. ApplCmds
        /\ Decrement(bNbrOfCmdsActiveToAbcc) = bNbrOfCmdsActiveToAbcc - 1
    BY <1>8, TakeFacts, ConstantFacts DEF ResponseToAppl, TypeOK, WithinLimits
  <2>2. appc_eState' \in Appc \union {"DONE"}
    BY <1>8, <2>1, AppcFacts DEF ResponseToAppl, TypeOK
  <2> QED BY <1>0, <1>8, <2>2 DEF ControlOK, ResponseToAppl, driver, remap, link, module, own
<1>9. CASE CommandToAppl
  <2>1. fRemappingReadPd' \in BOOLEAN /\ fRemappingWritePd' \in BOOLEAN
    BY <1>0, <1>9 DEF ControlOK, CommandToAppl
  <2> QED BY <1>0, <1>9, <2>1 DEF ControlOK, CommandToAppl, driver, link, module, own
<1>10. CASE Module
  <2>1. isSetUp' = isSetUp \/ isSetUp' = TRUE
    BY <1>10 DEF Module, ModuleIdle, ModuleCloses, ModuleResponds, ModuleCommands
  <2> QED BY <1>0, <1>10, <2>1, ModuleFacts DEF ControlOK, driver, remap, link
<1>11. CASE ResetToAppl
  BY <1>0, <1>11 DEF ControlOK, ResetToAppl, driver, remap, link, own
<1> QED BY <1>1, <1>2, <1>3, <1>4, <1>5, <1>6, <1>7, <1>8, <1>9, <1>10, <1>11 DEF Next, Driver

LEMMA LengthStep ==
  ASSUME TypeOK, OfferInv, KindInv, SendInv, [Next]_vars
  PROVE  LengthsOK'
<1>0. LengthsOK
  BY DEF TypeOK, DataOK
<1>1. CASE \/ RunSetup \/ RunLink \/ LinkIdle \/ LinkSend \/ LinkWait
           \/ CfgSend \/ CfgWait \/ NoMessage \/ ResponseToAppl \/ CommandToAppl \/ ResetToAppl \/ UNCHANGED vars
  BY <1>0, <1>1 DEF LengthsOK, RunSetup, RunLink, LinkIdle, LinkSend, LinkWait, CfgSend, CfgWait,
     NoMessage, ResponseToAppl, CommandToAppl, ResetToAppl, vars, driver, lengths, module, own
<1>2. CASE LinkAccept
  BY <1>0, <1>2 DEF LengthsOK, LinkAccept, APDR_SetPdSize, driver, module, own
<1>3. CASE LinkReceive
  <2>1. ReadMaps \in Length /\ WriteMaps \in Length
    BY ConstantFacts DEF Length
  <2> QED BY <1>0, <1>3, <2>1 DEF LengthsOK, LinkReceive, MessageReceived, APDR_SetPdSize, module, own
<1>4. CASE LinkSent
  <2>1. psWriteMsgBuffer = NULL \/ psWriteMsgBuffer.len \in Length
    BY NullFacts DEF TypeOK, DataOK, MessagesOK
  <2> QED BY <1>0, <1>4, <2>1 DEF LengthsOK, LinkSent, CompleteMsgTrans, APDR_SetPdSize, driver, module, own
<1>5. CASE CfgInit \/ CfgNext
  <2>1. 0 \in Length
    BY DEF Length
  <2> QED BY <1>0, <1>5, <2>1 DEF LengthsOK, CfgInit, CfgNext, lengths, module, own
<1>6. CASE CfgResponse
  <2>1. /\ iReadPdLength' \in Length /\ iWritePdLength' \in Length /\ iMapCntr' \in Nat
    <3>0. iMapCntr \in Nat /\ iReadPdLength \in Length /\ iWritePdLength \in Length
      BY <1>0 DEF LengthsOK
    <3>1. CASE eCfgState[2] \in Query
      BY <1>6, <3>0, <3>1, ResponseFacts DEF Query
    <3>2. CASE eCfgState[2] = "READ_MAPPING"
      <4>1. iReadPdLength <= iMapCntr /\ iMapCntr < ReadMaps
        BY <1>6, <3>2 DEF OfferInv, CfgResponse, Configures
      <4>2. iReadPdLength + 1 \in Length /\ iReadPdLength + 0 \in Length /\ iWritePdLength + 0 \in Length
        BY <3>0, <4>1, ConstantFacts DEF Length
      <4> QED BY <1>6, <3>0, <3>2, <4>2, ResponseFacts DEF Query
    <3>3. CASE eCfgState[2] = "WRITE_MAPPING"
      <4>1. iWritePdLength <= iMapCntr /\ iMapCntr < WriteMaps
        BY <1>6, <3>3 DEF OfferInv, CfgResponse, Configures
      <4>2. iWritePdLength + 1 \in Length /\ iWritePdLength + 0 \in Length /\ iReadPdLength + 0 \in Length
        BY <3>0, <4>1, ConstantFacts DEF Length
      <4> QED BY <1>6, <3>0, <3>3, <4>2, ResponseFacts DEF Query
    <3> QED BY <1>6, <3>1, <3>2, <3>3, ResponseFacts
  <2> QED BY <1>0, <1>6, <2>1 DEF LengthsOK, CfgResponse, module, own
<1>7. CASE Module
  <2>1. Received.len \in Nat
    <3>1. CASE Received \in Message
      BY <3>1, NullFacts DEF Length
    <3>2. CASE Received = NULL
      BY <3>2 DEF NULL
    <3> QED BY <3>1, <3>2, OwedFacts
  <2>2. UNCHANGED <<iReadPdLength, iWritePdLength, iNewWritePdLength, iPdReadLength, iPdWriteLength,
                    iMapCntr>>
    BY <1>7, ModuleFacts DEF lengths, driver
  <2>3. ModReadNow \in Nat
    BY <1>0, <2>1 DEF ModReadNow, LengthsOK
  <2>4. KeepLengths => modRead' \in Nat /\ modWrite' \in Nat
    BY <1>0, <2>1, <2>3 DEF KeepLengths, LengthsOK
  <2>5. mapped' \in [Map -> Nat]
    <3>1. UNCHANGED mapped \/ \E op \in Map : mapped' = [mapped EXCEPT ![op] = @ + 1]
      BY <1>7 DEF Module, ModuleIdle, ModuleCloses, ModuleResponds, ModuleCommands
    <3> QED BY <1>0, <3>1 DEF LengthsOK
  <2>6. modRead' \in Nat /\ modWrite' \in Nat
    BY <1>0, <1>7, <2>4 DEF LengthsOK, Module, ModuleIdle, ModuleCloses, ModuleResponds, ModuleCommands, Map
  <2> QED BY <1>0, <2>2, <2>5, <2>6 DEF LengthsOK
<1> QED BY <1>1, <1>2, <1>3, <1>4, <1>5, <1>6, <1>7 DEF Next, Driver

-----------------------------------------------------------------------------
(***************************************************************************)
(* The set-up.                                                             *)
(***************************************************************************)

(* Before it is set up the module has no commands under way.               *)
LEMMA QuietFacts ==
  ASSUME TypeOK, CommandsBalanced, AskedInv, SetupInv, ~isSetUp
  PROVE  /\ ~fCompleteWrPdRemap /\ bNbrOfCmdsActiveFromAbcc = 0 /\ asked = 0
         /\ cIn = 0 /\ rq = 0 /\ rHeld = 0 /\ cComes = 0 /\ rThere = 0
         /\ psWriteMsgBuffer \notin Responses /\ OnTheWay \notin Commands
<1>0. Natural /\ Limits /\ Balance
  BY BalanceFacts
<1>1. asked = 0 /\ ~fCompleteWrPdRemap
  BY DEF SetupInv
<1>2. /\ bNbrOfCmdsActiveFromAbcc = 0
      /\ cIn = 0 /\ rq = 0 /\ rHeld = 0 /\ cComes = 0 /\ rThere = 0
  BY <1>0, <1>1 DEF Natural, Balance
<1>3. psWriteMsgBuffer \notin Responses /\ OnTheWay \notin Commands
  BY <1>2 DEF rHeld, cComes, One
<1> QED BY <1>1, <1>2, <1>3

(* So there is no reset to take either.                                    *)
LEMMA NoResetFacts ==
  ASSUME TypeOK, CommandsBalanced, AskedInv, SetupInv, ~isSetUp
  PROVE  ~ResetToAppl
<1>1. cIn = 0
  BY QuietFacts
<1> QED BY <1>1, TakeFacts DEF ResetToAppl

LEMMA OfferStep ==
  ASSUME TypeOK, CommandsBalanced, AskedInv, SetupInv, SendInv, ReceiveInv, OfferInv, [Next]_vars
  PROVE  OfferInv'
<1> SUFFICES ASSUME eDriverState' = "IN_CONFIGURATION" PROVE OfferInv'
  BY DEF OfferInv
<1>0. /\ iMapCntr \in Nat /\ iReadPdLength \in Nat /\ iWritePdLength \in Nat
      /\ ReadMaps \in Nat /\ WriteMaps \in Nat
  BY ConstantFacts DEF TypeOK, DataOK, LengthsOK, Length
<1>1. CASE UNCHANGED <<driver, iReadPdLength, iWritePdLength>>
  BY <1>1 DEF OfferInv, driver
<1>2. CASE RunSetup
  BY <1>2 DEF RunSetup, OfferInv
<1>3. CASE \/ RunLink \/ LinkIdle \/ LinkSend \/ LinkWait \/ CfgWait \/ NoMessage \/ ResponseToAppl
           \/ CommandToAppl \/ ResetToAppl \/ UNCHANGED vars
  BY <1>1, <1>3 DEF RunLink, LinkIdle, LinkSend, LinkWait, CfgWait, NoMessage, ResponseToAppl,
     CommandToAppl, ResetToAppl, vars, lengths
<1>4. CASE LinkAccept
  <2>1. eDriverState = "IN_CONFIGURATION"
    BY <1>4 DEF LinkAccept, driver
  <2>2. ~fCompleteWrPdRemap
    BY <2>1, QuietFacts DEF SetupInv
  <2> QED BY <1>1, <1>4, <2>2 DEF LinkAccept
<1>5. CASE LinkReceive
  <2>1. CASE Closes
    <3>1. eDriverState = "IN_CONFIGURATION"
      BY <1>5, <2>1 DEF LinkReceive, MessageReceived
    <3>2. ~IsSetupAck(sMsgRead)
      BY <3>1 DEF SetupInv, EarlyInv, Early, IsSetupAck, NULL
    <3> QED BY <1>1, <1>5, <2>1, <3>2 DEF LinkReceive, MessageReceived, driver
  <2>2. CASE ~Closes
    BY <1>1, <1>5, <2>2 DEF LinkReceive, driver
  <2> QED BY <2>1, <2>2
<1>6. CASE LinkSent
  <2>1. eDriverState = "IN_CONFIGURATION"
    BY <1>6 DEF LinkSent, driver
  <2>2. psWriteMsgBuffer \notin Responses
    BY <2>1, QuietFacts DEF SetupInv
  <2>3. psWriteMsgBuffer # NULL => ~IsRemapAck(psWriteMsgBuffer, "REMAP_READ")
    BY <2>2, KindFacts DEF IsRemapAck, TypeOK, DataOK, MessagesOK
  <2> QED BY <1>1, <1>6, <2>3 DEF LinkSent, CompleteMsgTrans
<1>7. CASE CfgInit
  <2>1. iReadPdLength' = 0 /\ iWritePdLength' = 0 /\ eCfgState' = <<"SEND", "MODULE_TYPE">>
    BY <1>7 DEF CfgInit
  <2> QED BY <2>1 DEF OfferInv
<1>8. CASE CfgSend
  <2>1. /\ UNCHANGED <<iReadPdLength, iWritePdLength, iMapCntr>> /\ eCfgState[1] = "SEND"
        /\ eCfgState' = <<"WAIT", eCfgState[2]>> /\ eDriverState = "IN_CONFIGURATION"
    BY <1>8 DEF CfgSend, Configures, lengths
  <2> QED BY <2>1 DEF OfferInv
<1>9. CASE CfgResponse
  <2>1. eCfgState[1] = "WAIT" /\ eDriverState = "IN_CONFIGURATION"
    BY <1>9 DEF CfgResponse, Configures
  <2>2. CASE eCfgState[2] \in Query
    <3>1. iReadPdLength = 0 /\ iWritePdLength = 0
      BY <2>1, <2>2 DEF OfferInv, Query
    <3>2. UNCHANGED <<iReadPdLength, iWritePdLength>>
          /\ \/ eCfgState' \in {"SEND"} \X Query
             \/ eCfgState' = <<"NEXT", "READ_MAPPING">> /\ iMapCntr' = 0
      BY <1>9, <2>2, ResponseFacts DEF Query
    <3> QED BY <1>0, <3>1, <3>2 DEF OfferInv, Query
  <2>3. CASE eCfgState[2] = "READ_MAPPING"
    <3>1. iReadPdLength <= iMapCntr /\ iMapCntr < ReadMaps /\ iWritePdLength = 0
      BY <2>1, <2>3 DEF OfferInv
    <3>2. /\ iReadPdLength' \in {iReadPdLength + 0, iReadPdLength + 1}
          /\ iWritePdLength' = iWritePdLength + 0 /\ iMapCntr' = iMapCntr + 1
          /\ eCfgState' = <<"NEXT", "READ_MAPPING">>
      BY <1>9, <2>3, ResponseFacts DEF Query
    <3>3. iReadPdLength' <= iMapCntr' /\ iMapCntr' <= ReadMaps /\ iWritePdLength' = 0
      BY <1>0, <3>1, <3>2
    <3> QED BY <3>2, <3>3 DEF OfferInv, Query
  <2>4. CASE eCfgState[2] = "WRITE_MAPPING"
    <3>1. iWritePdLength <= iMapCntr /\ iMapCntr < WriteMaps
      BY <2>1, <2>4 DEF OfferInv
    <3>2. /\ iWritePdLength' \in {iWritePdLength + 0, iWritePdLength + 1}
          /\ iMapCntr' = iMapCntr + 1 /\ eCfgState' = <<"NEXT", "WRITE_MAPPING">>
      BY <1>9, <2>4, ResponseFacts DEF Query
    <3>3. iWritePdLength' <= iMapCntr' /\ iMapCntr' <= WriteMaps
      BY <1>0, <3>1, <3>2
    <3> QED BY <3>2, <3>3 DEF OfferInv, Query
  <2> QED BY <1>9, <2>2, <2>3, <2>4, ResponseFacts
<1>10. CASE CfgNext
  <2>1. /\ eCfgState[1] = "NEXT" /\ eDriverState = "IN_CONFIGURATION"
        /\ eCfgState[2] \in Map /\ UNCHANGED <<iReadPdLength, iWritePdLength>>
    BY <1>10 DEF CfgNext, Configures, lengths, TypeOK, DataOK, ControlOK, Map
  <2>2. CASE eCfgState' = <<"SEND", eCfgState[2]>> /\ UNCHANGED iMapCntr
             /\ (iMapCntr < IF eCfgState[2] = "READ_MAPPING" THEN ReadMaps ELSE WriteMaps)
    BY <2>1, <2>2 DEF OfferInv, Query, Map
  <2>3. CASE /\ eCfgState[2] = "READ_MAPPING" /\ WriteMaps # 0
             /\ iMapCntr' = 0 /\ eCfgState' = <<"SEND", "WRITE_MAPPING">>
    <3>1. iWritePdLength' = 0 /\ iWritePdLength' <= iMapCntr' /\ iMapCntr' < WriteMaps
      BY <1>0, <2>1, <2>3 DEF OfferInv
    <3> QED BY <2>3, <3>1 DEF OfferInv, Query
  <2> QED BY <1>10, <2>2, <2>3 DEF CfgNext
<1>11. CASE Module
  BY <1>1, <1>11, ModuleFacts DEF lengths
<1> QED BY <1>2, <1>3, <1>4, <1>5, <1>6, <1>7, <1>8, <1>9, <1>10, <1>11 DEF Next, Driver

-----------------------------------------------------------------------------
(***************************************************************************)
(* The balance, step by step: each lemma says where the action moves a     *)
(* message, then that the sums stay right.                                 *)
(***************************************************************************)
kept == <<cq, rq, mq, dq, cIn, rIn, cHeld, rHeld, cThere, rThere, cComes, rComes,
          counts, usedCmd, usedRsp, usedMsg, asked, resets>>

LEMMA KeptFacts ==
  ASSUME UNCHANGED <<xRspsToAbccQueue, xCmdsToAbccQueue, xMsgsFromAbccQueue, owed,
                     psWriteMsgBuffer, got, out, sMsgRead>>
  PROVE  UNCHANGED <<cq, rq, mq, dq, cIn, rIn, cHeld, rHeld, cThere, rThere, cComes, rComes>>
<1>1. UNCHANGED <<cq, rq, mq, dq, cIn, rIn>>
  BY DEF cq, rq, mq, dq, cIn, rIn, CountIn
<1>2. UNCHANGED <<AtModule, OnTheWay>>
  BY DEF AtModule, OnTheWay
<1>3. UNCHANGED <<cHeld, rHeld, cThere, rThere, cComes, rComes>>
  BY <1>2 DEF cHeld, rHeld, cThere, rThere, cComes, rComes, One
<1> QED BY <1>1, <1>3

LEMMA QueueKept ==
  /\ UNCHANGED xCmdsToAbccQueue => UNCHANGED cq
  /\ UNCHANGED xRspsToAbccQueue => UNCHANGED rq
  /\ UNCHANGED owed => UNCHANGED dq
  /\ UNCHANGED xMsgsFromAbccQueue => UNCHANGED <<mq, cIn, rIn>>
  /\ UNCHANGED psWriteMsgBuffer => UNCHANGED <<cHeld, rHeld>>
  /\ UNCHANGED AtModule => UNCHANGED <<cThere, rThere>>
  /\ UNCHANGED OnTheWay => UNCHANGED <<cComes, rComes>>
BY DEF cq, rq, mq, dq, cIn, rIn, CountIn, cHeld, rHeld, cThere, rThere, cComes, rComes, One

LEMMA BalanceKept ==
  ASSUME Balance, UNCHANGED kept
  PROVE  Balance'
BY DEF kept, counts, Balance

LEMMA IdleBalance ==
  ASSUME TypeOK, CommandsBalanced, AskedInv, SendInv, KindInv, LinkIdle
  PROVE  Balance'
<1>0. Natural /\ Limits /\ Balance
  BY BalanceFacts
<1>1. /\ UNCHANGED <<counts, usedCmd, usedRsp, usedMsg, asked, resets, owed, xMsgsFromAbccQueue, got, out,
                     sMsgRead>>
      /\ psWriteMsgBuffer = NULL /\ got = NULL
  BY DEF LinkIdle, toAppl, module, own, SendInv
<1>2. AtModule = NULL /\ AtModule' = NULL /\ UNCHANGED OnTheWay
  BY <1>1 DEF AtModule, OnTheWay
<1>3. /\ UNCHANGED <<dq, mq, cIn, rIn, cThere, rThere, cComes, rComes>> /\ cHeld = 0 /\ rHeld = 0
  BY <1>1, <1>2, QueueKept, NullFacts DEF cHeld, rHeld
<1>4. CASE /\ Turn("cmd") /\ psWriteMsgBuffer' = Head(xCmdsToAbccQueue)
           /\ xCmdsToAbccQueue' = Tail(xCmdsToAbccQueue) /\ UNCHANGED xRspsToAbccQueue
  <2>1. /\ xCmdsToAbccQueue \in Seq(Commands) /\ xCmdsToAbccQueue # <<>>
    BY <1>4 DEF KindInv, Turn
  <2>2. psWriteMsgBuffer' \in Commands /\ cq' = cq - 1
    BY <1>4, <2>1, TailFacts DEF cq
  <2>3. cHeld' = 1 /\ rHeld' = 0 /\ UNCHANGED rq
    BY <1>4, <2>2, QueueKept DEF cHeld, rHeld, One, Commands, Responses
  <2>4. /\ bNbrOfCmdsActiveToAbcc = (cq - 1) + 1 + cThere + dq + rComes + rIn
        /\ bNbrOfCmdsActiveFromAbcc = cIn + rq + 0 + resets
        /\ usedCmd = (cq - 1) + 1 /\ usedRsp = rq + 0
    BY <1>0, <1>3 DEF Natural, Balance
  <2> QED BY <1>0, <1>1, <1>3, <2>2, <2>3, <2>4 DEF Balance, counts
<1>5. CASE /\ Turn("rsp") /\ psWriteMsgBuffer' = Head(xRspsToAbccQueue)
           /\ xRspsToAbccQueue' = Tail(xRspsToAbccQueue) /\ UNCHANGED xCmdsToAbccQueue
  <2>1. /\ xRspsToAbccQueue \in Seq(Responses) /\ xRspsToAbccQueue # <<>>
    BY <1>5 DEF KindInv, Turn
  <2>2. psWriteMsgBuffer' \in Responses /\ rq' = rq - 1
    BY <1>5, <2>1, TailFacts DEF rq
  <2>3. cHeld' = 0 /\ rHeld' = 1 /\ UNCHANGED cq
    BY <1>5, <2>2, QueueKept DEF cHeld, rHeld, One, Commands, Responses
  <2>4. /\ bNbrOfCmdsActiveToAbcc = cq + 0 + cThere + dq + rComes + rIn
        /\ bNbrOfCmdsActiveFromAbcc = cIn + (rq - 1) + 1 + resets
        /\ usedCmd = cq + 0 /\ usedRsp = (rq - 1) + 1
    BY <1>0, <1>3 DEF Natural, Balance
  <2> QED BY <1>0, <1>1, <1>3, <2>2, <2>3, <2>4 DEF Balance, counts
<1>6. CASE UNCHANGED <<psWriteMsgBuffer, xRspsToAbccQueue, xCmdsToAbccQueue>>
  BY <1>0, <1>1, <1>6, KeptFacts, BalanceKept DEF kept
<1> QED BY <1>4, <1>5, <1>6 DEF LinkIdle

LEMMA ReceiveBalance ==
  ASSUME TypeOK, CommandsBalanced, AskedInv, SendInv, ReceiveInv, LinkReceive
  PROVE  Balance'
<1>0. Natural /\ Limits /\ Balance
  BY BalanceFacts
<1>1. /\ UNCHANGED <<bNbrOfCmdsActiveToAbcc, usedCmd, usedRsp, asked, resets, owed, xRspsToAbccQueue,
                     xCmdsToAbccQueue, psWriteMsgBuffer, got, out>>
      /\ phase = "link" /\ eState = "PROCESS_RECEIVED_TELEGRAM"
  BY DEF LinkReceive, toAbcc, module, own
<1>2. UNCHANGED <<cq, rq, dq, cHeld, rHeld, cThere, rThere>>
  BY <1>1, QueueKept DEF AtModule
<1>3. CASE Closes
  <2>1. /\ sMsgRead \in Message /\ out = NULL /\ OnTheWay = sMsgRead
        /\ mq < AbccCmds + ApplCmds
        /\ sMsgRead.c => bNbrOfCmdsActiveFromAbcc < AbccCmds
    BY <1>1, <1>3, CloseFacts
  <2>2. /\ MessageReceived(sMsgRead) /\ sMsgRead' = NULL
    BY <1>3 DEF LinkReceive
  <2>3. /\ xMsgsFromAbccQueue \in Seq(Message)
        /\ xMsgsFromAbccQueue' = Append(xMsgsFromAbccQueue, sMsgRead) /\ usedMsg' = usedMsg + 1
    BY <2>1, <2>2 DEF MessageReceived, mq, TypeOK, DataOK, QueuesOK
  <2>4. /\ mq' = mq + 1 /\ cIn' = cIn + One(sMsgRead, Commands)
        /\ rIn' = rIn + One(sMsgRead, Responses)
    BY <2>1, <2>3, CountAppend, AppendFacts DEF mq, cIn, rIn
  <2>5. cComes' = 0 /\ rComes' = 0
    BY <1>1, <2>1, <2>2, NullFacts DEF OnTheWay, cComes, rComes
  <2>6. CASE sMsgRead.c
    <3>1. cIn' = cIn + 1 /\ rIn' = rIn + 0 /\ cComes = 1 /\ rComes = 0
      BY <2>1, <2>4, <2>6, NullFacts DEF cComes, rComes
    <3>2. bNbrOfCmdsActiveFromAbcc \in Nat /\ bNbrOfCmdsActiveFromAbcc < 256 - 1
      BY <1>0, <2>1, <2>6 DEF Natural, Limits, Balance
    <3>3. bNbrOfCmdsActiveFromAbcc' = bNbrOfCmdsActiveFromAbcc + 1
      BY <2>2, <2>6, <3>2 DEF MessageReceived, Increment
    <3>4. /\ bNbrOfCmdsActiveToAbcc = cq + cHeld + cThere + dq + 0 + (rIn + 0)
          /\ bNbrOfCmdsActiveFromAbcc + 1 = (cIn + 1) + rq + rHeld + resets
          /\ asked = 0 + (bNbrOfCmdsActiveFromAbcc + 1) + rThere
          /\ usedMsg + 1 = mq + 1
      BY <1>0, <3>1 DEF Natural, Balance
    <3> QED BY <1>0, <1>1, <1>2, <2>3, <2>4, <2>5, <3>1, <3>3, <3>4 DEF Balance
  <2>7. CASE ~sMsgRead.c
    <3>1. cIn' = cIn + 0 /\ rIn' = rIn + 1 /\ cComes = 0 /\ rComes = 1
      BY <2>1, <2>4, <2>7, NullFacts DEF cComes, rComes
    <3>3. bNbrOfCmdsActiveFromAbcc' = bNbrOfCmdsActiveFromAbcc
      BY <2>2, <2>7 DEF MessageReceived
    <3>4. /\ bNbrOfCmdsActiveToAbcc = cq + cHeld + cThere + dq + 0 + (rIn + 1)
          /\ bNbrOfCmdsActiveFromAbcc = (cIn + 0) + rq + rHeld + resets
          /\ asked = 0 + bNbrOfCmdsActiveFromAbcc + rThere
          /\ usedMsg + 1 = mq + 1
      BY <1>0, <3>1 DEF Natural, Balance
    <3> QED BY <1>0, <1>1, <1>2, <2>3, <2>4, <2>5, <3>1, <3>3, <3>4 DEF Balance
  <2> QED BY <2>6, <2>7
<1>4. CASE ~Closes
  <2>1. /\ UNCHANGED <<bNbrOfCmdsActiveFromAbcc, xMsgsFromAbccQueue, usedMsg>>
        /\ sMsgRead' = IF answer.frag # NULL THEN answer.frag ELSE sMsgRead
    BY <1>4 DEF LinkReceive, toAppl
  <2>2. ~fromModule.sent /\ out = answer.frag
    BY <1>1 DEF SendInv, ReceiveInv
  <2>3. UNCHANGED OnTheWay
    BY <1>1, <2>1, <2>2 DEF OnTheWay
  <2> QED BY <1>0, <1>1, <1>2, <2>1, <2>3, QueueKept, BalanceKept DEF kept, counts
<1> QED BY <1>3, <1>4

LEMMA SentBalance ==
  ASSUME TypeOK, CommandsBalanced, AskedInv, SendInv, LinkSent
  PROVE  Balance'
<1>0. Natural /\ Limits /\ Balance
  BY BalanceFacts
<1>1. /\ UNCHANGED <<bNbrOfCmdsActiveToAbcc, usedMsg, asked, resets, owed, xRspsToAbccQueue,
                     xCmdsToAbccQueue, xMsgsFromAbccQueue, got, out, sMsgRead>>
      /\ got = psWriteMsgBuffer
  BY DEF LinkSent, toAppl, module, own, SendInv
<1>2. UNCHANGED <<cq, rq, mq, dq, cIn, rIn, cComes, rComes>>
  BY <1>1, QueueKept DEF OnTheWay
<1>3. CASE psWriteMsgBuffer = NULL
  <2>1. UNCHANGED <<psWriteMsgBuffer, bNbrOfCmdsActiveFromAbcc, usedRsp, usedCmd>>
    BY <1>3 DEF LinkSent
  <2> QED BY <1>0, <1>1, <2>1, KeptFacts, BalanceKept DEF kept, counts
<1>4. CASE psWriteMsgBuffer # NULL
  <2>1. CompleteMsgTrans(psWriteMsgBuffer) /\ psWriteMsgBuffer' = NULL
        /\ psWriteMsgBuffer \in Message
    BY <1>4 DEF LinkSent, TypeOK, DataOK, MessagesOK
  <2>2. AtModule = NULL /\ AtModule' = psWriteMsgBuffer
    BY <1>1, <1>4, <2>1 DEF AtModule
  <2>3. /\ cHeld' = 0 /\ rHeld' = 0 /\ cThere = 0 /\ rThere = 0
        /\ cThere' = cHeld /\ rThere' = rHeld
    BY <2>1, <2>2, NullFacts DEF cHeld, rHeld, cThere, rThere
  <2>4. CASE psWriteMsgBuffer.c
    <3>1. cHeld = 1 /\ rHeld = 0
      BY <2>1, <2>4, NullFacts DEF cHeld, rHeld
    <3>2. usedCmd' = usedCmd - 1 /\ UNCHANGED <<usedRsp, bNbrOfCmdsActiveFromAbcc>>
      BY <2>1, <2>4 DEF CompleteMsgTrans
    <3>3. /\ bNbrOfCmdsActiveToAbcc = cq + 0 + cHeld + dq + rComes + rIn
          /\ bNbrOfCmdsActiveFromAbcc = cIn + rq + 0 + resets
          /\ usedCmd - 1 = cq + 0 /\ usedRsp = rq + 0
          /\ asked = cComes + bNbrOfCmdsActiveFromAbcc + rHeld
      BY <1>0, <2>3, <3>1 DEF Natural, Balance
    <3> QED BY <1>0, <1>1, <1>2, <2>3, <3>2, <3>3 DEF Balance
  <2>5. CASE ~psWriteMsgBuffer.c
    <3>1. cHeld = 0 /\ rHeld = 1
      BY <2>1, <2>5, NullFacts DEF cHeld, rHeld
    <3>2. bNbrOfCmdsActiveFromAbcc > 0
      BY <1>0, <3>1 DEF Natural, Balance
    <3>3. usedRsp' = usedRsp - 1 /\ UNCHANGED usedCmd
          /\ bNbrOfCmdsActiveFromAbcc' = bNbrOfCmdsActiveFromAbcc - 1
      BY <2>1, <2>5, <3>2 DEF CompleteMsgTrans
    <3>4. /\ bNbrOfCmdsActiveToAbcc = cq + 0 + cHeld + dq + rComes + rIn
          /\ bNbrOfCmdsActiveFromAbcc - 1 = cIn + rq + 0 + resets
          /\ usedCmd = cq + 0 /\ usedRsp - 1 = rq + 0
          /\ asked = cComes + (bNbrOfCmdsActiveFromAbcc - 1) + rHeld
      BY <1>0, <2>3, <3>1 DEF Natural, Balance
    <3> QED BY <1>0, <1>1, <1>2, <2>3, <3>3, <3>4 DEF Balance
  <2> QED BY <2>4, <2>5
<1> QED BY <1>3, <1>4

(* A command is added, or not, with the counter at n.                      *)
LEMMA AddsCount ==
  ASSUME KindInv, NEW n, Adds(n)
  PROVE  \/ cq' = cq + 1 /\ usedCmd' = usedCmd + 1 /\ bNbrOfCmdsActiveToAbcc' = n + 1 /\ n < ApplCmds
         \/ cq' = cq /\ usedCmd' = usedCmd /\ bNbrOfCmdsActiveToAbcc' = n
<1>1. xCmdsToAbccQueue \in Seq(Commands)
  BY DEF KindInv
<1> QED BY <1>1, AppendFacts, QueueKept DEF Adds, cq

LEMMA CfgBalance ==
  ASSUME TypeOK, CommandsBalanced, AskedInv, KindInv, CfgSend \/ CfgNext
  PROVE  Balance'
<1>0. Natural /\ Limits /\ Balance
  BY BalanceFacts
<1>1. /\ UNCHANGED <<bNbrOfCmdsActiveFromAbcc, usedRsp, usedMsg, asked, resets, owed, xRspsToAbccQueue,
                     xMsgsFromAbccQueue, psWriteMsgBuffer, got, out, sMsgRead>>
  BY DEF CfgSend, CfgNext, Send, APPC_RunStateMachine, toAbcc, toAppl, link, module, own
<1>2. UNCHANGED <<rq, mq, dq, cIn, rIn, cHeld, rHeld, cThere, rThere, cComes, rComes>>
  BY <1>1, QueueKept DEF AtModule, OnTheWay
<1>3. Adds(bNbrOfCmdsActiveToAbcc)
  BY AddsFacts
<1>4. CASE /\ cq' = cq + 1 /\ usedCmd' = usedCmd + 1
           /\ bNbrOfCmdsActiveToAbcc' = bNbrOfCmdsActiveToAbcc + 1
           /\ bNbrOfCmdsActiveToAbcc < ApplCmds
  <2>1. bNbrOfCmdsActiveToAbcc + 1 = (cq + 1) + cHeld + cThere + dq + rComes + rIn
        /\ bNbrOfCmdsActiveToAbcc + 1 <= ApplCmds /\ usedCmd + 1 = (cq + 1) + cHeld
    BY <1>0, <1>4 DEF Natural, Limits, Balance
  <2> QED BY <1>0, <1>1, <1>2, <1>4, <2>1 DEF Balance
<1>5. CASE cq' = cq /\ usedCmd' = usedCmd /\ UNCHANGED bNbrOfCmdsActiveToAbcc
  BY <1>0, <1>1, <1>2, <1>5, BalanceKept DEF kept, counts
<1> QED BY <1>3, <1>4, <1>5, AddsCount

LEMMA CfgResponseBalance ==
  ASSUME TypeOK, CommandsBalanced, AskedInv, SetupInv, CfgResponse
  PROVE  Balance'
<1>0. Natural /\ Limits /\ Balance
  BY BalanceFacts
<1>1. /\ UNCHANGED <<bNbrOfCmdsActiveFromAbcc, usedRsp, usedCmd, asked, resets, owed, xRspsToAbccQueue,
                     xCmdsToAbccQueue, psWriteMsgBuffer, got, out, sMsgRead>>
      /\ TakeMessage /\ eDriverState = "IN_CONFIGURATION"
      /\ bNbrOfCmdsActiveToAbcc' = Decrement(bNbrOfCmdsActiveToAbcc)
  BY DEF CfgResponse, Configures, toAbcc, link, module, own
<1>2. UNCHANGED <<cq, rq, dq, cHeld, rHeld, cThere, rThere, cComes, rComes>>
  BY <1>1, QueueKept DEF AtModule, OnTheWay
<1>3. cIn = 0
  BY <1>1, QuietFacts DEF SetupInv
<1>4. ~Head(xMsgsFromAbccQueue).c
  BY <1>1, <1>3, TakeFacts
<1>5. /\ mq' = mq - 1 /\ usedMsg' = usedMsg - 1 /\ cIn' = cIn /\ rIn' = rIn - 1
      /\ bNbrOfCmdsActiveToAbcc' = bNbrOfCmdsActiveToAbcc - 1
  BY <1>1, <1>4, TakeFacts
<1>6. /\ bNbrOfCmdsActiveToAbcc - 1 = cq + cHeld + cThere + dq + rComes + (rIn - 1)
      /\ bNbrOfCmdsActiveToAbcc - 1 <= ApplCmds /\ usedMsg - 1 = mq - 1
  BY <1>0 DEF Natural, Limits, Balance
<1> QED BY <1>0, <1>1, <1>2, <1>5, <1>6 DEF Balance

LEMMA ResponseBalance ==
  ASSUME TypeOK, CommandsBalanced, AskedInv, KindInv, ResponseToAppl
  PROVE  Balance'
<1>0. Natural /\ Limits /\ Balance
  BY BalanceFacts
<1>1. /\ UNCHANGED <<bNbrOfCmdsActiveFromAbcc, usedRsp, asked, resets, owed, xRspsToAbccQueue,
                     psWriteMsgBuffer, got, out, sMsgRead>>
      /\ TakeMessage /\ ~Head(xMsgsFromAbccQueue).c
  BY DEF ResponseToAppl, Send, APPC_RunStateMachine, toAbcc, link, module, own
<1>2. UNCHANGED <<rq, dq, cHeld, rHeld, cThere, rThere, cComes, rComes>>
  BY <1>1, QueueKept DEF AtModule, OnTheWay
<1>3. /\ mq' = mq - 1 /\ usedMsg' = usedMsg - 1 /\ cIn' = cIn /\ rIn' = rIn - 1
  BY <1>1, TakeFacts
<1>4. Adds(bNbrOfCmdsActiveToAbcc - 1)
  BY AddsFacts
<1>5. CASE /\ cq' = cq + 1 /\ usedCmd' = usedCmd + 1
           /\ bNbrOfCmdsActiveToAbcc' = bNbrOfCmdsActiveToAbcc - 1 + 1
  <2>1. /\ bNbrOfCmdsActiveToAbcc - 1 + 1 = (cq + 1) + cHeld + cThere + dq + rComes + (rIn - 1)
        /\ bNbrOfCmdsActiveToAbcc - 1 + 1 <= ApplCmds /\ usedMsg - 1 = mq - 1
        /\ usedCmd + 1 = (cq + 1) + cHeld
    BY <1>0 DEF Natural, Limits, Balance
  <2> QED BY <1>0, <1>1, <1>2, <1>3, <1>5, <2>1 DEF Balance
<1>6. CASE /\ UNCHANGED <<cq, usedCmd>>
           /\ bNbrOfCmdsActiveToAbcc' = bNbrOfCmdsActiveToAbcc - 1
  <2>1. /\ bNbrOfCmdsActiveToAbcc - 1 = cq + cHeld + cThere + dq + rComes + (rIn - 1)
        /\ bNbrOfCmdsActiveToAbcc - 1 <= ApplCmds /\ usedMsg - 1 = mq - 1
    BY <1>0 DEF Natural, Limits, Balance
  <2> QED BY <1>0, <1>1, <1>2, <1>3, <1>6, <2>1 DEF Balance
<1> QED BY <1>4, <1>5, <1>6, AddsCount

LEMMA CommandBalance ==
  ASSUME TypeOK, CommandsBalanced, AskedInv, KindInv, CommandToAppl
  PROVE  Balance'
<1>0. Natural /\ Limits /\ Balance
  BY BalanceFacts
<1>1. /\ UNCHANGED <<counts, usedCmd, asked, resets, owed, xCmdsToAbccQueue,
                     psWriteMsgBuffer, got, out, sMsgRead>>
      /\ TakeMessage /\ Head(xMsgsFromAbccQueue).c
  BY DEF CommandToAppl, link, module, own
<1>2. UNCHANGED <<cq, dq, cHeld, rHeld, cThere, rThere, cComes, rComes>>
  BY <1>1, QueueKept DEF AtModule, OnTheWay
<1>3. /\ mq' = mq - 1 /\ usedMsg' = usedMsg - 1 /\ cIn' = cIn - 1 /\ rIn' = rIn
      /\ usedRsp < AbccCmds /\ Head(xMsgsFromAbccQueue) \in Message
  BY <1>1, TakeFacts
<1>4. PICK good \in BOOLEAN :
        xRspsToAbccQueue' = Append(xRspsToAbccQueue, Rsp(Head(xMsgsFromAbccQueue), good))
  BY <1>3 DEF CommandToAppl
<1>5. usedRsp' = usedRsp + 1
  BY <1>3 DEF CommandToAppl
<1>6. rq' = rq + 1
  <2>1. Rsp(Head(xMsgsFromAbccQueue), good) \in Responses
    BY <1>3, MakeFacts, KindFacts
  <2> QED BY <1>4, <2>1, AppendFacts DEF rq, KindInv
<1>7. /\ bNbrOfCmdsActiveFromAbcc = (cIn - 1) + (rq + 1) + rHeld + resets
      /\ usedMsg - 1 = mq - 1 /\ usedRsp + 1 = (rq + 1) + rHeld
  BY <1>0 DEF Natural, Limits, Balance
<1> QED BY <1>0, <1>1, <1>2, <1>3, <1>5, <1>6, <1>7 DEF Balance, counts

(* The slot of a reset moves from the command to the number of those lost. *)
LEMMA ResetBalance ==
  ASSUME TypeOK, CommandsBalanced, AskedInv, KindInv, ResetToAppl
  PROVE  Balance'
<1>0. Natural /\ Limits /\ Balance
  BY BalanceFacts
<1>1. /\ UNCHANGED <<bNbrOfCmdsActiveFromAbcc, usedRsp, asked, owed, xRspsToAbccQueue,
                     psWriteMsgBuffer, got, out, sMsgRead>>
      /\ TakeMessage /\ Head(xMsgsFromAbccQueue).c /\ resets' = resets + 1
  BY DEF ResetToAppl, Send, toAbcc, link, own
<1>2. UNCHANGED <<rq, dq, cHeld, rHeld, cThere, rThere, cComes, rComes>>
  BY <1>1, QueueKept DEF AtModule, OnTheWay
<1>3. /\ mq' = mq - 1 /\ usedMsg' = usedMsg - 1 /\ cIn' = cIn - 1 /\ rIn' = rIn
  BY <1>1, TakeFacts
<1>4. Adds(bNbrOfCmdsActiveToAbcc)
  BY AddsFacts
<1>5. /\ bNbrOfCmdsActiveFromAbcc = (cIn - 1) + rq + rHeld + (resets + 1)
      /\ resets + 1 \in Nat /\ usedMsg - 1 = mq - 1
  BY <1>0 DEF Natural, Limits, Balance
<1>6. CASE /\ cq' = cq + 1 /\ usedCmd' = usedCmd + 1
           /\ bNbrOfCmdsActiveToAbcc' = bNbrOfCmdsActiveToAbcc + 1
           /\ bNbrOfCmdsActiveToAbcc < ApplCmds
  <2>1. /\ bNbrOfCmdsActiveToAbcc + 1 = (cq + 1) + cHeld + cThere + dq + rComes + rIn
        /\ bNbrOfCmdsActiveToAbcc + 1 <= ApplCmds /\ usedCmd + 1 = (cq + 1) + cHeld
    BY <1>0, <1>6 DEF Natural, Limits, Balance
  <2> QED BY <1>0, <1>1, <1>2, <1>3, <1>5, <1>6, <2>1 DEF Balance
<1>7. CASE UNCHANGED <<cq, usedCmd, bNbrOfCmdsActiveToAbcc>>
  BY <1>0, <1>1, <1>2, <1>3, <1>5, <1>7 DEF Balance
<1> QED BY <1>4, <1>6, <1>7, AddsCount

LEMMA ModuleBalance ==
  ASSUME TypeOK, CommandsBalanced, AskedInv, SendInv, ReceiveInv, KindInv, Module
  PROVE  Balance'
<1>0. Natural /\ Limits /\ Balance
  BY BalanceFacts
<1>1. /\ UNCHANGED <<counts, usedCmd, usedRsp, usedMsg, resets, xCmdsToAbccQueue, xRspsToAbccQueue,
                     xMsgsFromAbccQueue, psWriteMsgBuffer, sMsgRead, eState>>
      /\ toModule.sent /\ ~fromModule.sent /\ got' = toModule.frag
      /\ toModule.frag = psWriteMsgBuffer
  BY ModuleFacts DEF toAbcc, toAppl, link, SendInv
<1>2. UNCHANGED <<cq, rq, mq, cIn, rIn, cHeld, rHeld>>
  BY <1>1, QueueKept
<1>3. /\ Received = AtModule /\ AtModule' = NULL
  BY <1>1 DEF Received, AtModule
<1>4. /\ cThere' = 0 /\ rThere' = 0
      /\ cThere = One(Received, Commands) /\ rThere = One(Received, Responses)
  BY <1>3, NullFacts DEF cThere, rThere
<1>5. eState = "WAIT_FOR_TELEGRAM" /\ OnTheWay = out /\ sMsgRead = out
  BY <1>1 DEF SendInv, ReceiveInv, OnTheWay
<1>6. AskedNow = asked - rThere
  <2>1. CASE Received = NULL
    <3>1. rThere = 0
      BY <1>4, <2>1, NullFacts
    <3>2. asked - 0 = asked
      BY <1>0 DEF Natural, Balance
    <3> QED BY <2>1, <3>1, <3>2 DEF AskedNow
  <2>2. CASE Received \in Message /\ Received.c
    <3>1. rThere = 0
      BY <1>4, <2>2, NullFacts
    <3>2. asked - 0 = asked
      BY <1>0 DEF Natural, Balance
    <3> QED BY <2>2, <3>1, <3>2 DEF AskedNow
  <2>3. CASE Received \in Message /\ ~Received.c
    BY <1>4, <2>3, NullFacts DEF AskedNow
  <2> QED BY <2>1, <2>2, <2>3, OwedFacts
<1>7. OwedNow \in Seq(Commands) /\ Len(OwedNow) = dq + cThere
  <2>1. owed \in Seq(Commands) /\ dq = Len(owed)
    BY DEF KindInv, dq
  <2>2. CASE Received.c
    BY <1>4, <2>1, <2>2, OwedFacts, AppendFacts, NullFacts, KindFacts
  <2>3. CASE ~Received.c
    <3>1. cThere = 0
      BY <1>4, <2>3, OwedFacts, NullFacts
    <3>2. dq + 0 = dq
      BY <1>0 DEF Natural
    <3> QED BY <2>1, <2>3, <3>1, <3>2, OwedFacts
  <2> QED BY <2>2, <2>3
<1>8. CASE ModuleIdle \/ ModuleCloses
  <2>1. asked' = AskedNow /\ out' = NULL /\ owed' = OwedNow
    BY <1>8 DEF ModuleIdle, ModuleCloses, Answer
  <2>2. dq' = dq + cThere
    BY <1>7, <2>1 DEF dq
  <2>3. UNCHANGED <<cComes, rComes>>
    BY <1>1, <1>5, <2>1, QueueKept DEF OnTheWay
  <2>4. /\ bNbrOfCmdsActiveToAbcc = cq + cHeld + 0 + (dq + cThere) + rComes + rIn
        /\ asked - rThere = cComes + bNbrOfCmdsActiveFromAbcc + 0
        /\ asked - rThere <= AbccCmds
    BY <1>0 DEF Natural, Limits, Balance
  <2> QED BY <1>0, <1>1, <1>2, <1>4, <1>6, <2>1, <2>2, <2>3, <2>4 DEF Balance, counts
<1>9. CASE ModuleResponds
  <2>1. /\ asked' = AskedNow /\ out = NULL /\ OwedNow # <<>> /\ owed' = Tail(OwedNow)
        /\ out' \in Responses
    <3>1. out = NULL /\ OwedNow # <<>> /\ asked' = AskedNow
      BY <1>9 DEF ModuleResponds
    <3>2. PICK good \in {TRUE, ~Fails} : out' = Rsp(Head(OwedNow), good) /\ owed' = Tail(OwedNow)
      BY <1>9 DEF ModuleResponds, Answer
    <3>3. Head(OwedNow) \in Message /\ good \in BOOLEAN
      BY <1>7, <3>1, TailFacts, KindFacts, ConstantFacts
    <3> QED BY <3>1, <3>2, <3>3, MakeFacts, KindFacts
  <2>2. dq' = (dq + cThere) - 1
    BY <1>7, <2>1, TailFacts DEF dq
  <2>3. cComes = 0 /\ rComes = 0 /\ cComes' = 0 /\ rComes' = 1
    BY <1>5, <2>1, NullFacts, KindFacts DEF OnTheWay, cComes, rComes, Responses
  <2>4. /\ bNbrOfCmdsActiveToAbcc = cq + cHeld + 0 + ((dq + cThere) - 1) + 1 + rIn
        /\ asked - rThere = 0 + bNbrOfCmdsActiveFromAbcc + 0
        /\ asked - rThere <= AbccCmds
    BY <1>0, <2>3 DEF Natural, Limits, Balance
  <2> QED BY <1>0, <1>1, <1>2, <1>4, <1>6, <2>1, <2>2, <2>3, <2>4 DEF Balance, counts
<1>10. CASE ModuleCommands
  <2>1. /\ asked' = AskedNow + 1 /\ out = NULL /\ owed' = OwedNow /\ toModule.r
        /\ out' \in Commands
    <3>1. PICK op \in {"GET", "RESET"} \union Remap, len \in Lens :
            out' = [Cmd(op) EXCEPT !.len = len] /\ owed' = OwedNow
      BY <1>10 DEF ModuleCommands, Answer
    <3>2. out' \in Commands
      BY <3>1, MakeFacts, KindFacts
    <3> QED BY <1>10, <3>1, <3>2 DEF ModuleCommands
  <2>2. dq' = dq + cThere
    BY <1>7, <2>1 DEF dq
  <2>3. cComes = 0 /\ rComes = 0 /\ cComes' = 1 /\ rComes' = 0
    BY <1>5, <2>1, NullFacts, KindFacts DEF OnTheWay, cComes, rComes, Commands
  <2>4. bNbrOfCmdsActiveFromAbcc < AbccCmds
    BY <1>1, <2>1 DEF AskedInv
  <2>5. /\ bNbrOfCmdsActiveToAbcc = cq + cHeld + 0 + (dq + cThere) + 0 + rIn
        /\ asked - rThere + 1 = 1 + bNbrOfCmdsActiveFromAbcc + 0
        /\ asked - rThere + 1 <= AbccCmds
    BY <1>0, <2>3, <2>4 DEF Natural, Limits, Balance
  <2> QED BY <1>0, <1>1, <1>2, <1>4, <1>6, <2>1, <2>2, <2>3, <2>5 DEF Balance, counts
<1> QED BY <1>8, <1>9, <1>10 DEF Module

LEMMA BalanceStep ==
  ASSUME TypeOK, LayerInv, [Next]_vars
  PROVE  Balance'
<1> USE DEF LayerInv
<1>0. Natural /\ Limits /\ Balance
  BY BalanceFacts
<1>1. CASE \/ RunSetup \/ RunLink \/ LinkSend \/ LinkWait \/ LinkAccept \/ CfgInit \/ CfgWait
           \/ NoMessage \/ UNCHANGED vars
  <2>1. UNCHANGED <<counts, toAbcc, toAppl, psWriteMsgBuffer, sMsgRead, module>>
    BY <1>1 DEF RunSetup, RunLink, LinkSend, LinkWait, LinkAccept, CfgInit, CfgWait, NoMessage, link, vars
  <2> QED BY <1>0, <2>1, KeptFacts, BalanceKept DEF kept, toAbcc, toAppl, module, own
<1>2. CASE LinkIdle
  BY <1>2, IdleBalance
<1>3. CASE LinkReceive \/ LinkSent
  BY <1>3, ReceiveBalance, SentBalance
<1>4. CASE CfgSend \/ CfgNext \/ CfgResponse
  BY <1>4, CfgBalance, CfgResponseBalance
<1>5. CASE ResponseToAppl \/ CommandToAppl \/ ResetToAppl
  BY <1>5, ResponseBalance, CommandBalance, ResetBalance
<1>6. CASE Module
  BY <1>6, ModuleBalance
<1> QED BY <1>1, <1>2, <1>3, <1>4, <1>5, <1>6 DEF Next, Driver

(* The module sends a command only where there is room for it.             *)
LEMMA RoomStep ==
  ASSUME TypeOK, SendInv, CommandsBalanced, AskedInv, SetupInv, [Next]_vars
  PROVE  toModule'.sent /\ toModule'.r => bNbrOfCmdsActiveFromAbcc' < AbccCmds
<1>1. CASE LinkSend
  BY <1>1 DEF LinkSend, Telegram, APLINK_FreeCmdSlots, counts
<1>2. CASE LinkReceive \/ LinkSent
  <2>1. eState = "PROCESS_RECEIVED_TELEGRAM" /\ UNCHANGED toModule
    BY <1>2 DEF LinkReceive, LinkSent, line, SendInv
  <2> QED BY <2>1 DEF SendInv
<1>3. CASE Module
  BY <1>3, ModuleFacts DEF Nothing
<1>4. CASE UNCHANGED <<toModule, bNbrOfCmdsActiveFromAbcc>>
  BY <1>4 DEF AskedInv
<1>5. CASE \/ RunSetup \/ RunLink \/ LinkIdle \/ LinkWait \/ LinkAccept \/ CfgInit \/ CfgSend \/ CfgWait
           \/ CfgResponse \/ CfgNext \/ NoMessage \/ ResponseToAppl \/ CommandToAppl \/ ResetToAppl \/ UNCHANGED vars
  BY <1>4, <1>5 DEF RunSetup, RunLink, LinkIdle, LinkWait, LinkAccept, CfgInit, CfgSend, CfgWait,
     CfgResponse, CfgNext, NoMessage, ResponseToAppl, CommandToAppl, ResetToAppl, line, vars, counts
<1> QED BY <1>1, <1>2, <1>3, <1>5 DEF Next, Driver

(* Before the set-up is over nothing of the module is counted.             *)
LEMMA QuietStep ==
  ASSUME TypeOK, LayerInv, [Next]_vars, ~isSetUp'
  PROVE  ~isSetUp /\ asked' = 0 /\ ~fCompleteWrPdRemap'
<1> USE DEF LayerInv
<1>1. ~isSetUp
  <2>1. CASE Module
    BY <2>1 DEF Module, ModuleIdle, ModuleCloses, ModuleResponds, ModuleCommands, TypeOK, DataOK, ControlOK
  <2>2. CASE Driver \/ UNCHANGED vars
    <3>1. UNCHANGED own
      BY <2>2, UpperFacts DEF Driver, RunSetup, RunLink, LinkIdle, LinkSend, LinkWait, LinkAccept,
         LinkReceive, LinkSent, vars, module
    <3> QED BY <3>1 DEF own
  <2> QED BY <2>1, <2>2 DEF Next
<1>2. ~fCompleteWrPdRemap /\ asked = 0 /\ rThere = 0 /\ psWriteMsgBuffer \notin Responses
  BY <1>1, QuietFacts
<1>3. CASE Module
  <2>1. Received = AtModule
    BY <1>3, ModuleFacts DEF Received, AtModule, SendInv
  <2>2. Received \notin Responses
    BY <1>2, <2>1 DEF rThere, One
  <2>3. AskedNow = asked
    BY <2>2, OwedFacts, KindFacts DEF AskedNow
  <2>4. asked' = AskedNow
    BY <1>1, <1>3 DEF Module, ModuleIdle, ModuleCloses, ModuleResponds, ModuleCommands
  <2> QED BY <1>1, <1>2, <1>3, <2>3, <2>4, ModuleFacts DEF remap
<1>4. CASE LinkSent
  <2>1. psWriteMsgBuffer # NULL => ~IsRemapAck(psWriteMsgBuffer, "REMAP_WRITE")
    BY <1>2, KindFacts DEF IsRemapAck, TypeOK, DataOK, MessagesOK
  <2> QED BY <1>1, <1>2, <1>4, <2>1 DEF LinkSent, CompleteMsgTrans, module, own
<1>5. CASE LinkAccept
  BY <1>1, <1>2, <1>5 DEF LinkAccept, module, own
<1>6. CASE RunSetup \/ RunLink \/ LinkIdle \/ LinkSend \/ LinkWait \/ LinkReceive \/ UNCHANGED vars
  BY <1>1, <1>2, <1>6 DEF RunSetup, RunLink, LinkIdle, LinkSend, LinkWait, LinkReceive, vars, remap, module, own
<1>7. CASE CfgInit \/ CfgSend \/ CfgWait \/ CfgResponse \/ CfgNext
           \/ NoMessage \/ ResponseToAppl \/ CommandToAppl \/ ResetToAppl
  BY <1>1, <1>2, <1>7, UpperFacts DEF module, own
<1> QED BY <1>3, <1>4, <1>5, <1>6, <1>7 DEF Next, Driver

(* Until APPC has sent it no SETUP_COMPLETE is anywhere.                   *)
LEMMA EarlyStep ==
  ASSUME TypeOK, LayerInv, [Next]_vars, EarlyInv, ~isSetUp, appc_eState' # "DONE"
  PROVE  EarlyInv' /\ ~isSetUp'
<1> USE DEF LayerInv
<1>0. \A m \in Message : m.op # "SETUP_COMPLETE" => m \in Early
  BY DEF Early
<1>1. /\ psWriteMsgBuffer \notin Responses /\ rq = 0 /\ OnTheWay \notin Commands /\ ~ResetToAppl
  BY QuietFacts, NoResetFacts
<1>2. xRspsToAbccQueue = <<>>
  <2>1. Len(xRspsToAbccQueue) = 0 /\ xRspsToAbccQueue \in Seq(Responses)
    BY <1>1 DEF rq, KindInv
  <2> QED BY <2>1
<1>3. CASE \/ RunSetup \/ RunLink \/ LinkSend \/ LinkWait \/ LinkAccept \/ CfgInit \/ CfgWait
           \/ CfgResponse \/ NoMessage \/ CommandToAppl \/ UNCHANGED vars
  <2>1. UNCHANGED <<psWriteMsgBuffer, got, out, sMsgRead, xCmdsToAbccQueue, owed, isSetUp>>
    BY <1>3 DEF RunSetup, RunLink, LinkSend, LinkWait, LinkAccept, CfgInit, CfgWait, CfgResponse,
       NoMessage, CommandToAppl, vars, toAbcc, link, module, own
  <2> QED BY <2>1 DEF EarlyInv
<1>4. CASE LinkIdle
  <2>1. UNCHANGED <<got, out, sMsgRead, owed, isSetUp>>
    BY <1>4 DEF LinkIdle, module, own
  <2>2. CASE UNCHANGED <<psWriteMsgBuffer, xCmdsToAbccQueue>>
    BY <2>1, <2>2 DEF EarlyInv
  <2>3. CASE /\ Turn("cmd") /\ psWriteMsgBuffer' = Head(xCmdsToAbccQueue)
             /\ xCmdsToAbccQueue' = Tail(xCmdsToAbccQueue)
    <3>1. xCmdsToAbccQueue # <<>> /\ xCmdsToAbccQueue \in Seq(Early)
      BY <2>3 DEF Turn, EarlyInv
    <3>2. psWriteMsgBuffer' \in Early /\ xCmdsToAbccQueue' \in Seq(Early)
      BY <2>3, <3>1, TailFacts
    <3> QED BY <2>1, <3>2 DEF EarlyInv
  <2>4. ~Turn("rsp")
    BY <1>2 DEF Turn
  <2> QED BY <1>4, <2>2, <2>3, <2>4 DEF LinkIdle
<1>5. CASE LinkReceive
  <2>1. UNCHANGED <<psWriteMsgBuffer, got, out, xCmdsToAbccQueue, owed, isSetUp>>
    BY <1>5 DEF LinkReceive, toAbcc, module, own
  <2>2. ~fromModule.sent /\ out = answer.frag
    BY <1>5 DEF LinkReceive, SendInv, ReceiveInv
  <2>3. sMsgRead' \in {NULL, out, sMsgRead}
    BY <1>5, <2>2 DEF LinkReceive
  <2> QED BY <2>1, <2>3 DEF EarlyInv
<1>6. CASE LinkSent
  <2>1. UNCHANGED <<got, out, sMsgRead, xCmdsToAbccQueue, owed, isSetUp>>
        /\ psWriteMsgBuffer' \in {NULL, psWriteMsgBuffer}
    BY <1>6 DEF LinkSent, module, own
  <2> QED BY <2>1 DEF EarlyInv
<1>7. ASSUME NEW n \in 0 .. ApplCmds, APPC_RunStateMachine(n) PROVE xCmdsToAbccQueue' \in Seq(Early)
  <2>1. xCmdsToAbccQueue \in Seq(Early)
    BY DEF EarlyInv
  <2>2. CASE UNCHANGED xCmdsToAbccQueue
    BY <2>1, <2>2
  <2>3. CASE /\ appc_eState \in Appc /\ appc_eState' = NextAppc[appc_eState]
             /\ xCmdsToAbccQueue' = Append(xCmdsToAbccQueue, Cmd(appc_eState))
    <3>1. appc_eState # "SETUP_COMPLETE"
      BY <2>3 DEF NextAppc, Appc
    <3>2. Cmd(appc_eState) \in Early
      BY <1>0, <2>3, <3>1, MakeFacts
    <3> QED BY <2>1, <2>3, <3>2, AppendFacts
  <2> QED BY <1>7, <2>2, <2>3, AppcFacts DEF TypeOK
<1>8. CASE CfgSend \/ CfgNext \/ ResponseToAppl
  <2>1. UNCHANGED <<psWriteMsgBuffer, got, out, sMsgRead, owed, isSetUp>>
    BY <1>8 DEF CfgSend, CfgNext, ResponseToAppl, link, module, own
  <2>2. CASE CfgSend
    <3>1. eDriverState' = "IN_CONFIGURATION"
      BY <2>2 DEF CfgSend, Configures
    <3>2. Adds(bNbrOfCmdsActiveToAbcc) /\ xCmdsToAbccQueue \in Seq(Early)
      BY <2>2, AddsFacts DEF EarlyInv
    <3>3. \A m \in Commands : m.op \in Query \union Map => m \in Early
      BY <1>0, KindFacts DEF Query, Map
    <3>4. xCmdsToAbccQueue' \in Seq(Early)
      BY <2>2, <3>1, <3>2, <3>3, AppendFacts DEF Adds, CfgSend, Configures
    <3> QED BY <2>1, <3>4 DEF EarlyInv
  <2>3. CASE CfgNext
    <3>1. CASE UNCHANGED toAbcc
      BY <2>1, <3>1 DEF toAbcc, EarlyInv
    <3>2. CASE APPC_RunStateMachine(bNbrOfCmdsActiveToAbcc)
      BY <1>7, <2>1, <3>2 DEF EarlyInv, TypeOK, WithinLimits
    <3> QED BY <2>3, <3>1, <3>2 DEF CfgNext
  <2>4. CASE ResponseToAppl
    <3>1. Decrement(bNbrOfCmdsActiveToAbcc) \in 0 .. ApplCmds
      BY <2>4, TakeFacts, ConstantFacts DEF ResponseToAppl, TypeOK, WithinLimits
    <3>2. xCmdsToAbccQueue' \in Seq(Early)
      BY <1>7, <2>4, <3>1 DEF ResponseToAppl
    <3> QED BY <2>1, <3>2 DEF EarlyInv
  <2> QED BY <1>8, <2>2, <2>3, <2>4
<1>9. CASE Module
  <2>1. UNCHANGED <<psWriteMsgBuffer, sMsgRead, xCmdsToAbccQueue>>
    BY <1>9, ModuleFacts DEF link, toAbcc
  <2>2. got' = psWriteMsgBuffer /\ Received \in Early \union {NULL}
    BY <1>9, ModuleFacts DEF SendInv, EarlyInv, Received
  <2>3. OwedNow \in Seq(Early)
    <3>1. owed \in Seq(Early)
      BY DEF EarlyInv
    <3>2. CASE Received.c
      BY <2>2, <3>1, <3>2, OwedFacts, NullFacts, AppendFacts
    <3>3. CASE ~Received.c
      BY <3>1, <3>3, OwedFacts
    <3> QED BY <3>2, <3>3
  <2>4. owed' \in Seq(Early) /\ out' \in Early \union {NULL}
    <3>1. CASE owed' = OwedNow /\ out' = NULL
      BY <2>3, <3>1
    <3>2. CASE /\ OwedNow # <<>> /\ owed' = Tail(OwedNow)
               /\ out' \in Responses /\ out'.op = Head(OwedNow).op
      <4>1. Head(OwedNow) \in Early /\ Tail(OwedNow) \in Seq(Early)
        BY <2>3, <3>2, TailFacts
      <4> QED BY <1>0, <3>2, <4>1, KindFacts DEF Early
    <3> QED BY <1>9, <3>1, <3>2, ModuleQueue
  <2>5. ~IsSetupAck(out)
    BY DEF EarlyInv, Early, IsSetupAck, NULL
  <2>6. ~isSetUp'
    BY <1>9, <2>5 DEF Module, ModuleIdle, ModuleCloses, ModuleResponds, ModuleCommands
  <2> QED BY <2>1, <2>2, <2>4, <2>6 DEF EarlyInv
<1> QED BY <1>1, <1>3, <1>4, <1>5, <1>6, <1>7, <1>8, <1>9 DEF Next, Driver

(* APPC starts when the configuration is over, and stops for good.         *)
LEMMA ClientStep ==
  ASSUME TypeOK, CommandsBalanced, AskedInv, [Next]_vars
  PROVE  /\ eDriverState' \in {"SETUP", "IN_CONFIGURATION"} => UNCHANGED appc_eState
         /\ appc_eState = "DONE" => appc_eState' = "DONE"
<1>1. CASE CfgNext
  <2>1. CASE UNCHANGED appc_eState
    BY <2>1
  <2>2. CASE APPC_RunStateMachine(bNbrOfCmdsActiveToAbcc) /\ eDriverState' = "IN_RUN_NO_PD"
    <3>1. appc_eState = "DONE" => appc_eState' = "DONE"
      BY <2>2 DEF APPC_RunStateMachine
    <3> QED BY <2>2, <3>1
  <2> QED BY <1>1, <2>1, <2>2 DEF CfgNext
<1>2. CASE ResponseToAppl
  BY <1>2 DEF ResponseToAppl, APPC_RunStateMachine, Serves, driver
<1>3. CASE \/ RunSetup \/ RunLink \/ LinkIdle \/ LinkSend \/ LinkWait \/ LinkAccept \/ LinkReceive
           \/ LinkSent \/ CfgInit \/ CfgSend \/ CfgWait \/ CfgResponse \/ NoMessage \/ CommandToAppl
           \/ ResetToAppl \/ Module \/ UNCHANGED vars
  <2>1. UNCHANGED appc_eState
    BY <1>3, ModuleFacts DEF RunSetup, RunLink, LinkIdle, LinkSend, LinkWait, LinkAccept, LinkReceive,
       LinkSent, CfgInit, CfgSend, CfgWait, CfgResponse, NoMessage, CommandToAppl, ResetToAppl,
       vars
  <2> QED BY <2>1
<1> QED BY <1>1, <1>2, <1>3 DEF Next, Driver

(* And the counter tells whether it waits for a response.                  *)
LEMMA WaitStep ==
  ASSUME TypeOK, LayerInv, [Next]_vars,
         eDriverState \in {"SETUP", "IN_CONFIGURATION"},
         eDriverState' \in {"SETUP", "IN_CONFIGURATION"},
         eDriverState = "SETUP" => eCfgState = <<"INIT">>,
         bNbrOfCmdsActiveToAbcc = Count(eCfgState[1] = "WAIT")
  PROVE  /\ eDriverState' = "SETUP" => eCfgState' = <<"INIT">>
         /\ bNbrOfCmdsActiveToAbcc' = Count(eCfgState'[1] = "WAIT")
<1> USE DEF LayerInv
<1>0. Natural /\ Limits /\ Balance
  BY BalanceFacts
<1>1. CASE UNCHANGED <<eDriverState, eCfgState, bNbrOfCmdsActiveToAbcc>>
  BY <1>1 DEF Count
<1>2. CASE RunSetup
  BY <1>2 DEF RunSetup, counts, Count
<1>3. CASE LinkReceive
  <2>1. eDriverState' = eDriverState \/ eDriverState' = "IN_RUN"
    BY <1>3 DEF LinkReceive, MessageReceived
  <2> QED BY <1>1, <1>3, <2>1 DEF LinkReceive
<1>4. CASE \/ RunLink \/ LinkIdle \/ LinkSend \/ LinkWait \/ LinkAccept \/ LinkSent \/ CfgWait
           \/ NoMessage \/ CommandToAppl \/ UNCHANGED vars
  BY <1>1, <1>4 DEF RunLink, LinkIdle, LinkSend, LinkWait, LinkAccept, LinkSent, CfgWait, NoMessage,
     CommandToAppl, driver, counts, vars
<1>5. CASE CfgInit
  <2>1. /\ eCfgState = <<"INIT">> /\ eCfgState' = <<"SEND", "MODULE_TYPE">>
        /\ UNCHANGED <<eDriverState, bNbrOfCmdsActiveToAbcc>> /\ eDriverState = "IN_CONFIGURATION"
    BY <1>5 DEF CfgInit, counts, Configures
  <2> QED BY <2>1 DEF Count
<1>6. CASE CfgSend
  <2>1. /\ eCfgState[1] = "SEND" /\ eCfgState' = <<"WAIT", eCfgState[2]>> /\ usedCmd < ApplCmds
        /\ UNCHANGED eDriverState /\ eDriverState = "IN_CONFIGURATION"
    BY <1>6 DEF CfgSend, Configures
  <2>2. bNbrOfCmdsActiveToAbcc = 0
    BY <2>1 DEF Count
  <2>3. cq = 0
    BY <1>0, <2>2 DEF Natural, Balance
  <2>4. CanSend(bNbrOfCmdsActiveToAbcc)
    BY <1>0, <2>1, <2>2, <2>3 DEF CanSend, Limits, cq
  <2>5. bNbrOfCmdsActiveToAbcc' = 1
    BY <1>6, <2>2, <2>4 DEF CfgSend, Send, Increment
  <2> QED BY <2>1, <2>5 DEF Count
<1>7. CASE CfgResponse
  <2>1. eCfgState[1] = "WAIT" /\ TakeMessage /\ eDriverState = "IN_CONFIGURATION"
        /\ bNbrOfCmdsActiveToAbcc' = Decrement(bNbrOfCmdsActiveToAbcc)
    BY <1>7 DEF CfgResponse, Configures
  <2>2. bNbrOfCmdsActiveToAbcc' = 0
    BY <2>1 DEF Count, Decrement
  <2>3. eCfgState'[1] # "WAIT" /\ eDriverState' = "IN_CONFIGURATION"
    BY <1>7, <2>1, ResponseFacts
  <2> QED BY <2>2, <2>3 DEF Count
<1>8. CASE CfgNext
  <2>1. /\ eCfgState[1] = "NEXT" /\ eDriverState = "IN_CONFIGURATION"
        /\ eDriverState' = "IN_CONFIGURATION"
        /\ eCfgState'[1] = "SEND" /\ UNCHANGED bNbrOfCmdsActiveToAbcc
    BY <1>8 DEF CfgNext, Configures
  <2> QED BY <2>1 DEF Count
<1>9. CASE ResponseToAppl \/ ResetToAppl
  BY <1>9 DEF ResponseToAppl, ResetToAppl, Serves, driver
<1>10. CASE Module
  BY <1>1, <1>10, ModuleFacts DEF driver, counts
<1> QED BY <1>2, <1>3, <1>4, <1>5, <1>6, <1>7, <1>8, <1>9, <1>10 DEF Next, Driver

-----------------------------------------------------------------------------
(***************************************************************************)
(* The inductive invariant.                                                *)
(***************************************************************************)
IInv == TypeOK /\ LayerInv

LEMMA InitIInv == Init => IInv
<1> SUFFICES ASSUME Init PROVE IInv
  OBVIOUS
<1> USE DEF Init
<1>1. NULL.c = FALSE /\ NULL.ok = FALSE /\ NULL.len = 0 /\ Nothing.sent = FALSE /\ Nothing.frag = NULL
  BY DEF NULL, Nothing
<1>2. ControlOK
  BY DEF ControlOK, Appc
<1>3. QueuesOK
  BY DEF QueuesOK
<1>4. Nothing \in Line
  BY DEF Nothing, Line
<1>5. MessagesOK
  BY <1>4 DEF MessagesOK
<1>6. LengthsOK
  BY DEF LengthsOK, Length, Map
<1>7. SendInv
  BY <1>1 DEF SendInv
<1>8. ReceiveInv
  BY <1>1 DEF ReceiveInv
<1>9. KindInv
  BY DEF KindInv
<1>10. DataOK
  BY <1>2, <1>3, <1>5, <1>6 DEF DataOK
<1>11. /\ cq = 0 /\ rq = 0 /\ mq = 0 /\ dq = 0 /\ cIn = 0 /\ rIn = 0 /\ cHeld = 0 /\ rHeld = 0
       /\ cThere = 0 /\ rThere = 0 /\ cComes = 0 /\ rComes = 0
  <2>1. AtModule = NULL /\ OnTheWay = NULL
    BY DEF AtModule, OnTheWay
  <2>2. CountIn(<<>>, Commands) = 0 /\ CountIn(<<>>, Responses) = 0
    <3>1. <<>> \in Seq(Message)
      OBVIOUS
    <3> QED BY <3>1, CountType
  <2> QED BY <2>1, <2>2, NullFacts DEF cq, rq, mq, dq, cIn, rIn, cHeld, rHeld, cThere, rThere, cComes, rComes
<1>12. Balance
  BY <1>11, ConstantFacts DEF Balance
<1>13. WithinLimits /\ CommandsBalanced
  BY <1>10, <1>12, BalanceSuffices
<1>14. AskedInv
  BY <1>1, <1>12 DEF AskedInv, Balance, cComes, rThere
<1>15. SetupInv
  BY DEF SetupInv, EarlyInv, Count
<1>16. OfferInv
  BY DEF OfferInv
<1> QED BY <1>7, <1>8, <1>9, <1>10, <1>13, <1>14, <1>15, <1>16 DEF IInv, TypeOK, LayerInv

LEMMA SetupStep ==
  ASSUME IInv, [Next]_vars
  PROVE  SetupInv'
<1> USE DEF IInv, LayerInv
<1>1. ~isSetUp' => asked' = 0 /\ ~fCompleteWrPdRemap'
  BY QuietStep
<1>2. ASSUME eDriverState' \in {"SETUP", "IN_CONFIGURATION"}
      PROVE  /\ eDriverState \in {"SETUP", "IN_CONFIGURATION"}
             /\ appc_eState = "NW_TYPE_STR" /\ ~isSetUp /\ EarlyInv
             /\ bNbrOfCmdsActiveToAbcc = Count(eCfgState[1] = "WAIT")
             /\ eDriverState = "SETUP" => eCfgState = <<"INIT">>
  <2>1. eDriverState \in {"SETUP", "IN_CONFIGURATION"}
    <3>1. CASE Module
      BY <1>2, <3>1, ModuleFacts DEF driver
    <3>2. CASE LinkReceive
      BY <1>2, <3>2 DEF LinkReceive, MessageReceived
    <3>3. CASE \/ RunSetup \/ RunLink \/ LinkIdle \/ LinkSend \/ LinkWait \/ LinkAccept \/ LinkSent
               \/ NoMessage \/ ResponseToAppl \/ CommandToAppl \/ ResetToAppl \/ UNCHANGED vars
      BY <1>2, <3>3 DEF RunSetup, RunLink, LinkIdle, LinkSend, LinkWait, LinkAccept, LinkSent,
         NoMessage, ResponseToAppl, CommandToAppl, ResetToAppl, vars, driver
    <3>4. CASE CfgInit \/ CfgSend \/ CfgWait \/ CfgResponse \/ CfgNext
      BY <3>4 DEF CfgInit, CfgSend, CfgWait, CfgResponse, CfgNext, Configures
    <3> QED BY <3>1, <3>2, <3>3, <3>4 DEF Next, Driver
  <2> QED BY <2>1 DEF SetupInv
<1>3. ASSUME eDriverState' \in {"SETUP", "IN_CONFIGURATION"}
      PROVE  /\ appc_eState' = "NW_TYPE_STR" /\ ~isSetUp' /\ EarlyInv'
             /\ bNbrOfCmdsActiveToAbcc' = Count(eCfgState'[1] = "WAIT")
             /\ eDriverState' = "SETUP" => eCfgState' = <<"INIT">>
  <2>1. appc_eState' = "NW_TYPE_STR"
    BY <1>2, <1>3, ClientStep
  <2> QED BY <1>2, <1>3, <2>1, EarlyStep, WaitStep
<1> QED BY <1>1, <1>3 DEF SetupInv, Count

LEMMA NextIInv == IInv /\ [Next]_vars => IInv'
<1> SUFFICES ASSUME IInv, [Next]_vars PROVE IInv'
  OBVIOUS
<1> USE DEF IInv, LayerInv
<1>1. SendInv' /\ ReceiveInv'
  BY SendStep, ReceiveStep
<1>2. KindInv' /\ QueuesOK' /\ MessagesOK' /\ ControlOK' /\ LengthsOK'
  BY QueueStep, MessageStep, ControlStep, LengthStep
<1>3. DataOK'
  BY <1>2 DEF DataOK
<1>4. Balance'
  BY BalanceStep
<1>5. WithinLimits' /\ CommandsBalanced'
  BY <1>3, <1>4, BalanceSuffices, PTL
<1>6. AskedInv'
  BY <1>4, RoomStep DEF AskedInv, Balance, cComes, rThere
<1>7. SetupInv' /\ OfferInv'
  BY SetupStep, OfferStep
<1> QED BY <1>1, <1>2, <1>3, <1>5, <1>6, <1>7 DEF TypeOK

(* Types: in particular the counters, the queues and the pools of buffers   *)
(* stay within the limits the build sets, whatever the limits are.          *)
THEOREM TypeCorrect == Spec => []TypeOK
<1>1. IInv => TypeOK
  BY DEF IInv
<1> QED BY <1>1, InitIInv, NextIInv, PTL DEF Spec

(* No slot for a command of the driver and no buffer is lost or given back  *)
(* twice: each counter counts the commands without response wherever they   *)
(* are, each pool the messages queued from it.  Of the slots for commands   *)
(* of the module exactly those of the resets taken are lost.                *)
THEOREM Balanced == Spec => []CommandsBalanced
<1>1. IInv => CommandsBalanced
  BY DEF IInv, LayerInv
<1> QED BY <1>1, InitIInv, NextIInv, PTL DEF Spec

(* The pools never run out: the configuration always gets the buffer it     *)
(* writes through, a message received always finds one, and there is always *)
(* one for the response to a command.                                       *)
THEOREM PoolsAreEnough == Spec => []PoolsSuffice
<1>1. IInv => PoolsSuffice
  <2> SUFFICES ASSUME IInv PROVE PoolsSuffice
    OBVIOUS
  <2> USE DEF IInv, LayerInv
  <2>0. Natural /\ Limits /\ Balance
    BY BalanceFacts
  <2>1. (eDriverState = "IN_CONFIGURATION" /\ eCfgState[1] = "SEND") => usedCmd < ApplCmds
    <3>1. SUFFICES ASSUME eDriverState = "IN_CONFIGURATION", eCfgState[1] = "SEND"
                   PROVE  usedCmd < ApplCmds
      OBVIOUS
    <3>2. bNbrOfCmdsActiveToAbcc = 0
      BY <3>1 DEF SetupInv, Count
    <3> QED BY <2>0, <3>2 DEF Natural, Limits, Balance
  <2>2. (eState = "PROCESS_RECEIVED_TELEGRAM" /\ phase = "link" /\ Closes)
          => usedMsg < AbccCmds + ApplCmds
    BY CloseFacts
  <2>3. (xMsgsFromAbccQueue # <<>> /\ Head(xMsgsFromAbccQueue) \in Commands) => usedRsp < AbccCmds
    <3>1. SUFFICES ASSUME xMsgsFromAbccQueue # <<>>, Head(xMsgsFromAbccQueue) \in Commands
                   PROVE  usedRsp < AbccCmds
      OBVIOUS
    <3>2. xMsgsFromAbccQueue \in Seq(Message)
      BY DEF TypeOK, DataOK, QueuesOK
    <3> DEFINE t == CountIn(Tail(xMsgsFromAbccQueue), Commands)
    <3>3. t \in Nat /\ cIn = t + 1
      BY <3>1, <3>2, CountTail, CountType, TailFacts DEF cIn, One
    <3> HIDE DEF t
    <3> QED BY <2>0, <3>3 DEF Natural, Limits, Balance
  <2> QED BY <2>1, <2>2, <2>3 DEF PoolsSuffice
<1> QED BY <1>1, InitIInv, NextIInv, PTL DEF Spec

-----------------------------------------------------------------------------
(***************************************************************************)
(* The flags of a remap, with one command of the module at a time as the   *)
(* build has it (sys_adpt.h:294).                                          *)
(***************************************************************************)

(* Responses that are pending are among the commands counted.              *)
LEMMA PendingNone ==
  ASSUME IInv, rq = 0, rHeld = 0, NEW op \in Remap
  PROVE  ~Pending(op)
<1>1. xRspsToAbccQueue = <<>>
  <2>1. Len(xRspsToAbccQueue) = 0 /\ xRspsToAbccQueue \in Seq(Responses)
    BY DEF rq, IInv, LayerInv, KindInv
  <2> QED BY <2>1
<1>2. psWriteMsgBuffer \notin Responses /\ psWriteMsgBuffer \in Message \union {NULL}
  BY DEF rHeld, One, IInv, TypeOK, DataOK, MessagesOK
<1>3. ~IsRemapAck(psWriteMsgBuffer, op)
  BY <1>2, KindFacts DEF IsRemapAck, NULL, Remap
<1> QED BY <1>1, <1>3 DEF Pending

(* A response more, and one moved to the data link.                        *)
LEMMA PendingMoves ==
  ASSUME NEW q \in Seq(Message), NEW op
  PROVE  /\ \A m \in Message :
              (\E i \in DOMAIN Append(q, m) : IsRemapAck(Append(q, m)[i], op))
                <=> (\E i \in DOMAIN q : IsRemapAck(q[i], op)) \/ IsRemapAck(m, op)
         /\ q # <<>> => ((\E i \in DOMAIN q : IsRemapAck(q[i], op))
                          <=> IsRemapAck(Head(q), op)
                                \/ \E i \in DOMAIN Tail(q) : IsRemapAck(Tail(q)[i], op))
<1>1. ASSUME NEW m \in Message
      PROVE  (\E i \in DOMAIN Append(q, m) : IsRemapAck(Append(q, m)[i], op))
                <=> (\E i \in DOMAIN q : IsRemapAck(q[i], op)) \/ IsRemapAck(m, op)
  <2>1. /\ DOMAIN q = 1 .. Len(q) /\ DOMAIN Append(q, m) = 1 .. Len(q) + 1
        /\ \A i \in 1 .. Len(q) : Append(q, m)[i] = q[i]
        /\ Append(q, m)[Len(q) + 1] = m /\ Len(q) \in Nat
    BY AppendFacts
  <2>2. \A i \in 1 .. Len(q) + 1 : i \in 1 .. Len(q) \/ i = Len(q) + 1
    BY <2>1
  <2>3. Len(q) + 1 \in 1 .. Len(q) + 1 /\ \A i \in 1 .. Len(q) : i \in 1 .. Len(q) + 1
    BY <2>1
  <2> QED BY <2>1, <2>2, <2>3
<1>2. ASSUME q # <<>>
      PROVE  (\E i \in DOMAIN q : IsRemapAck(q[i], op))
               <=> IsRemapAck(Head(q), op)
                     \/ \E i \in DOMAIN Tail(q) : IsRemapAck(Tail(q)[i], op)
  <2>1. /\ DOMAIN q = 1 .. Len(q) /\ DOMAIN Tail(q) = 1 .. Len(q) - 1
        /\ \A i \in 1 .. Len(q) - 1 : Tail(q)[i] = q[i + 1]
        /\ Head(q) = q[1] /\ Len(q) \in Nat /\ Len(q) > 0
    BY <1>2, TailFacts
  <2>2. \A i \in 1 .. Len(q) : i = 1 \/ (i - 1 \in 1 .. Len(q) - 1 /\ Tail(q)[i - 1] = q[i])
    BY <2>1
  <2>3. 1 \in 1 .. Len(q) /\ \A i \in 1 .. Len(q) - 1 : i + 1 \in 1 .. Len(q)
    BY <2>1
  <2> QED BY <2>1, <2>2, <2>3
<1> QED BY <1>1, <1>2

LEMMA SwitchStep ==
  ASSUME AbccCmds = 1, IInv, SwitchInv, [Next]_vars
  PROVE  SwitchInv'
<1> USE DEF IInv, LayerInv
<1>0. Natural /\ Limits /\ Balance
  BY BalanceFacts
<1>1. CASE LinkSent
  <2>1. eState = "PROCESS_RECEIVED_TELEGRAM"
    BY <1>1 DEF LinkSent, SendInv
  <2>2. ~fCompleteWrPdRemap
    BY <2>1 DEF SwitchInv
  <2>3. CASE psWriteMsgBuffer # NULL /\ IsRemapAck(psWriteMsgBuffer, "REMAP_WRITE")
    <3>1. ~psWriteMsgBuffer.c /\ psWriteMsgBuffer \in Responses
      BY <2>3, KindFacts DEF IsRemapAck, TypeOK, DataOK, MessagesOK
    <3>2. rHeld = 1
      BY <3>1 DEF rHeld, One
    <3>3. bNbrOfCmdsActiveFromAbcc = 1
      BY <1>0, <3>2 DEF Natural, Balance
    <3> QED BY <1>1, <2>3, <3>1, <3>3 DEF LinkSent, CompleteMsgTrans, SwitchInv
  <2>4. CASE psWriteMsgBuffer # NULL /\ ~IsRemapAck(psWriteMsgBuffer, "REMAP_WRITE")
    BY <1>1, <2>2, <2>4 DEF LinkSent, CompleteMsgTrans, SwitchInv
  <2>5. CASE psWriteMsgBuffer = NULL
    BY <1>1, <2>2, <2>5 DEF LinkSent, SwitchInv
  <2> QED BY <2>3, <2>4, <2>5
<1>2. CASE LinkSend \/ LinkIdle \/ LinkReceive
  BY <1>2 DEF LinkSend, LinkIdle, LinkReceive, SwitchInv, remap, counts
<1>3. CASE LinkAccept
  BY <1>3 DEF LinkAccept, SwitchInv
<1>4. CASE UNCHANGED <<fCompleteWrPdRemap, bNbrOfCmdsActiveFromAbcc, eState>>
  BY <1>4 DEF SwitchInv
<1>5. CASE RunSetup \/ RunLink \/ LinkWait \/ UNCHANGED vars
  BY <1>4, <1>5 DEF RunSetup, RunLink, LinkWait, remap, counts, link, vars
<1>6. CASE CfgInit \/ CfgSend \/ CfgWait \/ CfgResponse \/ CfgNext
           \/ NoMessage \/ ResponseToAppl \/ CommandToAppl \/ ResetToAppl
  <2>1. UNCHANGED bNbrOfCmdsActiveFromAbcc
    BY <1>6 DEF CfgInit, CfgSend, CfgWait, CfgResponse, CfgNext, NoMessage, ResponseToAppl,
       CommandToAppl, ResetToAppl, counts
  <2> QED BY <1>4, <1>6, <2>1, UpperFacts DEF link
<1>7. CASE Module
  BY <1>4, <1>7, ModuleFacts DEF remap, counts, link
<1> QED BY <1>1, <1>2, <1>3, <1>5, <1>6, <1>7 DEF Next, Driver

LEMMA GuardStep ==
  ASSUME AbccCmds = 1, IInv, SwitchInv, RemapGuarded, [Next]_vars
  PROVE  RemapGuarded'
<1> USE DEF IInv, LayerInv
<1>0. Natural /\ Limits /\ Balance
  BY BalanceFacts
<1>a. /\ xRspsToAbccQueue \in Seq(Message) /\ psWriteMsgBuffer \in Message \union {NULL}
      /\ "REMAP_READ" \in Remap /\ "REMAP_WRITE" \in Remap
  BY DEF TypeOK, DataOK, QueuesOK, MessagesOK, Remap
<1>1. CASE UNCHANGED <<remap, xRspsToAbccQueue, psWriteMsgBuffer>>
  BY <1>1 DEF remap, RemapGuarded, Pending
<1>2. CASE LinkIdle
  <2>1. UNCHANGED remap /\ psWriteMsgBuffer = NULL
    BY <1>2 DEF LinkIdle, SendInv
  <2>2. ASSUME NEW op \in Remap PROVE Pending(op)' <=> Pending(op)
    <3>0. ~IsRemapAck(NULL, op)
      BY DEF IsRemapAck, NULL, Remap
    <3>1. CASE Turn("cmd") /\ psWriteMsgBuffer' = Head(xCmdsToAbccQueue) /\ UNCHANGED xRspsToAbccQueue
      <4>1. Head(xCmdsToAbccQueue).c
        BY <3>1, TailFacts DEF Turn, KindInv, Commands
      <4> QED BY <2>1, <3>0, <3>1, <4>1 DEF Pending, IsRemapAck
    <3>2. CASE Turn("rsp") /\ psWriteMsgBuffer' = Head(xRspsToAbccQueue)
               /\ xRspsToAbccQueue' = Tail(xRspsToAbccQueue)
      BY <1>a, <2>1, <3>0, <3>2, PendingMoves DEF Pending, Turn
    <3>3. CASE UNCHANGED <<psWriteMsgBuffer, xRspsToAbccQueue>>
      BY <3>3 DEF Pending
    <3> QED BY <1>2, <3>1, <3>2, <3>3 DEF LinkIdle
  <2> QED BY <1>a, <2>1, <2>2 DEF RemapGuarded, remap
<1>3. CASE LinkAccept
  <2>1. UNCHANGED <<xRspsToAbccQueue, psWriteMsgBuffer, fRemappingReadPd>>
    BY <1>3 DEF LinkAccept, toAbcc
  <2>2. CASE fCompleteWrPdRemap
    <3>1. bNbrOfCmdsActiveFromAbcc = 0
      BY <2>2 DEF SwitchInv
    <3>2. rq = 0 /\ rHeld = 0
      BY <1>0, <3>1 DEF Natural, Balance
    <3>3. ~Pending("REMAP_WRITE")
      BY <1>a, <3>2, PendingNone
    <3>4. ~fRemappingWritePd' /\ ~fCompleteWrPdRemap'
      BY <1>3, <2>2 DEF LinkAccept
    <3> QED BY <2>1, <3>3, <3>4 DEF RemapGuarded, Pending
  <2>3. CASE ~fCompleteWrPdRemap
    BY <1>1, <1>3, <2>1, <2>3 DEF LinkAccept, remap
  <2> QED BY <2>2, <2>3
<1>4. CASE LinkSent
  <2>1. UNCHANGED <<xRspsToAbccQueue, fRemappingWritePd>>
    BY <1>4 DEF LinkSent
  <2>2. CASE psWriteMsgBuffer = NULL
    BY <1>1, <1>4, <2>1, <2>2 DEF LinkSent, remap
  <2>3. CASE psWriteMsgBuffer # NULL
    <3>1. CompleteMsgTrans(psWriteMsgBuffer) /\ psWriteMsgBuffer' = NULL
      BY <1>4, <2>3 DEF LinkSent
    <3>2. ~fCompleteWrPdRemap
      BY <1>4 DEF LinkSent, SendInv, SwitchInv
    <3>3. \A op \in Remap : ~IsRemapAck(NULL, op)
      BY DEF IsRemapAck, NULL, Remap
    <3>4. CASE psWriteMsgBuffer.c
      <4>1. \A op : ~IsRemapAck(psWriteMsgBuffer, op)
        BY <3>4 DEF IsRemapAck
      <4>2. UNCHANGED <<fCompleteWrPdRemap, fRemappingReadPd>>
        BY <3>1, <4>1 DEF CompleteMsgTrans
      <4> QED BY <1>a, <2>1, <3>1, <3>3, <4>1, <4>2 DEF RemapGuarded, Pending
    <3>5. CASE ~psWriteMsgBuffer.c
      <4>1. rHeld = 1
        BY <1>a, <2>3, <3>5, NullFacts DEF rHeld
      <4>2. rq = 0
        BY <1>0, <4>1 DEF Natural, Limits, Balance
      <4>3. xRspsToAbccQueue = <<>>
        BY <1>a, <4>2 DEF rq
      <4>4. /\ fRemappingReadPd <=> IsRemapAck(psWriteMsgBuffer, "REMAP_READ")
            /\ fRemappingWritePd <=> IsRemapAck(psWriteMsgBuffer, "REMAP_WRITE")
        BY <3>2, <4>3 DEF RemapGuarded, Pending
      <4>5. /\ ~fRemappingReadPd'
            /\ fCompleteWrPdRemap' <=> IsRemapAck(psWriteMsgBuffer, "REMAP_WRITE")
        BY <3>1, <3>2, <4>4 DEF CompleteMsgTrans, IsRemapAck, TypeOK, DataOK, ControlOK
      <4>6. ~Pending("REMAP_READ")' /\ ~Pending("REMAP_WRITE")'
        BY <1>a, <2>1, <3>1, <3>3, <4>3 DEF Pending
      <4> QED BY <2>1, <4>4, <4>5, <4>6 DEF RemapGuarded
    <3> QED BY <3>4, <3>5
  <2> QED BY <2>2, <2>3
<1>5. CASE CommandToAppl
  <2>1. UNCHANGED <<psWriteMsgBuffer, fCompleteWrPdRemap>> /\ TakeMessage /\ Head(xMsgsFromAbccQueue).c
    BY <1>5 DEF CommandToAppl, link
  <2>2. usedRsp < AbccCmds /\ Head(xMsgsFromAbccQueue) \in Message
    BY <2>1, TakeFacts
  <2>3. PICK good \in BOOLEAN :
          LET rsp == Rsp(Head(xMsgsFromAbccQueue), good)
          IN  /\ fRemappingReadPd'  = (fRemappingReadPd \/ IsRemapAck(rsp, "REMAP_READ"))
              /\ fRemappingWritePd' = (fRemappingWritePd \/ IsRemapAck(rsp, "REMAP_WRITE"))
              /\ xRspsToAbccQueue' = Append(xRspsToAbccQueue, rsp)
    BY <1>5, <2>2 DEF CommandToAppl
  <2> DEFINE rsp == Rsp(Head(xMsgsFromAbccQueue), good)
  <2>4. rsp \in Message
    BY <2>2, MakeFacts
  <2> HIDE DEF rsp
  <2>5. /\ fRemappingReadPd'  = (fRemappingReadPd \/ IsRemapAck(rsp, "REMAP_READ"))
        /\ fRemappingWritePd' = (fRemappingWritePd \/ IsRemapAck(rsp, "REMAP_WRITE"))
        /\ xRspsToAbccQueue' = Append(xRspsToAbccQueue, rsp)
    BY <2>3 DEF rsp
  <2>6. ASSUME NEW op PROVE Pending(op)' <=> Pending(op) \/ IsRemapAck(rsp, op)
    <3>1. (\E i \in DOMAIN xRspsToAbccQueue' : IsRemapAck(xRspsToAbccQueue'[i], op))
            <=> (\E i \in DOMAIN xRspsToAbccQueue : IsRemapAck(xRspsToAbccQueue[i], op))
                  \/ IsRemapAck(rsp, op)
      BY <1>a, <2>4, <2>5, PendingMoves
    <3>2. IsRemapAck(psWriteMsgBuffer, op)' <=> IsRemapAck(psWriteMsgBuffer, op)
      BY <2>1 DEF IsRemapAck
    <3> QED BY <3>1, <3>2 DEF Pending, IsRemapAck
  <2>7. fRemappingReadPd' \in BOOLEAN /\ fRemappingWritePd' \in BOOLEAN
    BY <2>5
  <2>8. /\ fRemappingReadPd'  <=> (fRemappingReadPd \/ IsRemapAck(rsp, "REMAP_READ"))
        /\ fRemappingWritePd' <=> (fRemappingWritePd \/ IsRemapAck(rsp, "REMAP_WRITE"))
    BY <2>5, <2>7
  <2> QED BY <2>1, <2>6, <2>8 DEF RemapGuarded
<1>6. CASE \/ RunSetup \/ RunLink \/ LinkSend \/ LinkWait \/ LinkReceive \/ CfgWait
           \/ NoMessage \/ UNCHANGED vars
  BY <1>1, <1>6 DEF RunSetup, RunLink, LinkSend, LinkWait, LinkReceive, CfgWait, NoMessage, link, toAbcc, vars
<1>7. CASE CfgInit \/ CfgSend \/ CfgResponse \/ CfgNext \/ ResponseToAppl \/ ResetToAppl
  <2>1. UNCHANGED <<remap, link, xRspsToAbccQueue>>
    BY <1>7 DEF CfgInit, CfgSend, CfgResponse, CfgNext, ResponseToAppl, ResetToAppl, Send, APPC_RunStateMachine, toAbcc
  <2> QED BY <1>1, <2>1 DEF link
<1>8. CASE Module
  BY <1>1, <1>8, ModuleFacts DEF link, toAbcc
<1> QED BY <1>2, <1>3, <1>4, <1>5, <1>6, <1>7, <1>8 DEF Next, Driver

(* With one command of the module at a time, the exchange of process data   *)
(* is held off exactly while a remap is between its good response and the   *)
(* switch of the length, whatever the lengths and the other limits are.     *)
THEOREM RemapIsGuarded == ASSUME AbccCmds = 1 PROVE Spec => []RemapGuarded
<1>1. Init => SwitchInv /\ RemapGuarded
  BY DEF Init, SwitchInv, RemapGuarded, Pending, IsRemapAck, NULL
<1>2. IInv /\ SwitchInv /\ RemapGuarded /\ [Next]_vars => SwitchInv' /\ RemapGuarded'
  BY SwitchStep, GuardStep
<1> QED BY <1>1, <1>2, InitIInv, NextIInv, PTL DEF Spec

-----------------------------------------------------------------------------
(***************************************************************************)
(* One command of the driver at a time, SETUP_COMPLETE the last.           *)
(***************************************************************************)

(* No second command is sent while one has no response.                    *)
LEMMA SingleStep ==
  ASSUME IInv, OnceInv, [Next]_vars, ~isSetUp
  PROVE  bNbrOfCmdsActiveToAbcc' <= 1
<1> USE DEF IInv, LayerInv
<1>0. bNbrOfCmdsActiveToAbcc \in Nat /\ bNbrOfCmdsActiveToAbcc <= 1 /\ ~ResetToAppl
  BY NoResetFacts DEF OnceInv, TypeOK, WithinLimits
<1>1. CASE UNCHANGED bNbrOfCmdsActiveToAbcc
  BY <1>0, <1>1
<1>2. CASE eDriverState' \in {"SETUP", "IN_CONFIGURATION"}
  BY <1>2, SetupStep DEF SetupInv, Count
<1>3. CASE CfgResponse
  <2>1. bNbrOfCmdsActiveToAbcc = 1 /\ bNbrOfCmdsActiveToAbcc' = Decrement(bNbrOfCmdsActiveToAbcc)
    BY <1>3 DEF CfgResponse, Configures, SetupInv, Count
  <2> QED BY <2>1 DEF Decrement
<1>4. CASE CfgNext
  <2>1. bNbrOfCmdsActiveToAbcc = 0
    BY <1>4 DEF CfgNext, Configures, SetupInv, Count
  <2>2. Adds(bNbrOfCmdsActiveToAbcc)
    BY <1>4, AddsFacts
  <2> QED BY <2>1, <2>2 DEF Adds
<1>5. CASE ResponseToAppl
  <2>1. Adds(bNbrOfCmdsActiveToAbcc - 1)
    BY <1>5, AddsFacts
  <2> QED BY <1>0, <2>1 DEF Adds
<1>6. CASE CfgSend
  BY <1>2, <1>6 DEF CfgSend, Configures
<1>7. CASE \/ RunSetup \/ RunLink \/ LinkIdle \/ LinkSend \/ LinkWait \/ LinkAccept \/ LinkReceive
           \/ LinkSent \/ CfgInit \/ CfgWait \/ NoMessage \/ CommandToAppl \/ Module \/ UNCHANGED vars
  BY <1>1, <1>7, ModuleFacts DEF RunSetup, RunLink, LinkIdle, LinkSend, LinkWait, LinkAccept,
     LinkReceive, LinkSent, CfgInit, CfgWait, NoMessage, CommandToAppl, vars, counts
<1> QED BY <1>0, <1>3, <1>4, <1>5, <1>6, <1>7 DEF Next, Driver

(* Until the set-up a response that comes from the module comes alone.     *)
LEMMA AloneFacts ==
  ASSUME IInv, OnceInv, out \in Responses, ~isSetUp
  PROVE  /\ xCmdsToAbccQueue = <<>> /\ owed = <<>> /\ psWriteMsgBuffer \notin Commands
         /\ AtModule \notin Commands
<1> USE DEF IInv, LayerInv
<1>0. Natural /\ Limits /\ Balance
  BY BalanceFacts
<1>1. rComes = 1
  BY KindFacts, NullFacts DEF rComes, One, OnTheWay
<1>2. cq = 0 /\ dq = 0 /\ cHeld = 0 /\ cThere = 0
  BY <1>0, <1>1 DEF Natural, Balance, OnceInv
<1>3. xCmdsToAbccQueue = <<>> /\ owed = <<>>
  <2>1. xCmdsToAbccQueue \in Seq(Message) /\ owed \in Seq(Message)
    BY DEF TypeOK, DataOK, QueuesOK
  <2> QED BY <1>2, <2>1 DEF cq, dq
<1>4. psWriteMsgBuffer \notin Commands /\ AtModule \notin Commands
  BY <1>2 DEF cHeld, cThere, One
<1> QED BY <1>3, <1>4

(* What the module has received is what it half had.                       *)
LEMMA ReceivedFacts ==
  ASSUME IInv, Module
  PROVE  /\ Received = AtModule /\ AtModule' = NULL /\ eState = "WAIT_FOR_TELEGRAM"
         /\ sMsgRead = out
BY ModuleFacts DEF Received, AtModule, SendInv, ReceiveInv, IInv, LayerInv, link

(* After the set-up the driver's commands, and what the module owes for     *)
(* them, are resets sent back.                                             *)
Echoes == /\ xCmdsToAbccQueue \in Seq(Echo) /\ owed \in Seq(Echo)
          /\ psWriteMsgBuffer \in Commands => psWriteMsgBuffer \in Echo
          /\ AtModule \in Commands => AtModule \in Echo
          /\ out \in Responses => out \in Echo

LEMMA EchoNull == NULL \notin Commands /\ NULL \notin Responses
BY NullFacts, KindFacts

(* A response to a reset is a reset.                                       *)
LEMMA EchoModule ==
  ASSUME IInv, Echoes, Module
  PROVE  Echoes'
<1> USE DEF IInv, LayerInv
<1>1. OwedNow \in Seq(Echo)
  <2>1. owed \in Seq(Echo)
    BY DEF Echoes
  <2>2. CASE Received.c
    <3>1. Received \in Echo
      BY <2>2, OwedFacts, ReceivedFacts DEF Echoes
    <3> QED BY <2>1, <2>2, <3>1, OwedFacts, AppendFacts
  <2>3. CASE ~Received.c
    BY <2>1, <2>3, OwedFacts
  <2> QED BY <2>2, <2>3
<1>2. owed' \in Seq(Echo) /\ (out' \in Responses => out' \in Echo)
  <2>1. CASE owed' = OwedNow /\ (out' = NULL \/ out' \in Commands)
    BY <1>1, <2>1, EchoNull DEF Commands, Responses
  <2>2. CASE /\ OwedNow # <<>> /\ owed' = Tail(OwedNow)
             /\ out' \in Responses /\ out'.op = Head(OwedNow).op
    <3>1. Head(OwedNow) \in Echo /\ Tail(OwedNow) \in Seq(Echo)
      BY <1>1, <2>2, TailFacts
    <3> QED BY <2>2, <3>1, KindFacts DEF Echo
  <2> QED BY <2>1, <2>2, ModuleQueue
<1>3. UNCHANGED <<psWriteMsgBuffer, xCmdsToAbccQueue>> /\ AtModule' = NULL
  BY ModuleFacts, ReceivedFacts DEF link, toAbcc
<1> QED BY <1>2, <1>3, EchoNull DEF Echoes

LEMMA EchoDriver ==
  ASSUME IInv, OnceInv, Echoes, isSetUp, Driver \/ UNCHANGED vars
  PROVE  Echoes'
<1> USE DEF IInv, LayerInv
<1>1. appc_eState = "DONE" /\ eDriverState \notin {"SETUP", "IN_CONFIGURATION"}
  BY DEF OnceInv, SetupInv
<1>2. CASE LinkIdle
  <2>1. UNCHANGED <<owed, got, out>> /\ got = NULL
    BY <1>2 DEF LinkIdle, module, own, SendInv
  <2>2. xCmdsToAbccQueue' \in Seq(Echo) /\ (psWriteMsgBuffer' \in Commands => psWriteMsgBuffer' \in Echo)
    <3>1. CASE /\ Turn("cmd") /\ psWriteMsgBuffer' = Head(xCmdsToAbccQueue)
               /\ xCmdsToAbccQueue' = Tail(xCmdsToAbccQueue)
      BY <3>1, TailFacts DEF Turn, Echoes
    <3>2. CASE Turn("rsp") /\ psWriteMsgBuffer' = Head(xRspsToAbccQueue) /\ UNCHANGED xCmdsToAbccQueue
      <4>1. Head(xRspsToAbccQueue) \in Responses
        BY <3>2, TailFacts DEF Turn, KindInv
      <4> QED BY <3>2, <4>1 DEF Commands, Responses, Echoes
    <3>3. CASE UNCHANGED <<psWriteMsgBuffer, xCmdsToAbccQueue>>
      BY <3>3 DEF Echoes
    <3> QED BY <1>2, <3>1, <3>2, <3>3 DEF LinkIdle
  <2>3. AtModule' = NULL
    BY <2>1 DEF AtModule
  <2> QED BY <2>1, <2>2, <2>3, EchoNull DEF Echoes
<1>3. CASE LinkSent
  <2>1. UNCHANGED <<xCmdsToAbccQueue, owed, got, out>> /\ psWriteMsgBuffer' = NULL
    BY <1>3 DEF LinkSent, module, own
  <2>2. got = psWriteMsgBuffer
    BY <1>3 DEF LinkSent, SendInv
  <2>3. AtModule' = psWriteMsgBuffer
    BY <2>1, <2>2 DEF AtModule
  <2> QED BY <2>1, <2>3, EchoNull DEF Echoes
<1>4. CASE UNCHANGED <<xCmdsToAbccQueue, owed, psWriteMsgBuffer, got, out>>
  BY <1>4 DEF Echoes, AtModule
<1>5. CASE ResponseToAppl
  <2>1. UNCHANGED xCmdsToAbccQueue
    BY <1>1, <1>5 DEF ResponseToAppl, APPC_RunStateMachine, toAbcc
  <2> QED BY <1>4, <1>5, <2>1 DEF ResponseToAppl, link, module, own
<1>6. CASE ResetToAppl
  <2>1. Head(xMsgsFromAbccQueue) \in Echo
    BY <1>6, TakeFacts DEF ResetToAppl, Echo
  <2>2. xCmdsToAbccQueue' \in Seq(Echo)
    <3>1. \/ xCmdsToAbccQueue' = Append(xCmdsToAbccQueue, Head(xMsgsFromAbccQueue))
          \/ UNCHANGED xCmdsToAbccQueue
      BY <1>6 DEF ResetToAppl, Send, toAbcc
    <3>2. xCmdsToAbccQueue \in Seq(Echo)
      BY DEF Echoes
    <3> QED BY <2>1, <3>1, <3>2, AppendFacts
  <2>3. UNCHANGED <<owed, psWriteMsgBuffer, got, out>>
    BY <1>6 DEF ResetToAppl, link, own
  <2> QED BY <2>2, <2>3 DEF Echoes, AtModule
<1>7. CASE \/ RunLink \/ LinkSend \/ LinkWait \/ LinkAccept \/ LinkReceive \/ NoMessage
           \/ CommandToAppl \/ UNCHANGED vars
  BY <1>4, <1>7 DEF RunLink, LinkSend, LinkWait, LinkAccept, LinkReceive, NoMessage,
     CommandToAppl, vars, toAbcc, link, module, own
<1>8. CASE RunSetup \/ CfgInit \/ CfgSend \/ CfgWait \/ CfgResponse \/ CfgNext
  BY <1>1, <1>8 DEF RunSetup, CfgInit, CfgSend, CfgWait, CfgResponse, CfgNext, Configures
<1> QED BY <1>2, <1>3, <1>5, <1>6, <1>7, <1>8 DEF Driver

LEMMA OnceStep ==
  ASSUME IInv, OnceInv, [Next]_vars
  PROVE  OnceInv'
<1> USE DEF IInv, LayerInv
<1>1. ~isSetUp' => bNbrOfCmdsActiveToAbcc' <= 1
  BY QuietStep, SingleStep
<1>2. appc_eState' # "DONE" => ~isSetUp' /\ EarlyInv'
  BY ClientStep, EarlyStep DEF OnceInv
<1>3. ASSUME isSetUp' PROVE Echoes'
  <2>1. CASE isSetUp
    <3>1. Echoes
      BY <2>1 DEF OnceInv, Echoes
    <3> QED BY <2>1, <3>1, EchoModule, EchoDriver DEF Next
  <2>2. CASE ~isSetUp
    <3>1. Module
      <4>1. Driver \/ UNCHANGED vars => UNCHANGED own
        BY UpperFacts DEF Driver, RunSetup, RunLink, LinkIdle, LinkSend, LinkWait, LinkAccept,
           LinkReceive, LinkSent, vars, module
      <4> QED BY <1>3, <2>2, <4>1 DEF Next, own
    <3>2. IsSetupAck(out) /\ out # NULL /\ out' = NULL
      BY <1>3, <2>2, <3>1 DEF Module, ModuleIdle, ModuleCloses, ModuleResponds, ModuleCommands
    <3>3. out \in Responses
      BY <3>2, KindFacts DEF IsSetupAck, TypeOK, DataOK, MessagesOK
    <3>4. /\ xCmdsToAbccQueue = <<>> /\ owed = <<>> /\ psWriteMsgBuffer \notin Commands
          /\ AtModule \notin Commands
      BY <2>2, <3>3, AloneFacts
    <3>5. OwedNow = <<>>
      <4>1. ~Received.c
        BY <3>1, <3>4, OwedFacts, ReceivedFacts
      <4> QED BY <3>4, <4>1, OwedFacts
    <3>6. owed' = <<>> /\ UNCHANGED <<xCmdsToAbccQueue, psWriteMsgBuffer>> /\ AtModule' = NULL
      BY <3>1, <3>2, <3>5, EchoNull, ModuleQueue, ModuleFacts, ReceivedFacts DEF link, toAbcc
    <3> QED BY <3>2, <3>4, <3>6, EchoNull DEF Echoes
  <2> QED BY <2>1, <2>2
<1> QED BY <1>1, <1>2, <1>3 DEF OnceInv, Echoes

-----------------------------------------------------------------------------
(***************************************************************************)
(* The lengths of process data, in every step of the two sides.            *)
(***************************************************************************)

(* Where the variables of the invariant stay, it stays.                    *)
lengthsOfBoth == <<toModule, fromModule, iReadPdLength, iWritePdLength, iNewWritePdLength,
                   iPdReadLength, iPdWriteLength, fCompleteWrPdRemap, eState, psWriteMsgBuffer,
                   sMsgRead, own>>

LEMMA AgreeKept ==
  ASSUME AgreeInv, UNCHANGED lengthsOfBoth
  PROVE  AgreeInv'
BY DEF AgreeInv, lengthsOfBoth, module, own, JustSetUp, Related, AtModule, AllMapped, IsRemapAck, IsSetupAck

(* The moment after the set-up ends with the answer that closes it.        *)
LEMMA JustFacts ==
  ASSUME IInv, JustSetUp
  PROVE  fromModule.sent \/ (eState = "PROCESS_RECEIVED_TELEGRAM" /\ phase = "link")
BY NullFacts DEF JustSetUp, IsSetupAck, NULL, ReceiveInv, IInv, LayerInv

(* Driver and module are quiet as long as no command of the module counts. *)
LEMMA NoAckFacts ==
  ASSUME IInv, asked = 0, NEW op
  PROVE  /\ ~IsRemapAck(AtModule, op) \/ AtModule = NULL
         /\ AtModule \notin Responses /\ psWriteMsgBuffer \notin Responses
<1> USE DEF IInv, LayerInv
<1>0. Natural /\ Limits /\ Balance
  BY BalanceFacts
<1>1. rThere = 0 /\ rHeld = 0
  BY <1>0 DEF Natural, Balance
<1>2. AtModule \notin Responses /\ psWriteMsgBuffer \notin Responses
  BY <1>1 DEF rThere, rHeld, One
<1>3. AtModule \in Message \union {NULL}
  BY DEF AtModule, TypeOK, DataOK, MessagesOK
<1> QED BY <1>2, <1>3, KindFacts DEF IsRemapAck

LEMMA NoAck == ASSUME NEW op \in Remap PROVE ~IsRemapAck(NULL, op)
BY DEF IsRemapAck, NULL, Remap

LEMMA AgreeAccept ==
  ASSUME IInv, AgreeInv, LinkAccept
  PROVE  AgreeInv'
<1> USE DEF IInv, LayerInv
<1>0. "REMAP_READ" \in Remap /\ "REMAP_WRITE" \in Remap
  BY DEF Remap
<1>1. /\ eState = "WAIT_FOR_TELEGRAM" /\ fromModule.sent /\ ~toModule.sent /\ ~fromModule'.sent
      /\ got = psWriteMsgBuffer /\ AtModule = NULL
      /\ UNCHANGED <<toModule, psWriteMsgBuffer, sMsgRead, iReadPdLength, iNewWritePdLength, module>>
  BY DEF LinkAccept, Answered, SendInv, Nothing, AtModule, MessagesOK, DataOK, TypeOK, Line
<1>2. UNCHANGED <<JustSetUp, AtModule, AllMapped, isSetUp, modRead, modWrite, asked, got>>
  BY <1>1 DEF JustSetUp, AtModule, AllMapped, module, own, IsSetupAck
<1>3. CASE fCompleteWrPdRemap
  <2>1. /\ iWritePdLength' = iNewWritePdLength /\ iPdReadLength' = iReadPdLength
        /\ iPdWriteLength' = iNewWritePdLength /\ ~fCompleteWrPdRemap'
    BY <1>3 DEF LinkAccept, APDR_SetPdSize
  <2>2. isSetUp /\ ~JustSetUp
    BY <1>3 DEF SetupInv, AgreeInv
  <2>3. (isSetUp' => AllMapped') => Related'
    <3>1. SUFFICES ASSUME isSetUp => AllMapped PROVE Related'
      BY <1>2
    <3>2. /\ iReadPdLength = iPdReadLength /\ iPdReadLength = modRead /\ iNewWritePdLength = modWrite
      BY <1>0, <1>1, <1>3, <2>2, <3>1, NoAck DEF AgreeInv, Related
    <3> QED BY <1>0, <1>1, <1>2, <2>1, <2>2, <3>2, NoAck DEF Related, IsRemapAck
  <2>4. ~IsRemapAck(AtModule, "REMAP_WRITE")'
    BY <1>0, <1>1, <1>2, NoAck DEF IsRemapAck
  <2> QED BY <1>1, <1>2, <2>1, <2>2, <2>3, <2>4 DEF AgreeInv
<1>4. CASE ~fCompleteWrPdRemap
  <2>1. UNCHANGED <<iWritePdLength, iPdReadLength, iPdWriteLength, fCompleteWrPdRemap>>
    BY <1>4 DEF LinkAccept
  <2>2. (isSetUp => AllMapped) => Related'
    BY <1>1, <1>2, <1>4, <2>1 DEF AgreeInv, Related, IsRemapAck
  <2>3. ~IsRemapAck(AtModule, "REMAP_WRITE")'
    BY <1>0, <1>1, <1>2, NoAck DEF IsRemapAck
  <2> QED BY <1>1, <1>2, <1>4, <2>1, <2>2, <2>3 DEF AgreeInv
<1> QED BY <1>3, <1>4 DEF TypeOK, DataOK, ControlOK

LEMMA AgreeReceive ==
  ASSUME IInv, AgreeInv, LinkReceive
  PROVE  AgreeInv'
<1> USE DEF IInv, LayerInv
<1>1. /\ eState = "PROCESS_RECEIVED_TELEGRAM" /\ ~fCompleteWrPdRemap /\ ~toModule.sent /\ ~fromModule.sent
      /\ out = answer.frag
      /\ UNCHANGED <<eState, toModule, fromModule, psWriteMsgBuffer, iNewWritePdLength,
                     fCompleteWrPdRemap, module>>
  BY DEF LinkReceive, SendInv, ReceiveInv, AgreeInv, line, remap, MessagesOK, DataOK, TypeOK, Line
<1>2. UNCHANGED <<AtModule, AllMapped, isSetUp, modRead, modWrite, asked, got, out>>
  BY <1>1 DEF AtModule, AllMapped, module, own
<1>3. CASE ~Closes
  <2>1. UNCHANGED <<iReadPdLength, iWritePdLength, iPdReadLength, iPdWriteLength>>
    BY <1>3 DEF LinkReceive
  <2>2. JustSetUp' <=> JustSetUp
    BY <1>1, <1>2, <1>3 DEF LinkReceive, JustSetUp, IsSetupAck
  <2>3. (isSetUp => AllMapped) => Related'
    BY <1>1, <1>2, <2>1, <2>2 DEF AgreeInv, Related, IsRemapAck
  <2> QED BY <1>1, <1>2, <2>2, <2>3 DEF AgreeInv, IsRemapAck
<1>4. CASE Closes
  <2>1. sMsgRead' = NULL /\ MessageReceived(sMsgRead) /\ out = NULL
    BY <1>1, <1>4 DEF LinkReceive, Closes
  <2>2. ~JustSetUp'
    BY <2>1 DEF JustSetUp, IsSetupAck, NULL
  <2>3. ASSUME isSetUp => AllMapped PROVE Related'
    <3>1. CASE IsSetupAck(sMsgRead)
      <4>1. JustSetUp
        BY <2>1, <3>1 DEF JustSetUp
      <4>2. isSetUp /\ asked = 0 /\ modRead = ReadMaps /\ modWrite = WriteMaps
        BY <2>3, <4>1 DEF AgreeInv, Related
      <4>3. ~IsRemapAck(AtModule, "REMAP_READ")
        BY <4>2, NoAckFacts, NoAck DEF Remap
      <4>4. /\ iReadPdLength' = ReadMaps /\ iWritePdLength' = WriteMaps
            /\ iPdReadLength' = ReadMaps /\ iPdWriteLength' = WriteMaps
        BY <2>1, <3>1 DEF MessageReceived, APDR_SetPdSize
      <4> QED BY <1>1, <1>2, <2>2, <4>2, <4>3, <4>4 DEF Related, IsRemapAck
    <3>2. CASE ~IsSetupAck(sMsgRead)
      <4>1. UNCHANGED <<iReadPdLength, iWritePdLength, iPdReadLength, iPdWriteLength>> /\ ~JustSetUp
        BY <2>1, <3>2 DEF MessageReceived, JustSetUp
      <4> QED BY <1>1, <1>2, <2>2, <2>3, <4>1 DEF AgreeInv, Related, IsRemapAck
    <3> QED BY <3>1, <3>2
  <2> QED BY <1>1, <1>2, <2>2, <2>3 DEF AgreeInv, IsRemapAck
<1> QED BY <1>3, <1>4

LEMMA AgreeSent ==
  ASSUME IInv, AgreeInv, LinkSent
  PROVE  AgreeInv'
<1> USE DEF IInv, LayerInv
<1>0. "REMAP_READ" \in Remap /\ "REMAP_WRITE" \in Remap
  BY DEF Remap
<1>1. /\ eState = "PROCESS_RECEIVED_TELEGRAM" /\ phase = "sent" /\ ~fCompleteWrPdRemap
      /\ ~toModule.sent /\ ~fromModule.sent /\ got = psWriteMsgBuffer /\ AtModule = NULL
      /\ UNCHANGED <<toModule, fromModule, sMsgRead, iWritePdLength, module>>
      /\ psWriteMsgBuffer' = NULL /\ AtModule' = psWriteMsgBuffer
  BY DEF LinkSent, SendInv, AgreeInv, line, AtModule, module, own, MessagesOK, DataOK, TypeOK, Line
<1>2. ~JustSetUp /\ UNCHANGED <<JustSetUp, AllMapped, isSetUp, modRead, modWrite, asked, got, out>>
  BY <1>1, JustFacts DEF JustSetUp, AllMapped, module, own, IsSetupAck
<1> DEFINE m == psWriteMsgBuffer
           R == IsRemapAck(m, "REMAP_READ")
           W == IsRemapAck(m, "REMAP_WRITE")
<1>3. /\ iPdReadLength' = (IF R THEN m.len ELSE iPdReadLength)
      /\ iReadPdLength' = (IF R THEN m.len ELSE iReadPdLength)
      /\ iPdWriteLength' = (IF R THEN iWritePdLength ELSE iPdWriteLength)
      /\ fCompleteWrPdRemap' <=> W
      /\ W => iNewWritePdLength' = m.len /\ eState' = "SEND_TELEGRAM_WITHOUT_MESSAGE"
  <2>1. CASE m = NULL
    BY <1>0, <1>1, <2>1, NoAck DEF LinkSent
  <2>2. CASE m # NULL
    BY <1>1, <2>2 DEF LinkSent, CompleteMsgTrans, APDR_SetPdSize
  <2> QED BY <2>1, <2>2
<1>4. /\ IsRemapAck(AtModule, "REMAP_READ")' <=> R
      /\ IsRemapAck(AtModule, "REMAP_WRITE")' <=> W
      /\ IsRemapAck(got, "REMAP_WRITE")' <=> W
  BY <1>1, <1>2 DEF IsRemapAck
<1>5. ~(R /\ W)
  BY DEF IsRemapAck
<1>6. ASSUME isSetUp => AllMapped PROVE Related'
  <2>1. CASE isSetUp
    <3>1. /\ iReadPdLength = iPdReadLength /\ iWritePdLength = iPdWriteLength
          /\ iPdReadLength = modRead /\ iPdWriteLength = modWrite
      BY <1>0, <1>1, <1>2, <1>6, <2>1, NoAck DEF AgreeInv, Related
    <3> HIDE DEF R, W
    <3> QED BY <1>1, <1>2, <1>3, <1>4, <1>5, <2>1, <3>1 DEF Related
  <2>2. CASE ~isSetUp
    <3>1. ~R
      BY <2>2, QuietFacts, KindFacts, <1>0, NoAck DEF IsRemapAck, TypeOK, DataOK, MessagesOK
    <3>2. iPdReadLength = 0 /\ iPdWriteLength = 0 /\ modRead = 0 /\ modWrite = 0
      BY <1>6, <2>2 DEF AgreeInv, Related
    <3> HIDE DEF R, W
    <3> QED BY <1>1, <1>2, <1>3, <2>2, <3>1, <3>2 DEF Related
  <2> QED BY <2>1, <2>2
<1> HIDE DEF R, W
<1> QED BY <1>1, <1>2, <1>3, <1>4, <1>6 DEF AgreeInv

(* An answer of the module leaves the lengths of both sides alone but for  *)
(* the end of its set-up and the end of a remap.                           *)
LEMMA AnswerFacts ==
  ASSUME IInv, OnceInv, Module
  PROVE  \/ /\ IsSetupAck(out) /\ out' = NULL /\ ~isSetUp /\ isSetUp'
            /\ modRead' = mapped["READ_MAPPING"] /\ modWrite' = mapped["WRITE_MAPPING"]
            /\ asked' = AskedNow /\ UNCHANGED mapped
         \/ /\ KeepLengths /\ UNCHANGED isSetUp /\ ~(out' = NULL /\ IsSetupAck(out))
            /\ isSetUp => UNCHANGED mapped
<1> USE DEF IInv, LayerInv
<1>0. ~IsSetupAck(NULL)
  BY DEF IsSetupAck, NULL
<1>1. CASE ModuleIdle
  BY <1>0, <1>1 DEF ModuleIdle
<1>2. CASE ModuleCloses /\ IsSetupAck(out)
  <2>1. out \in Responses
    BY <1>2, KindFacts DEF ModuleCloses, IsSetupAck, TypeOK, DataOK, MessagesOK
  <2>2. ~isSetUp
    BY <1>2, <2>1 DEF OnceInv, Echo, IsSetupAck
  <2> QED BY <1>2, <2>2 DEF ModuleCloses
<1>3. CASE ModuleCloses /\ ~IsSetupAck(out)
  BY <1>3 DEF ModuleCloses
<1>4. CASE ModuleResponds
  <2>1. ASSUME isSetUp PROVE UNCHANGED mapped
    <3>1. Echoes
      BY <2>1 DEF OnceInv, Echoes
    <3>2. out' \in Responses => out' \in Echo
      BY <3>1, EchoModule DEF Echoes
    <3>3. out' \in Responses
      BY <1>4, RespondsFacts
    <3>4. out'.op \notin Map
      BY <3>2, <3>3 DEF Echo, Map
    <3> QED BY <1>4, <3>4 DEF ModuleResponds
  <2>2. out = NULL /\ KeepLengths /\ UNCHANGED isSetUp
    BY <1>4 DEF ModuleResponds
  <2> QED BY <1>0, <2>1, <2>2
<1>5. CASE ModuleCommands
  BY <1>0, <1>5 DEF ModuleCommands
<1> QED BY <1>1, <1>2, <1>3, <1>4, <1>5 DEF Module

LEMMA AgreeModule ==
  ASSUME IInv, OnceInv, AgreeInv, Module
  PROVE  AgreeInv'
<1> USE DEF IInv, LayerInv
<1>0. "REMAP_READ" \in Remap /\ "REMAP_WRITE" \in Remap
  BY DEF Remap
<1>1. /\ toModule.sent /\ ~fromModule.sent /\ ~toModule'.sent /\ fromModule'.sent
      /\ fromModule'.len = ModReadNow /\ Received = AtModule /\ AtModule' = NULL
      /\ eState = "WAIT_FOR_TELEGRAM" /\ sMsgRead = out
      /\ UNCHANGED <<lengths, remap, link>>
  BY ModuleFacts, ReceivedFacts DEF Nothing
<1>2. /\ UNCHANGED <<eState, psWriteMsgBuffer, sMsgRead, fCompleteWrPdRemap, iReadPdLength,
                     iWritePdLength, iNewWritePdLength, iPdReadLength, iPdWriteLength>>
      /\ ~JustSetUp
  BY <1>1, JustFacts DEF lengths, remap, link
<1>3. ~IsRemapAck(AtModule, "REMAP_READ")' /\ ~IsRemapAck(AtModule, "REMAP_WRITE")'
  BY <1>0, <1>1, NoAck DEF IsRemapAck
<1>4. JustSetUp' <=> out' = NULL /\ IsSetupAck(out)
  BY <1>1, <1>2 DEF JustSetUp, IsSetupAck
<1>5. ASSUME ~isSetUp
      PROVE  /\ ModReadNow = modRead /\ AskedNow = 0 /\ ~fCompleteWrPdRemap
             /\ ~IsRemapAck(Received, "REMAP_WRITE")
  <2>1. asked = 0 /\ ~fCompleteWrPdRemap
    BY <1>5 DEF SetupInv
  <2>2. AtModule \notin Responses
    BY <2>1, NoAckFacts
  <2>3. Received \notin Responses
    BY <1>1, <2>2, Zenon
  <2>4. ~IsRemapAck(Received, "REMAP_READ") /\ ~IsRemapAck(Received, "REMAP_WRITE")
    BY <1>0, <2>3, NoAck, OwedFacts, KindFacts DEF IsRemapAck
  <2>5. AskedNow = asked
    BY <2>3, OwedFacts, KindFacts DEF AskedNow
  <2> QED BY <2>1, <2>4, <2>5 DEF ModReadNow
<1>6. CASE /\ IsSetupAck(out) /\ out' = NULL /\ ~isSetUp /\ isSetUp'
           /\ modRead' = mapped["READ_MAPPING"] /\ modWrite' = mapped["WRITE_MAPPING"]
           /\ asked' = AskedNow /\ UNCHANGED mapped
  <2>1. JustSetUp' /\ asked' = 0 /\ ~fCompleteWrPdRemap'
    BY <1>2, <1>4, <1>5, <1>6
  <2>2. iPdReadLength = 0 /\ iPdWriteLength = 0 /\ modRead = 0
    BY <1>6 DEF AgreeInv, Related
  <2>3. ASSUME AllMapped' PROVE modRead' = ReadMaps /\ modWrite' = WriteMaps
    BY <1>6, <2>3 DEF AllMapped, Map
  <2>4. fromModule'.len = iPdReadLength'
    BY <1>1, <1>2, <1>5, <1>6, <2>2
  <2> QED BY <1>1, <1>2, <1>3, <1>6, <2>1, <2>2, <2>3, <2>4 DEF AgreeInv, Related
<1>7. CASE /\ KeepLengths /\ UNCHANGED isSetUp /\ ~(out' = NULL /\ IsSetupAck(out))
           /\ isSetUp => UNCHANGED mapped
  <2>1. ~JustSetUp'
    BY <1>4, <1>7
  <2>2. (isSetUp' => AllMapped') => (isSetUp => AllMapped)
    BY <1>7 DEF AllMapped
  <2>3. ASSUME isSetUp => AllMapped
        PROVE  Related' /\ fromModule'.len = iPdReadLength'
    <3>1. CASE isSetUp
      <4>1. /\ iReadPdLength = iPdReadLength /\ iWritePdLength = iPdWriteLength
            /\ iPdReadLength = (IF IsRemapAck(AtModule, "REMAP_READ") THEN AtModule.len ELSE modRead)
            /\ iPdWriteLength = modWrite
            /\ fCompleteWrPdRemap => iNewWritePdLength = got.len
        BY <1>1, <1>2, <2>3, <3>1 DEF AgreeInv, Related
      <4>2. modRead' = iPdReadLength /\ fromModule'.len = iPdReadLength
        BY <1>1, <1>7, <4>1 DEF KeepLengths, ModReadNow
      <4>3. CASE fCompleteWrPdRemap
        <5>1. AtModule = got /\ IsRemapAck(got, "REMAP_WRITE")
          BY <1>1, <4>3 DEF AgreeInv, AtModule
        <5>2. modWrite' = iNewWritePdLength
          BY <1>1, <1>7, <4>1, <4>3, <5>1 DEF KeepLengths
        <5> QED BY <1>1, <1>2, <1>3, <1>7, <2>1, <3>1, <4>1, <4>2, <4>3, <5>2 DEF Related
      <4>4. CASE ~fCompleteWrPdRemap
        <5>1. modWrite' = modWrite
          BY <1>1, <1>7, <4>4 DEF KeepLengths, AgreeInv
        <5> QED BY <1>1, <1>2, <1>3, <1>7, <2>1, <3>1, <4>1, <4>2, <4>4, <5>1 DEF Related
      <4> QED BY <4>3, <4>4
    <3>2. CASE ~isSetUp
      <4>1. iPdReadLength = 0 /\ iPdWriteLength = 0 /\ modRead = 0 /\ modWrite = 0
        BY <2>3, <3>2 DEF AgreeInv, Related
      <4>2. modRead' = 0 /\ modWrite' = 0 /\ fromModule'.len = 0
        BY <1>1, <1>5, <1>7, <3>2, <4>1 DEF KeepLengths
      <4> QED BY <1>2, <1>7, <3>2, <4>1, <4>2 DEF Related
    <3> QED BY <3>1, <3>2
  <2>4. (isSetUp' => AllMapped') => Related' /\ fromModule'.len = iPdReadLength'
    BY <2>2, <2>3
  <2> QED BY <1>1, <1>2, <1>3, <2>1, <2>4 DEF AgreeInv
<1> QED BY <1>6, <1>7, AnswerFacts

LEMMA AgreeStep ==
  ASSUME IInv, OnceInv, AgreeInv, [Next]_vars
  PROVE  AgreeInv'
<1> USE DEF IInv, LayerInv
<1>1. CASE LinkIdle
  <2>1. /\ eState = "IDLE" /\ psWriteMsgBuffer = NULL /\ got = NULL /\ AtModule = NULL
        /\ ~fCompleteWrPdRemap
        /\ UNCHANGED <<toModule, fromModule, iReadPdLength, iWritePdLength, iNewWritePdLength,
                       iPdReadLength, iPdWriteLength, fCompleteWrPdRemap, sMsgRead, module>>
    BY <1>1 DEF LinkIdle, SendInv, AgreeInv, AtModule, line, lengths, remap
  <2>2. /\ AtModule' = NULL
        /\ UNCHANGED <<JustSetUp, AllMapped, isSetUp, modRead, modWrite, asked, got>>
    BY <2>1 DEF JustSetUp, AllMapped, module, own, IsSetupAck, AtModule
  <2>3. (isSetUp => AllMapped) => Related'
    BY <2>1, <2>2 DEF AgreeInv, Related, IsRemapAck
  <2> QED BY <2>1, <2>2, <2>3 DEF AgreeInv, IsRemapAck
<1>2. CASE LinkSend
  <2>1. /\ eState \in {"SEND_TELEGRAM_WITH_MESSAGE", "SEND_TELEGRAM_WITHOUT_MESSAGE"}
        /\ eState' = "WAIT_FOR_TELEGRAM" /\ toModule'.len = iPdWriteLength
        /\ UNCHANGED <<fromModule, iReadPdLength, iWritePdLength, iNewWritePdLength,
                       iPdReadLength, iPdWriteLength, fCompleteWrPdRemap, psWriteMsgBuffer,
                       sMsgRead, module>>
    BY <1>2 DEF LinkSend, Telegram, lengths, remap
  <2>2. UNCHANGED <<JustSetUp, AllMapped, isSetUp, modRead, modWrite, asked, got, AtModule>>
    BY <2>1 DEF JustSetUp, AllMapped, module, own, IsSetupAck, AtModule
  <2>3. (isSetUp => AllMapped) => Related'
    BY <2>1, <2>2 DEF AgreeInv, Related, IsRemapAck
  <2> QED BY <2>1, <2>2, <2>3 DEF AgreeInv, IsRemapAck
<1>3. CASE \/ RunSetup \/ RunLink \/ LinkWait \/ CfgSend \/ CfgWait \/ CfgNext \/ NoMessage
           \/ ResponseToAppl \/ CommandToAppl \/ ResetToAppl \/ UNCHANGED vars
  <2>1. UNCHANGED lengthsOfBoth
    BY <1>3 DEF RunSetup, RunLink, LinkWait, CfgSend, CfgWait, CfgNext, NoMessage, ResponseToAppl,
       CommandToAppl, ResetToAppl, vars, lengthsOfBoth, line, lengths, remap, link, module, own
  <2> QED BY <2>1, AgreeKept
<1>4. CASE CfgInit \/ CfgResponse
  <2>1. /\ eDriverState = "IN_CONFIGURATION"
        /\ UNCHANGED <<toModule, fromModule, iNewWritePdLength, iPdReadLength, iPdWriteLength,
                       fCompleteWrPdRemap, eState, psWriteMsgBuffer, sMsgRead, module>>
    BY <1>4 DEF CfgInit, CfgResponse, Configures, line, remap, link
  <2>2. ~isSetUp /\ UNCHANGED <<JustSetUp, AllMapped, isSetUp, modRead, modWrite, asked, got, AtModule>>
    BY <2>1 DEF JustSetUp, AllMapped, module, own, IsSetupAck, AtModule, SetupInv
  <2>3. (isSetUp => AllMapped) => Related'
    BY <2>1, <2>2 DEF AgreeInv, Related
  <2> QED BY <2>1, <2>2, <2>3 DEF AgreeInv, IsRemapAck
<1> QED BY <1>1, <1>2, <1>3, <1>4, AgreeAccept, AgreeReceive, AgreeSent, AgreeModule DEF Next, Driver

(* Driver and module switch the lengths of process data at the same        *)
(* telegram, whatever the limits and lengths are and however remaps of     *)
(* both directions follow each other, if the module accepted every object. *)
THEOREM LengthsMatch == Spec => []LengthsAgree
<1>1. Init => OnceInv /\ AgreeInv
  <2>1. Init => IInv
    BY InitIInv
  <2>2. Init => OnceInv
    <3> SUFFICES ASSUME Init PROVE OnceInv
      OBVIOUS
    <3>1. EarlyInv
      BY DEF Init, EarlyInv
    <3> QED BY <3>1 DEF Init, OnceInv
  <2>3. Init => AgreeInv
    <3> SUFFICES ASSUME Init PROVE AgreeInv
      OBVIOUS
    <3>1. ~IsSetupAck(NULL) /\ ~IsRemapAck(NULL, "REMAP_WRITE")
      BY DEF IsSetupAck, IsRemapAck, NULL
    <3>2. ~JustSetUp /\ AtModule = NULL /\ ~isSetUp /\ ~toModule.sent /\ ~fromModule.sent
      BY <3>1 DEF Init, JustSetUp, AtModule, Nothing
    <3>3. Related
      BY <3>2 DEF Init, Related
    <3> QED BY <3>1, <3>2, <3>3 DEF Init, AgreeInv
  <2> QED BY <2>2, <2>3
<1>2. IInv /\ OnceInv /\ AgreeInv /\ [Next]_vars => OnceInv' /\ AgreeInv'
  BY OnceStep, AgreeStep
<1>3. IInv /\ OnceInv /\ AgreeInv => LengthsAgree
  <2> SUFFICES ASSUME IInv, OnceInv, AgreeInv, isSetUp => AllMapped
               PROVE  /\ toModule.sent => toModule.len = modWrite
                      /\ fromModule.sent => fromModule.len = iPdReadLength
    BY DEF LengthsAgree
  <2>1. Related /\ (fromModule.sent => fromModule.len = iPdReadLength)
    BY DEF AgreeInv
  <2>2. ASSUME toModule.sent PROVE iPdWriteLength = modWrite
    <3>1. ~fromModule.sent /\ ~JustSetUp
      BY <2>2, JustFacts DEF IInv, LayerInv, SendInv, TypeOK, DataOK, MessagesOK, Line
    <3> QED BY <2>1, <3>1 DEF Related
  <2> QED BY <2>1, <2>2 DEF AgreeInv
<1> QED BY <1>1, <1>2, <1>3, InitIInv, NextIInv, PTL DEF Spec

=============================================================================
