----------------------------- MODULE ProcessData -----------------------------
(***************************************************************************)
(* The process data of the board: the application data object (appd.c)     *)
(* with its five objects and the maps that lay them out, and the buffers   *)
(* of the link layer (aplink.c) between the maps and the telegrams.        *)
(*                                                                         *)
(* APPD lays out the write process data with its write map and reads the   *)
(* read process data with its read map.  The module changes either map by  *)
(* a remap command: APPD switches its map at once                          *)
(* (appd_RemapProcessDataCommand), the lengths of the link layer and the   *)
(* layout the module uses are switched when the response has gone out      *)
(* (CompleteMsgTrans, APLINK_UseNewWritePdMap), and between the two a flag *)
(* keeps process data from crossing.  Aplink shows that driver and module  *)
(* switch at the same telegram, so that the switch is one step here; this  *)
(* module is about what the bytes mean on either side of it.               *)
(*                                                                         *)
(* Everything runs in the main loop: a step is one call that the data      *)
(* link, the message queue or the one-second timer makes.                  *)
(***************************************************************************)
EXTENDS Integers, SequencesExt

CONSTANTS
  MapAdis,      \* objects the module puts into its maps, also unknown ones
  SetAdis,      \* objects the module sets by command
  MaxItems,     \* longest map the module asks for
  MaxAdd,       \* items one remap adds at most
  MaxRemaps,    \* remaps the module makes
  Byte,         \* values of the bytes the module sends
  MaxSpd,       \* the test value of TestSuiteJob counts up to here
  Inserts,      \* whether the module also inserts items before others
  Grows,        \* whether a remap may lengthen the write process data
  Restless      \* whether the module changes its state during a remap

NUMBER_OF_INSTANCES == 5
PdLen == 12                     \* bytes of the buffers: the longest process data and a CRC
CrcByte == 255                  \* a byte of a CRC

(* appd_asInstance: size in bytes, SET access and range.  The limits of the *)
(* speed are compared as UINT16, -500 as 65036.                             *)
appd_asInstance ==
  << [size |-> 2, set |-> FALSE, min |-> 65036, max |-> 500],    \* speed
     [size |-> 2, set |-> FALSE, min |-> -40,   max |-> 125],    \* temperature
     [size |-> 2, set |-> TRUE,  min |-> 0,     max |-> 500],    \* reference speed
     [size |-> 1, set |-> TRUE,  min |-> 0,     max |-> 1],      \* direction
     [size |-> 1, set |-> TRUE,  min |-> 0,     max |-> 6] >>    \* trip current

Adi  == DOMAIN appd_asInstance
Area == {"read", "write"}

ASSUME ProcessDataAssumption ==
  /\ MapAdis \subseteq Nat /\ SetAdis \subseteq Adi
  /\ {MaxAdd, MaxRemaps} \subseteq Nat
  /\ MaxItems \in 1 .. NUMBER_OF_INSTANCES
  /\ Byte \subseteq 0 .. 255 /\ Byte # {}
  /\ MaxSpd \in Nat
  /\ {Inserts, Grows, Restless} \subseteq BOOLEAN

VARIABLES
  value,          \* the values of the objects, *pxValue
  psMaps, iNbrMaps, pdSize,   \* the two maps of APPD, appd_iReadSize, appd_iWriteSize
  \* the link layer: lengths, buffers and flags, for "read" and "write"
  iPdLength, pdBuffer, fRemapping, fNewWritePdAvailable,
  txPd,           \* the process data in abTransmissionBuffer and what follows it
  ABCC_eAbccState,   \* the state of the module the application knows of
  spd,            \* the counter of TestSuiteJob
  \* external: the layouts the module uses, and the new one while the response
  \* to its remap is under way; the area it remaps
  \* and how often it has
  layout, newLayout, remapArea, remaps,
  \* history: what APPD published last since the last switch of the write
  \* layout; the process data handed up in this step
  published, given

appd   == <<psMaps, iNbrMaps, pdSize>>
aplink == <<iPdLength, pdBuffer, fRemapping, fNewWritePdAvailable>>
module == <<layout, newLayout, remapArea, remaps>>
vars   == <<value, appd, aplink, txPd, ABCC_eAbccState, spd, module, published,
            given>>

-----------------------------------------------------------------------------
(* Layouts: a sequence of items, each the number of an object and the       *)
(* number of its elements that are mapped, none or one.                     *)
Size(adi)     == appd_asInstance[adi].size
ItemSize(item) == item.elements * Size(item.adi)

Bytes(items) == FoldLeft(LAMBDA n, item : n + ItemSize(item), 0, items)
Offset(items, k) == Bytes(SubSeq(items, 1, k - 1))

(* appd_SwapToNetOrder: most significant byte first.                        *)
Signed(adi, n) == IF appd_asInstance[adi].min < 0 /\ n >= 32768 THEN n - 65536 ELSE n

Decoded(buffer, o, adi) ==
  IF Size(adi) = 2 THEN Signed(adi, 256 * buffer[o + 1] + buffer[o + 2]) ELSE buffer[o + 1]

Encoded(adi, v) ==
  IF Size(adi) = 2 THEN <<(v % 65536) \div 256, v % 256>> ELSE <<v>>

Packed(items, val) ==
  FoldLeft(LAMBDA bytes, item :
             IF item.elements = 0 THEN bytes ELSE bytes \o Encoded(item.adi, val[item.adi]),
           <<>>, items)

(* appd_UpdateAdiVal: a value out of range is not stored.                   *)
InRange(adi, v) == ~(v > appd_asInstance[adi].max) /\ ~(v < appd_asInstance[adi].min)

appd_UpdateAdiVal(val, adi, v) == IF InRange(adi, v) THEN [val EXCEPT ![adi] = v] ELSE val

(* APPD_CbfNewReadProcessData: walks the buffer with the read map.          *)
NewReadProcessData(items, buffer) ==
  FoldLeftDomain(LAMBDA val, k :
                   IF items[k].elements = 0 THEN val
                   ELSE appd_UpdateAdiVal(val, items[k].adi,
                          Decoded(buffer, Offset(items, k), items[k].adi)),
                 value, items)

(* A copy of the first n bytes of one buffer over another one.              *)
Copied(to, from, n) == [i \in DOMAIN to |-> IF i <= n THEN from[i] ELSE to[i]]

Mapped(area) == SubSeq(psMaps[area], 1, iNbrMaps[area])

-----------------------------------------------------------------------------
(* After the set-up (aplink.c:612-650): APPD_MapAdiToPd has laid out the    *)
(* initial maps, ABCC_CbfCfgCompleted has published the write process data  *)
(* and the data link has been told the lengths.                             *)
Item(adi) == [adi |-> adi, elements |-> 1]
Unused    == [adi |-> 0, elements |-> 0]

InitialMaps == [read |-> <<Item(3), Item(4)>>, write |-> <<Item(1)>>]

Array(items) == [i \in 1 .. NUMBER_OF_INSTANCES |->
                   IF i <= Len(items) THEN items[i] ELSE Unused]
Zeros  == [i \in 1 .. PdLen |-> 0]
None   == [area |-> "none", items |-> <<>>, size |-> 0]
NotYet == <<-1>>

Init ==
  /\ value = <<0, 25, 0, 1, 4>>
  /\ psMaps = [a \in Area |-> Array(InitialMaps[a])]
  /\ iNbrMaps = [a \in Area |-> Len(InitialMaps[a])]
  /\ pdSize = [a \in Area |-> Bytes(InitialMaps[a])]
  /\ iPdLength = pdSize
  /\ pdBuffer = [a \in Area |-> Zeros]
  /\ fRemapping = [a \in Area |-> FALSE] /\ fNewWritePdAvailable = TRUE
  /\ txPd = Zeros
  /\ ABCC_eAbccState = "WAIT_PROCESS"
  /\ spd = 0
  /\ layout = InitialMaps /\ newLayout = None /\ remaps = 0 /\ remapArea \in Area
  /\ published = Packed(InitialMaps["write"], value) /\ given = <<>>

-----------------------------------------------------------------------------
(* Write process data.  APPD_ProcessDataChanged packs the objects with the  *)
(* write map; the rest of abData is what the stack holds.  APLINK_Write-    *)
(* ProcessData takes as many bytes as the length it knows, and signals new  *)
(* data when they differ from those it took last.                           *)
Differs(a, b, n) == \E i \in 1 .. n : a[i] # b[i]

ProcessDataChanged_NoFlag(val) ==
  \E junk \in Byte :
    LET packed == Packed(Mapped("write"), val)
        abData == [i \in 1 .. PdLen |-> IF i <= Len(packed) THEN packed[i] ELSE junk]
        n      == iPdLength["write"]
    IN  /\ pdBuffer' = [pdBuffer EXCEPT !["write"] = Copied(@, abData, n)]
        /\ published' = packed
        /\ UNCHANGED fNewWritePdAvailable

ProcessDataChanged(val) ==
  \E junk \in Byte :
    LET packed == Packed(Mapped("write"), val)
        abData == [i \in 1 .. PdLen |-> IF i <= Len(packed) THEN packed[i] ELSE junk]
        n      == iPdLength["write"]
    IN  /\ IF Differs(pdBuffer["write"], abData, n)
           THEN /\ pdBuffer' = [pdBuffer EXCEPT !["write"] = Copied(@, abData, n)]
                /\ fNewWritePdAvailable' = TRUE
           ELSE UNCHANGED <<pdBuffer, fNewWritePdAvailable>>
        /\ published' = packed

(* TestSuiteJob, once a second: it assigns the reference speed past the     *)
(* range check of APPD.                                                     *)
TestSuiteJob ==
  /\ ABCC_eAbccState = "PROCESS_ACTIVE" /\ spd < MaxSpd
  /\ spd' = spd + 1
  /\ value' = [value EXCEPT ![3] = spd]
  /\ ProcessDataChanged(value')
  /\ given' = <<>>
  /\ UNCHANGED <<appd, iPdLength, fRemapping, txPd, ABCC_eAbccState, module>>

(* apdr_BuildSerialTelegram: new process data is fetched unless its layout  *)
(* is being switched (APLINK_GetNewProcessData); otherwise the transmission *)
(* buffer still holds what was sent last.  The CRC follows it.              *)
Fetches == fNewWritePdAvailable /\ ~fRemapping["write"] /\ iPdLength["write"] # 0

WithCrc(pd, n) == [i \in DOMAIN pd |-> IF i \in {n + 1, n + 2} THEN CrcByte ELSE pd[i]]

Telegram ==
  LET n  == iPdLength["write"]
      pd == IF Fetches THEN Copied(txPd, pdBuffer["write"], n) ELSE txPd
  IN  WithCrc(pd, n)

SendTelegram ==
  /\ txPd' = Telegram
  /\ fNewWritePdAvailable' = (fNewWritePdAvailable /\ ~Fetches)
  /\ given' = <<>>
  /\ UNCHANGED <<value, appd, iPdLength, pdBuffer, fRemapping, ABCC_eAbccState, spd,
                 module, published>>

-----------------------------------------------------------------------------
(* Read process data.  APLINK_PutProcessData compares it with what came     *)
(* last; while the read layout is being switched it leaves the buffer       *)
(* alone.  ABCC_CbfNewReadPd is told of new data and of a new state.        *)
ReadBuffer_Always(bytes) == Copied(pdBuffer["read"], bytes, iPdLength["read"])

ReadBuffer(bytes) ==
  IF fRemapping["read"] THEN pdBuffer["read"]
                        ELSE Copied(pdBuffer["read"], bytes, iPdLength["read"])

HandsUp(bytes, state) ==
  /\ state = "PROCESS_ACTIVE"
  /\ \/ ABCC_eAbccState # "PROCESS_ACTIVE"
     \/ ReadBuffer(bytes) # pdBuffer["read"]

PutProcessData(bytes, state) ==
  /\ pdBuffer' = [pdBuffer EXCEPT !["read"] = ReadBuffer(bytes)]
  /\ ABCC_eAbccState' = state
  /\ IF HandsUp(bytes, state)
     THEN \E junk \in Byte :
            value' = NewReadProcessData(Mapped("read"),
                       [i \in 1 .. PdLen |-> IF i <= iPdLength["read"]
                                             THEN pdBuffer'["read"][i] ELSE junk])
     ELSE UNCHANGED value

(* External: the module answers with process data in its read layout.       *)
AnswerReceived ==
  /\ \E bytes \in [1 .. Bytes(layout["read"]) -> Byte],
        state \in {"PROCESS_ACTIVE", "WAIT_PROCESS"} :
       /\ ~Restless /\ fRemapping["read"] => state = ABCC_eAbccState
       /\ PutProcessData(bytes, state)
       /\ given' = IF HandsUp(bytes, state) THEN bytes ELSE <<>>
  /\ UNCHANGED <<appd, iPdLength, fRemapping, fNewWritePdAvailable, txPd, spd, module,
                 published>>

-----------------------------------------------------------------------------
(* Commands to the instances (appd_InstanceCommand).  The others of them    *)
(* only read.                                                               *)
appd_InstanceCommand_AnyAccess(adi, data) ==
  value' = IF Len(data) = Size(adi)
           THEN appd_UpdateAdiVal(value, adi, Decoded(data, 0, adi)) ELSE value

appd_InstanceCommand(adi, data) ==
  value' = IF appd_asInstance[adi].set /\ Len(data) = Size(adi)
           THEN appd_UpdateAdiVal(value, adi, Decoded(data, 0, adi)) ELSE value

SetValue ==
  /\ \E adi \in SetAdis, n \in 1 .. 2 : \E data \in [1 .. n -> Byte] :
        appd_InstanceCommand(adi, data)
  /\ given' = <<>>
  /\ UNCHANGED <<appd, aplink, txPd, ABCC_eAbccState, spd, module, published>>

-----------------------------------------------------------------------------
(* appd_RemapProcessDataCommand: remove `remove' items from position        *)
(* `start' (counted from zero) on and put `items' there, with data of       *)
(* `dataSize' bytes.                                                        *)
Known(item) == item.adi \in Adi /\ item.elements <= 1

NewSize(area, start, remove, items) ==
  pdSize[area] - Bytes(SubSeq(psMaps[area], start + 1, start + remove)) + Bytes(items)

Acceptable(area, start, remove, items, dataSize) ==
  /\ dataSize >= 4
  /\ start <= iNbrMaps[area]
  /\ start + remove <= iNbrMaps[area]
  /\ iNbrMaps[area] - remove + Len(items) <= 32
  /\ dataSize = 4 + 4 * Len(items)
  /\ \A k \in DOMAIN items : Known(items[k])
  /\ NewSize(area, start, remove, items) <= 256

(* The items behind the removed ones are moved: forward by the difference   *)
(* when the map gets shorter; when it gets longer, each of them is replaced *)
(* by the one that many places before it, from the last one on down to the  *)
(* first one behind the removed ones.                                       *)
Moved(map, n, start, remove, add) ==
  [i \in DOMAIN map |->
     CASE remove > add /\ i \in start + add + 1 .. n - (remove - add) -> map[i + remove - add]
       [] remove < add /\ i \in start + remove + 1 .. n ->
            IF i > add - remove THEN map[i - (add - remove)] ELSE Unused
       [] OTHER -> map[i]]

Put(map, start, items) ==
  [i \in DOMAIN map |-> IF i \in start + 1 .. start + Len(items) THEN items[i - start]
                                                                 ELSE map[i]]

Splice(items, start, remove, new) ==
  SubSeq(items, 1, start) \o new \o SubSeq(items, start + remove + 1, Len(items))

RemapProcessData_OldSize(area, start, remove, items) ==
  /\ psMaps' = [psMaps EXCEPT ![area] =
                  Put(Moved(@, iNbrMaps[area], start, remove, Len(items)), start, items)]
  /\ iNbrMaps' = [iNbrMaps EXCEPT ![area] = @ + Len(items) - remove]
  /\ pdSize' = [pdSize EXCEPT ![area] = @ + Bytes(items)]

RemapProcessData(area, start, remove, items) ==
  /\ psMaps' = [psMaps EXCEPT ![area] =
                  Put(Moved(@, iNbrMaps[area], start, remove, Len(items)), start, items)]
  /\ iNbrMaps' = [iNbrMaps EXCEPT ![area] = @ + Len(items) - remove]
  /\ pdSize' = [pdSize EXCEPT ![area] = NewSize(area, start, remove, items)]

(* External: the module sends one remap at a time.  Nothing is said of one  *)
(* that lengthens a map from its first position on without removing an      *)
(* item: the index of the loop that moves the items is unsigned, and the    *)
(* loop does not end.                                                       *)
Asks(area, start, remove, items) ==
  /\ iNbrMaps[area] - remove + Len(items) <= MaxItems
  /\ Len(items) > remove => start + remove # 0
  /\ ~Inserts /\ Len(items) > remove => start + remove = iNbrMaps[area]
  /\ ~Grows /\ area = "write" => NewSize(area, start, remove, items) <= pdSize[area]

Refused ==
  /\ given' = <<>>
  /\ UNCHANGED <<value, appd, aplink, txPd, ABCC_eAbccState, spd, module, published>>

Accepted(area, start, remove, items) ==
  /\ RemapProcessData(area, start, remove, items)
  /\ fRemapping' = [fRemapping EXCEPT ![area] = TRUE]
  /\ remaps' = remaps + 1
  /\ newLayout' = [area |-> area, size |-> pdSize'[area],
                   items |-> Splice(layout[area], start, remove, items)]
  /\ given' = <<>>
  /\ UNCHANGED <<value, iPdLength, pdBuffer, fNewWritePdAvailable, txPd,
                 ABCC_eAbccState, spd, layout, remapArea, published>>

appd_RemapProcessDataCommand(area, start, remove, items, dataSize) ==
  \/ ~Acceptable(area, start, remove, items, dataSize) /\ Refused
  \/ /\ Acceptable(area, start, remove, items, dataSize)
     /\ Asks(area, start, remove, items)
     /\ Accepted(area, start, remove, items)

Items == UNION {[1 .. n -> [adi : MapAdis, elements : 0 .. 2]] : n \in 0 .. MaxAdd}

RemapCommand ==
  /\ newLayout = None /\ remaps < MaxRemaps
  /\ \E start, remove \in 0 .. iNbrMaps[remapArea] + 1, items \in Items :
       \E dataSize \in {2, 4 + 4 * Len(items), 5 + 4 * Len(items)} :
          appd_RemapProcessDataCommand(remapArea, start, remove, items, dataSize)

(* The response has gone out, for the write layout one exchange ago         *)
(* (APLINK_CompleteMsgTrans, APLINK_UseNewWritePdMap): driver and module    *)
(* switch the layout.                                                       *)
LayoutSwitched ==
  /\ newLayout # None
  /\ LET area == newLayout.area
     IN  /\ iPdLength' = [iPdLength EXCEPT ![area] = newLayout.size]
         /\ fRemapping' = [fRemapping EXCEPT ![area] = FALSE]
         /\ layout' = [layout EXCEPT ![area] = newLayout.items]
         /\ published' = IF area = "write" THEN NotYet ELSE published
  /\ newLayout' = None
  /\ given' = <<>>
  /\ UNCHANGED <<value, remapArea, remaps, appd, pdBuffer, fNewWritePdAvailable, txPd, ABCC_eAbccState, spd>>

Next == TestSuiteJob \/ SendTelegram \/ AnswerReceived \/ SetValue
        \/ RemapCommand \/ LayoutSwitched

Spec == Init /\ [][Next]_vars

-----------------------------------------------------------------------------
(* After every command the map APPD walks is the layout the module has, or  *)
(* is about to use, its size is that of its items, and outside a remap the  *)
(* link layer exchanges that many bytes (appd.c:1223-1436, "all actions of  *)
(* the command shall either be carried out or rejected").                   *)
Agreed(area) == IF newLayout.area = area THEN newLayout.items ELSE layout[area]

MapsAgree ==
  \A area \in Area :
    /\ Mapped(area) = Agreed(area)
    /\ pdSize[area] = Bytes(Agreed(area))
    /\ iPdLength[area] = Bytes(layout[area])
    /\ fRemapping[area] = (newLayout.area = area)

(* Read process data that is handed up reaches the objects it was meant     *)
(* for: an object that the module maps gets the value of its last item, if  *)
(* it is in range, and every other object keeps its value (appd.c:267-301,  *)
(* aplink.c:713-764).                                                       *)
Meant(adi) == {k \in DOMAIN layout["read"] : layout["read"][k] = Item(adi)}
ValueFor(k) == Decoded(given', Offset(layout["read"], k), layout["read"][k].adi)

HandedUpRight ==
  [][given' # <<>> =>
       \A adi \in Adi :
         LET good == {k \in Meant(adi) : InRange(adi, ValueFor(k))}
         IN  value'[adi] = IF good = {} THEN value[adi]
                           ELSE ValueFor(CHOOSE k \in good : \A j \in good : j <= k)]_vars

(* What APPD published last is what the next telegram carries, outside a    *)
(* remap and although it is fetched only when it differs from what was      *)
(* published before (aplink.c:469-531, 828-906; sys_adpt.h:347).            *)
PublishedIsSent ==
  ~fRemapping["write"] /\ published # NotYet =>
    SubSeq(Telegram, 1, iPdLength["write"]) = published

(* The network moves an object only to a value in its range, and only one   *)
(* that may be set or that the module maps to its read process data         *)
(* (appd.c:955-1009, 1489-1540); the test job assigns past that check.      *)
NetworkKeepsRange ==
  [][spd' = spd =>
       \A adi \in Adi : value'[adi] # value[adi] =>
         /\ InRange(adi, value'[adi])
         /\ appd_asInstance[adi].set \/ Meant(adi) # {}]_vars
=============================================================================
