---------------------------- MODULE ApdrWatchdog ----------------------------
(***************************************************************************)
(* The serial data link observed by a clock that counts the ticks since    *)
(* the driver last accepted a telegram of the module (or since it sent its *)
(* first), to compare what abcc.h says of ABCC_CbfWdTimeout with what the  *)
(* driver does: APDR_SM_IDLE alone reloads the watchdog (apdr_ser.c:942),  *)
(* the further fragments of a message only let it run on (362, 464).       *)
(***************************************************************************)
EXTENDS ApdrSerial

VARIABLE silence    \* ticks since the last accepted telegram, at most WdTime

InitSilence == Init /\ silence = 0

NextSilence ==
  /\ Next
  /\ silence' = CASE WaitAccept \/ SmInitialHandshake -> 0
                  [] anybus_timeout /\ silence < WdTime -> silence + 1
                  [] OTHER -> silence

SpecSilence == InitSilence /\ [][NextSilence]_<<vars, silence>>

(* ABCC_CbfWdTimeout "signals that there has been no communication with the *)
(* ABCC module for at least the predefined time-out value" (abcc.h:632).    *)
WdTimeoutMeansSilence ==
  [][~abcc_fWdTimeout /\ abcc_fWdTimeout' => silence >= WdTime]_<<vars, silence>>
=============================================================================
