-------------------------- MODULE MCCommandService --------------------------
(* Dates for TLC: either side of the end of February of a leap year and of  *)
(* the end of a year.                                                       *)
EXTENDS CommandService

MCDates == {<<2016, 2, 28, 23, 59, 59>>, <<2015, 12, 31, 23, 59, 59>>}

OfClock    == trueTime # Seconds(DefaultDate) \/ last.cmd = "CMD_READ_DATE"
OfSettings == \/ {last.cmd, m_send_buf.cmd} \cap Settings # {}
              \/ expected # Factory \/ shown # [c \in Settings |-> Unknown]

(* Bounds: the tool works with the settings or with the clock, with the     *)
(* clock, and while the key is held, with little under way.                 *)
Bound ==
  /\ OfClock => ~OfSettings /\ cnt_net_restore = 0
  /\ OfClock => Len(requests) + queued <= 2
  /\ cnt_net_restore > 0 => Len(requests) + queued <= 1
=============================================================================
