-------------------------- MODULE MCModbusService --------------------------
(* The poller and one user.  Words are small: the gap is 1 instead of 5 and  *)
(* the thresholds start one gap apart.                                       *)
EXTENDS ModbusAtomic

\* Two ranges, so that a poll may read some of the settings only.
MBPlan == [slow |-> <<{"battery_discharge_cutoff_soc"},
                      {"battery_low_soc_alarm", "battery_discharge_stop",
                       "battery_discharge_start", "limit"}>>]

MBInitial ==
    {[r \in Registers |->
        CASE r = "battery_discharge_cutoff_soc" -> 0
          [] r = "battery_low_soc_alarm"        -> 2
          [] r = "battery_discharge_stop"       -> 1
          [] r = "battery_discharge_start"      -> 3
          [] OTHER                              -> 0]}

\* Every threshold can come too close to each of its neighbours, from both
\* sides, and get out of the way again.
MBThresholdWrites ==
    {{<<"battery_discharge_cutoff_soc", 1>>, <<"battery_low_soc_alarm", 1>>,
      <<"battery_low_soc_alarm", 2>>},
     {<<"battery_low_soc_alarm", 1>>, <<"battery_low_soc_alarm", 2>>,
      <<"battery_discharge_start", 2>>, <<"battery_discharge_start", 3>>},
     {<<"battery_discharge_start", 2>>, <<"battery_discharge_start", 3>>,
      <<"battery_discharge_stop", 3>>}}

\* A setting, an action and a block, while the connection is swapped.
MBOtherWrites == {{<<"limit", 1>>}, {<<"reset", 1>>}, {<<"block", 1>>}}

MBLoads == [keys: {{"tcp"}}, writes: MBThresholdWrites]
           \cup [keys: {{"serial", "tcp"}}, writes: MBOtherWrites]

\* The firmware rounds the limit and a time of day.
MBAdjusted == {<<"limit", 1, 2>>, <<"block", 1, 2>>}
=============================================================================
