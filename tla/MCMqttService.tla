--------------------------- MODULE MCMqttService ---------------------------
(* One handler beside the sync loop, a profile and a broker that change.     *)
EXTENDS MqttService

At(pl, pr) == [place |-> pl, profile |-> pr, enabled |-> TRUE]
Off(pl)    == [place |-> pl, profile |-> "spi_h3p", enabled |-> FALSE]

\* Another profile and back, another broker, no broker for a while.
MQLoads ==
    {[configs |-> <<At("a", "hesp_sh3"), At("a", "spi_h3p")>>,
      topics |-> {}, faults |-> 2],
     [configs |-> <<At("a", "spi_h3p"), At("a", "hesp_sh3")>>,
      topics |-> {"target"}, faults |-> 1],
     [configs |-> <<At("a", "spi_h3p"), At("b", "spi_h3p")>>,
      topics |-> {"limit"}, faults |-> 1],
     [configs |-> <<At("a", "hesp_sh3"), Off("a"), At("b", "spi_h3p")>>,
      topics |-> {}, faults |-> 1]}
=============================================================================
