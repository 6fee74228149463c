--------------------------- MODULE MCPollWatchdog ---------------------------
(* Short and long intervals, and no port; slow polls longer than the fast    *)
(* interval.                                                                *)
EXTENDS PollWatchdog

WDConfigs == {[fast |-> 1, slow |-> 2, enabled |-> TRUE],
              [fast |-> 2, slow |-> 3, enabled |-> TRUE],
              [fast |-> 1, slow |-> 3, enabled |-> FALSE]}
=============================================================================
