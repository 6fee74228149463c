--------------------------- MODULE MCConfigStore ---------------------------
(* A device and a converter, a port without an address, an unknown profile. *)
EXTENDS ConfigStore

M(type, protocol, port) == [inverterType |-> type, protocol |-> protocol,
                            port |-> port, sane |-> TRUE]

CSMain  == M("single_phase", "rtu", "device")
CSMains == {CSMain, M("spi", "modbus_tcp", "tcp:address"),
            M("spi_h3p", "rtu", "tcp:"), M("other", "rtu", "device"),
            [M("hesp", "", "device") EXCEPT !.sane = FALSE]}

\* Calls one after the other with faults, and two at a time.
CSWorkloads == {[requests |-> 4, faults |-> 3, users |-> {"page"}],
                [requests |-> 3, faults |-> 2, users |-> {"page", "command"}]}
=============================================================================
