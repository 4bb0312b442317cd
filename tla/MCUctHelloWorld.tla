---------------------------- MODULE MCUctHelloWorld ----------------------------
(***************************************************************************)
(* A finite instance of UctHelloWorld.                                     *)
(***************************************************************************)
EXTENDS UctHelloWorld

\* An interface that connects endpoints and has no interface address, two that
\* connect to interfaces, one of them without device address, and one that does
\* neither.
MCTransports ==
    {[dev |-> TRUE, iface |-> FALSE, mode |-> "ep"],
     [dev |-> TRUE, iface |-> TRUE, mode |-> "iface"],
     [dev |-> FALSE, iface |-> TRUE, mode |-> "iface"],
     [dev |-> FALSE, iface |-> FALSE, mode |-> "none"]}
================================================================================
