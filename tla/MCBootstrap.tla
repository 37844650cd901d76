---------------------------- MODULE MCBootstrap ----------------------------
(* The bootstrap for TLC: one admitted request of each mode, with a Horizon  *)
(* input twice and a hermetic test once, and one request of each mode with   *)
(* unsafe fields.                                                            *)
EXTENDS Bootstrap

Request(mode, input, test, unsafe) ==
    [mode |-> mode, input |-> input, test |-> test, unsafe |-> unsafe]

MCRequests ==
    {Request("BuildOnly", "Horizon", FALSE, {}),
     Request("Remote", "Horizon", FALSE, {}),
     Request("Local", "Direct", TRUE, {}),
     Request("BuildOnly", "Direct", FALSE, {"gcRootPath"}),
     Request("Remote", "Horizon", TRUE, {"sameIdentity", "evidencePath"}),
     Request("Local", "Direct", FALSE, {"bootEntriesDirectory"})}
=============================================================================
