--------------------------- MODULE MCHorizonInputs ---------------------------
(* Two deployments of one node: two definitions of the same complete host,    *)
(* the environments of two users with their own secrets, and one submission   *)
(* whose secrets cannot be written.                                           *)
EXTENDS HorizonInputs

Submission(kind, definition, secrets) ==
    [kind |-> kind, composition |-> "CompleteHost", definition |-> definition,
     system |-> "x86_64-linux", secrets |-> secrets]

MCSubmissions ==
    {Submission("Host", "first", "cluster"),
     Submission("Host", "second", "cluster"),
     Submission("Home", "first", "ofOneUser"),
     Submission("Home", "first", "ofAnother"),
     Submission("Host", "first", "Colliding")}
=============================================================================
