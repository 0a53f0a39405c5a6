---------------------------- MODULE MCPortalServer ----------------------------
(* A small instance of PortalServer.                                       *)
EXTENDS PortalServer

CONSTANTS u, v

\* An admin list, without and with a bearer token, or fallback logins.
ThreeConfigs ==
    {[adminListPath |-> TRUE, dev |-> None, tailnet |-> None, bearer |-> None],
     [adminListPath |-> TRUE, dev |-> None, tailnet |-> u, bearer |-> v],
     [adminListPath |-> FALSE, dev |-> u, tailnet |-> v, bearer |-> None]}
=============================================================================
