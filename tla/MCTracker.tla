----------------------------- MODULE MCTracker ------------------------------
(* A router and an endpoint, whose id is used by two processes on two hosts. *)
EXTENDS Tracker
MCIds == {"router", "endpoint"}
MCRouters == {"router"}
MCLinks == {<<"router", "endpoint">>}
MCHostOf(p) == IF p[1] = "router" THEN <<"a">> ELSE IF p[2] = 1 THEN <<"a">> ELSE <<"b">>
MCInstanceInfo == {"appName", "compiler"}
MCHostInfo == {"hostname"}
=============================================================================
