------------------------------ MODULE MCLearn ------------------------------
(***************************************************************************)
(* Two instances with bandwidth limits, one with a single client.          *)
(***************************************************************************)
EXTENDS LearnAddress

TwoDevs == {"tun1", "tun2"}

TwoDevsOf == [ip \in Ips |-> IF ip = 1 THEN "tun1" ELSE "tun2"]

=============================================================================
