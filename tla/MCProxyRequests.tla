-------------------------- MODULE MCProxyRequests --------------------------
(* Small instances of ProxyRequests for TLC. *)
EXTENDS ProxyRequests

(* FairPathSpec with its weak fairness written out, which TLC evaluates     *)
(* faster: a busy request always has a step of its own, each step of it     *)
(* changes its record, and nobody else does but Restart, which makes it     *)
(* idle.                                                                    *)
PlainFairPathSpec ==
  /\ PathSpec
  /\ \A r \in Requests :
       []<>(req[r].phase = "idle") \/ []<><<req'[r] # req[r]>>_req
=============================================================================
