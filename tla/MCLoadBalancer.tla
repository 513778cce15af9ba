---- MODULE MCLoadBalancer ----
(* Instances of LoadBalancer for TLC. *)
EXTENDS LoadBalancer

\* One backend may answer other than 200, the others break down.
MCConditions == [i \in Backends |-> IF i = 0 THEN {"up", "sick"} ELSE {"up", "down"}]
MCHung == [i \in Backends |-> {"up", "hung"}]
====
