--------------------------- MODULE MCMiniKvmVmcs ---------------------------
(* Instances of MiniKvmVmcs for TLC. *)
EXTENDS MiniKvmVmcs, TLC
CONSTANTS c1, c2, c3, v1, v2, t1, t2, t3

TwoVms == (t1 :> {v1}) @@ (t2 :> {v1}) @@ (t3 :> {v2})

\* Two VMs on disjoint CPUs; t2 runs and closes the first one anywhere on
\* its side.
Isolated ==
  [use |-> TwoVms, vmx |-> {c1, c2, c3},
   affinity |-> (t1 :> {c1}) @@ (t2 :> {c1, c2}) @@ (t3 :> {c3})]

\* Two VMs whose threads share c2; c3 came online after the module was loaded.
Shared ==
  [use |-> TwoVms, vmx |-> {c1, c2},
   affinity |-> (t1 :> {c1}) @@ (t2 :> {c1, c2, c3}) @@ (t3 :> {c2})]

\* One VM whose creating thread is bound to no CPU; c3 came online late.
Unbound ==
  [use |-> (t1 :> {v1}) @@ (t2 :> {v1}) @@ (t3 :> {}), vmx |-> {c1, c2},
   affinity |-> (t1 :> {c1, c2, c3}) @@ (t2 :> {c1, c2}) @@ (t3 :> {c3})]

AllPlacements == {Isolated, Shared, Unbound}
=============================================================================
