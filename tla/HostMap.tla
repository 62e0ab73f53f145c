------------------------------ MODULE HostMap ------------------------------
(***************************************************************************)
(* What one bucket of the ntfe host table promises its callers, without     *)
(* slots, locks or stores: a bounded cache from addresses to a priority in  *)
(* which only unauthorised hosts are ever forgotten behind their back.      *)
(***************************************************************************)
EXTENDS Integers, FiniteSets

CONSTANTS
    Addr,      \* host addresses
    Capacity,  \* entries of the bucket
    Absent     \* the host has no entry

NONE == 0
STATIC == 3

VARIABLE hosts
hvars == <<hosts>>

Present(h) == {a \in Addr : h[a] # Absent}

Init == hosts = [a \in Addr |-> Absent]

(* A public host is seen for the first time. *)
Learn(a) ==
    /\ hosts[a] = Absent
    /\ hosts' = [hosts EXCEPT ![a] = NONE]

(* A host is authorised, or its authorisation raised; never lowered. *)
Authorise(a, p) ==
    /\ hosts[a] = Absent \/ hosts[a] < p
    /\ hosts' = [hosts EXCEPT ![a] = p]

(* Cache eviction. *)
Forget(a) ==
    /\ hosts[a] = NONE
    /\ hosts' = [hosts EXCEPT ![a] = Absent]

(* A new configuration withdraws the static authorisations, and may        *)
(* withdraw others.  (The engine's interface says that it withdraws all of *)
(* them, ntfeusr.h:203; host.cpp withdraws the static ones only.  The map  *)
(* leaves it open; HostTable's ConfigureInvalidates shows the difference.) *)
Withdraw ==
    \E W \in SUBSET Present(hosts) :
        /\ {a \in Addr : hosts[a] = STATIC} \subseteq W
        /\ \A a \in W : hosts[a] # NONE
        /\ hosts' = [a \in Addr |-> IF a \in W THEN Absent ELSE hosts[a]]

Next ==
    /\ \/ \E a \in Addr : \/ Learn(a) \/ Forget(a)
                          \/ \E p \in NONE + 1 .. STATIC : Authorise(a, p)
       \/ Withdraw
    /\ Cardinality(Present(hosts')) <= Capacity

Spec == Init /\ [][Next]_hvars
=============================================================================
