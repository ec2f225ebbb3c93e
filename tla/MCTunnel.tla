------------------------------ MODULE MCTunnel ------------------------------
(* One connection in every detail, or two clients on two ports that do     *)
(* not send while the processes run out.                                    *)
EXTENDS Tunnel, TLC
CONSTANTS t, c1, c2, p1, p2, none

Ways == {{t}, {c1, c2}}
Port == (t :> p2) @@ (c1 :> p1) @@ (c2 :> p2)
Arguments == <<p1, none, p2>>
Amounts == [c \in {t, c1, c2} |-> [s \in Sides |-> IF c = t THEN 2 ELSE 0]]
Resetting == {<<t, "device">>, <<c1, "client">>}
Stalling == {<<t, "client">>}
=============================================================================
