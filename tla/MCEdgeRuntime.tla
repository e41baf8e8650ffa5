---------------------------- MODULE MCEdgeRuntime ----------------------------
(* Two groups with one mapped service each; group g1 may reconnect once.     *)
EXTENDS EdgeRuntime, TLC

CONSTANTS g1, g2, k1, k2, p1, p2, c1

OneKeyEach == (k1 :> g1) @@ (k2 :> g2)
OneReconnect == (g1 :> 2) @@ (g2 :> 1)

\* Both services are mapped, or the first one on the port of the second.
MovedPort == { (k1 :> p1) @@ (k2 :> p2),
               (k1 :> p2) @@ (k2 :> NoPort) }

=============================================================================
