---------------------------- MODULE MCTargetPool ----------------------------
(* A small pool and one service that is hidden from the group at first, or  *)
(* published.                                                               *)
EXTENDS TargetPool, TLC

CONSTANTS v1

HiddenOrPublished == { (v1 :> "hidden"), (v1 :> "published") }

=============================================================================
