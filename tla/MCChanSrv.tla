------------------------------ MODULE MCChanSrv -------------------------------
(* A small instance of ChanSrv. *)
EXTENDS ChanSrv, TLC

CONSTANTS c1, c2, c3, l1, l2, k1

\* Two connections to one address and one to another.
TwoListeners == c1 :> l1 @@ c2 :> l1 @@ c3 :> l2
=============================================================================
