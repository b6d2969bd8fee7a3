------------------------------ MODULE MCServer ------------------------------
(***************************************************************************)
(* Instance of Server for TLC: the two handlers that use two clients each. *)
(***************************************************************************)
EXTENDS Server, TLC

CONSTANTS r1, r2

TwoRoutes == r1 :> "execute" @@ r2 :> "sync"
=============================================================================
