------------------------------- MODULE Parts --------------------------------
(***************************************************************************)
(* Components that share no variable are checked together: a behaviour     *)
(* picks one part and runs it, while the variables of the others stay as   *)
(* they are.                                                               *)
(***************************************************************************)

CONSTANT None   \* no value

VARIABLE part   \* the component this behaviour runs
=============================================================================
