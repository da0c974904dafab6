------------------------------ MODULE MCClient ------------------------------
(***************************************************************************)
(* The command-line client for TLC: its commands, and the connections a    *)
(* running `edf forward` carries.  The two share no state, so a behaviour  *)
(* steps one of them: "side" says which.                                   *)
(***************************************************************************)
EXTENDS EdfClient, LocalForward

VARIABLE side

vars == <<side, clientVars, fwdVars>>

MCInit == side \in {"command", "connection"} /\ ClientInit /\ ForwardInit

MCNext ==
    /\ UNCHANGED side
    /\ \/ side = "command" /\ ClientNext /\ UNCHANGED fwdVars
       \/ side = "connection" /\ ForwardNext /\ UNCHANGED clientVars

\* Nothing of the connections is ever enabled on the other side.
MCSpec == MCInit /\ [][MCNext]_vars /\ ForwardFairness
=============================================================================
