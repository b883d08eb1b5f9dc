---------------------------- MODULE MCSubAgents ----------------------------
(* The delegations of one turn on a small instance. *)
EXTENDS SubAgents

\* Everything outstanding, or some job by its id.
MCWanted == {{}, {2}}
============================================================================
