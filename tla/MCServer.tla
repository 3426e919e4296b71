------------------------------ MODULE MCServer -------------------------------
(***************************************************************************)
(* A small instance of Server for TLC.  The client that stays sends two    *)
(* short lines; the one that may go away sends a line that is cut and may  *)
(* overflow the buffer, and one that does overflow it.  The ends of these  *)
(* look like requests.                                                     *)
(***************************************************************************)
EXTENDS Server

MCScript == [c \in Conns |->
    IF c \in Leavers THEN <<"x", "FLUSH", "m", NL, "x", "x", "STATS", "n", NL>>
    ELSE <<"FLUSH", "m", NL, "QUIT", NL>>]
=============================================================================
