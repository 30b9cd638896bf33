----------------------------- MODULE Connection -----------------------------
(***************************************************************************)
(* What the token store promises of the connection to one ERP: a login     *)
(* that brings a refresh token makes it, and it lasts.  Only a fault may   *)
(* lose it, and then only another such login brings it back.  The          *)
(* connection is there while the ERP accepts a refresh token that the      *)
(* connector can still get hold of.                                        *)
(***************************************************************************)
EXTENDS Naturals

VARIABLES
    conn,   \* "none" before the first refresh token
    logins, \* logins so far
    faults  \* faults so far: of the network, the disk, the process

vars == <<conn, logins, faults>>

\* A login, which may bring no refresh token.
Connect ==
    /\ logins' = logins + 1
    /\ conn' \in {conn, "connected"}
    /\ UNCHANGED faults

\* A fault, which may lose the connection.
Trouble ==
    /\ faults' = faults + 1
    /\ \/ UNCHANGED conn
       \/ conn = "connected" /\ conn' = "lost"
    /\ UNCHANGED logins

Init ==
    /\ faults = 0
    /\ \/ conn = "none" /\ logins = 0
       \/ conn = "connected" /\ logins = 1

Next == Connect \/ Trouble

Spec == Init /\ [][Next]_vars
=============================================================================
