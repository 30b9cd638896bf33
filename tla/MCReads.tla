------------------------------ MODULE MCReads ------------------------------
(***************************************************************************)
(* Reads for TLC: two entities and a few records.  The ids that an entity  *)
(* has at first are the first of a fixed order; others may be made or      *)
(* removed anywhere.                                                       *)
(***************************************************************************)
EXTENDS Reads

MCEntity == {"Customer", "Vendor"}
MCRecord == 1 .. MaxRecords + 1

MCInit ==
    /\ Init
    /\ \A e \in Entity : \A i \in DOMAIN store[e] : store[e][i] = i

MCSpec == MCInit /\ [][Next]_vars /\ WF_vars(ReadPage) /\ WF_vars(LookUp)
=============================================================================
