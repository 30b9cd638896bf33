---------------------------- MODULE MCQboWrites ----------------------------
(***************************************************************************)
(* Small instances of QboWrites for TLC: two updates of different fields,  *)
(* a payment and a create.                                                 *)
(***************************************************************************)
EXTENDS QboWrites

Updates == {"u1", "u2"}
UpdatesAndPayment == Updates \cup {"p"}
Creates == {"c", "p"}

KindOf == [r \in Request |-> IF r \in Updates THEN "update"
                             ELSE IF r = "p" THEN "pay" ELSE "create"]
NamesOf == [r \in Request |-> IF r = "u1" THEN {"due_date"}
                              ELSE IF r = "u2" THEN {"date"} ELSE {}]
=============================================================================
