------------------------------- MODULE WALMap -------------------------------
(***************************************************************************)
(* What module Engine takes the write-ahead log for: the map Recover would *)
(* return now, and whether a broken record hides everything written from   *)
(* now on.                                                                 *)
(***************************************************************************)
CONSTANTS Keys, Cells, Absent

VARIABLES map, torn

Init == map = [k \in Keys |-> Absent] /\ torn = FALSE

\* A record is written; behind a broken one it is out of Recover's reach.
Append(k, c) ==
    /\ map' = IF torn THEN map ELSE [map EXCEPT ![k] = c]
    /\ UNCHANGED torn

\* Part of a record is written.
Break == torn' = TRUE /\ UNCHANGED map

\* Recover cuts the broken tail off.
Repair == torn' = FALSE /\ UNCHANGED map

Next == (\E k \in Keys, c \in Cells : Append(k, c)) \/ Break \/ Repair

Step == [Next]_<<map, torn>>

Spec == Init /\ [][Next]_<<map, torn>>
=============================================================================
