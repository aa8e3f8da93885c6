----------------------------- MODULE MCBackend ------------------------------
(***************************************************************************)
(* An instance of Backend: for every component the smallest bounds under   *)
(* which each of its steps happens.                                        *)
(***************************************************************************)
EXTENDS Backend

CONSTANTS c1, c2, h1, h2

(* Two worker processes where the faults are those retries are for, one    *)
(* where another party meddles.                                            *)
MCExportSetups ==
    [provider : {"IIKO", "MOYSKLAD"}, faults : {{"crash", "provider"}}, workers : {2}]
    \cup [provider : {"IIKO"}, faults : {{"webhook"}}, workers : {1}]
    \cup [provider : {"MOYSKLAD"}, faults : {{"toggle"}, {"database", "provider", "late"}}, workers : {1}]

(* Either catalog's owner holds one of the two zones.                      *)
MCHolderOf == [h \in Hosts |-> IF h = h1 THEN c1 ELSE c2]
=============================================================================
