----------------------------- MODULE MCDirectory -----------------------------
(* Instances of Directory for TLC.                                          *)
EXTENDS Directory, TLC

CONSTANTS ann, ben, a1, a2, b1, i1, i2, i3, csv

\* Ann may change her address, Ben has one; nobody gets another's.
TwoPeople == [p \in People |-> IF p = ann THEN {a1, a2} ELSE {b1}]

\* Ben may get the address Ann had before.
PassedOn == [p \in People |-> IF p = ann THEN {a1, a2} ELSE {a1, b1}]

\* Addresses never change.
OneAddress == [p \in People |-> IF p = ann THEN {a1} ELSE {b1}]

=============================================================================
