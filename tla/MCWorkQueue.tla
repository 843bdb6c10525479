----------------------------- MODULE MCWorkQueue -----------------------------
(* Small instance of the Classification Queue: two synthetic ITEMs of one  *)
(* source, one of a second source, and one Gmail ITEM.                     *)
EXTENDS WorkQueue

CONSTANTS s1, s2, o1, g1, srcS, srcO, srcG

MCItems        == {s1, s2, o1, g1}
MCWorks        == 1..2
MCSources      == {srcS, srcO, srcG}
MCGmailSources == {srcG}
MCSourceOf     == [i \in MCItems |-> CASE i \in {s1, s2} -> srcS
                                      [] i = o1 -> srcO
                                      [] i = g1 -> srcG]
==============================================================================
