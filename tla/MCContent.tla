------------------------------ MODULE MCContent ------------------------------
(* A small instance of Content: a draft of each of two topics, the second   *)
(* of which may be the scheduled article of the second day.                 *)
EXTENDS Content

CONSTANTS cabling, voip, cabling1, voip1, devto

Topics == [s \in {cabling1, voip1} |-> IF s = voip1 THEN voip ELSE cabling]
OneChannel == <<devto>>
NoneOrOne == {{}, {[date |-> 2, slug |-> voip1]}}
OneTopic == {<<cabling>>}
=============================================================================
