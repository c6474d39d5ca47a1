------------------------------- MODULE MCSignal -------------------------------
(* Instances of UnrSignal for TLC. *)
EXTENDS UnrSignal

CONSTANTS s1, s2, s3

\* two messages per round on s1, one on the others
MCNumEvent == [s \in Sigs |-> IF s = s1 THEN 2 ELSE 1]
NoPool == <<>>
Pool12 == <<s1, s2>>
=============================================================================
