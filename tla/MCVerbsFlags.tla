------------------------------ MODULE MCVerbsFlags ------------------------------
(* An instance of VerbsFlags and of VerbsOpen for TLC. *)
EXTENDS VerbsFlags

CONSTANTS a, b, c

\* a and b are threads of rank 0, c is the thread of rank 1
MCHome == [th \in Threads |-> IF th = c THEN 1 ELSE 0]
OneChannel == [s \in Sides |-> 1]
MCBlkSize == [s \in Sides |-> 2]

Wide == INSTANCE UnrDivide WITH
    NumChannels <- [s \in Sides |-> IF s = "inter" THEN 2 ELSE 3],
    BlkSize <- [s \in Sides |-> IF s = "inter" THEN 3 ELSE 2],
    W <- 64
ASSUME WideDivision == Wide!DivisionExact(40)
=============================================================================
