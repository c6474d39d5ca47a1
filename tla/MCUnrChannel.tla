------------------------------ MODULE MCUnrChannel ------------------------------
(* An instance of UnrChannel for TLC. *)
EXTENDS UnrChannel

CONSTANTS mpi, v0, v1

\* two devices of one kind besides MPI
MCKind == [c \in Channels |-> IF c = mpi THEN <<"mpi", 2>> ELSE <<"verbs", 1>>]
\* the handle of MPI is empty
MCHandleSize == [c \in Channels |-> IF c = mpi THEN 0 ELSE 2]
=============================================================================
