----------------------------- MODULE AgendaLease -----------------------------
(***************************************************************************)
(* What the agenda coordinator of one event promises its callers: agenda   *)
(* operations are admitted once each, one after the other, and whoever     *)
(* holds the lease keeps it until it gives it up or it runs out.  A lease  *)
(* that was lost is given back, at most, to the operation admitted last.   *)
(***************************************************************************)
CONSTANTS Operation, NoOperation

VARIABLES
  admitted,  \* operations that were admitted
  latest,    \* the one that was admitted last
  holder     \* the operation whose lease is in force

leaseVars == <<admitted, latest, holder>>

LeaseTypeOK ==
  /\ admitted \in SUBSET Operation
  /\ latest \in Operation \cup {NoOperation}
  /\ holder \in Operation \cup {NoOperation}

LeaseInit ==
  /\ admitted = {}
  /\ latest = NoOperation
  /\ holder = NoOperation

Grant(o) ==
  /\ holder = NoOperation
  /\ o \notin admitted
  /\ admitted' = admitted \cup {o}
  /\ latest' = o
  /\ holder' = o

Regain(o) ==
  /\ holder = NoOperation
  /\ o = latest
  /\ holder' = o
  /\ UNCHANGED <<admitted, latest>>

(* By a release, or because it ran out. *)
Yield ==
  /\ holder # NoOperation
  /\ holder' = NoOperation
  /\ UNCHANGED <<admitted, latest>>

LeaseNext == Yield \/ \E o \in Operation : Grant(o) \/ Regain(o)

LeaseSpec == LeaseInit /\ [][LeaseNext]_leaseVars
=============================================================================
