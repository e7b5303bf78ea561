--------------------------- MODULE MCAgentTokens ---------------------------
(***************************************************************************)
(* AgentTokens for TLC.  Replicas are interchangeable.  Lookups of         *)
(* act-tokens and lookups of an agent's status fill different caches and   *)
(* write nothing else, so a behaviour makes lookups of one of the two      *)
(* kinds.  Cache entries expire whatever the clock says; only grants and   *)
(* tokens read it.  So a behaviour either races lookups with revocations   *)
(* over one tick, or looks up statuses, which needs no token, or lets      *)
(* tokens and grants expire at different times with nothing revoked.       *)
(***************************************************************************)
EXTENDS AgentTokens, TLC

VARIABLE lookups

Races == INSTANCE AgentTokens WITH MaxTime <- 1
Timeless == INSTANCE AgentTokens WITH MaxTime <- 0

LookupsInit == Init /\ lookups \in {"tokens", "statuses", "expiry"}

LookupsNext ==
    /\ \/ lookups = "tokens" /\ Races!Next /\ UNCHANGED peek
       \/ lookups = "statuses" /\ Timeless!Next /\ UNCHANGED read
       \/ lookups = "expiry" /\ Next /\ UNCHANGED <<peek, write>>
    /\ lookups' = lookups

MCSpec == LookupsInit /\ [][LookupsNext]_<<vars, lookups>>

ReplicaSymmetry == Permutations(Replicas)
=============================================================================
