----------------------------- MODULE MCEngines ------------------------------
(* Engines of two processes on one database, for TLC, in three instances:   *)
(* two engines on one escalation rule that repeats, with a crash and an     *)
(* acknowledgement; one engine on rules that lead from Channel to Channel   *)
(* and back; and two supervisors of one connection under its lease. They    *)
(* share no state, so each is explored on its own.                          *)
EXTENDS MCEscalation, Integrations

RepeatAndChainDefs == RepeatDefs \cup ChainDefs

VARIABLE part

Overlap ==
    /\ \A r \in RuleIds : rules'[r] \in RepeatDefs \cup {NoRule}
    /\ Cardinality({r \in RuleIds : rules'[r] # NoRule} \cup touched') <= 1
    /\ saves' <= 1 /\ editing' = {} /\ misled' = {}

Chains ==
    /\ \A r \in RuleIds : rules'[r] \in ChainDefs \cup {NoRule}
    /\ Cardinality({w \in Workers : <<pc'[w], now'[w]>> # <<"idle", 0>>}) <= 1
    /\ given' = 0 /\ (fails' = fails \/ misled' # misled)
    /\ Cardinality(touched' \cup {e[1] : e \in editing'}) + deleted' + fails' <= 1

\* Three edits, faults and steps of the clock are explored together, and two
\* edits, which meet in a reload channel, alone.
EditBound == config'.version + faults' + time' <= IF config'.version = 2 THEN 2 ELSE 3

EngineInit ==
    /\ part \in {"overlap", "chains", "integrations"}
    /\ Init /\ IntegrationInit

EngineNext ==
    /\ UNCHANGED part
    /\ \/ part = "overlap" /\ Next /\ Overlap /\ UNCHANGED integrationVars
       \/ part = "chains" /\ Next /\ Chains /\ UNCHANGED integrationVars
       \/ part = "integrations" /\ IntegrationNext /\ EditBound /\ UNCHANGED vars

EngineSpec == EngineInit /\ [][EngineNext]_<<part, vars, integrationVars>>
=============================================================================
