----------------------------- MODULE MCPGWorker -----------------------------
(* Instantiates PGWorker for TLC: two submissions, a master pool of one    *)
(* connection and a slave pool of one, all intervals one second.          *)
EXTENDS PGWorker, TLC

CONSTANTS s1, s2, c1, c2

MCSubs == {s1, s2}
MCMasterConns == <<c1>>
MCSlaveConns == <<c2>>
\* single-statement NonTransactions, each with a sender
MCSubSize == [s \in MCSubs |-> 1]
MCSubKind == [s \in MCSubs |-> "non"]
MCSubSender == [s \in MCSubs |-> TRUE]
\* two-statement DbTransactions (a QueryChain inside BEGIN/COMMIT)
MCPolicySize == [s \in MCSubs |-> 2]
MCPolicyKind == [s \in MCSubs |-> "policy"]
\* a one-statement and a two-statement submission
MCMixedSize == [s \in MCSubs |-> IF s = s1 THEN 1 ELSE 2]
\* a single producer with one single-statement submission
MCOneSub == {s1}
MCOneSize == [s \in MCOneSub |-> 1]
MCOneKind == [s \in MCOneSub |-> "non"]
MCOneSender == [s \in MCOneSub |-> TRUE]
==============================================================================
