------------------------------ MODULE MCCostSync ------------------------------
(* Instances of CostSync for TLC.                                          *)
EXTENDS CostSync, TLC

(* Cost keys and encryption keys are interchangeable; so are the external  *)
(* ids, and the workers of a kind.                                         *)
Interchangeable ==
    Permutations(CostKey) \cup Permutations(ExternalID)
        \cup Permutations(EncryptionKey)
        \cup Permutations(CronRun) \cup Permutations(Handler)
===============================================================================
