\* One topic of two partitions whose old messages are purged.
SPECIFICATION Spec
CONSTANTS
    NbPartitions = 2
    Consommateurs = {1, 2}
    MaxLot = 2
    Permis = {"retention"}
    MaxMessages = 3
    MaxMouvements = 1
INVARIANT AuMoinsUneFois
CHECK_DEADLOCK FALSE
