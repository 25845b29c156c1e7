SPECIFICATION Spec
CONSTANTS
    MEMP_NUM_REASSDATA = 2
    IP_REASS_MAX_PBUFS = 5
    d1 = d1
    d2 = d2
    d3 = d3
    Ids <- MCIds
    Fragmentations <- MCFragmentations
    NULL = NULL
SYMMETRY Symmetric
INVARIANTS ListsExact CountExact DeliveredInOrder BurstDelivered
PROPERTIES RefusedOnlyAlone
