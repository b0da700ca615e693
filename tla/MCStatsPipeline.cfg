CONSTANTS
    Scripts = {"compute_sweep", "batch_sweep"}
    Stats <- SmallStats
SPECIFICATION Spec
INVARIANTS
    ChannelsKeepTheirNumbers
    RuntimeIsSlowestCore
    ReadersAgree
