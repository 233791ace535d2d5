SPECIFICATION Spec
CONSTANTS
    l1 = l1  l2 = l2  l3 = l3  l4 = l4  l5 = l5
    v1 = v1  v2 = v2  v3 = v3  none = none
    Log = {l1, l2, l3, l4, l5}
    Listing <- MCListing
    LogDate <- MCLogDate
    Vehicle <- MCVehicle
    NoVehicle = none
    Arguments <- MCArguments
    WarnThreshold = 2
    MaxRetries = 3
INVARIANT SkippedIsDownloaded
