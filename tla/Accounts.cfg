SPECIFICATION Spec
CONSTANTS
    s1 = s1
    s2 = s2
    s3 = s3
    c1 = c1
    c2 = c2
    o1 = o1
    o2 = o2
    v1 = v1
    v2 = v2
    Nobody = Nobody
    Signups <- MCSignups
    Email <- MCEmail
    Admins <- MCAdmins
    Screenings <- MCScreenings
    Orders <- MCOrders
    Upgrades <- MCUpgrades
    FreeLimit = 1
    ProLimit = 999999
SYMMETRY MCSymmetry
CHECK_DEADLOCK FALSE
INVARIANTS
    TypeOK
    OneAccountPerEmail
    QuotaWithinOverlap
    UsageMatchesHistory
    ProIsPaidFor
    OrderUsedOnce
    UpgradeLasts
