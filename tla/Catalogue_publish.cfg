SPECIFICATION Spec
CONSTANTS
    poi = poi
    guide = guide
    v1 = v1
    v2 = v2
    p1 = p1
    NoRow = NoRow
    NoVendor = NoVendor
    Pois = {poi}
    Guides = {guide}
    Vendors = {v1, v2}
    Products = {p1}
    Levels = {1, 2}
    Floors = {1, 2}
    Includes = {FALSE, TRUE}
    MaxLoads = 2
INVARIANT NoOrphanOffers
PROPERTY NeverDemoted
PROPERTY OnlyThroughTheGate
