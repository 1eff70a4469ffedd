SPECIFICATION Spec
CONSTANTS
    cootes = cootes
    northEnd = northEnd
    crownPoint = crownPoint
    ward1 = ward1
    ward3 = ward3
    mcmaster = mcmaster
    harbour = harbour
    known = known
    fresh = fresh
    odd = odd
    Regions = {cootes, northEnd, crownPoint}
    Wards = {ward1, ward3}
    Names = {mcmaster}
    Strange = {harbour}
    Sensors = {known, fresh, odd}
    Users = {u1}
    RegionsOf <- MCRegionsOf
    AliasOf <- MCAliasOf
    Code <- MCCode
    Catalogued = {known}
    None = None
    MaxDevices = 1
    MaxRules = 1
    MaxAlerts = 2
INVARIANTS NotifiedIsListed AlertsAreUnderTheirRule ShownWhereListed
