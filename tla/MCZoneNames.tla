---------------------------- MODULE MCZoneNames ----------------------------
(* ZoneNames on a part of the catalogue: wards of two and of one region, a  *)
(* legacy id, and sensors with and without a place in the catalogue.        *)
EXTENDS ZoneNames, TLC

CONSTANTS cootes, northEnd, crownPoint, ward1, ward3, mcmaster, harbour, known, fresh, odd

MCRegionsOf == (ward1 :> {cootes, northEnd}) @@ (ward3 :> {crownPoint})
MCAliasOf == mcmaster :> cootes
MCCode == (known :> cootes) @@ (fresh :> northEnd) @@ (odd :> None)
=============================================================================
