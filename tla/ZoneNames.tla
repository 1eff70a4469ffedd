----------------------------- MODULE ZoneNames -----------------------------
(***************************************************************************)
(* The names of a zone, read twice.  scripts/generate-monitoring-network   *)
(* writes one list of regions into two catalogues; crates/scemas-core      *)
(* (regions.rs) resolves names with the first when readings come in, rules *)
(* are evaluated and subscribers are sought, and the dashboard (zones.ts)  *)
(* with the second when devices, rules and subscriptions are saved and     *)
(* when alerts are listed.  The module asks whether the two agree.         *)
(*                                                                         *)
(* The actions are what the dashboard and the engine save.  The command    *)
(* subscriptions_update of the desktop, which saves zones as they come     *)
(* into the desktop's database and which no page calls, is left out.       *)
(*                                                                         *)
(* Abstractions.  A sensor is its id: Code gives the region whose code     *)
(* stands in it.  Metric types and severities, which both sides compare    *)
(* the same way, and the type, status and secret of a device, which only   *)
(* refuse more readings, are left out.  Rules of one zone are one rule.    *)
(* An alert is its sensor, its zone and the zone its rule had when it was  *)
(* raised; the handling of alerts, which changes none of these, is left    *)
(* to AlertBoard.                                                          *)
(***************************************************************************)
EXTENDS Naturals, FiniteSetsExt

CONSTANTS
    Regions,        \* the ids of the monitoring regions
    Wards,          \* ward ids, each of some regions
    Names,          \* other ids: legacy ids of a region
    Strange,        \* ids nobody knows
    Sensors,
    Users,
    RegionsOf,      \* [Wards -> SUBSET Regions]
    AliasOf,        \* [Names -> Regions]
    Code,           \* [Sensors -> Regions \cup {None}]
    Catalogued,     \* the sensors of the sensor catalogue
    None,
    MaxDevices,     \* bound: registered devices
    MaxRules,       \* bound: rules
    MaxAlerts       \* bound: alerts

Zones == Regions \cup Wards \cup Names \cup Strange

\* What the generator and its data give: a ward has a region, an id is of one kind,
\* and the id of a catalogued sensor names the region it stands in.
ASSUME CatalogueAssumption ==
    /\ RegionsOf \in [Wards -> SUBSET Regions]
    /\ \A w \in Wards : RegionsOf[w] # {}
    /\ AliasOf \in [Names -> Regions]
    /\ Code \in [Sensors -> Regions \cup {None}]
    /\ Catalogued \subseteq {s \in Sensors : Code[s] # None}
    /\ None \notin Zones
    /\ Regions \cap (Wards \cup Names \cup Strange) = {}
    /\ Wards \cap (Names \cup Strange) = {}
    /\ Names \cap Strange = {}

VARIABLES
    devices,        \* [Sensors -> the zone column of its device, or None]
    rules,          \* the zones of the rules, None for a rule of every zone
    zones,          \* [Users -> the zones of the subscription, {} for every zone]
    alerts

vars == <<devices, rules, zones, alerts>>

-----------------------------------------------------------------------------
(* The engine: build.rs, regions.rs.                                       *)

\* A ward of a single region is written as a direct alias, the others as groups.
Grouped == {w \in Wards : \A r \in Regions : RegionsOf[w] # {r}}

DirectAlias(zone) ==
    IF zone \in Names THEN AliasOf[zone]
    ELSE IF zone \in Wards \ Grouped THEN CHOOSE r \in Regions : RegionsOf[zone] = {r}
    ELSE zone

\* Mutated form: a reading keeps the name of the zone that the device sent.
Normalize_Raw(zone, sensor) == zone

\* A name without a sensor.
Canonical(zone) == IF zone \in Grouped THEN zone ELSE DirectAlias(zone)

Normalize(zone, sensor) == IF Code[sensor] # None THEN Code[sensor] ELSE Canonical(zone)

EngineIds(zone) == IF zone \in Grouped THEN RegionsOf[zone] ELSE {DirectAlias(zone)}

FilterMatches(wanted, zone, sensor) == Normalize(zone, sensor) \in EngineIds(wanted)

\* The dispatcher: whether alert a is for a subscription to zones zs.
Subscribed(a, zs) == zs = {} \/ \E z \in zs : FilterMatches(z, a.zone, a.sensor)

-----------------------------------------------------------------------------
(* The dashboard: zones.ts, and the zone condition of routers/alerts.ts.   *)

NormalizeDirect(zone) == IF zone \in Names THEN AliasOf[zone] ELSE zone

\* Mutated form: a ward is not resolved to its regions.
ConsoleIds_Direct(zone) == {NormalizeDirect(zone)}

ConsoleIds(zone) == IF zone \in Wards THEN RegionsOf[zone] ELSE {NormalizeDirect(zone)}

NormalizeZoneIds(zs) == UNION {ConsoleIds(z) : z \in zs}

Aliases(zone) == {zone} \cup {n \in Names : AliasOf[n] = zone}

\* Mutated form: a ward is not one of the ids it is expanded to.
ExpandZoneIds_Regions(zone) == UNION {Aliases(z) : z \in ConsoleIds(zone)}

ExpandZoneIds(zone) == ({zone} \cap Wards) \cup UNION {Aliases(z) : z \in ConsoleIds(zone)}

ExpandSensorIds(zone) == {s \in Catalogued : Code[s] \in ConsoleIds(zone)}

InZone(a, zone) == a.zone \in ExpandZoneIds(zone) \/ a.sensor \in ExpandSensorIds(zone)

Listed(a, zs) == zs = {} \/ \E z \in zs : InZone(a, z)

\* The zone an alert is shown in.
ShownZone(a) == IF a.sensor \in Catalogued THEN Code[a.sensor] ELSE NormalizeDirect(a.zone)

-----------------------------------------------------------------------------
Alert == [sensor : Sensors, zone : Zones, filter : Zones \cup {None}]

Init ==
    /\ devices = [s \in Sensors |-> None]
    /\ rules = {}
    /\ zones = [u \in Users |-> {}]
    /\ alerts = {}

Registered == {s \in Sensors : devices[s] # None}

\* devices.register and devices.update: the engine writes the zone it is given.
SaveDevice(s, z) ==
    /\ Cardinality(Registered \cup {s}) <= MaxDevices
    /\ devices' = [devices EXCEPT ![s] = NormalizeDirect(z)]
    /\ UNCHANGED <<rules, zones, alerts>>

\* The start of the engine writes the catalogue over the table.
SyncRegistry ==
    /\ Cardinality(Registered \cup Catalogued) <= MaxDevices
    /\ devices' = [s \in Sensors |-> IF s \in Catalogued THEN Code[s] ELSE devices[s]]
    /\ UNCHANGED <<rules, zones, alerts>>

\* The zone column of a rule: resolved by the dashboard, and by the engine again.
\* When the engine loads the rule it resolves it once more, which changes nothing.
RuleZone(z) == IF z = None THEN None ELSE Canonical(NormalizeDirect(z))

\* rules.create and rules.edit; rules.delete.
CreateRule(z) ==
    /\ rules' = rules \cup {RuleZone(z)}
    /\ Cardinality(rules') <= MaxRules
    /\ UNCHANGED <<devices, zones, alerts>>

EditRule(f, z) ==
    /\ rules' = (rules \ {f}) \cup {RuleZone(z)}
    /\ UNCHANGED <<devices, zones, alerts>>

DeleteRule(f) ==
    /\ rules' = rules \ {f}
    /\ UNCHANGED <<devices, zones, alerts>>

SaveSubscription(u, zs) ==
    /\ zones' = [zones EXCEPT ![u] = NormalizeZoneIds(zs)]
    /\ UNCHANGED <<devices, rules, alerts>>

\* ingest_telemetry: the zone is resolved, compared with the device's, evaluated.
Ingest(s, z) ==
    LET zone == Normalize(z, s)
        met  == {f \in rules : f = None \/ FilterMatches(f, zone, s)}
        new  == {[sensor |-> s, zone |-> zone, filter |-> f] : f \in met}
    IN /\ devices[s] = zone
       /\ Cardinality(alerts \cup new) <= MaxAlerts
       /\ alerts' = alerts \cup new
       /\ UNCHANGED <<devices, rules, zones>>

Next ==
    \/ \E s \in Sensors, z \in Zones : SaveDevice(s, z)
    \/ SyncRegistry
    \/ \E z \in Zones \cup {None} : CreateRule(z)
    \/ \E f \in rules, z \in Zones \cup {None} : EditRule(f, z)
    \/ \E f \in rules : DeleteRule(f)
    \/ \E u \in Users, zs \in SUBSET Zones : SaveSubscription(u, zs)
    \/ \E s \in Sensors, z \in Zones : Ingest(s, z)

Spec == Init /\ [][Next]_vars
-----------------------------------------------------------------------------
(* Properties.                                                             *)

\* Every table holds ids; type correctness.
TypeOK ==
    /\ devices \in [Sensors -> Zones \cup {None}]
    /\ rules \in SUBSET (Zones \cup {None})
    /\ zones \in [Users -> SUBSET Zones]
    /\ alerts \in SUBSET Alert

\* The dispatcher of the engine finds an operator subscribed to an alert exactly when
\* the dashboard lists the alert for that operator's subscription.
NotifiedIsListed ==
    \A a \in alerts, u \in Users : Subscribed(a, zones[u]) <=> Listed(a, zones[u])

\* An alert that a rule of a zone raised is listed when that zone is asked for.
AlertsAreUnderTheirRule == \A a \in alerts : a.filter # None => InZone(a, a.filter)

\* An alert is listed under the zone it is shown in, and under no other region.
ShownWhereListed ==
    \A a \in alerts :
        /\ InZone(a, ShownZone(a))
        /\ \A r \in Regions : InZone(a, r) => r = ShownZone(a)

=============================================================================
