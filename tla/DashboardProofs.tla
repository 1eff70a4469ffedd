--------------------------- MODULE DashboardProofs ---------------------------
(***************************************************************************)
(* Proofs about what the dashboard lists.                                  *)
(*                                                                         *)
(* ZoneNames: for every list of regions, wards, legacy ids and sensors     *)
(* that satisfies CatalogueAssumption, the engine and the dashboard agree  *)
(* on where an alert belongs.  The strengthening is Resolved: what the     *)
(* tables hold is already resolved, an alert by the engine and a           *)
(* subscription by the dashboard.                                          *)
(*                                                                         *)
(* AlertConsole: for every number of alerts and of alerts on a page, a     *)
(* view of the queue lists none twice, misses none but at the edge of a    *)
(* page, and is never ahead of the table.  The strengthening is            *)
(* ViewInOrder: each page lies below the cursors of those before it, and   *)
(* what is open has its place in the view or behind its last cursor.       *)
(***************************************************************************)
EXTENDS ZoneNames, AlertConsole, SequenceTheorems, FiniteSetTheorems, TLAPS

-----------------------------------------------------------------------------
(* ZoneNames *)

\* An alert's zone is resolved and met the zone of its rule; a subscription names
\* regions and strange ids only.
Resolved ==
    /\ \A a \in alerts :
        /\ Normalize(a.zone, a.sensor) = a.zone
        /\ a.filter # None => a.zone \in EngineIds(a.filter)
    /\ \A u \in Users : zones[u] \subseteq Regions \cup Strange

ZonesInv == TypeOK /\ Resolved

-----------------------------------------------------------------------------
(* The operators.                                                          *)

\* An id that is a region, a group of regions or strange stands for itself; a legacy
\* id and a ward of one region stand for a region.
LEMMA DirectAliasResolves ==
    ASSUME NEW z \in Zones
    PROVE  /\ DirectAlias(z) \in Zones
           /\ z \in Names \cup (Wards \ Grouped) => DirectAlias(z) \in Regions
           /\ z \in Regions \cup Grouped \cup Strange => DirectAlias(z) = z
           /\ z \in Wards \ Grouped => RegionsOf[z] = {DirectAlias(z)}
  <1>1. CASE z \in Wards \ Grouped
    <2>1. PICK r \in Regions : RegionsOf[z] = {r}
      BY <1>1 DEF Grouped
    <2>2. DirectAlias(z) = r
      BY <1>1, <2>1, CatalogueAssumption DEF DirectAlias
    <2>. QED BY <1>1, <2>1, <2>2, CatalogueAssumption DEF Zones, Grouped
  <1>2. CASE z \in Names
    <2>1. DirectAlias(z) = AliasOf[z] /\ AliasOf[z] \in Regions
      BY <1>2, CatalogueAssumption DEF DirectAlias
    <2>. QED BY <1>2, <2>1, CatalogueAssumption DEF Zones, Grouped
  <1>3. CASE z \in Regions \cup Grouped \cup Strange
    <2>1. z \notin Names /\ z \notin Wards \ Grouped
      BY <1>3, CatalogueAssumption DEF Grouped
    <2>2. DirectAlias(z) = z
      BY <2>1 DEF DirectAlias
    <2>. QED BY <2>1, <2>2
  <1>. QED BY <1>1, <1>2, <1>3 DEF Zones, Grouped

\* The engine and the dashboard resolve every id to the same regions.
LEMMA SameIds ==
    ASSUME NEW z \in Zones
    PROVE  EngineIds(z) = ConsoleIds(z)
  <1>1. CASE z \in Grouped
    BY <1>1 DEF EngineIds, ConsoleIds, Grouped
  <1>2. CASE z \in Wards \ Grouped
    BY <1>2, DirectAliasResolves DEF EngineIds, ConsoleIds
  <1>3. CASE z \notin Wards
    BY <1>3, CatalogueAssumption
    DEF EngineIds, ConsoleIds, DirectAlias, NormalizeDirect, Grouped
  <1>. QED BY <1>1, <1>2, <1>3 DEF Grouped

\* A resolved name is an id, and resolving it again changes nothing.
LEMMA NormalizeResolves ==
    ASSUME NEW z \in Zones, NEW s \in Sensors
    PROVE  /\ Normalize(z, s) \in Regions \cup Grouped \cup Strange
           /\ Normalize(Normalize(z, s), s) = Normalize(z, s)
  <1>1. CASE Code[s] # None
    BY <1>1, CatalogueAssumption DEF Normalize
  <1>2. CASE Code[s] = None
    <2>1. Normalize(z, s) = IF z \in Grouped THEN z ELSE DirectAlias(z)
      BY <1>2 DEF Normalize, Canonical
    <2>2. Normalize(z, s) \in Regions \cup Grouped \cup Strange
      BY <2>1, DirectAliasResolves DEF Zones, Grouped
    <2>3. Normalize(z, s) \in Zones
      BY <2>2 DEF Zones, Grouped
    <2>4. Normalize(Normalize(z, s), s)
            = IF Normalize(z, s) \in Grouped THEN Normalize(z, s)
              ELSE DirectAlias(Normalize(z, s))
      BY <1>2 DEF Normalize, Canonical
    <2>. QED BY <2>2, <2>3, <2>4, DirectAliasResolves
  <1>. QED BY <1>1, <1>2

\* What a subscription keeps of the ids it is given.
LEMMA SubscriptionsResolve ==
    ASSUME NEW zs \in SUBSET Zones
    PROVE  NormalizeZoneIds(zs) \subseteq Regions \cup Strange
  <1>. SUFFICES ASSUME NEW z \in zs PROVE ConsoleIds(z) \subseteq Regions \cup Strange
    BY DEF NormalizeZoneIds
  <1>. QED BY CatalogueAssumption DEF ConsoleIds, NormalizeDirect, Zones

\* An alert is listed under an id it is resolved to, and, unless the id is a group,
\* under no other.
LEMMA ListedWhereResolved ==
    ASSUME NEW a \in Alert, NEW z \in Zones, Normalize(a.zone, a.sensor) = a.zone
    PROVE  /\ a.zone \in ConsoleIds(z) => InZone(a, z)
           /\ InZone(a, z) /\ z \notin Grouped => a.zone \in ConsoleIds(z)
  <1>. a.zone \in Zones /\ a.sensor \in Sensors
    BY DEF Alert
  <1>1. a.zone \in Regions \cup Grouped \cup Strange
    BY NormalizeResolves
  <1>2. ASSUME a.zone \in ConsoleIds(z) PROVE InZone(a, z)
    BY <1>2 DEF InZone, ExpandZoneIds, Aliases
  <1>3. ASSUME InZone(a, z), z \notin Grouped PROVE a.zone \in ConsoleIds(z)
    <2>1. CASE a.sensor \in ExpandSensorIds(z)
      <3>1. a.sensor \in Catalogued /\ Code[a.sensor] \in ConsoleIds(z)
        BY <2>1 DEF ExpandSensorIds
      <3>2. a.zone = Code[a.sensor]
        BY <3>1, CatalogueAssumption DEF Normalize
      <3>. QED BY <3>1, <3>2
    <2>2. CASE a.zone \in ExpandZoneIds(z)
      <3>1. a.zone \notin Wards \ Grouped /\ a.zone \notin Names
        BY <1>1, CatalogueAssumption DEF Grouped
      <3>2. PICK r \in ConsoleIds(z) : a.zone \in Aliases(r)
        BY <1>3, <2>2, <3>1 DEF ExpandZoneIds
      <3>. QED BY <3>1, <3>2 DEF Aliases
    <2>. QED BY <1>3, <2>1, <2>2 DEF InZone
  <1>. QED BY <1>2, <1>3

-----------------------------------------------------------------------------
(* The invariant.                                                          *)

\* The tables are empty at first.
LEMMA InitResolved == Init => ZonesInv
  BY DEF Init, ZonesInv, TypeOK, Resolved

\* What is saved or ingested is resolved before it is written.
LEMMA NextResolved == ZonesInv /\ [Next]_vars => ZonesInv'
  <1>. SUFFICES ASSUME ZonesInv, [Next]_vars PROVE ZonesInv'
    OBVIOUS
  <1>. USE DEF ZonesInv, TypeOK, Resolved
  <1>1. ASSUME NEW s \in Sensors, NEW z \in Zones, SaveDevice(s, z) PROVE ZonesInv'
    <2>1. NormalizeDirect(z) \in Zones
      BY CatalogueAssumption DEF NormalizeDirect, Zones
    <2>. QED BY <1>1, <2>1 DEF SaveDevice
  <1>2. ASSUME SyncRegistry PROVE ZonesInv'
    <2>1. devices' \in [Sensors -> Zones \cup {None}]
      BY <1>2, CatalogueAssumption DEF SyncRegistry, Zones
    <2>. QED BY <1>2, <2>1 DEF SyncRegistry
  <1>3. ASSUME NEW z \in Zones \cup {None} PROVE RuleZone(z) \in Zones \cup {None}
    <2>1. ASSUME z # None PROVE NormalizeDirect(z) \in Zones
      BY <1>3, <2>1, CatalogueAssumption DEF NormalizeDirect, Zones
    <2>2. ASSUME NEW d \in Zones PROVE Canonical(d) \in Zones
      BY DirectAliasResolves DEF Canonical, Zones, Grouped
    <2>. QED BY <1>3, <2>1, <2>2 DEF RuleZone
  <1>4. ASSUME NEW z \in Zones \cup {None}, CreateRule(z) PROVE ZonesInv'
    BY <1>3, <1>4 DEF CreateRule
  <1>5. ASSUME NEW f \in rules, NEW z \in Zones \cup {None}, EditRule(f, z) PROVE ZonesInv'
    BY <1>3, <1>5 DEF EditRule
  <1>6. ASSUME NEW f \in rules, DeleteRule(f) PROVE ZonesInv'
    BY <1>6 DEF DeleteRule
  <1>7. ASSUME NEW u \in Users, NEW zs \in SUBSET Zones, SaveSubscription(u, zs) PROVE ZonesInv'
    <2>1. NormalizeZoneIds(zs) \subseteq Regions \cup Strange
      BY SubscriptionsResolve
    <2>2. NormalizeZoneIds(zs) \in SUBSET Zones
      BY <2>1 DEF Zones
    <2>3. /\ zones' \in [Users -> SUBSET Zones]
          /\ \A v \in Users : zones'[v] \subseteq Regions \cup Strange
      BY <1>7, <2>1, <2>2 DEF SaveSubscription
    <2>. QED BY <1>7, <2>3 DEF SaveSubscription
  <1>8. ASSUME NEW s \in Sensors, NEW z \in Zones, Ingest(s, z) PROVE ZonesInv'
    <2>. DEFINE zone == Normalize(z, s)
    <2>1. zone \in Zones /\ Normalize(zone, s) = zone
      BY NormalizeResolves DEF Zones, Grouped
    <2>2. ASSUME NEW a \in alerts', a \notin alerts
          PROVE  /\ a \in Alert
                 /\ Normalize(a.zone, a.sensor) = a.zone
                 /\ a.filter # None => a.zone \in EngineIds(a.filter)
      <3>1. PICK f \in rules : /\ a = [sensor |-> s, zone |-> zone, filter |-> f]
                               /\ f = None \/ FilterMatches(f, zone, s)
        BY <1>8, <2>2 DEF Ingest
      <3>2. a.sensor = s /\ a.zone = zone /\ a.filter = f
        BY <3>1
      <3>3. a \in Alert
        BY <2>1, <3>1 DEF Alert
      <3>. QED BY <2>1, <3>1, <3>2, <3>3 DEF FilterMatches
    <2>3. \A a \in alerts' :
             /\ a \in Alert
             /\ Normalize(a.zone, a.sensor) = a.zone
             /\ a.filter # None => a.zone \in EngineIds(a.filter)
      BY <2>2
    <2>4. UNCHANGED <<devices, rules, zones>>
      BY <1>8 DEF Ingest
    <2>. QED BY <2>3, <2>4
  <1>9. CASE UNCHANGED vars
    BY <1>9 DEF vars
  <1>. QED BY <1>1, <1>2, <1>4, <1>5, <1>6, <1>7, <1>8, <1>9 DEF Next

\* In every reachable state the tables hold resolved ids.
LEMMA InvariantHolds == Spec => []ZonesInv
  BY InitResolved, NextResolved, PTL DEF Spec

-----------------------------------------------------------------------------
(* The theorems.                                                           *)

\* The tables hold ids of zones.
THEOREM TypeCorrect == Spec => []TypeOK
  BY InvariantHolds, PTL DEF ZonesInv

\* Whatever the catalogue, the dispatcher finds an operator subscribed to an alert
\* exactly when the dashboard lists the alert for that operator.
THEOREM NotifiedExactlyWhenListed == Spec => []NotifiedIsListed
  <1>1. ZonesInv => NotifiedIsListed
    <2>. SUFFICES ASSUME ZonesInv, NEW a \in alerts, NEW u \in Users, NEW z \in zones[u]
                  PROVE  FilterMatches(z, a.zone, a.sensor) <=> InZone(a, z)
      BY DEF NotifiedIsListed, Subscribed, Listed
    <2>1. a \in Alert /\ z \in Zones /\ z \notin Grouped /\ Normalize(a.zone, a.sensor) = a.zone
      BY CatalogueAssumption DEF ZonesInv, TypeOK, Resolved, Zones, Grouped
    <2>2. FilterMatches(z, a.zone, a.sensor) <=> a.zone \in ConsoleIds(z)
      BY <2>1, SameIds DEF FilterMatches
    <2>. QED BY <2>1, <2>2, ListedWhereResolved
  <1>. QED BY <1>1, InvariantHolds, PTL

\* Whatever the catalogue, an alert is found under the zone of the rule that raised it.
THEOREM AlertsFoundUnderTheirRule == Spec => []AlertsAreUnderTheirRule
  <1>1. ZonesInv => AlertsAreUnderTheirRule
    <2>. SUFFICES ASSUME ZonesInv, NEW a \in alerts, a.filter # None PROVE InZone(a, a.filter)
      BY DEF AlertsAreUnderTheirRule
    <2>1. a \in Alert /\ a.filter \in Zones /\ Normalize(a.zone, a.sensor) = a.zone
      BY DEF ZonesInv, TypeOK, Resolved, Alert
    <2>2. a.zone \in ConsoleIds(a.filter)
      BY <2>1, SameIds DEF ZonesInv, Resolved
    <2>. QED BY <2>1, <2>2, ListedWhereResolved
  <1>. QED BY <1>1, InvariantHolds, PTL

\* Whatever the catalogue, an alert is listed under the zone it is shown in and under
\* no other region.
THEOREM ListedWhereShown == Spec => []ShownWhereListed
  <1>1. ZonesInv => ShownWhereListed
    <2>. SUFFICES ASSUME ZonesInv, NEW a \in alerts
                  PROVE  /\ InZone(a, ShownZone(a))
                         /\ \A r \in Regions : InZone(a, r) => r = ShownZone(a)
      BY DEF ShownWhereListed
    <2>1. /\ a \in Alert /\ a.zone \in Zones /\ a.sensor \in Sensors
          /\ Normalize(a.zone, a.sensor) = a.zone
      BY DEF ZonesInv, TypeOK, Resolved, Alert
    <2>2. a.zone \in Regions \cup Grouped \cup Strange
      BY <2>1, NormalizeResolves
    <2>3. ShownZone(a) = a.zone
      <3>1. a.sensor \in Catalogued => a.zone = Code[a.sensor]
        BY <2>1, CatalogueAssumption DEF Normalize
      <3>2. NormalizeDirect(a.zone) = a.zone
        BY <2>2, CatalogueAssumption DEF NormalizeDirect, Grouped
      <3>. QED BY <3>1, <3>2 DEF ShownZone
    <2>4. InZone(a, a.zone)
      <3>1. CASE a.zone \in Wards
        BY <3>1 DEF InZone, ExpandZoneIds
      <3>2. CASE a.zone \notin Wards
        <4>1. ConsoleIds(a.zone) = {a.zone}
          BY <2>2, <3>2, CatalogueAssumption DEF ConsoleIds, NormalizeDirect, Grouped
        <4>. QED BY <2>1, <4>1, ListedWhereResolved
      <3>. QED BY <3>1, <3>2
    <2>5. ASSUME NEW r \in Regions, InZone(a, r) PROVE r = a.zone
      <3>1. r \in Zones /\ r \notin Grouped /\ ConsoleIds(r) = {r}
        BY CatalogueAssumption DEF Zones, Grouped, ConsoleIds, NormalizeDirect
      <3>. QED BY <2>1, <2>5, <3>1, ListedWhereResolved
    <2>. QED BY <2>3, <2>4, <2>5
  <1>. QED BY <1>1, InvariantHolds, PTL

-----------------------------------------------------------------------------
(* AlertConsole *)

\* An alert has the status "absent" until it has a stamp.
Stamped == \A a \in Alerts : status[a] = "absent" <=> stamp[a] = NoCursor

\* Every page but the last has a cursor: there was a row behind it, of the same stamp
\* or an older one.
Paged(view) ==
    \A i \in 1..Len(view.pages) :
        /\ i < Len(view.pages) => view.pages[i].next # NoCursor
        /\ view.pages[i].next # NoCursor =>
             \E a, b \in Alerts : /\ a # b /\ stamp[a] = view.pages[i].next
                                  /\ stamp[b] \in 1..view.pages[i].next

\* What a page shows has been raised, lies between its cursors, and is not ahead of
\* the table.
Placed(page) ==
    \A a \in ShownBy(page) :
        /\ status[a] # "absent" /\ page.next \leq stamp[a]
        /\ page.rows[a] \notin {"absent", "resolved"}
        /\ page.rows[a] = "acknowledged" => status[a] \in Lifecycle!Targets

\* Every page and its cursor lie below the cursors of the pages before it.
Below(view) ==
    \A i, j \in 1..Len(view.pages) : i < j =>
        /\ view.pages[j].next < view.pages[i].next
        /\ \A a \in ShownBy(view.pages[j]) : stamp[a] < view.pages[i].next

\* An alert has its place in a view: it is shown, was taken out of it by a refused
\* batch, shares the stamp of a cursor, or is still to be read.
Reached(view, a) ==
    \/ \E i \in 1..Len(view.pages) : a \in ShownBy(view.pages[i])
    \/ a \in view.hidden
    \/ /\ \E i \in 1..Len(view.pages) : view.pages[i].next = stamp[a]
       /\ \E b \in Alerts \ {a} : stamp[b] = stamp[a]
    \/ HasNextPage(view) /\ stamp[a] < Last(view.pages).next

Covering(view) ==
    \A a \in view.open :
        /\ status[a] # "absent"
        /\ view.pages # <<>> /\ IsOpen(a) => Reached(view, a)

ViewInOrder(view) ==
    /\ Paged(view) /\ Below(view) /\ Covering(view)
    /\ \A i \in 1..Len(view.pages) : Placed(view.pages[i])

\* The mutation under way: what was answered "ok" is done, only a batch is refused.
CallInOrder ==
    /\ call.op = "acknowledge" => \E a \in Alerts : call.ids = {a}
    /\ call.op = "resolve" => \E a \in Alerts : call.ids = {a}
    /\ call.op = "batchResolve" => \A a \in call.ids : status[a] \in Lifecycle!Targets
    /\ call.stage = "refused" => call.op = "batchResolve"
    /\ call.stage = "ok" =>
         \A a \in call.ids :
             status[a] \in Lifecycle!Targets /\ (call.op # "acknowledge" => ~IsOpen(a))

QueueInv ==
    /\ QueueTypeOK /\ Stamped /\ CallInOrder
    /\ \A k \in Keys : ViewInOrder(cache[k]) /\ ViewInOrder(fetch[k].view)

\* Pages are read from the rows that match: the newest ones, and the stamp of the
\* last of them for the cursor if there are more.
LEMMA SelectedPage ==
    ASSUME QueueTypeOK, NEW T \in SUBSET Alerts, NEW page \in Select(T)
    PROVE  \E S \in SUBSET T :
             /\ page = PageOf(S, page.next) /\ page \in Page /\ ShownBy(page) = S
             /\ \A a \in S, b \in T \ S : stamp[b] \leq stamp[a]
             /\ S = T => page.next = NoCursor
             /\ S # T => \E a \in S : /\ page.next = stamp[a]
                                      /\ \A b \in S : stamp[a] \leq stamp[b]
<1>0. PICK S \in SUBSET T :
        IsNewest(S, T) /\ \E next \in NextCursor(S, T) : page = PageOf(S, next)
  BY DEF Select
<1>1. PICK next \in NextCursor(S, T) : IsNewest(S, T) /\ page = PageOf(S, next)
  BY <1>0
<1>2. page.next = next /\ page.rows = [a \in S |-> status[a]] /\ ShownBy(page) = S
  BY <1>1 DEF PageOf, ShownBy
<1>3. \A a \in S, b \in T \ S : stamp[b] \leq stamp[a]
  BY <1>1 DEF IsNewest, QueueTypeOK
<1>4. S = T => next = NoCursor
  BY <1>1 DEF NextCursor
<1>5. S # T => \E a \in S : next = stamp[a] /\ \A b \in S : stamp[a] \leq stamp[b]
  BY <1>1 DEF NextCursor
<1>6. next \in {NoCursor} \cup Stamps
  BY <1>4, <1>5 DEF QueueTypeOK
<1>7. page.rows \in [S -> Lifecycle!Status]
  BY <1>2 DEF QueueTypeOK
<1>8. page \in Page
  BY <1>1, <1>2, <1>6, <1>7 DEF Page, PageOf
<1> QED
  BY <1>1, <1>2, <1>3, <1>4, <1>5, <1>8

\* A page of a view shows alerts, and its cursor is a number.
LEMMA PageValues ==
    ASSUME NEW page \in Page
    PROVE  ShownBy(page) \subseteq Alerts /\ page.next \in Nat
BY QueueAssumption DEF Page, ShownBy, Stamps, NoCursor

\* Stamps are numbers, positive ones if there are any.
LEMMA StampValues ==
    ASSUME QueueTypeOK
    PROVE  \A a \in Alerts : stamp[a] \in Nat /\ (stamp[a] # NoCursor => stamp[a] \geq 1)
BY QueueAssumption DEF QueueTypeOK, Stamps, NoCursor

\* A page that is read behind a view continues it.
LEMMA AppendedPage ==
    ASSUME QueueTypeOK, Stamped,
           NEW view \in View, NEW next \in View, ViewInOrder(view),
           NEW cursor, NEW page \in Select(Matching(cursor)),
           next.pages = Append(view.pages, page), next.hidden = view.hidden,
           IF view.pages = <<>>
             THEN cursor = NoCursor /\ next.open = {a \in Alerts : IsOpen(a)}
             ELSE /\ HasNextPage(view) /\ cursor = Last(view.pages).next
                  /\ next.open = view.open
    PROVE  ViewInOrder(next)
<1> DEFINE T == Matching(cursor)
           p == view.pages
           q == next.pages
           n == Len(p)
<1>0. T \subseteq Alerts
  BY DEF Matching
<1>1. PICK S \in SUBSET T :
        /\ page = PageOf(S, page.next) /\ page \in Page /\ ShownBy(page) = S
        /\ \A a \in S, b \in T \ S : stamp[b] \leq stamp[a]
        /\ S = T => page.next = NoCursor
        /\ S # T => \E a \in S : page.next = stamp[a] /\ \A b \in S : stamp[a] \leq stamp[b]
  BY <1>0, SelectedPage
<1>2. /\ p \in Seq(Page) /\ n \in Nat /\ Len(q) = n + 1
      /\ \A i \in 1..n : q[i] = p[i] /\ p[i] \in Page
      /\ q[n + 1] = page /\ q # <<>>
  BY <1>1, AppendProperties DEF View
<1>3. page.next \in Nat /\ \A i \in 1..n : p[i].next \in Nat /\ ShownBy(p[i]) \subseteq Alerts
  BY <1>1, <1>2, PageValues
<1>4. (p = <<>> <=> n = 0) /\ n \in Nat
  BY <1>2, EmptySeq
<1>5. n # 0 => /\ cursor = p[n].next /\ p[n].next # NoCursor /\ HasNextPage(view)
               /\ Last(view.pages).next = p[n].next /\ next.open = view.open
  BY <1>4 DEF HasNextPage, Last
<1>6. \A a \in S : /\ a \in Alerts /\ IsOpen(a) /\ stamp[a] \in Nat /\ stamp[a] >= 1
                   /\ n # 0 => stamp[a] < p[n].next
  <2>1. \A a \in S : a \in Alerts /\ IsOpen(a) /\ (n # 0 => stamp[a] < p[n].next)
    BY <1>5 DEF Matching
  <2>2. \A a \in S : stamp[a] # NoCursor
    BY <2>1 DEF Stamped, IsOpen
  <2> QED BY <2>1, <2>2, StampValues
<1>7. \A a \in T : a \in Alerts /\ IsOpen(a) /\ stamp[a] \in Nat /\ stamp[a] >= 1
  <2>1. \A a \in T : a \in Alerts /\ IsOpen(a)
    BY DEF Matching
  <2>2. \A a \in T : stamp[a] # NoCursor
    BY <2>1 DEF Stamped, IsOpen
  <2> QED BY <2>1, <2>2, StampValues
<1>8. page.next # NoCursor =>
        \E a, b \in Alerts : a # b /\ stamp[a] = page.next /\ stamp[b] \in 1..page.next
  <2> SUFFICES ASSUME page.next # NoCursor
               PROVE  \E a, b \in Alerts :
                        a # b /\ stamp[a] = page.next /\ stamp[b] \in 1..page.next
    OBVIOUS
  <2>1. PICK a \in S : page.next = stamp[a]
    BY <1>1
  <2>2. PICK b \in T \ S : TRUE
    BY <1>1
  <2>3. stamp[b] \leq stamp[a] /\ a # b /\ a \in Alerts /\ b \in Alerts
    BY <1>1, <1>0, <2>1, <2>2
  <2>4. stamp[b] \in 1..page.next
    BY <1>7, <2>1, <2>2, <2>3
  <2> QED BY <2>1, <2>3, <2>4
<1>9. n # 0 => page.next < p[n].next
  BY <1>1, <1>3, <1>4, <1>5, <1>6 DEF NoCursor
<1>10. \A j \in 1..n : page.next < p[j].next /\ \A a \in S : stamp[a] < p[j].next
  <2> SUFFICES ASSUME NEW j \in 1..n
               PROVE  page.next < p[j].next /\ \A a \in S : stamp[a] < p[j].next
    OBVIOUS
  <2>1. n # 0 /\ p[n].next \in Nat /\ p[j].next \in Nat
    BY <1>3, <1>4
  <2>2. p[n].next \leq p[j].next
    <3>1. CASE j = n
      BY <2>1, <3>1
    <3>2. CASE j # n
      <4>1. n \in 1..n /\ j < n
        BY <1>4, <3>2
      <4>2. p[n].next < p[j].next
        BY <4>1 DEF ViewInOrder, Below
      <4> QED BY <2>1, <4>2
    <3> QED BY <3>1, <3>2
  <2> QED BY <1>3, <1>6, <1>9, <2>1, <2>2
<1>11. Placed(page)
  <2>1. ASSUME NEW a \in S
        PROVE  status[a] \notin {"absent", "resolved"} /\ page.next \leq stamp[a]
    BY <1>1, <1>3, <1>6, <2>1 DEF IsOpen, NoCursor
  <2>2. ASSUME NEW a \in S PROVE page.rows[a] = status[a]
    BY <1>1 DEF PageOf
  <2> QED BY <1>1, <2>1, <2>2 DEF Placed, Lifecycle!Targets
<1>12. Paged(next)
  <2>1. ASSUME NEW i \in 1..(n + 1), i # n + 1
        PROVE  i \in 1..n /\ q[i] = p[i]
    <3>1. i \in 1..n
      BY <1>4, <2>1
    <3> QED BY <1>2, <3>1
  <2>3. ASSUME NEW i \in 1..(n + 1), i < n + 1 PROVE q[i].next # NoCursor
    <3>1. i \in 1..n /\ q[i] = p[i]
      BY <2>1, <2>3
    <3>2. CASE i = n
      BY <1>5, <3>1, <3>2
    <3>3. CASE i < n
      BY <3>1, <3>3 DEF ViewInOrder, Paged
    <3> QED BY <1>4, <3>1, <3>2, <3>3
  <2>4. ASSUME NEW i \in 1..(n + 1), q[i].next # NoCursor
        PROVE  \E a, b \in Alerts : a # b /\ stamp[a] = q[i].next /\ stamp[b] \in 1..q[i].next
    <3>1. CASE i = n + 1
      BY <1>2, <1>8, <2>4, <3>1
    <3>2. CASE i # n + 1
      BY <2>1, <2>4, <3>2 DEF ViewInOrder, Paged
    <3> QED BY <3>1, <3>2
  <2> QED BY <1>2, <2>3, <2>4 DEF Paged
<1>13. Below(next)
  <2> SUFFICES ASSUME NEW i \in 1..(n + 1), NEW j \in 1..(n + 1), i < j
               PROVE  /\ q[j].next < q[i].next
                      /\ \A a \in ShownBy(q[j]) : stamp[a] < q[i].next
    BY <1>2 DEF Below
  <2>1. i \in 1..n /\ q[i] = p[i]
    <3>1. i \in 1..n
      BY <1>4
    <3> QED BY <1>2, <3>1
  <2>2. CASE j = n + 1
    BY <1>1, <1>2, <1>10, <2>1, <2>2
  <2>3. CASE j # n + 1
    <3>1. j \in 1..n
      BY <1>4, <2>3
    <3> QED BY <1>2, <2>1, <3>1 DEF ViewInOrder, Below
  <2> QED BY <2>2, <2>3
<1>14. ASSUME NEW a \in T PROVE Reached(next, a)
  <2>1. CASE a \in S
    BY <1>1, <1>2, <1>4, <2>1 DEF Reached
  <2>2. CASE a \notin S
    <3>1. PICK b \in S : page.next = stamp[b] /\ stamp[a] \leq stamp[b]
      BY <1>1, <2>2
    <3>2. /\ a # b /\ a \in Alerts /\ b \in Alerts
          /\ stamp[a] \in Nat /\ stamp[b] \in Nat /\ stamp[b] >= 1
      BY <1>7, <2>2, <3>1
    <3>3. n + 1 \in 1..Len(q) /\ q[n + 1].next = page.next /\ q # <<>> /\ Last(q) = page
      BY <1>2, <1>4 DEF Last
    <3>4. CASE stamp[a] = stamp[b]
      BY <3>1, <3>2, <3>3, <3>4 DEF Reached
    <3>5. CASE stamp[a] < stamp[b]
      BY <3>1, <3>2, <3>3, <3>5 DEF Reached, HasNextPage, NoCursor
    <3> QED BY <3>1, <3>2, <3>4, <3>5
  <2> QED BY <2>1, <2>2
<1>15. ASSUME NEW a \in next.open
       PROVE  status[a] # "absent" /\ (IsOpen(a) => Reached(next, a))
  <2>1. CASE n = 0
    BY <1>4, <1>14, <1>15, <2>1 DEF Matching, IsOpen
  <2>2. CASE n # 0
    <3>1. a \in view.open /\ view.pages # <<>> /\ a \in Alerts
      BY <1>4, <1>5, <1>15, <2>2 DEF View
    <3>2. status[a] # "absent" /\ (IsOpen(a) => Reached(view, a))
      BY <3>1 DEF ViewInOrder, Covering
    <3>3. CASE \E i \in 1..n : a \in ShownBy(p[i])
      <4>1. PICK i \in 1..n : a \in ShownBy(p[i])
        BY <3>3
      <4>2. i \in 1..Len(q) /\ q[i] = p[i]
        BY <1>2
      <4> QED BY <3>2, <4>1, <4>2 DEF Reached
    <3>4. CASE a \in view.hidden
      BY <3>2, <3>4 DEF Reached
    <3>5. CASE \E i \in 1..n : /\ p[i].next = stamp[a]
                               /\ \E b \in Alerts \ {a} : stamp[b] = stamp[a]
      <4>1. PICK i \in 1..n : p[i].next = stamp[a]
        BY <3>5
      <4>2. i \in 1..Len(q) /\ q[i] = p[i]
        BY <1>2
      <4> QED BY <3>2, <3>5, <4>1, <4>2 DEF Reached
    <3>6. CASE IsOpen(a) /\ stamp[a] < p[n].next
      <4>1. a \in T
        BY <1>5, <2>2, <3>1, <3>6 DEF Matching
      <4> QED BY <1>14, <3>2, <4>1
    <3> QED BY <1>5, <2>2, <3>2, <3>3, <3>4, <3>5, <3>6 DEF Reached
  <2> QED BY <2>1, <2>2
<1>16. \A i \in 1..Len(q) : Placed(q[i])
  <2> SUFFICES ASSUME NEW i \in 1..(n + 1) PROVE Placed(q[i])
    BY <1>2
  <2>1. CASE i = n + 1
    BY <1>2, <1>11, <2>1
  <2>2. CASE i # n + 1
    <3>1. i \in 1..n
      BY <1>4, <2>2
    <3> QED BY <1>2, <3>1 DEF ViewInOrder
  <2> QED BY <2>1, <2>2
<1> QED
  BY <1>12, <1>13, <1>15, <1>16 DEF ViewInOrder, Covering

\* Rows are never removed, keep their stamp once they have one, and are not reopened.
Aged ==
    \A a \in Alerts :
        /\ status[a] # "absent" => status'[a] # "absent" /\ stamp'[a] = stamp[a]
        /\ status[a] \in Lifecycle!Targets => status'[a] \in Lifecycle!Targets
        /\ ~IsOpen(a) /\ status[a] # "absent" => ~IsOpen(a)'

\* What the engine does to the table.
LEMMA TableStep ==
    ASSUME QueueTypeOK, Stamped, [QueueNext]_queueVars
    PROVE  Aged
<1>1. ASSUME NEW a \in Alerts, NEW t \in Stamps, Raise(a, t) PROVE Aged
  BY <1>1 DEF Raise, Lifecycle!Raise, Lifecycle!Targets, Aged, QueueTypeOK, IsOpen
<1>2. ASSUME NEW moved \in SUBSET Alerts, NEW next \in Lifecycle!Targets,
             Lifecycle!Transition(moved, next), UNCHANGED stamp
      PROVE  Aged
  BY <1>2
     DEF Lifecycle!Transition, Lifecycle!CanTransition, Lifecycle!Targets, Aged, IsOpen,
         QueueTypeOK
<1>3. CASE UNCHANGED <<status, stamp>>
  BY <1>3 DEF Aged, IsOpen
<1>4. ASSUME NEW a \in Alerts, NEW next \in Lifecycle!Targets, HandleElsewhere(a, next)
      PROVE  Aged
  BY <1>2, <1>4 DEF HandleElsewhere
<1>5. CASE Serve
  <2>1. Eligible \in SUBSET Alerts /\ Target \in Lifecycle!Targets
    BY <1>5 DEF Serve, Eligible, Target, QueueTypeOK, NoCall, Lifecycle!Targets
  <2> QED BY <1>2, <1>5, <2>1 DEF Serve
<1> QED
  BY <1>1, <1>3, <1>4, <1>5
     DEF QueueNext, queueVars, Poll, FetchNextPage, ReadPage, FinishFetch, FailFetch, GoLive,
         Pause, Refresh, Mutate, Refuse, Settle

\* A view stays in order while the table ages.
LEMMA KeptView ==
    ASSUME QueueTypeOK, Stamped, Aged, NEW view \in View, ViewInOrder(view)
    PROVE  ViewInOrder(view)'
<1> DEFINE p == view.pages
<1>1. p \in Seq(Page) /\ \A i \in 1..Len(p) : p[i] \in Page
  BY DEF View
<1>2. \A i \in 1..Len(p) : p[i].next \in Nat /\ ShownBy(p[i]) \subseteq Alerts
  BY <1>1, PageValues
<1>3. \A a \in Alerts : stamp[a] # NoCursor => stamp'[a] = stamp[a]
  BY DEF Stamped, Aged
<1>4. Paged(view)'
  <2>1. ASSUME NEW i \in 1..Len(p), p[i].next # NoCursor
        PROVE  \E a, b \in Alerts : a # b /\ stamp'[a] = p[i].next /\ stamp'[b] \in 1..p[i].next
    <3>1. PICK a, b \in Alerts : a # b /\ stamp[a] = p[i].next /\ stamp[b] \in 1..p[i].next
      BY <2>1 DEF ViewInOrder, Paged
    <3>2. stamp[b] # NoCursor
      BY <3>1, <1>2 DEF NoCursor
    <3> QED BY <1>3, <2>1, <3>1, <3>2
  <2> QED BY <2>1 DEF ViewInOrder, Paged
<1>5. ASSUME NEW i \in 1..Len(p), NEW a \in ShownBy(p[i])
      PROVE  /\ a \in Alerts /\ status[a] # "absent"
             /\ stamp'[a] = stamp[a] /\ status'[a] # "absent"
  BY <1>2, <1>5 DEF ViewInOrder, Placed, Aged
<1>6. Below(view)'
  BY <1>5 DEF ViewInOrder, Below
<1>7. ASSUME NEW i \in 1..Len(p) PROVE Placed(p[i])'
  BY <1>2, <1>5, <1>7 DEF ViewInOrder, Placed, Aged, ShownBy
<1>8. ASSUME NEW a \in view.open
      PROVE  status'[a] # "absent" /\ (p # <<>> /\ IsOpen(a)' => Reached(view, a)')
  <2>1. a \in Alerts /\ status[a] # "absent" /\ status'[a] # "absent" /\ stamp'[a] = stamp[a]
    BY <1>8 DEF ViewInOrder, Covering, View, Aged
  <2>2. SUFFICES ASSUME p # <<>>, IsOpen(a)' PROVE Reached(view, a)'
    BY <2>1
  <2>3. Reached(view, a)
    BY <2>1, <2>2 DEF ViewInOrder, Covering, Aged
  <2>4. stamp[a] # NoCursor
    BY <2>1 DEF Stamped
  <2>5. \A b \in Alerts : stamp[b] = stamp[a] => stamp'[b] = stamp'[a]
    BY <1>3, <2>1, <2>4
  <2> QED BY <2>1, <2>3, <2>5 DEF Reached, HasNextPage, ShownBy
<1> QED
  BY <1>4, <1>6, <1>7, <1>8 DEF ViewInOrder, Covering

\* A patched page loses rows, or shows them as acknowledged; its cursor stays.
LEMMA PatchedPage ==
    ASSUME QueueTypeOK, CallInOrder, call.stage \in {"ok", "refused"},
           NEW page \in Page, Placed(page)
    PROVE  /\ Patched(page) \in Page /\ Patched(page).next = page.next
           /\ ShownBy(Patched(page)) \subseteq ShownBy(page)
           /\ ShownBy(page) \ ShownBy(Patched(page)) \subseteq call.ids
           /\ call.op = "acknowledge" => ShownBy(Patched(page)) = ShownBy(page)
           /\ Placed(Patched(page))
<1> DEFINE S == ShownBy(page)
           new == Patched(page)
           kept == IF call.op = "acknowledge" THEN S ELSE S \ call.ids
<1>1. S \subseteq Alerts /\ page.rows \in [S -> Lifecycle!Status]
  BY DEF Page, ShownBy
<1>2. new = [page EXCEPT !.rows =
               [a \in kept |-> IF call.op = "acknowledge" /\ a \in call.ids
                                 THEN "acknowledged" ELSE page.rows[a]]]
  BY DEF Patched, ShownBy
<1>3. /\ new.next = page.next /\ ShownBy(new) = kept
      /\ new.rows = [a \in kept |-> IF call.op = "acknowledge" /\ a \in call.ids
                                      THEN "acknowledged" ELSE page.rows[a]]
  BY <1>2 DEF Page, ShownBy
<1>4. new.rows \in [kept -> Lifecycle!Status] /\ kept \in SUBSET Alerts
  BY <1>1, <1>3 DEF Lifecycle!Status
<1>5. new \in Page
  BY <1>2, <1>4 DEF Page
<1>6. call.op = "acknowledge" => \A a \in call.ids : status[a] \in Lifecycle!Targets
  BY DEF CallInOrder
<1>7. Placed(new)
  BY <1>3, <1>6 DEF Placed
<1> QED
  BY <1>3, <1>5, <1>7

\* A patched view stays in order: what a page loses was resolved, or is hidden.
LEMMA PatchedView ==
    ASSUME QueueTypeOK, CallInOrder, call.stage \in {"ok", "refused"},
           NEW view \in View, ViewInOrder(view)
    PROVE  Patch(view) \in View /\ ViewInOrder(Patch(view))
<1> DEFINE p == view.pages
           new == Patch(view)
           q == new.pages
           n == Len(p)
<1>1. p \in Seq(Page) /\ n \in Nat /\ DOMAIN p = 1..n /\ \A i \in 1..n : p[i] \in Page
  BY LenProperties DEF View
<1>2. q = [i \in 1..n |-> Patched(p[i])] /\ new.open = view.open
  BY <1>1 DEF Patch, View
<1>3. new.hidden = IF call.stage = "refused" THEN view.hidden \cup call.ids ELSE view.hidden
  BY DEF Patch, View
<1>4. ASSUME NEW i \in 1..n
      PROVE  /\ q[i] \in Page /\ q[i].next = p[i].next /\ Placed(q[i])
             /\ ShownBy(q[i]) \subseteq ShownBy(p[i])
             /\ ShownBy(p[i]) \ ShownBy(q[i]) \subseteq call.ids
             /\ call.op = "acknowledge" => ShownBy(q[i]) = ShownBy(p[i])
  BY <1>1, <1>2, PatchedPage DEF ViewInOrder
<1>5. q \in Seq(Page) /\ Len(q) = n
  <2>1. q \in [1..n -> Page]
    BY <1>2, <1>4
  <2>2. q \in Seq(Page)
    BY <1>1, <2>1, SeqDef
  <2>3. DOMAIN q = 1..n /\ DOMAIN q = 1..Len(q) /\ Len(q) \in Nat
    BY <1>2, <2>2, LenProperties
  <2> QED BY <1>1, <2>2, <2>3
<1>6. call.ids \subseteq Alerts
  BY DEF QueueTypeOK, NoCall
<1>7. new \in View
  BY <1>3, <1>5, <1>6 DEF Patch, View
<1>8. (p = <<>> <=> n = 0) /\ (q = <<>> <=> n = 0)
  BY <1>1, <1>5, EmptySeq
<1>9. n # 0 => Last(p) = p[n] /\ Last(q) = q[n] /\ n \in 1..n
  BY <1>1, <1>5 DEF Last
<1>10. Paged(new)
  BY <1>4, <1>5 DEF ViewInOrder, Paged
<1>11. Below(new)
  <2> SUFFICES ASSUME NEW i \in 1..n, NEW j \in 1..n, i < j
               PROVE  /\ q[j].next < q[i].next
                      /\ \A a \in ShownBy(q[j]) : stamp[a] < q[i].next
    BY <1>5 DEF Below
  <2>1. /\ p[j].next < p[i].next
        /\ \A a \in ShownBy(p[j]) : stamp[a] < p[i].next
    BY DEF ViewInOrder, Below
  <2> QED BY <1>4, <2>1
<1>12. ASSUME NEW a \in new.open
       PROVE  status[a] # "absent" /\ (q # <<>> /\ IsOpen(a) => Reached(new, a))
  <2>1. status[a] # "absent" /\ (p # <<>> /\ IsOpen(a) => Reached(view, a))
    BY <1>2, <1>12 DEF ViewInOrder, Covering
  <2>2. SUFFICES ASSUME n # 0, IsOpen(a) PROVE Reached(new, a)
    BY <1>8, <2>1
  <2>3. Reached(view, a)
    BY <1>8, <2>1, <2>2
  <2>4. CASE \E i \in 1..n : a \in ShownBy(p[i])
    <3>1. PICK i \in 1..n : a \in ShownBy(p[i])
      BY <2>4
    <3>2. CASE a \in ShownBy(q[i])
      BY <1>5, <3>2 DEF Reached
    <3>3. CASE a \notin ShownBy(q[i])
      <4>1. a \in call.ids /\ call.op # "acknowledge"
        BY <1>4, <3>1, <3>3
      <4>2. call.stage = "refused"
        BY <2>2, <4>1 DEF CallInOrder
      <4> QED BY <1>3, <4>1, <4>2 DEF Reached
    <3> QED BY <3>2, <3>3
  <2>5. CASE a \in view.hidden
    BY <1>3, <2>5 DEF Reached
  <2>6. CASE /\ \E i \in 1..n : p[i].next = stamp[a]
             /\ \E b \in Alerts \ {a} : stamp[b] = stamp[a]
    BY <1>4, <1>5, <2>6 DEF Reached
  <2>7. CASE HasNextPage(view) /\ stamp[a] < Last(p).next
    BY <1>4, <1>8, <1>9, <2>2, <2>7 DEF Reached, HasNextPage
  <2> QED BY <2>3, <2>4, <2>5, <2>6, <2>7 DEF Reached
<1> QED
  BY <1>4, <1>5, <1>7, <1>10, <1>11, <1>12 DEF ViewInOrder, Covering

\* There are no more pages than alerts: each cursor is the stamp of an alert, and there
\* was another one behind the last cursor.
LEMMA PagesAreFew ==
    ASSUME QueueTypeOK, NEW view \in View, ViewInOrder(view), view.pages # <<>>
    PROVE  Len(view.pages) \in 1..Cardinality(Alerts)
<1> DEFINE p == view.pages
           n == Len(p)
<1>1. p \in Seq(Page) /\ n \in Nat \ {0} /\ \A i \in 1..n : p[i].next \in Nat
  BY EmptySeq, PageValues DEF View
<1>2. \A i, j \in 1..n : i < j => p[j].next < p[i].next
  BY DEF ViewInOrder, Below
<1>3. \A i \in 1..n : i < n => /\ p[i].next # NoCursor
                            /\ \E a, b \in Alerts : /\ a # b /\ stamp[a] = p[i].next
                                                 /\ stamp[b] \in 1..p[i].next
  BY DEF ViewInOrder, Paged
<1>4. \A a \in Alerts : stamp[a] \in Nat
  BY StampValues
<1> DEFINE at(i) == CHOOSE a \in Alerts : stamp[a] = p[i].next
<1>5. \A i \in 1..n : i < n => at(i) \in Alerts /\ stamp[at(i)] = p[i].next
  BY <1>3
<1> HIDE DEF at
<1>6. \E last \in Alerts : n > 1 => last # at(n - 1) /\ stamp[last] <= p[n - 1].next
  <2>1. CASE n = 1
    BY <2>1, QueueAssumption
  <2>2. CASE n > 1
    <3>1. n - 1 \in 1..n /\ n - 1 < n /\ p[n - 1].next \in Nat
      BY <1>1, <2>2
    <3>2. PICK a, b \in Alerts : /\ a # b /\ stamp[a] = p[n - 1].next
                                 /\ stamp[b] \in 1..p[n - 1].next
      BY <1>3, <3>1
    <3>3. stamp[a] <= p[n - 1].next /\ stamp[b] <= p[n - 1].next
      BY <1>4, <3>1, <3>2
    <3>4. CASE a = at(n - 1)
      BY <3>2, <3>3, <3>4
    <3>5. CASE a # at(n - 1)
      BY <3>2, <3>3, <3>5
    <3> QED BY <3>4, <3>5
  <2>3. n = 1 \/ n > 1
    <3>1. n \in Nat /\ n # 0
      BY <1>1
    <3> HIDE DEF n
    <3> QED BY <3>1
  <2> QED BY <2>1, <2>2, <2>3
<1>7. PICK last \in Alerts : n > 1 => last # at(n - 1) /\ stamp[last] <= p[n - 1].next
  BY <1>6
<1> DEFINE f == [i \in 1..n |-> IF i < n THEN at(i) ELSE last]
<1>8. ASSUME NEW i \in 1..n, NEW j \in 1..n, i < j PROVE f[i] # f[j]
  <2>1. i < n /\ f[i] = at(i) /\ stamp[f[i]] = p[i].next /\ p[i].next \in Nat
    BY <1>1, <1>5, <1>8
  <2>2. CASE j < n
    BY <1>1, <1>2, <1>5, <1>8, <2>1, <2>2
  <2>3. CASE j = n
    <3>1. f[j] = last /\ n > 1 /\ n - 1 \in 1..n
      BY <1>1, <1>8, <2>3
    <3>2. CASE i = n - 1
      BY <1>7, <2>1, <3>1, <3>2
    <3>3. CASE i < n - 1
      <4>1. p[n - 1].next < p[i].next /\ p[n - 1].next \in Nat
        BY <1>1, <1>2, <3>1, <3>3
      <4>2. stamp[last] <= p[n - 1].next /\ stamp[last] \in Nat
        BY <1>4, <1>7, <3>1
      <4> QED BY <2>1, <3>1, <4>1, <4>2
    <3> QED BY <1>1, <2>1, <3>2, <3>3
  <2> QED BY <1>1, <2>2, <2>3
<1>9. f \in Injection(1..n, Alerts)
  <2>1. f \in [1..n -> Alerts]
    BY <1>5
  <2>2. \A i, j \in 1..n : f[i] = f[j] => i = j
    <3> HIDE DEF f
    <3> QED BY <1>1, <1>8
  <2> QED BY <2>1, <2>2 DEF Injection, IsInjective
<1>10. Cardinality(1..n) <= Cardinality(Alerts) /\ Cardinality(Alerts) \in Nat
  BY <1>9, FS_Injection, FS_CardinalityType, QueueAssumption
<1>11. Cardinality(1..n) = n
  BY <1>1, FS_Interval
<1> QED
  BY <1>1, <1>10, <1>11

\* A view that was never loaded is in order.
LEMMA EmptyView == Empty \in View /\ ViewInOrder(Empty)
<1>1. Empty.pages = <<>> /\ Len(Empty.pages) = 0 /\ Empty.open = {}
  BY DEF Empty
<1>2. Empty \in View
  BY DEF Empty, View
<1> QED
  BY <1>1, <1>2 DEF ViewInOrder, Paged, Below, Covering

\* What a fetch of all pages has left to read.
LEMMA RefetchIsBounded ==
    ASSUME QueueTypeOK, NEW k \in Keys, ViewInOrder(cache[k])
    PROVE  Refetch(k) \in [left : 0..Cardinality(Alerts), more : BOOLEAN, view : View]
<1> DEFINE n == Len(cache[k].pages)
<1>1. Cardinality(Alerts) \in Nat /\ Cardinality(Alerts) # 0
  BY QueueAssumption, FS_CardinalityType, FS_EmptySet
<1>2. cache[k] \in View
  BY DEF QueueTypeOK
<1>3. n \in 0..Cardinality(Alerts)
  <2>1. CASE cache[k].pages = <<>>
    BY <1>1, <2>1
  <2>2. CASE cache[k].pages # <<>>
    BY <1>1, <1>2, <2>2, PagesAreFew
  <2> QED BY <2>1, <2>2
<1>4. Max({1, n}) \in {1, n}
  <2>1. n \in Nat
    BY <1>1, <1>3
  <2>2. \E x \in {1, n} : \A y \in {1, n} : x >= y
    <3>1. CASE n >= 1
      BY <2>1, <3>1
    <3>2. CASE n = 0
      BY <3>2
    <3> QED BY <2>1, <3>1, <3>2
  <2> QED BY <2>2 DEF Max
<1>5. Max({1, n}) \in 0..Cardinality(Alerts)
  BY <1>1, <1>3, <1>4
<1> QED
  BY <1>5, EmptyView DEF Refetch

\* The queue starts empty, with its first page to be read.
LEMMA QueueInitially == QueueInit => QueueInv
<1> SUFFICES ASSUME QueueInit PROVE QueueInv
  OBVIOUS
<1>1. Stamped /\ CallInOrder
  BY DEF QueueInit, Lifecycle!Init, Stamped, CallInOrder, NoCall
<1>2. \A k \in Keys : cache[k] = Empty /\ fetch[k].view = Empty
  BY DEF QueueInit, Refetch, NoFetch
<1>3. Cardinality(Alerts) \in Nat /\ Cardinality(Alerts) # 0
  BY QueueAssumption, FS_CardinalityType, FS_EmptySet
<1>4. Max({1, Len(Empty.pages)}) = 1
  BY DEF Max, Empty
<1>5. fetch \in [Keys -> [left : 0..Cardinality(Alerts), more : BOOLEAN, view : View]]
  <2>1. Refetch(Key) \in [left : 0..Cardinality(Alerts), more : BOOLEAN, view : View]
    <3>1. Key \in Keys
      BY DEF Key, Keys
    <3>2. Refetch(Key) = [left |-> 1, more |-> FALSE, view |-> Empty]
      BY <1>2, <1>4, <3>1 DEF Refetch
    <3> QED BY <1>3, <3>2, EmptyView
  <2>2. NoFetch \in [left : 0..Cardinality(Alerts), more : BOOLEAN, view : View]
    BY <1>3, EmptyView DEF NoFetch
  <2>3. fetch = [k \in Keys |-> IF k = Key THEN Refetch(Key) ELSE NoFetch]
    BY DEF QueueInit
  <2> QED BY <2>1, <2>2, <2>3
<1>6. QueueTypeOK
  <2>1. status \in [Alerts -> Lifecycle!Status] /\ stamp \in [Alerts -> {NoCursor} \cup Stamps]
    BY DEF QueueInit, Lifecycle!Init, Lifecycle!Status
  <2>2. cache \in [Keys -> View]
    BY EmptyView DEF QueueInit
  <2>3. live \in BOOLEAN /\ call = NoCall /\ clicks \in 0..MaxClicks
    <3>1. clicks \in 0..MaxClicks
      BY QueueAssumption DEF QueueInit
    <3> QED BY <3>1 DEF QueueInit
  <2> QED BY <1>5, <2>1, <2>2, <2>3 DEF QueueTypeOK
<1> QED
  BY <1>1, <1>2, <1>6, EmptyView DEF QueueInv

\* What a view has become is in order if that is.
LEMMA CacheIsInOrder ==
    ASSUME NEW k, NEW view, cache'[k] = view, ViewInOrder(view)'
    PROVE  ViewInOrder(cache[k])'
<1>1. Paged(cache[k])'
  BY DEF ViewInOrder, Paged
<1>2. Below(cache[k])'
  BY DEF ViewInOrder, Below, ShownBy
<1>3. Covering(cache[k])'
  BY DEF ViewInOrder, Covering, Reached, ShownBy, HasNextPage, Last, IsOpen
<1>4. \A i \in 1..Len(cache'[k].pages) : Placed(cache[k].pages[i])'
  BY DEF ViewInOrder, Placed, ShownBy
<1> QED
  BY <1>1, <1>2, <1>3, <1>4 DEF ViewInOrder

\* The same of a view that is being fetched.
LEMMA FetchIsInOrder ==
    ASSUME NEW k, NEW view, fetch'[k].view = view, ViewInOrder(view)'
    PROVE  ViewInOrder(fetch[k].view)'
<1>1. Paged(fetch[k].view)'
  BY DEF ViewInOrder, Paged
<1>2. Below(fetch[k].view)'
  BY DEF ViewInOrder, Below, ShownBy
<1>3. Covering(fetch[k].view)'
  BY DEF ViewInOrder, Covering, Reached, ShownBy, HasNextPage, Last, IsOpen
<1>4. \A i \in 1..Len(fetch'[k].view.pages) : Placed(fetch[k].view.pages[i])'
  BY DEF ViewInOrder, Placed, ShownBy
<1> QED
  BY <1>1, <1>2, <1>3, <1>4 DEF ViewInOrder

\* A view that lists nothing wrong shows no alert as handled before it is.
LEMMA ShownIsHandled ==
    ASSUME NEW view \in View, ViewInOrder(view), NEW a \in Shown(view)
    PROVE  /\ a \in Alerts /\ StatusShown(view, a) \notin {"absent", "resolved"}
           /\ StatusShown(view, a) = "acknowledged" => status[a] \in Lifecycle!Targets
<1> DEFINE shows(i) == i \in 1..Len(view.pages) /\ a \in ShownBy(view.pages[i])
           i == CHOOSE i \in 1..Len(view.pages) : a \in ShownBy(view.pages[i])
<1>1. i \in 1..Len(view.pages) /\ a \in ShownBy(view.pages[i])
  BY DEF Shown
<1>2. StatusShown(view, a) = view.pages[i].rows[a]
  BY DEF StatusShown
<1> HIDE DEF i
<1>3. view.pages[i] \in Page
  BY <1>1 DEF View
<1>4. a \in Alerts
  BY <1>1, <1>3, PageValues
<1> QED
  BY <1>1, <1>2, <1>4 DEF ViewInOrder, Placed

\* A page that was read is added to a fetch.
LEMMA PageIsRead ==
    ASSUME QueueTypeOK, Stamped, NEW k \in Keys, ViewInOrder(fetch[k].view), ReadPage(k)
    PROVE  /\ fetch'[k] \in [left : 0..Cardinality(Alerts), more : BOOLEAN, view : View]
           /\ ViewInOrder(fetch'[k].view)
<1> DEFINE f == fetch[k]
           first == f.view.pages = <<>>
           cursor == IF first THEN NoCursor ELSE Last(f.view.pages).next
           open == IF first THEN {a \in Alerts : IsOpen(a)} ELSE f.view.open
<1>1. PICK page \in Select(Matching(cursor)) :
        fetch' = [fetch EXCEPT ![k] = [f EXCEPT !.left = @ - 1,
                                                !.view.pages = Append(@, page),
                                                !.view.open = open]]
  BY DEF ReadPage
<1>2. f.left \in 0..Cardinality(Alerts) /\ f.more \in BOOLEAN /\ f.view \in View /\ f.left # 0
  BY DEF ReadPage, Complete, QueueTypeOK
<1>3. page \in Page
  BY SelectedPage DEF Matching
<1> DEFINE next == [f.view EXCEPT !.pages = Append(@, page), !.open = open]
<1>4. /\ next.pages = Append(f.view.pages, page) /\ next.hidden = f.view.hidden
      /\ next.open = open
  BY <1>2 DEF View
<1>5. next \in View
  <2>1. Append(f.view.pages, page) \in Seq(Page)
    BY <1>2, <1>3, AppendProperties DEF View
  <2>2. open \in SUBSET Alerts
    BY <1>2 DEF View
  <2> QED BY <1>2, <2>1, <2>2 DEF View
<1>6. fetch'[k] = [left |-> f.left - 1, more |-> f.more, view |-> next]
  BY <1>1, <1>2 DEF QueueTypeOK
<1>7. f.left - 1 \in 0..Cardinality(Alerts)
  BY <1>2, QueueAssumption, FS_CardinalityType
<1>8. ~first => HasNextPage(f.view)
  BY <1>2 DEF ReadPage, Complete
<1>9. ViewInOrder(next)
  <2> HIDE DEF next
  <2> QED BY <1>2, <1>4, <1>5, <1>8, AppendedPage
<1> QED
  BY <1>2, <1>5, <1>6, <1>7, <1>9

\* Every variable keeps its type.
LEMMA QueueTypeStep ==
    ASSUME QueueInv, [QueueNext]_queueVars
    PROVE  QueueTypeOK'
<1> DEFINE Fetch == [left : 0..Cardinality(Alerts), more : BOOLEAN, view : View]
<1>1. QueueTypeOK /\ Stamped /\ CallInOrder /\ Key \in Keys
  BY DEF QueueInv, Key, Keys
<1>2. \A k \in Keys : ViewInOrder(cache[k]) /\ ViewInOrder(fetch[k].view)
  BY DEF QueueInv
<1>3. /\ fetch \in [Keys -> Fetch] /\ cache \in [Keys -> View]
      /\ Cardinality(Alerts) \in Nat /\ Cardinality(Alerts) # 0
  BY <1>1, QueueAssumption, FS_CardinalityType, FS_EmptySet DEF QueueTypeOK
<1>4. \A k \in Keys : [fetch EXCEPT ![k] = Refetch(k)] \in [Keys -> Fetch]
  BY <1>1, <1>2, <1>3, RefetchIsBounded
<1>5. NoFetch \in Fetch
  BY <1>3, EmptyView DEF NoFetch
<1> HIDE DEF Fetch
<1>6. ASSUME fetch' \in [Keys -> Fetch], cache' \in [Keys -> View], live' \in BOOLEAN,
             UNCHANGED <<status, stamp, call>>, UNCHANGED clicks \/ Click
      PROVE  QueueTypeOK'
  <2>1. clicks' \in 0..MaxClicks
    BY <1>1, <1>6, QueueAssumption DEF QueueTypeOK, Click
  <2> QED BY <1>1, <1>6, <2>1 DEF QueueTypeOK, Fetch
<1>7. ASSUME NEW a \in Alerts, NEW t \in Stamps, Raise(a, t) PROVE QueueTypeOK'
  BY <1>1, <1>7 DEF Raise, Lifecycle!Raise, Lifecycle!Status, QueueTypeOK
<1>8. ASSUME NEW a \in Alerts, NEW next \in Lifecycle!Targets, HandleElsewhere(a, next)
      PROVE  QueueTypeOK'
  BY <1>1, <1>8
     DEF HandleElsewhere, Lifecycle!Transition, Lifecycle!Targets, Lifecycle!Status, QueueTypeOK
<1>9. CASE Poll \/ Refresh
  BY <1>1, <1>3, <1>4, <1>6, <1>9 DEF Poll, Refresh, Refetched, QueueTypeOK
<1>10. CASE FetchNextPage
  <2>1. [left |-> 1, more |-> TRUE, view |-> cache[Key]] \in Fetch
    BY <1>1, <1>3 DEF Fetch
  <2>2. fetch' \in [Keys -> Fetch]
    BY <1>3, <1>10, <2>1 DEF FetchNextPage
  <2> QED BY <1>1, <1>3, <1>6, <1>10, <2>2 DEF FetchNextPage, QueueTypeOK
<1>11. CASE GoLive
  BY <1>1, <1>3, <1>4, <1>6, <1>11 DEF GoLive, Refetched
<1>12. CASE Pause
  <2>1. fetch' \in [Keys -> Fetch]
    BY <1>3, <1>4, <1>12 DEF Pause, Keys
  <2> QED BY <1>3, <1>6, <1>12, <2>1 DEF Pause
<1>13. ASSUME NEW k \in Keys, ReadPage(k) PROVE QueueTypeOK'
  <2>1. fetch'[k] \in Fetch
    BY <1>1, <1>2, <1>13, PageIsRead DEF Fetch
  <2>2. fetch' \in [Keys -> Fetch]
    BY <1>3, <1>13, <2>1 DEF ReadPage
  <2>3. UNCHANGED <<status, stamp, live, cache, call, clicks>>
    BY <1>13 DEF ReadPage
  <2> QED BY <1>1, <1>3, <1>6, <2>2, <2>3 DEF QueueTypeOK
<1>14. ASSUME NEW k \in Keys, FinishFetch(k) PROVE QueueTypeOK'
  <2>1. fetch' \in [Keys -> Fetch] /\ cache' \in [Keys -> View]
    BY <1>3, <1>5, <1>14 DEF FinishFetch, Fetch
  <2> QED BY <1>1, <1>6, <1>14, <2>1 DEF FinishFetch, QueueTypeOK
<1>15. ASSUME NEW k \in Keys, FailFetch(k) PROVE QueueTypeOK'
  <2>1. fetch' \in [Keys -> Fetch]
    BY <1>3, <1>5, <1>15 DEF FailFetch
  <2> QED BY <1>1, <1>3, <1>6, <1>15, <2>1 DEF FailFetch, QueueTypeOK
<1>16. ASSUME NEW op \in Ops, NEW ids \in SUBSET Alerts, Mutate(op, ids) PROVE QueueTypeOK'
  <2>1. clicks' \in 0..MaxClicks
    BY <1>1, <1>16, QueueAssumption DEF Mutate, Click, QueueTypeOK
  <2> QED BY <1>1, <1>16, <2>1 DEF Mutate, QueueTypeOK
<1>17. CASE Serve
  <2>1. call \in [op : Ops, ids : SUBSET Alerts, stage : {"sent", "ok", "refused"}]
    BY <1>1, <1>17 DEF Serve, QueueTypeOK, NoCall
  <2>2. \/ call' \in [op : Ops, ids : SUBSET Alerts, stage : {"sent", "ok", "refused"}]
        \/ call' = NoCall
    BY <1>17, <2>1 DEF Serve
  <2>3. status' \in [Alerts -> Lifecycle!Status]
    BY <1>1, <1>17 DEF Serve, Lifecycle!Transition, Target, Lifecycle!Status, QueueTypeOK
  <2> QED BY <1>1, <1>17, <2>2, <2>3 DEF Serve, QueueTypeOK
<1>18. CASE Refuse
  <2>1. call \in [op : Ops, ids : SUBSET Alerts, stage : {"sent", "ok", "refused"}]
    BY <1>1, <1>18 DEF Refuse, QueueTypeOK, NoCall
  <2>2. \/ call' \in [op : Ops, ids : SUBSET Alerts, stage : {"sent", "ok", "refused"}]
        \/ call' = NoCall
    BY <1>18, <2>1 DEF Refuse
  <2> QED BY <1>1, <1>18, <2>2 DEF Refuse, QueueTypeOK
<1>19. CASE Settle
  <2>1. fetch' \in [Keys -> Fetch]
    BY <1>1, <1>3, <1>4, <1>19 DEF Settle, Refetched
  <2>2. Patch(cache["paused"]) \in View
    BY <1>1, <1>2, <1>3, <1>19, PatchedView DEF Settle, Keys
  <2>3. cache' \in [Keys -> View]
    BY <1>3, <1>19, <2>2 DEF Settle
  <2> QED BY <1>1, <1>19, <2>1, <2>3 DEF Settle, QueueTypeOK, Fetch
<1>20. CASE UNCHANGED queueVars
  BY <1>1, <1>20 DEF queueVars, QueueTypeOK
<1> QED
  BY <1>7, <1>8, <1>9, <1>10, <1>11, <1>12, <1>13, <1>14, <1>15, <1>16, <1>17, <1>18, <1>19,
     <1>20 DEF QueueNext

\* An alert gets its stamp with its row.
LEMMA StampStep ==
    ASSUME QueueTypeOK, Stamped, [QueueNext]_queueVars
    PROVE  Stamped'
<1>1. ASSUME NEW a \in Alerts, NEW t \in Stamps, Raise(a, t) PROVE Stamped'
  BY <1>1 DEF Raise, Lifecycle!Raise, Stamped, Stamps, NoCursor, QueueTypeOK
<1>2. CASE UNCHANGED <<status, stamp>>
  BY <1>2 DEF Stamped
<1>3. ASSUME NEW moved, NEW next \in Lifecycle!Targets, Lifecycle!Transition(moved, next),
             UNCHANGED stamp
      PROVE  Stamped'
  BY <1>3 DEF Lifecycle!Transition, Lifecycle!CanTransition, Lifecycle!Targets, Stamped
<1>4. ASSUME NEW a \in Alerts, NEW next \in Lifecycle!Targets, HandleElsewhere(a, next)
      PROVE  Stamped'
  BY <1>3, <1>4 DEF HandleElsewhere
<1>5. CASE Serve
  BY <1>3, <1>5 DEF Serve, Target, Lifecycle!Targets
<1> QED
  BY <1>1, <1>2, <1>4, <1>5
     DEF QueueNext, queueVars, Poll, FetchNextPage, ReadPage, FinishFetch, FailFetch, GoLive,
         Pause, Refresh, Mutate, Refuse, Settle

\* What was answered "ok" is done when it is answered, and stays so.
LEMMA CallStep ==
    ASSUME QueueInv, [QueueNext]_queueVars
    PROVE  CallInOrder'
<1>1. /\ QueueTypeOK /\ Stamped /\ CallInOrder /\ Aged /\ Key \in Keys /\ cache[Key] \in View
      /\ ViewInOrder(cache[Key])
  BY TableStep DEF QueueInv, Key, Keys, QueueTypeOK
<1>2. CASE UNCHANGED call
  <2>1. call.ids \subseteq Alerts
    BY <1>1 DEF QueueTypeOK, NoCall
  <2>2. \A a \in call.ids : status[a] \in Lifecycle!Targets => status[a] # "absent"
    BY DEF Lifecycle!Targets
  <2> QED BY <1>1, <1>2, <2>1, <2>2 DEF CallInOrder, Aged, IsOpen
<1>3. CASE call' = NoCall
  BY <1>3 DEF CallInOrder, NoCall
<1>4. ASSUME NEW op \in Ops, NEW ids \in SUBSET Alerts, Mutate(op, ids) PROVE CallInOrder'
  <2>1. /\ call' = [op |-> op, ids |-> ids, stage |-> "sent"] /\ ids \in Offered(op)
        /\ status' = status
    BY <1>4 DEF Mutate
  <2>2. op # "batchResolve" => \E a \in Alerts : ids = {a}
    BY <1>1, <2>1, ShownIsHandled DEF Offered, Ops
  <2>3. op = "batchResolve" => ids \subseteq AcknowledgedIds
    BY <2>1 DEF Offered, kSubset
  <2>4. \A a \in AcknowledgedIds : status[a] \in Lifecycle!Targets
    BY <1>1, ShownIsHandled DEF AcknowledgedIds
  <2> QED BY <2>1, <2>2, <2>3, <2>4 DEF CallInOrder
<1>5. CASE Serve /\ call' # NoCall
  <2>1. /\ call' = [call EXCEPT !.stage = "ok"] /\ call.stage = "sent"
        /\ status' = [a \in Alerts |-> IF a \in Eligible THEN Target ELSE status[a]]
        /\ Eligible # {} \/ call.op = "batchResolve"
    BY <1>5 DEF Serve, Lifecycle!Transition
  <2>2. call \in [op : Ops, ids : SUBSET Alerts, stage : {"sent", "ok", "refused"}]
    BY <1>1, <2>1 DEF QueueTypeOK, NoCall
  <2>3. /\ call'.op = call.op /\ call'.ids = call.ids /\ call'.stage = "ok"
        /\ call.ids \subseteq Alerts
    BY <2>1, <2>2
  <2>4. Eligible = call.ids => \A a \in call.ids : status'[a] = Target
    BY <2>1, <2>3
  <2>5. CASE call.op # "batchResolve"
    <3>1. \E a \in Alerts : call.ids = {a}
      BY <1>1, <2>2, <2>5 DEF CallInOrder, Ops
    <3>2. Eligible = call.ids
      BY <2>1, <2>5, <3>1 DEF Eligible
    <3> QED
      BY <1>1, <2>3, <2>4, <2>5, <3>1, <3>2 DEF CallInOrder, Target, Lifecycle!Targets, IsOpen
  <2>6. CASE call.op = "batchResolve"
    <3>1. ASSUME NEW a \in call.ids PROVE status'[a] = "resolved"
      <4>1. status[a] \in {"acknowledged", "resolved"} /\ Target = "resolved" /\ a \in Alerts
        BY <1>1, <2>3, <2>6 DEF CallInOrder, Lifecycle!Targets, Target
      <4>2. status[a] = "acknowledged" => a \in Eligible
        BY <4>1 DEF Eligible, Lifecycle!CanTransition
      <4> QED BY <2>1, <4>1, <4>2
    <3> QED BY <2>3, <2>6, <3>1 DEF CallInOrder, Lifecycle!Targets, IsOpen
  <2> QED BY <2>5, <2>6
<1>6. CASE Refuse /\ call' # NoCall
  <2>1. /\ call.op = "batchResolve" /\ call' = [call EXCEPT !.stage = "refused"]
        /\ status' = status
    BY <1>6 DEF Refuse
  <2> QED BY <1>1, <2>1 DEF CallInOrder, QueueTypeOK, NoCall
<1> QED
  BY <1>2, <1>3, <1>4, <1>5, <1>6
     DEF QueueNext, queueVars, Poll, FetchNextPage, ReadPage, FinishFetch, FailFetch, GoLive,
         Pause, Refresh, Refuse, Settle, Raise, HandleElsewhere

\* Every view stays in order: what is read, patched and replaced.
LEMMA ViewsStep ==
    ASSUME QueueInv, [QueueNext]_queueVars, NEW k \in Keys
    PROVE  ViewInOrder(cache[k])' /\ ViewInOrder(fetch[k].view)'
<1>1. /\ QueueTypeOK /\ Stamped /\ CallInOrder /\ Aged /\ Key \in Keys
      /\ \A x \in Keys : /\ ViewInOrder(cache[x]) /\ ViewInOrder(fetch[x].view)
                         /\ cache[x] \in View /\ fetch[x].view \in View
  BY TableStep DEF QueueInv, Key, Keys, QueueTypeOK
<1>2. ASSUME NEW view \in View, ViewInOrder(view) PROVE ViewInOrder(view)'
  BY <1>1, <1>2, KeptView
<1>3. ASSUME NEW view \in View, ViewInOrder(view), cache'[k] = view PROVE ViewInOrder(cache[k])'
  BY <1>2, <1>3, CacheIsInOrder
<1>4. ASSUME NEW view \in View, ViewInOrder(view), fetch'[k].view = view
      PROVE  ViewInOrder(fetch[k].view)'
  BY <1>2, <1>4, FetchIsInOrder
<1>5. \/ cache'[k] = cache[k]
      \/ FinishFetch(k) /\ cache'[k] = fetch[k].view
      \/ Settle /\ cache'[k] = Patch(cache[k])
  BY DEF QueueInv, QueueTypeOK, QueueNext, queueVars, Raise, HandleElsewhere, Poll,
         FetchNextPage, ReadPage, FinishFetch, FailFetch, GoLive, Pause, Refresh, Mutate, Serve,
         Refuse, Settle
<1>6. ViewInOrder(cache[k])'
  <2>1. CASE cache'[k] = cache[k]
    BY <1>1, <1>3, <2>1
  <2>2. CASE cache'[k] = fetch[k].view
    BY <1>1, <1>3, <2>2
  <2>3. CASE Settle /\ cache'[k] = Patch(cache[k])
    BY <1>1, <1>3, <2>3, PatchedView DEF Settle
  <2> QED BY <1>5, <2>1, <2>2, <2>3
<1>7. \/ fetch'[k] = fetch[k]
      \/ fetch'[k].view = Empty
      \/ fetch'[k].view = cache[k]
      \/ ReadPage(k)
  <2>1. \A x : Refetch(x).view = Empty
    BY DEF Refetch
  <2>2. fetch' = Refetched => fetch'[k] = fetch[k] \/ fetch'[k].view = Empty
    BY <1>1, <2>1 DEF Refetched, QueueTypeOK
  <2>3. FetchNextPage => fetch'[k] = fetch[k] \/ fetch'[k].view = cache[k]
    BY <1>1 DEF FetchNextPage, QueueTypeOK
  <2>4. Pause => fetch'[k] = fetch[k] \/ fetch'[k].view = Empty
    BY <1>1, <2>1 DEF Pause, QueueTypeOK
  <2>5. \A x \in Keys : x # k /\ ReadPage(x) => fetch'[k] = fetch[k]
    BY <1>1 DEF ReadPage, QueueTypeOK
  <2>6. \A x \in Keys : FinishFetch(x) \/ FailFetch(x) =>
          fetch'[k] = fetch[k] \/ fetch'[k].view = Empty
    BY <1>1 DEF FinishFetch, FailFetch, NoFetch, QueueTypeOK
  <2> QED
    BY <2>2, <2>3, <2>4, <2>5, <2>6
       DEF QueueNext, queueVars, Raise, HandleElsewhere, Poll, GoLive, Refresh, Mutate, Serve,
           Refuse, Settle
<1>8. ViewInOrder(fetch[k].view)'
  <2>1. CASE fetch'[k] = fetch[k]
    BY <1>1, <1>4, <2>1
  <2>2. CASE fetch'[k].view = Empty
    BY <1>4, <2>2, EmptyView
  <2>3. CASE fetch'[k].view = cache[k]
    BY <1>1, <1>4, <2>3
  <2>4. CASE ReadPage(k)
    <3>1. fetch'[k].view \in View /\ ViewInOrder(fetch'[k].view)
      BY <1>1, <2>4, PageIsRead
    <3> QED BY <1>4, <3>1
  <2> QED BY <1>7, <2>1, <2>2, <2>3, <2>4
<1> QED
  BY <1>6, <1>8

\* In every reachable state the views are in order.
LEMMA QueueInvariant == QueueSpec => []QueueInv
<1>1. QueueInv /\ [QueueNext]_queueVars => QueueInv'
  BY QueueTypeStep, StampStep, CallStep, ViewsStep DEF QueueInv
<1> QED
  BY QueueInitially, <1>1, PTL DEF QueueSpec

\* Every variable has its type; that a fetch never has more pages to read than there
\* are alerts is part of it (useInfiniteQuery in alerts-manager.tsx).
THEOREM QueueTypeCorrect == QueueSpec => []QueueTypeOK
BY QueueInvariant, PTL DEF QueueInv

\* No view lists an alert twice, for any number of alerts and pages (alerts.list).
THEOREM PagesNeverOverlap == QueueSpec => []PagesAreDisjoint
<1>1. QueueInv => PagesAreDisjoint
  <2> SUFFICES ASSUME QueueInv, NEW k \in Keys
               PROVE  \A i, j \in 1..Len(cache[k].pages) : i # j =>
                        ShownBy(cache[k].pages[i]) \cap ShownBy(cache[k].pages[j]) = {}
    BY DEF PagesAreDisjoint
  <2> DEFINE p == cache[k].pages
             n == Len(p)
  <2>1. cache[k] \in View /\ ViewInOrder(cache[k]) /\ QueueTypeOK
    BY DEF QueueInv, QueueTypeOK
  <2>2. n \in Nat /\ \A i \in 1..n : p[i].next \in Nat /\ ShownBy(p[i]) \subseteq Alerts
    BY <2>1, PageValues DEF View
  <2>3. ASSUME NEW i \in 1..n, NEW j \in 1..n, i < j,
               NEW a \in ShownBy(p[i]), a \in ShownBy(p[j])
        PROVE  FALSE
    <3>1. p[i].next \leq stamp[a] /\ stamp[a] \in Nat
      BY <2>1, <2>2, StampValues DEF ViewInOrder, Placed
    <3>2. stamp[a] < p[i].next
      BY <2>1, <2>3 DEF ViewInOrder, Below
    <3> QED BY <2>2, <3>1, <3>2
  <2>4. ASSUME NEW i \in 1..n, NEW j \in 1..n, i # j PROVE i < j \/ j < i
    BY <2>2, <2>4
  <2> QED BY <2>3, <2>4
<1> QED
  BY QueueInvariant, <1>1, PTL

\* A view that was loaded to its end misses only what shares a stamp with the end of a
\* page, or was hidden by a refused batch (alerts.list, alerts-manager.tsx).
THEOREM QueueMissesNothingElse == QueueSpec => []NothingElseIsMissed
<1>1. QueueInv => NothingElseIsMissed
  <2> SUFFICES ASSUME QueueInv, NEW k \in Keys,
                      cache[k].pages # <<>>, ~HasNextPage(cache[k]),
                      NEW a \in cache[k].open, IsOpen(a)
               PROVE  \/ a \in Shown(cache[k]) \/ a \in cache[k].hidden
                      \/ /\ stamp[a] \in {cache[k].pages[i].next : i \in 1..Len(cache[k].pages)}
                         /\ \E b \in Alerts \ {a} : stamp[b] = stamp[a]
    BY DEF NothingElseIsMissed
  <2>1. Reached(cache[k], a)
    BY DEF QueueInv, ViewInOrder, Covering
  <2> QED BY <2>1 DEF Reached, Shown
<1> QED
  BY QueueInvariant, <1>1, PTL

\* What a view shows as handled was handled, with fetches and patches that overwrite
\* each other (alerts-manager.tsx).
THEOREM QueueIsNeverAhead == QueueSpec => []ViewIsNeverAhead
<1>1. QueueInv => ViewIsNeverAhead
  BY ShownIsHandled DEF QueueInv, QueueTypeOK, ViewIsNeverAhead
<1> QED
  BY QueueInvariant, <1>1, PTL

=============================================================================
