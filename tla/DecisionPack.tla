---------------------------- MODULE DecisionPack ----------------------------
(***************************************************************************)
(* The decision handoff (src/src/backend/domain/decision-intelligence/     *)
(* build-pack.ts): changes, status, hotspots, ranked entities, visuals,    *)
(* actions and drill-downs built from the calculation by the policy of the *)
(* use case, and the schema the built pack has to meet before it is kept.  *)
(* The report's older brief (buildDecisionBrief) is here too.              *)
(***************************************************************************)
EXTENDS VisualEvidence

CONSTANTS Slug,        \* what normalize() makes of the name of a unit or segment
          MaxEvidence  \* evidence_refs an action may carry: 20 in the schema

(* The decision policy of the one use case, slow_moving_inventory.         *)
Rule(metric, kind, watch, material) ==
    [metric |-> metric, kind |-> kind, watch |-> watch, material |-> material]

Materiality ==
    {Rule("available_inventory", "relative", 10, 20),
     Rule("slow_moving_units", "relative", 10, 20),
     Rule("slow_moving_rate", "points", 5, 10),
     Rule("median_inventory_age_days", "relative", 10, 20),
     Rule("median_price", "relative", 10, 20)}

ContextOnly == {"median_price"}   \* every other metric: higher is worse
MaxUnits == 5
MaxSegments == 3
MaxTotal == 11
PreferredIntents == <<"inventory_kpi", "inventory_trend", "slow_moving_by_segment",
                      "inventory_composition", "aging_distribution", "peer_comparison">>
PrimaryCap == 3
RequiredKpis == {"available_inventory", "slow_moving_units", "slow_moving_rate",
                 "median_inventory_age_days"}

(* The first n of a set in the order of Before.                            *)
Top(S, n, Before(_, _)) == {x \in S : Cardinality({y \in S : Before(y, x)}) < n}
Ordered(S, Before(_, _)) ==
    [i \in 1..Cardinality(S) |->
        CHOOSE x \in S : Cardinality({y \in S : Before(y, x)}) = i - 1]

----------------------------------------------------------------------------
(* changes(): the comparisons that reach a threshold of the policy.        *)

Reaches(rule, comparison, threshold) ==
    IF rule.kind = "relative" THEN RelativeAtLeast(comparison, threshold)
                              ELSE PointsAtLeast(comparison, threshold)

Direction(rule, comparison) ==
    IF rule.metric \in ContextOnly THEN "context_only"
    ELSE IF comparison.delta > 0 THEN "deteriorating" ELSE "improving"

PolicyChanges(calc) ==
    LET Reached(p) == {rule \in Materiality :
                          /\ rule.metric \in Compared
                          /\ calc.periods[p][rule.metric].delta # Null
                          /\ Reaches(rule, calc.periods[p][rule.metric], rule.watch)}
    IN UNION {{[metric |-> rule.metric, period |-> p,
                severity |-> IF Reaches(rule, calc.periods[p][rule.metric], rule.material)
                             THEN "material" ELSE "watch",
                direction |-> Direction(rule, calc.periods[p][rule.metric])] :
                   rule \in Reached(p)} : p \in Periods}

(* Material ones first, then the shorter period, then the rule's name.     *)
RuleOrder == [median_inventory_age_days |-> 1, available_inventory |-> 2, slow_moving_rate |-> 3]
ChangeBefore(a, b) ==
    IF a.severity # b.severity THEN a.severity = "material"
    ELSE \/ a.period < b.period
         \/ a.period = b.period /\ RuleOrder[a.metric] < RuleOrder[b.metric]

Comparable(calc) == \E p \in Periods, key \in Compared : calc.periods[p][key].delta # Null

BusinessStatus(changes, comparable) ==
    LET directions == {c.direction : c \in {d \in changes : d.severity = "material"}}
    IN CASE {"deteriorating", "improving"} \subseteq directions -> "mixed"
         [] "deteriorating" \in directions /\ "improving" \notin directions -> "deteriorating"
         [] "improving" \in directions /\ "deteriorating" \notin directions -> "improving"
         [] OTHER -> IF comparable THEN "stable" ELSE "insufficient_evidence"

----------------------------------------------------------------------------
(* hotspots(): the largest values of any metric of any zone or unit type.  *)

SegmentTypes == {"zone", "unit_type"}
TypeOrder == [unit_type |-> 1, zone |-> 2]
BreakdownOrder == [total_inventory |-> 1, available_inventory |-> 2,
                   available_inventory_rate |-> 3, slow_moving_rate |-> 4,
                   median_inventory_age_days |-> 5, median_price_per_area |-> 6]

Hotspot(calc, type, key, metric) ==
    [type |-> type, key |-> key, metric |-> metric,
     value |-> calc.breakdowns[type][key][metric],
     path |-> <<"breakdowns", type, metric, PlaceOf(DOMAIN calc.breakdowns[type], key)>>]

HotspotBefore(a, b) ==
    IF a.value # b.value THEN a.value > b.value
    ELSE IF a.type # b.type THEN TypeOrder[a.type] < TypeOrder[b.type]
    ELSE IF a.key # b.key THEN a.key < b.key
    ELSE BreakdownOrder[a.metric] < BreakdownOrder[b.metric]

Hotspots(calc) ==
    LET all == UNION {{Hotspot(calc, type, key, metric) :
                         key \in DOMAIN calc.breakdowns[type], metric \in BrokenDown} :
                         type \in SegmentTypes}
    IN Top({h \in all : h.value # Null}, MaxSegments, HotspotBefore)

----------------------------------------------------------------------------
(* prioritise(): the units to look at, oldest first, then the hotspots.    *)

Tier(unit) ==
    LET age == IF unit.age = Null THEN 0 ELSE unit.age
    IN CASE age > 180 -> "critical"
         [] age <= 180 /\ unit.slow -> "high"
         [] age \in 91..180 /\ ~unit.slow -> "medium"
         [] age <= 90 /\ ~unit.slow -> "watch"

RankedUnits(calc) ==
    LET units == {u \in DOMAIN calc.units : calc.units[u].status = "available"}
        age(u) == IF calc.units[u].age = Null THEN -1 ELSE calc.units[u].age
        Before(a, b) == IF calc.units[a].slow # calc.units[b].slow THEN calc.units[a].slow
                        ELSE IF age(a) # age(b) THEN age(a) > age(b) ELSE a < b
    IN Ordered(Top(units, MaxUnits, Before), Before)

(* Mutant: the path counts the available units only. *)
UnitAmongAvailable(calc, u) ==
    [id |-> <<"unit", Slug[u]>>, tier |-> Tier(calc.units[u]), value |-> calc.units[u].age,
     path |-> <<"units",
                PlaceOf({v \in DOMAIN calc.units : calc.units[v].status = "available"}, u), "age">>]

UnitEntity(calc, u) ==
    [id |-> <<"unit", Slug[u]>>, tier |-> Tier(calc.units[u]), value |-> calc.units[u].age,
     path |-> <<"units", PlaceOf(DOMAIN calc.units, u), "age">>]

SegmentEntity(h) ==
    [id |-> <<h.type, Slug[h.key]>>, tier |-> "high", value |-> h.value, path |-> h.path]

Entities(calc) ==
    LET units == RankedUnits(calc)
        hot   == Ordered(Hotspots(calc), HotspotBefore)
        all   == [i \in 1..Cardinality(DOMAIN units) + Cardinality(DOMAIN hot) |->
                    IF i <= Cardinality(DOMAIN units) THEN UnitEntity(calc, units[i])
                    ELSE SegmentEntity(hot[i - Cardinality(DOMAIN units)])]
    IN [i \in {i \in DOMAIN all : i <= MaxTotal} |-> all[i]]

----------------------------------------------------------------------------
(* visualStory(), actionsAndDrilldowns() and the whole pack.               *)

(* One chart of each preferred intent; of several KPIs the first by name.  *)
KpiOrder == [available_inventory |-> 1, median_inventory_age_days |-> 2,
             median_price_per_area |-> 3, slow_moving_rate |-> 4, sold_units_30d |-> 5]

ChartFor(charts, intent) ==
    LET found == {c \in charts : c.intent = intent}
    IN IF intent # "inventory_kpi" THEN found
       ELSE {c \in found : \A d \in found : KpiOrder[c.id[2]] <= KpiOrder[d.id[2]]}

VisualStory(charts) ==
    LET chosen == {i \in DOMAIN PreferredIntents : ChartFor(charts, PreferredIntents[i]) # {}}
        rank(i) == Cardinality({j \in chosen : j <= i})
    IN [primary |-> UNION {ChartFor(charts, PreferredIntents[i]) :
                             i \in {j \in chosen : rank(j) <= PrimaryCap}},
        supporting |-> UNION {ChartFor(charts, PreferredIntents[i]) :
                             i \in {j \in chosen : rank(j) > PrimaryCap}}]

(* Every entity can be inspected, a segment can be compared as well; the   *)
(* evidence of the whole pack can be opened.                               *)
EntityActions(entity) ==
    {[id |-> <<kind, entity.id>>, targets |-> {entity.id}, evidence |-> {entity.path}] :
        kind \in IF entity.id[1] \in SegmentTypes THEN {"inspect", "compare"} ELSE {"inspect"}}

Actions(entities, evidence) ==
    {[id |-> <<"open", <<"decision", "evidence">>>>, targets |-> {}, evidence |-> evidence]}
    \cup UNION {EntityActions(entities[i]) : i \in DOMAIN entities}

Evidence(calc, changes, hot) ==
    {<<"metrics", key>> : key \in RequiredKpis}
    \cup {<<"periods", c.period, c.metric, side>> : c \in changes, side \in {"current", "prior"}}
    \cup {h.path : h \in hot}
    \cup {<<"quality">>}

BuildPack(calc) ==
    LET changes == PolicyChanges(calc)
        hot == Hotspots(calc)
        entities == Entities(calc)
        evidence == Evidence(calc, changes, hot)
    IN [changes |-> Ordered(changes, ChangeBefore),
        status |-> BusinessStatus(changes, Comparable(calc)),
        kpis |-> [key \in RequiredKpis |-> calc.metrics[key]],
        hotspots |-> hot,
        entities |-> entities,
        story |-> VisualStory(Charts(calc)),
        actions |-> Actions(entities, evidence),
        evidence |-> evidence]

(* What DecisionIntelligencePackSchema rejects of it: identifiers listed   *)
(* twice, ranks with gaps, too much evidence for one action, targets that  *)
(* are not in the pack, visuals.                                           *)
DistinctIds(pack) ==
    /\ \A i, j \in DOMAIN pack.entities : pack.entities[i].id = pack.entities[j].id => i = j
    /\ \A a, b \in pack.actions : a.id = b.id => a = b

Accepts(pack) ==
    /\ DistinctIds(pack)
    /\ DOMAIN pack.entities = 1..Cardinality(DOMAIN pack.entities)
    /\ \A action \in pack.actions :
          /\ Cardinality(action.evidence) <= MaxEvidence
          /\ action.targets \subseteq {pack.entities[i].id : i \in DOMAIN pack.entities}
    /\ Cardinality(pack.story.primary) <= 3
    /\ pack.story.primary \cap pack.story.supporting = {}

----------------------------------------------------------------------------
(* buildDecisionBrief(): the changes the calculation found notable, and    *)
(* the segment most of the available units are in.                         *)

Concentration(calc) ==
    LET key == "available_inventory"
        items == calc.breakdowns["zone"]
        Before(a, b) == IF items[a][key] # items[b][key] THEN items[a][key] > items[b][key]
                        ELSE a < b
        total == calc.metrics[key]
    IN IF DOMAIN items = {} \/ total = Null \/ total = 0 THEN Null
       ELSE LET zone == CHOOSE z \in DOMAIN items : Top(DOMAIN items, 1, Before) = {z}
            IN [zone |-> zone, support |-> items[zone][key], total |-> total,
                path |-> <<"breakdowns", "zone", key, PlaceOf(DOMAIN items, zone)>>]

BuildBrief(calc) ==
    [changes |-> {[metric |-> c.metric, period |-> c.period, severity |-> c.severity,
                   current |-> calc.periods[c.period][c.metric].current] : c \in calc.changes},
     concentration |-> Concentration(calc)]
=============================================================================
