--------------------------- MODULE VisualEvidence ---------------------------
(***************************************************************************)
(* The chart builder (src/src/backend/agents/analysis/chart-builder.ts):   *)
(* which charts a calculation gives, the values they show and the evidence *)
(* path each value is bound to.  A path names a field of the calculation;  *)
(* an item of a list is named by its place, as the code does.              *)
(***************************************************************************)
EXTENDS InventoryMetrics

CONSTANTS MaxComposition,  \* MAX_COMPOSITION_CATEGORIES, 8 in the code
          MaxComparison    \* MAX_COMPARISON_CATEGORIES, 12 in the code

(* readArtifactPath(): the value a path of the calculation leads to.       *)
ValueAt(calc, path) ==
    CASE path[1] = "metrics" -> calc.metrics[path[2]]
      [] path[1] = "sold" -> calc.metrics.sold[path[2]]
      [] path[1] = "periods" -> calc.periods[path[2]][path[3]][path[4]]
      [] path[1] = "buckets" -> calc.metrics.age_buckets[path[2]]
      [] path[1] = "breakdowns" ->
            LET items == calc.breakdowns[path[2]]
            IN items[AtPlace(DOMAIN items, path[4])][path[3]]
      [] path[1] = "units" -> calc.units[AtPlace(DOMAIN calc.units, path[2])][path[3]]
      [] path[1] = "peers" -> calc.peers[AtPlace(DOMAIN calc.peers, path[2])].median
      [] path[1] = "quality" -> AgingLimited(calc.metrics)

(* evidenceCurrency(): the currency of the value, of metrics and units.    *)
CurrencyAt(calc, path) ==
    CASE path[1] = "metrics" -> calc.metrics.currency
      [] path[1] = "units" -> calc.units[AtPlace(DOMAIN calc.units, path[2])].currency
      [] path[1] = "peers" -> calc.peers[AtPlace(DOMAIN calc.peers, path[2])].currency
      [] OTHER -> Null

Point(x, value, path) == [x |-> x, value |-> value, path |-> path]

Chart(id, intent, type, points) == [id |-> id, intent |-> intent, type |-> type, points |-> points]

KpiMetrics == {"available_inventory", "slow_moving_rate", "median_inventory_age_days",
               "median_price_per_area"}

Kpis(calc) ==
    {Chart(<<"kpi", key>>, "inventory_kpi", "kpi",
           {Point(key, calc.metrics[key], <<"metrics", key>>)}) :
        key \in {k \in KpiMetrics : calc.metrics[k] # Null}}
    \cup {Chart(<<"kpi", "sold_units_30d">>, "inventory_kpi", "kpi",
                {Point("sold_units_30d", sold, <<"sold", 30>>)}) :
            sold \in {calc.metrics.sold[30]} \ {Null}}

(* The available units of each comparison day that has data, and of today. *)
Trend(calc) ==
    LET key == "available_inventory"
        earlier == {p \in Periods : calc.periods[p][key].delta # Null}
        points == {Point(calc.day - p, calc.periods[p][key].prior, <<"periods", p, key, "prior">>) :
                     p \in earlier}
                  \cup {Point(calc.day, now, <<"metrics", key>>) :
                          now \in {calc.metrics[key]} \ {Null}}
    IN IF Cardinality(points) < 2 THEN {}
       ELSE {Chart("inventory_trend", "inventory_trend", "line", points)}

Aging(calc) ==
    LET buckets == calc.metrics.age_buckets
    IN IF \A b \in DOMAIN buckets : buckets[b] = 0 THEN {}
       ELSE {Chart("aging_distribution", "aging_distribution", "bar",
                   {Point(b, buckets[b], <<"buckets", b>>) : b \in DOMAIN buckets})}

(* A breakdown drawn item by item; a composition needs a value above zero  *)
(* and no more than MaxComposition items.                                  *)
BreakdownChart(calc, intent, dimension, metric) ==
    LET items == calc.breakdowns[dimension]
        drawn == {key \in DOMAIN items : items[key][metric] # Null}
        whole == intent = "inventory_composition"
    IN IF \/ drawn = {}
          \/ whole /\ Cardinality(DOMAIN items) > MaxComposition
          \/ whole /\ \A key \in drawn : items[key][metric] = 0
       THEN {}
       ELSE {Chart(intent, intent, IF whole THEN "donut" ELSE "bar",
                   {Point(key, items[key][metric],
                          <<"breakdowns", dimension, metric, PlaceOf(DOMAIN items, key)>>) :
                      key \in drawn})}

PriceKeys == {"p25_price_per_area", "median_price_per_area", "p75_price_per_area"}

PriceChart(calc) ==
    IF (\E key \in PriceKeys : calc.metrics[key] = Null) \/ calc.metrics.currency = Null THEN {}
    ELSE {Chart("price_distribution", "price_distribution", "bar",
                {Point(key, calc.metrics[key], <<"metrics", key>>) : key \in PriceKeys})}

(* Each unit with peers, beside the median of its peers.                   *)
PeerChart(calc) ==
    LET items == {unit \in DOMAIN calc.peers :
                    calc.peers[unit].median # Null /\ calc.units[unit].price # Null}
        place(unit) == PlaceOf(DOMAIN calc.units, unit)
    IN IF \/ items = {}
          \/ Cardinality(items) > MaxComparison
          \/ Cardinality({calc.peers[unit].currency : unit \in items}) # 1
       THEN {}
       ELSE {Chart("peer_comparison", "peer_comparison", "bar",
                   {Point(<<unit, "subject">>, calc.units[unit].price,
                          <<"units", place(unit), "price">>) : unit \in items}
                   \cup {Point(<<unit, "peer_median">>, calc.peers[unit].median,
                               <<"peers", PlaceOf(DOMAIN calc.peers, unit)>>) : unit \in items})}

Charts(calc) ==
    Kpis(calc) \cup Trend(calc) \cup Aging(calc)
    \cup BreakdownChart(calc, "slow_moving_by_segment", "zone", "slow_moving_rate")
    \cup BreakdownChart(calc, "inventory_composition", "unit_type", "available_inventory")
    \cup PriceChart(calc) \cup PeerChart(calc)

----------------------------------------------------------------------------
(* validateVisualEvidence() and the chart schema: what a chart may be.     *)

IsRate(path) ==
    \/ path[1] = "metrics" /\ path[2] \in Rates
    \/ path[1] = "breakdowns" /\ path[3] \in Rates

ValidChart(calc, chart) ==
    /\ chart.points # {}
    /\ \A point \in chart.points :
          /\ point.value # Null /\ point.value = ValueAt(calc, point.path)
          /\ IsRate(point.path) => point.value \in 0..100 * Scale
    /\ chart.type = "kpi" => Cardinality(chart.points) = 1
    /\ chart.type = "line" => /\ Cardinality(chart.points) >= 2
                              /\ \A point \in chart.points : point.x <= calc.day
                              /\ \A a, b \in chart.points : a.x = b.x => a = b
    /\ chart.type = "donut" => \E point \in chart.points : point.value > 0
    /\ chart.intent \in {"price_distribution", "peer_comparison"} =>
          \E currency \in {CurrencyAt(calc, point.path) : point \in chart.points} :
             /\ currency # Null
             /\ \A point \in chart.points : CurrencyAt(calc, point.path) = currency
=============================================================================
