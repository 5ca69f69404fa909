-------------------------- MODULE InventoryMetrics --------------------------
(***************************************************************************)
(* The semantic package (src/src/backend/semantic): what analyze() and     *)
(* compare() calculate from the snapshot rows of one project.  A day, a    *)
(* unit, a zone and a unit type are numbers, ordered as the code orders    *)
(* their names.  Every value is kept in units of 1/Scale, so that shares   *)
(* and quartiles of small samples are exact where the code rounds to six   *)
(* decimals; labels, units and the wording of limitations are left out.    *)
(***************************************************************************)
EXTENDS Integers, FiniteSets

CONSTANT Null  \* a field left empty, or a value the code abstains from

ASSUME NullIsNoNumber == Null \notin Int

Scale == 12

Periods == {7, 30, 90}   \* the days the comparisons look back

StatusOrder == [available |-> 1, held |-> 2, reserved |-> 3, sold |-> 4, unknown |-> 5]
Unknown == 99   \* the key of the units whose bedrooms are not given

Dimensions == {"zone", "unit_type", "bedrooms", "status"}

BrokenDown == {"total_inventory", "available_inventory", "available_inventory_rate",
               "slow_moving_rate", "median_inventory_age_days", "median_price_per_area"}

Compared == {"available_inventory", "available_inventory_rate", "slow_moving_rate",
             "median_inventory_age_days", "median_price_per_area",
             "missing_inventory_age_rate"}

Rates == {"available_inventory_rate", "slow_moving_rate", "missing_inventory_age_rate"}

(* A row a CSV file may hold: nothing in it happened after its date.       *)
SnapshotRow(row) ==
    /\ {row.unit, row.zone, row.type, row.date} \subseteq Int
    /\ row.bedrooms \in Nat \cup {Null} /\ row.status \in DOMAIN StatusOrder
    /\ {row.price, row.area} \subseteq Nat \cup {Null} /\ row.currency # Null
    /\ \A date \in {row.since, row.sold} \ {Null} : date \in Int /\ date <= row.date

Absolute(n) == IF n < 0 THEN -n ELSE n

Largest(S) == CHOOSE n \in S : \A m \in S : m <= n

(* Where a key stands in the order of its set, and the key at a place.     *)
PlaceOf(S, x) == Cardinality({y \in S : y < x}) + 1
AtPlace(S, i) == CHOOSE x \in S : PlaceOf(S, x) = i

----------------------------------------------------------------------------
(* Which rows an analysis of a day sees: the latest row of each unit.      *)

InScope(row, scope) ==
    /\ row.project = scope.project
    /\ scope.zone # Null => row.zone = scope.zone

SelectLatest(rows, day, scope) ==
    {row \in rows : /\ row.date <= day
                    /\ \A other \in rows : other.unit = row.unit /\ other.date <= day
                                              => other.date <= row.date
                    /\ InScope(row, scope)}

LatestDate(rows) == IF rows = {} THEN Null ELSE Largest({row.date : row \in rows})

(* An amount that is not positive is an amount that is missing.            *)
Positive(amount) == IF amount = Null \/ amount = 0 THEN Null ELSE amount

PricePerArea(row) ==
    IF Positive(row.price) = Null \/ Positive(row.area) = Null THEN Null
    ELSE (Scale * row.price) \div row.area

Percent(n, d) == IF d = 0 THEN Null ELSE (100 * Scale * n) \div d

(* The k-th smallest of the values some rows have, and the quartile q of   *)
(* them, interpolated between two neighbours.                              *)
Kth(values, k) ==
    CHOOSE v \in {values[row] : row \in DOMAIN values} :
        /\ Cardinality({row \in DOMAIN values : values[row] < v}) < k
        /\ Cardinality({row \in DOMAIN values : values[row] <= v}) >= k

Quartile(values, q) ==
    LET n    == Cardinality(DOMAIN values)
        low  == ((n - 1) * q) \div 4
        part == ((n - 1) * q) % 4
    IN IF n = 0 THEN Null
       ELSE IF part = 0 THEN Kth(values, low + 1)
       ELSE LET below == Kth(values, low + 1)
            IN below + ((Kth(values, low + 2) - below) * part) \div 4

Available(rows) == {row \in rows : row.status = "available"}

Age(row, day) == IF row.status = "available" /\ row.since # Null THEN day - row.since ELSE Null

Slow(row, day, threshold) == Age(row, day) # Null /\ Age(row, day) >= threshold

SoldWithin(rows, day, period) ==
    {row \in rows : row.sold # Null /\ row.sold > day - period /\ row.sold <= day}

AgeBuckets == <<0, 31, 61, 91, 181>>   \* the first day of each bucket of ages

Bucket(rows, day, b) ==
    {row \in Available(rows) :
        IF b = 6 THEN row.since = Null
        ELSE /\ row.since # Null
             /\ Age(row, day) >= AgeBuckets[b]
             /\ b < 5 => Age(row, day) < AgeBuckets[b + 1]}

----------------------------------------------------------------------------
(* summarize(): the metrics of a set of rows on a day.                     *)

Summarize(rows, day, threshold) ==
    LET avail  == Available(rows)
        aged   == {row \in avail : row.since # Null}
        slow   == {row \in avail : Slow(row, day, threshold)}
        priced == {row \in avail : Positive(row.price) # Null}
        perArea == {row \in avail : PricePerArea(row) # Null}
        one    == Cardinality({row.currency : row \in avail}) <= 1
        unknownAge == Cardinality(avail \ aged)
        unusable == {row \in rows : \/ Positive(row.price) = Null \/ Positive(row.area) = Null
                                    \/ row \in avail \ aged}
        ages   == [row \in aged |-> Scale * Age(row, day)]
        prices == [row \in priced |-> Scale * row.price]
        rates  == [row \in perArea |-> PricePerArea(row)]
        Count(S) == IF rows = {} THEN Null ELSE Scale * Cardinality(S)
        Share(n, d) == IF rows = {} THEN Null ELSE Percent(n, d)
        Price(values, q) == IF one THEN Quartile(values, q) ELSE Null
    IN [total_inventory |-> Count(rows),
        available_inventory |-> Count(avail),
        available_inventory_rate |-> Share(Cardinality(avail), Cardinality(rows)),
        sold |-> [p \in Periods |-> Count(SoldWithin(rows, day, p))],
        median_inventory_age_days |-> Quartile(ages, 2),
        p75_inventory_age_days |-> Quartile(ages, 3),
        slow_moving_units |-> Count(slow),
        slow_moving_rate |-> Share(Cardinality(slow), Cardinality(aged)),
        unknown_inventory_age |-> Count(avail \ aged),
        missing_inventory_age_rate |-> Share(unknownAge, Cardinality(avail)),
        median_price |-> Price(prices, 2),
        p25_price_per_area |-> Price(rates, 1),
        median_price_per_area |-> Price(rates, 2),
        p75_price_per_area |-> Price(rates, 3),
        missing_price_rate |-> Share(Cardinality({r \in rows : Positive(r.price) = Null}),
                                     Cardinality(rows)),
        missing_area_rate |-> Share(Cardinality({r \in rows : Positive(r.area) = Null}),
                                    Cardinality(rows)),
        unusable |-> Count(unusable),
        age_buckets |-> [b \in 1..6 |-> Scale * Cardinality(Bucket(rows, day, b))],
        currency |-> IF avail # {} /\ one THEN (CHOOSE row \in avail : TRUE).currency ELSE Null]

(* Some available unit has no known age: the ages are told with a warning. *)
AgingLimited(metrics) == metrics.unknown_inventory_age # Null /\ metrics.unknown_inventory_age > 0

----------------------------------------------------------------------------
(* Comparisons with the day 7, 30 and 90 days before.                      *)

ComparedWith(priorRows, priorDay, current, threshold) ==
    LET prior == Summarize(priorRows, priorDay, threshold)
    IN [key \in Compared |->
          LET comparable == /\ priorRows # {}
                            /\ current[key] # Null /\ prior[key] # Null
                            /\ key = "median_price_per_area" => current.currency = prior.currency
          IN [current |-> current[key],
              prior |-> prior[key],
              delta |-> IF comparable THEN current[key] - prior[key] ELSE Null]]

PeriodComparisons(rows, current, day, scope, threshold) ==
    [period \in Periods |->
        ComparedWith(SelectLatest(rows, day - period, scope), day - period, current, threshold)]

(* The change is at least so many percent of the earlier value.            *)
RelativeAtLeast(comparison, percent) ==
    /\ comparison.prior > 0
    /\ 100 * Absolute(comparison.delta) >= percent * comparison.prior

PointsAtLeast(comparison, points) == Absolute(comparison.delta) >= points * Scale

----------------------------------------------------------------------------
(* Breakdowns of the current rows, and each segment against the first.     *)

DimensionValue(row, dimension) ==
    CASE dimension = "zone" -> row.zone
      [] dimension = "unit_type" -> row.type
      [] dimension = "bedrooms" -> IF row.bedrooms = Null THEN Unknown ELSE row.bedrooms
      [] dimension = "status" -> StatusOrder[row.status]

Breakdown(rows, day, threshold, dimension) ==
    [key \in {DimensionValue(row, dimension) : row \in rows} |->
        Summarize({row \in rows : DimensionValue(row, dimension) = key}, day, threshold)]

Breakdowns(rows, day, threshold) ==
    [dimension \in Dimensions |-> Breakdown(rows, day, threshold, dimension)]

SegmentComparisons(breakdown, metric) ==
    LET keys == DOMAIN breakdown
        first == breakdown[AtPlace(keys, 1)]
        comparable(item) ==
            /\ item[metric] # Null /\ first[metric] # Null
            /\ metric = "median_price_per_area" => item.currency = first.currency
    IN [key \in {k \in keys : PlaceOf(keys, k) > 1} |->
          IF comparable(breakdown[key]) THEN breakdown[key][metric] - first[metric] ELSE Null]

----------------------------------------------------------------------------
(* Peers of a unit: same organization, project, zone, type, bedrooms and   *)
(* currency, an area within 15 %; a price gap needs three of them.         *)

Peers(rows, target) ==
    {peer \in rows :
        /\ peer.unit # target.unit
        /\ peer.zone = target.zone /\ peer.type = target.type
        /\ peer.bedrooms = target.bedrooms /\ peer.currency = target.currency
        /\ Positive(target.area) # Null
        /\ PricePerArea(peer) # Null
        /\ 100 * peer.area >= 85 * target.area
        /\ 100 * peer.area <= 115 * target.area}

Compare(rows) ==
    [unit \in {row.unit : row \in rows} |->
        LET target == CHOOSE row \in rows : row.unit = unit
            peers  == Peers(rows, target)
        IN [peers |-> {peer.unit : peer \in peers},
            currency |-> target.currency,
            median |-> IF PricePerArea(target) # Null /\ Cardinality(peers) >= 3
                       THEN Quartile([peer \in peers |-> PricePerArea(peer)], 2) ELSE Null]]

----------------------------------------------------------------------------
(* Notable changes and the candidates the insight is written from.         *)

Notable(key, comparison) ==
    /\ comparison.delta # Null
    /\ \/ key \in Rates /\ PointsAtLeast(comparison, 5)
       \/ key \in {"median_price_per_area", "available_inventory"}
          /\ RelativeAtLeast(comparison, 10)

Severity(key, comparison) ==
    IF \/ RelativeAtLeast(comparison, 20)
       \/ key \in Rates /\ PointsAtLeast(comparison, 10)
    THEN "material" ELSE "watch"

DetectChanges(comparisons) ==
    UNION {{[metric |-> key, period |-> p, severity |-> Severity(key, comparisons[p][key])] :
               key \in {k \in Compared : Notable(k, comparisons[p][k])}} : p \in Periods}

(* localeCompare on the rule ids: by metric name, ended by a colon, which  *)
(* comes after an underscore; then 30d, 7d, 90d.                           *)
MetricOrder == [available_inventory_rate |-> 1, available_inventory |-> 2,
                median_inventory_age_days |-> 3, median_price_per_area |-> 4,
                missing_inventory_age_rate |-> 5, slow_moving_rate |-> 6]
PeriodOrder(p) == CASE p = 30 -> 1 [] p = 7 -> 2 [] OTHER -> 3

ChangeIndex(changes, change) ==
    Cardinality({c \in changes :
        \/ MetricOrder[c.metric] < MetricOrder[change.metric]
        \/ c.metric = change.metric /\ PeriodOrder(c.period) < PeriodOrder(change.period)})

MaxCandidates == 5

CurrentPriority == [slow_moving_rate |-> 50, missing_inventory_age_rate |-> 40,
                    available_inventory_rate |-> 30]

(* Mutant: the order of the changes decides, whatever their severity. *)
PriorityBySequence(changes, change) == 100 - ChangeIndex(changes, change)

ChangePriority(changes, change) ==
    (IF change.severity = "material" THEN 100 ELSE 70) - ChangeIndex(changes, change)

(* The strongest candidate of each metric, at most MaxCandidates of them.  *)
Candidates(changes, metrics) ==
    LET notable == {[metric |-> c.metric, period |-> c.period,
                     priority |-> ChangePriority(changes, c)] : c \in changes}
        current == {[metric |-> key, period |-> Null, priority |-> CurrentPriority[key]] :
                      key \in {k \in DOMAIN CurrentPriority :
                                 metrics[k] # Null /\ \A c \in changes : c.metric # k}}
        strongest == {c \in notable \cup current :
                        \A d \in notable \cup current :
                            d.metric = c.metric => d.priority <= c.priority}
    IN {c \in strongest :
          Cardinality({d \in strongest : d.priority > c.priority}) < MaxCandidates}

----------------------------------------------------------------------------
(* The units the current date covers, of the units in the selection.       *)

SnapshotCoverage(rows, current, day, scope) ==
    LET date == LatestDate(current)
        covered == {row.unit : row \in {r \in rows : r.date = date /\ r.date <= day
                                                       /\ InScope(r, scope)}}
    IN IF current = {} THEN Null ELSE Percent(Cardinality(covered), Cardinality(current))

(* The analysis of the current rows, given the comparisons with earlier    *)
(* days and the coverage.                                                  *)
AnalysisOf(current, periods, coverage, day, threshold) ==
    LET metrics == Summarize(current, day, threshold)
        parts == Breakdowns(current, day, threshold)
        changes == DetectChanges(periods)
    IN [day |-> day,
        units |-> [unit \in {row.unit : row \in current} |->
                     LET row == CHOOSE r \in current : r.unit = unit
                     IN [status |-> row.status, age |-> Age(row, day),
                         slow |-> Slow(row, day, threshold), price |-> PricePerArea(row),
                         currency |-> row.currency]],
        snapshot_date |-> LatestDate(current),
        metrics |-> metrics,
        coverage |-> coverage,
        breakdowns |-> parts,
        segments |-> [dimension \in Dimensions |->
                        [metric \in BrokenDown |-> SegmentComparisons(parts[dimension], metric)]],
        periods |-> periods,
        changes |-> changes,
        candidates |-> Candidates(changes, metrics),
        peers |-> Compare(current)]

Analyze(rows, day, scope, threshold) ==
    LET current == SelectLatest(rows, day, scope)
        metrics == Summarize(current, day, threshold)
    IN AnalysisOf(current, PeriodComparisons(rows, metrics, day, scope, threshold),
                  SnapshotCoverage(rows, current, day, scope), day, threshold)
=============================================================================
