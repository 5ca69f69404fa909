------------------------------ MODULE MCReports ------------------------------
(***************************************************************************)
(* A project of two zones and six units, followed over half a year by the  *)
(* files somebody may import, in any order and at any time before the run  *)
(* reads its rows.                                                         *)
(***************************************************************************)
EXTENDS ReportPipeline

Row(unit, zone, type, date, status, since, sold, price) ==
    [unit |-> unit, zone |-> zone, type |-> type, project |-> "p", bedrooms |-> Null,
     date |-> date, status |-> status, since |-> since, sold |-> sold,
     price |-> price, area |-> 10, currency |-> "vnd"]

Held(unit, zone, type, date, since, price) ==
    Row(unit, zone, type, date, "available", since, Null, price)

Sold(unit, zone, type, date, sold, price) ==
    Row(unit, zone, type, date, "sold", Null, sold, price)

(* The stock of day 105, with ages on both sides of every bucket's bound.  *)
Spring == {Held(1, 1, 1, 105, 19, 2100), Held(2, 1, 1, 105, 20, 2200),
           Held(3, 1, 1, 105, 104, 2300), Held(4, 1, 1, 105, 75, 2400),
           Held(6, 2, 2, 105, 45, 0)}

Summer == {Sold(1, 1, 1, 165, 165, 2100), Held(5, 1, 2, 165, 139, 3000),
           Held(6, 2, 2, 165, 140, 2600)}

Autumn == {Held(2, 1, 1, 192, 109, 2200), Held(3, 1, 1, 192, 110, 2500),
           Sold(6, 2, 2, 192, 171, 2600)}

Winter == {Held(1, 1, 1, 200, 169, 2000), Sold(4, 1, 1, 200, 199, 2400),
           Held(5, 1, 2, 200, Null, 3100)}

(* Another account of unit 1 on the day of Winter, one of the day after,   *)
(* and one that moves unit 5 to the other zone.                            *)
Correction == {Held(1, 1, 1, 200, 170, 2050)}
Tomorrow   == {Sold(3, 1, 1, 201, 201, 2500), Held(6, 2, 2, 201, 201, 2600)}
Moved      == {Held(5, 2, 2, 198, 198, 3000)}

SeasonFiles == {Spring, Summer, Autumn, Winter, Correction, Tomorrow, Moved}

DayRequests == {[day |-> 200, zone |-> Null], [day |-> 200, zone |-> 1], [day |-> 195, zone |-> Null]}
SameName == [n \in 1..9 |-> n]

----------------------------------------------------------------------------
=============================================================================
