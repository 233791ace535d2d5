------------------------------ MODULE Warehouse ------------------------------
(***************************************************************************)
(* warehouse/lake_init.sql: the view curated.flights, for one flight.      *)
(* (Grouping and joining by mcap_id keeps the flights of a lake apart.)    *)
(***************************************************************************)
EXTENDS Integers, Sequences, FiniteSets, FiniteSetsExt, Functions

CONSTANT Second   \* microseconds in a second

VARIABLE tables   \* the rows of the flight in each table

LoggedMessages == <<"logged", "messages">>

VehicleStatus == <<"vehicle", "status">>

\* COALESCE: a flight without messages has no errors.
error_count ==
    IF LoggedMessages \in DOMAIN tables
    THEN Cardinality({k \in DOMAIN tables[LoggedMessages] :
                         tables[LoggedMessages][k][<<"level">>] = "ERROR"})
    ELSE 0

\* The minutes and the seconds that are shown: the hours are not.  The mistake
\* takes an hour for the limit.
SecondsBelowHour(us) ==
    <<IF us > 3600 * Second THEN (us % (3600 * Second)) \div (60 * Second) ELSE 0,
      (us % (60 * Second)) \div Second>>

format_duration(us) ==
    <<IF us > 60 * Second THEN (us % (3600 * Second)) \div (60 * Second) ELSE 0,
      (us % (60 * Second)) \div Second>>

Null == <<>>

Span(rows) ==
    LET times == {r[<<"log", "time">>] : r \in rows}
    IN  IF rows = {} THEN Null ELSE format_duration(Max(times) - Min(times))

Statuses == Range(tables[VehicleStatus])

duration == Span(Statuses)

armed_duration == Span({r \in Statuses : r[<<"arming", "state">>] = 2})
=============================================================================
