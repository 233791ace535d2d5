----------------------------- MODULE PipelineMC -----------------------------
(***************************************************************************)
(* An instance of Pipeline: two logs, of which the first is shorter when   *)
(* its file is partial, and the second cannot be converted then.           *)
(***************************************************************************)
EXTENDS Pipeline, TLC

CONSTANTS k1, k2, k3

MCPlace == [k \in Key |-> CASE k = k1 -> 1 [] k = k2 -> 2 [] k = k3 -> 3]

MCRaises == {<<k2, "partial">>}

MCLastRaises == {<<k3, "partial">>}

MCFieldName == {"log_time", "publish_time", "offset_us", "sequence", "multi_id",
                "mcap_id", "log_date", "time_source", "voltage"}

One(kind) == [kind |-> kind, label |-> "singular"]

\* The type of the field drifts from the first log to the second.
MCTopicsOf ==
    [o \in Mcap |-> [battery |-> [voltage |-> One(IF o[1] = k1 THEN "int32" ELSE "float")]]]
=============================================================================
