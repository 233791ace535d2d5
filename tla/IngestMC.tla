-------------------------- MODULE IngestMC ---------------------------
(* Small instances of IcebergCommit for TLC. *)
EXTENDS IngestProperties, TLC

CONSTANTS m1, m2, m3    \* model values: mcaps, also used as their mcap_ids

MCFieldName == StandardName \cup {"voltage", "cells", "mode", "esc"}

MCKeyRank == [o \in Mcap |-> CASE o = m1 -> 1 [] o = m2 -> 2 [] o = m3 -> 3]

MCMcapIdOf == [o \in Mcap |-> o]

One(kind) == [kind |-> kind, label |-> "singular"]

Many(kind) == [kind |-> kind, label |-> "list"]

\* Three firmware versions.  In the battery topic, "voltage" changes type from
\* the first log to the second and the lists differ in nothing; m2 adds fields
\* of which only some are supported.  In the status topic, m2 has a field named
\* like a standard column, and "mode" drifts.
Battery1 == [voltage |-> One("int32"), cells |-> Many("float")]
Battery2 == [voltage |-> One("float"), cells |-> Many("double"), esc |-> One("message")]
Battery3 == [voltage |-> One("bool"), cells |-> One("float")]
Status1  == [mode |-> One("enum")]
Status2  == [mode |-> One("uint32"), sequence |-> One("uint32")]

MCGroups ==
    [o \in Mcap |->
        CASE o = m1 -> [battery |-> Battery1, status |-> Status1]
          [] o = m2 -> [battery |-> Battery2, status |-> Status2]
          [] o = m3 -> [battery |-> Battery3]]

\* The battery topic alone, where two ingesters run.
MCBatteryGroups == [o \in Mcap |-> [battery |-> MCGroups[o].battery]]

MCStatusGroups == [o \in Mcap |-> [status |-> MCGroups[o].status]]

MCSymmetry == Permutations(Ingesters)
=============================================================================
