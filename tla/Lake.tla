-------------------------------- MODULE Lake --------------------------------
(***************************************************************************)
(* What the lake promises to whoever queries it.  The table of a topic     *)
(* holds the rows of every flight log that reached it, one entry per log,  *)
(* with everything the log says in that topic that the lake can represent. *)
(* Entries arrive one at a time, they never change, and they only leave    *)
(* all together, when the lake is reset.                                   *)
(*                                                                         *)
(* IcebergCommit implements this.  Nothing here says how: no schemas, no   *)
(* data files, no ingester that may stop half way.                         *)
(***************************************************************************)
EXTENDS Naturals, Sequences

CONSTANTS
    Topic,      \* base topics, one table each
    Mcap,       \* flight logs
    Content     \* Content[o][t]: the fields of topic t that log o fills

VARIABLE rows   \* what a query of each topic's table returns, per data file

Entry == [mcap : Mcap, fields : UNION {{Content[o][t] : t \in DOMAIN Content[o]} : o \in Mcap}]

Init == rows = [t \in Topic |-> <<>>]

Ingest(o, t) ==
    /\ t \in DOMAIN Content[o]
    /\ \A k \in DOMAIN rows[t] : rows[t][k].mcap # o
    /\ rows' = [rows EXCEPT ![t] = Append(@, [mcap |-> o, fields |-> Content[o][t]])]

Reset == rows' = [t \in Topic |-> <<>>]

Next ==
    \/ \E o \in Mcap, t \in Topic : Ingest(o, t)
    \/ Reset

Spec == Init /\ [][Next]_rows
=============================================================================
