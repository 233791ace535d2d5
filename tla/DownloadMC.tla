----------------------------- MODULE DownloadMC -----------------------------
(***************************************************************************)
(* Five logs of three vehicles and one without a vehicle, three of them of *)
(* one date; limits that bind and that do not; filters before and after    *)
(* --latest-per-vehicle.                                                   *)
(***************************************************************************)
EXTENDS DownloadLogs, TLC

CONSTANTS l1, l2, l3, l4, l5, v1, v2, v3, none

MCListing == <<l1, l2, l3, l4, l5>>

MCLogDate == (l1 :> 1) @@ (l2 :> 3) @@ (l3 :> 2) @@ (l4 :> 3) @@ (l5 :> 3)

MCVehicle == (l1 :> v1) @@ (l2 :> v1) @@ (l3 :> v2) @@ (l4 :> v3) @@ (l5 :> none)

Plain == [match |-> Log, latest_per_vehicle |-> FALSE, late_match |-> Log,
          max_num |-> 3, skip_if_cached |-> 3,
          print_entries |-> FALSE, overwrite |-> FALSE, yes |-> FALSE]

MCArguments ==
    {Plain,
     [Plain EXCEPT !.latest_per_vehicle = TRUE, !.max_num = 2],
     [Plain EXCEPT !.match = {l1, l3, l4}, !.latest_per_vehicle = TRUE,
                   !.late_match = {l1, l3}, !.max_num = -1, !.yes = TRUE],
     [Plain EXCEPT !.match = {l3, l4}, !.overwrite = TRUE],
     [Plain EXCEPT !.print_entries = TRUE]}
=============================================================================
