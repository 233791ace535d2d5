---------------------------- MODULE DownloadLogs ----------------------------
(***************************************************************************)
(* data/download_logs.py: fills the data/raw cache from the PX4 review     *)
(* server.  One process at a time (compose names its container), run again *)
(* and again over a cache that outlives it.                                *)
(*                                                                         *)
(* External: the server's answers are any of those main and                *)
(* download_with_retry tell apart, in any order.  The filters on one entry *)
(* are two sets: those before (--rating, --uuid ...) and those after       *)
(* --latest-per-vehicle (--source, --git-hash).                            *)
(***************************************************************************)
EXTENDS Ordering

CONSTANTS
    Log,                \* log_ids
    Listing,            \* the database: a sequence of log_ids, as dbinfo returns them
    LogDate, Vehicle,   \* log_date and vehicle_uuid of each log
    NoVehicle,          \* the uuid of an entry without one
    Arguments,          \* the arguments a run may be given
    WarnThreshold,      \* WARN_THRESHOLD (50)
    MaxRetries          \* max_retries (5)

get_arguments ==
    [match : SUBSET Log,             \* the logs that pass the filters before
     latest_per_vehicle : BOOLEAN,   \* --latest-per-vehicle
     late_match : SUBSET Log,        \* and the filters after it
     max_num : Int, skip_if_cached : Int,
     print_entries : BOOLEAN, overwrite : BOOLEAN, yes : BOOLEAN]

ASSUME DownloadAssumption ==
    /\ Listing \in Seq(Log) /\ IsInjective(Listing)
    /\ LogDate \in [Log -> Int]
    /\ Arguments \subseteq get_arguments
    /\ WarnThreshold \in Nat /\ MaxRetries \in Nat \ {0}

VARIABLES
    args,       \* the arguments of the run
    cache,      \* the file of each log in the download folder
    pc,         \* where the run is
    logids,     \* the cached log_ids, as the run found them
    entries,    \* the logs the run goes through
    i,          \* the next of them
    attempt,    \* requests made for it
    skipped     \* the logs the run reports as skipped (already downloaded)

vars == <<args, cache, pc, logids, entries, i, attempt, skipped>>

Ended == {"off", "done", "cancelled", "failed"}

\* A file is there from the moment it is opened under its final name, and holds
\* the whole log when the stream has ended.
FileState == {"absent", "partial", "whole"}

\* The log_ids of the folder's *.ulg files.  The mistake takes the whole stem of
\* <log_date>-<log_id>.ulg for the log_id, and recognises no file.
MatchStems == {}
CachedIds == {l \in Log : cache[l] # "absent"}

count_cached_logs == Cardinality({l \in Log : cache[l] # "absent"})

-----------------------------------------------------------------------------
(* The choice of logs, as positions in Listing *)

Matching == {k \in DOMAIN Listing : Listing[k] \in args.match}

Newer(k, l) == LogDate[Listing[k]] > LogDate[Listing[l]]

SameVehicle(k, l) == Vehicle[Listing[k]] = Vehicle[Listing[l]]

\* The first of the entries of a vehicle that bear its latest date.
LatestOfVehicle(k) ==
    /\ Vehicle[Listing[k]] # NoVehicle
    /\ \A l \in Matching : SameVehicle(k, l) =>
           ~ Newer(l, k) /\ (l < k => Newer(k, l))

Selected == {k \in Matching :
                /\ args.latest_per_vehicle => LatestOfVehicle(k)
                /\ Listing[k] \in args.late_match}

\* sorted(..., reverse=True) keeps the order of entries of one date.  The
\* mistake leaves the order of the database.
ListingOrder == InOrder(Selected, {p \in Selected \X Selected : p[1] < p[2]})
Newest == {p \in Selected \X Selected : \/ Newer(p[1], p[2])
                                        \/ ~ Newer(p[2], p[1]) /\ p[1] < p[2]}
NewestFirst == InOrder(Selected, Newest)

n_en == LET n_matched == Cardinality(Selected)
        IN  IF args.max_num > 0 /\ args.max_num < n_matched THEN args.max_num ELSE n_matched

Chosen == [k \in 1 .. n_en |-> Listing[NewestFirst[k]]]

-----------------------------------------------------------------------------

Init ==
    /\ args \in Arguments
    /\ cache = [l \in Log |-> "absent"]
    /\ pc = "off"
    /\ logids = {} /\ entries = <<>> /\ i = 1 /\ attempt = 0 /\ skipped = {}

Begin ==
    /\ pc \in Ended
    /\ args' \in Arguments
    /\ pc' = IF /\ args'.skip_if_cached > 0
                /\ ~ args'.overwrite /\ ~ args'.print_entries
                /\ count_cached_logs >= args'.skip_if_cached
             THEN "done" ELSE "fetch"
    /\ logids' = {} /\ entries' = <<>> /\ i' = 1 /\ attempt' = 0 /\ skipped' = {}
    /\ UNCHANGED cache

FetchFails ==
    /\ pc = "fetch"
    /\ pc' = "failed"
    /\ UNCHANGED <<args, cache, logids, entries, i, attempt, skipped>>

PrintEntries ==
    /\ pc = "fetch" /\ args.print_entries
    /\ pc' = "done"
    /\ UNCHANGED <<args, cache, logids, entries, i, attempt, skipped>>

Fetch ==
    /\ pc = "fetch" /\ ~ args.print_entries
    /\ logids' = CachedIds
    /\ entries' = Chosen
    /\ pc' = IF n_en > WarnThreshold /\ ~ args.yes THEN "confirm" ELSE "next"
    /\ UNCHANGED <<args, cache, i, attempt, skipped>>

Confirm(answer) ==
    /\ pc = "confirm"
    /\ pc' = IF answer = "y" THEN "next" ELSE "cancelled"
    /\ UNCHANGED <<args, cache, logids, entries, i, attempt, skipped>>

NextEntry ==
    /\ pc' = "next"
    /\ i' = i + 1
    /\ attempt' = 0
    /\ UNCHANGED <<args, logids, entries>>

Skip ==
    /\ pc = "next" /\ i <= Len(entries)
    /\ ~ args.overwrite /\ entries[i] \in logids
    /\ skipped' = skipped \cup {entries[i]}
    /\ NextEntry
    /\ UNCHANGED cache

Request ==
    /\ pc = "next" /\ i <= Len(entries)
    /\ args.overwrite \/ entries[i] \notin logids
    /\ pc' = "request"
    /\ UNCHANGED <<args, cache, logids, entries, i, attempt, skipped>>

\* download_with_retry: rate limited (503), an unexpected status or an exception
\* of requests.  The mistakes do not count a rate-limited request, and make one
\* request too many.
RetryForever ==
    /\ pc = "request" /\ attempt < MaxRetries
    /\ attempt' \in {1, attempt + 1}
    /\ UNCHANGED <<args, cache, pc, logids, entries, i, skipped>>

RetryOnceMore ==
    /\ pc = "request" /\ attempt <= MaxRetries
    /\ attempt' = attempt + 1
    /\ UNCHANGED <<args, cache, pc, logids, entries, i, skipped>>

Retry ==
    /\ pc = "request" /\ attempt < MaxRetries
    /\ attempt' = attempt + 1
    /\ UNCHANGED <<args, cache, pc, logids, entries, i, skipped>>

\* It returns None: the log is not there (404), or all attempts have failed.
NoAnswer ==
    /\ pc = "request"
    /\ NextEntry
    /\ UNCHANGED <<args, cache, skipped>>

\* The IP is blocked (403, 444), or a Retry-After header is not a number.
Abort ==
    /\ pc = "request" /\ attempt < MaxRetries
    /\ pc' = "failed"
    /\ UNCHANGED <<args, cache, logids, entries, i, attempt, skipped>>

\* The file is opened for writing as soon as the answer's headers are there.
Open ==
    /\ pc = "request" /\ attempt < MaxRetries
    /\ cache' = [cache EXCEPT ![entries[i]] = "partial"]
    /\ pc' = "stream"
    /\ UNCHANGED <<args, logids, entries, i, attempt, skipped>>

StreamEnds ==
    /\ pc = "stream"
    /\ cache' = [cache EXCEPT ![entries[i]] = "whole"]
    /\ NextEntry
    /\ UNCHANGED skipped

\* An exception while streaming is not caught, and the file stays.
StreamFails ==
    /\ pc = "stream"
    /\ pc' = "failed"
    /\ UNCHANGED <<args, cache, logids, entries, i, attempt, skipped>>

Finish ==
    /\ pc = "next" /\ i > Len(entries)
    /\ pc' = "done"
    /\ UNCHANGED <<args, cache, logids, entries, i, attempt, skipped>>

Kill ==
    /\ pc \notin Ended
    /\ pc' = "failed"
    /\ UNCHANGED <<args, cache, logids, entries, i, attempt, skipped>>

Run ==
    \/ FetchFails \/ PrintEntries \/ Fetch \/ Confirm("y") \/ Confirm("n")
    \/ Skip \/ Request \/ Retry \/ NoAnswer \/ Abort
    \/ Open \/ StreamEnds \/ StreamFails \/ Finish

Next == Begin \/ Run \/ Kill

Spec == Init /\ [][Next]_vars

\* Every call has a timeout and every wait an end, the operator's answer included.
FairSpec == Spec /\ WF_vars(Run)

-----------------------------------------------------------------------------

TypeOK ==
    /\ args \in Arguments
    /\ cache \in [Log -> FileState]
    /\ pc \in Ended \cup {"fetch", "confirm", "next", "request", "stream"}
    /\ logids \subseteq Log /\ skipped \subseteq Log
    /\ entries \in Seq(Log) /\ i \in 1 .. Len(entries) + 1
    /\ attempt \in 0 .. MaxRetries
    /\ pc \in {"request", "stream"} => i <= Len(entries)

Underway == {"confirm", "next", "request", "stream"}

\* Without --overwrite, a run never opens the file of a log that is whole: the
\* cache survives any sequence of failed and repeated runs, and the server is
\* not asked twice for one log.
WholeStaysWhole ==
    [][~ args.overwrite => \A l \in Log : cache[l] = "whole" => cache'[l] = "whole"]_cache

\* The run goes through its entries from the newest to the oldest, and the limit
\* leaves out no matching log newer than one it takes; with --latest-per-vehicle a
\* vehicle has at most one entry, and none of its matching logs is newer.
ChoosesNewest ==
    LET listed == {Listing[k] : k \in Matching}
        chosen == Range(entries)
    IN  pc \in Underway =>
        /\ \A k, l \in DOMAIN entries :
               k < l => entries[k] # entries[l] /\ LogDate[entries[k]] >= LogDate[entries[l]]
        /\ \A l \in (listed \cap args.late_match) \ chosen, m \in chosen :
               LogDate[l] > LogDate[m] =>
                   /\ args.latest_per_vehicle
                   /\ \/ Vehicle[l] = NoVehicle
                      \/ \E n \in listed \ {l} : Vehicle[n] = Vehicle[l] /\ LogDate[n] >= LogDate[l]
        /\ args.latest_per_vehicle => \A l \in listed, m \in chosen :
               l # m /\ Vehicle[l] = Vehicle[m] => l \notin chosen /\ LogDate[l] <= LogDate[m]

\* Why they hold.  The entries are the chosen ones until the run ends; a whole file
\* is known from the listing of the folder or was downloaded by this run, and a log
\* of which the file is known is not requested.
FetchesFirst == pc = "fetch" => i = 1

EntriesAreChosen == pc \in Underway => entries = Chosen

WholeIsKnown ==
    pc \in Underway /\ ~ args.overwrite =>
        \A l \in Log : cache[l] = "whole" => l \in logids \/ \E j \in 1 .. i - 1 : entries[j] = l

RequestsUnknown == pc = "request" /\ ~ args.overwrite => entries[i] \notin logids

DownloadInvariant ==
    TypeOK /\ FetchesFirst /\ EntriesAreChosen /\ WholeIsKnown /\ RequestsUnknown

\* A run ends, whatever the server answers: no answer is asked for more than
\* MaxRetries times.
RunEnds == pc = "fetch" ~> pc \in Ended

\* main: "{n_skipped} logs skipped (already downloaded)".
SkippedIsDownloaded == \A l \in skipped : cache[l] = "whole"
=============================================================================
