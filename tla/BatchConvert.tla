---------------------------- MODULE BatchConvert ----------------------------
(***************************************************************************)
(* ulog_conversion: the batch converter between the ulog and the mcap      *)
(* bucket, with what feeds and empties them: the data/raw cache, the       *)
(* mirror of minio-init and the recipe wipe-all (external).                *)
(*                                                                         *)
(* The content of a .ulg is abstracted to whether its download had ended   *)
(* ("whole") or not ("partial"), that of an .mcap to the .ulg it was made  *)
(* from.                                                                   *)
(***************************************************************************)
EXTENDS Ordering

CONSTANTS
    Converter,  \* runs of the converter: compose starts one, the operator may more
    Key,        \* the object keys, without .ulg and .mcap
    Place,      \* their place in a listing of the bucket
    Raises      \* the pairs <<key, content>> on which convert_ulog_to_mcap raises

ASSUME ConvertAssumption ==
    /\ Place \in [Key -> Nat] /\ \A j, k \in Key : Place[j] = Place[k] => j = k
    /\ Raises \subseteq Key \X {"partial", "whole"}

VARIABLES
    raw,    \* data/raw, the cache of the downloader
    ulog,   \* the ulog bucket
    mcap,   \* the mcap bucket: the .ulg an object was made from
    task    \* the run of each converter

vars == <<raw, ulog, mcap, task>>

Content == {"absent", "partial", "whole"}

Ended == {"off", "done", "failed", "killed"}

Objects(bucket) == {k \in Key : bucket[k] # "absent"}

\* The paginator goes through all pages of the listing.  The mistake asks for one,
\* here of a single key.
Listed == {p \in Key \X Key : Place[p[1]] < Place[p[2]]}
FirstPage == LET keys == InOrder(Objects(ulog), Listed)
             IN  SubSeq(keys, 1, IF keys = <<>> THEN 0 ELSE 1)
list_ulg_keys == InOrder(Objects(ulog), Listed)

-----------------------------------------------------------------------------
(* convert_object, on the key a run is at *)

At(c) == task[c].source_keys[task[c].i]

Running(c, pc) == task[c].pc = pc /\ task[c].i <= Len(task[c].source_keys)

Goto(c, pc) == task' = [task EXCEPT ![c].pc = pc]

\* A request that fails otherwise than with a 404 raises: Kill.
exists(key) == mcap[key] # "absent"

NextKey(c) == task' = [task EXCEPT ![c].pc = "exists", ![c].i = @ + 1]

Skip(c) ==
    /\ Running(c, "exists")
    /\ ~ task[c].overwrite /\ exists(At(c))
    /\ NextKey(c)
    /\ UNCHANGED <<raw, ulog, mcap>>

Take(c) ==
    /\ Running(c, "exists")
    /\ task[c].overwrite \/ ~ exists(At(c))
    /\ Goto(c, "download")
    /\ UNCHANGED <<raw, ulog, mcap>>

Download(c) ==
    /\ Running(c, "download")
    /\ task' = [task EXCEPT ![c].pc = "convert", ![c].local_ulg = ulog[At(c)]]
    /\ UNCHANGED <<raw, ulog, mcap>>

Convert(c) ==
    /\ Running(c, "convert")
    /\ <<At(c), task[c].local_ulg>> \notin Raises
    /\ Goto(c, "upload")
    /\ UNCHANGED <<raw, ulog, mcap>>

\* Nothing catches the exception: the run ends here.  The mistake catches it and
\* goes on with the next key.
CatchAndGoOn(c) ==
    /\ Running(c, "convert")
    /\ <<At(c), task[c].local_ulg>> \in Raises
    /\ NextKey(c)
    /\ UNCHANGED <<raw, ulog, mcap>>

ConvertRaises(c) ==
    /\ Running(c, "convert")
    /\ <<At(c), task[c].local_ulg>> \in Raises
    /\ Goto(c, "failed")
    /\ UNCHANGED <<raw, ulog, mcap>>

\* The .mcap is complete before any of it is stored.
Upload(c) ==
    /\ Running(c, "upload")
    /\ mcap' = [mcap EXCEPT ![At(c)] = task[c].local_ulg]
    /\ NextKey(c)
    /\ UNCHANGED <<raw, ulog>>

-----------------------------------------------------------------------------
(* batch_convert *)

Start(c) ==
    /\ task[c].pc \in Ended
    /\ \E overwrite \in BOOLEAN :
           task' = [task EXCEPT ![c] =
                       [pc |-> "exists", source_keys |-> list_ulg_keys, i |-> 1,
                        local_ulg |-> "absent", overwrite |-> overwrite]]
    /\ UNCHANGED <<raw, ulog, mcap>>

Finish(c) ==
    /\ task[c].pc = "exists" /\ task[c].i > Len(task[c].source_keys)
    /\ Goto(c, "done")
    /\ UNCHANGED <<raw, ulog, mcap>>

\* A stopped container, or a request to the store that fails.
Kill(c) ==
    /\ task[c].pc \notin Ended
    /\ Goto(c, "killed")
    /\ UNCHANGED <<raw, ulog, mcap>>

Step(c) ==
    \/ Skip(c) \/ Take(c) \/ Download(c) \/ Convert(c) \/ ConvertRaises(c)
    \/ Upload(c) \/ Finish(c)

-----------------------------------------------------------------------------
(* What surrounds it *)

\* DownloadLogs: a file appears as the download opens it, and is whole at its end;
\* with --overwrite a whole one is opened again.
Cache(k) ==
    /\ raw' \in {[raw EXCEPT ![k] = "partial"], [raw EXCEPT ![k] = "whole"]}
    /\ UNCHANGED <<ulog, mcap, task>>

\* minio-init: mc mirror leaves the objects there are alone.
Mirror(k) ==
    /\ raw[k] # "absent" /\ ulog[k] = "absent"
    /\ ulog' = [ulog EXCEPT ![k] = raw[k]]
    /\ UNCHANGED <<raw, mcap, task>>

\* just wipe-all: the containers go, then the volume with both buckets.  The
\* mistakes keep the mcap bucket, on a volume of its own, and leave out the
\* profiles, so that the converter's container stays.
WipeUnderRuns ==
    /\ ulog' = [k \in Key |-> "absent"]
    /\ mcap' = [k \in Key |-> "absent"]
    /\ UNCHANGED <<raw, task>>

WipeUlog ==
    /\ ulog' = [k \in Key |-> "absent"]
    /\ task' = [c \in Converter |-> [task[c] EXCEPT !.pc = "killed"]]
    /\ UNCHANGED <<raw, mcap>>

WipeAll ==
    /\ ulog' = [k \in Key |-> "absent"]
    /\ mcap' = [k \in Key |-> "absent"]
    /\ task' = [c \in Converter |-> [task[c] EXCEPT !.pc = "killed"]]
    /\ UNCHANGED raw

Init ==
    /\ raw = [k \in Key |-> "absent"]
    /\ ulog = raw /\ mcap = raw
    /\ task = [c \in Converter |-> [pc |-> "off", source_keys |-> <<>>, i |-> 1,
                                    local_ulg |-> "absent", overwrite |-> FALSE]]

Next ==
    \/ \E c \in Converter : Start(c) \/ Step(c) \/ Kill(c)
    \/ \E k \in Key : Cache(k) \/ Mirror(k)
    \/ WipeAll

Spec == Init /\ [][Next]_vars

\* The batch is run again and again, and at some point neither killed nor wiped
\* any more.  (No other step leaves a run "killed".)
Interrupt == WipeAll \/ \E c \in Converter : Kill(c)

BatchSpec ==
    /\ Spec
    /\ \A c \in Converter : WF_vars(Start(c)) /\ WF_vars(Step(c))
    /\ \A k \in Key : WF_vars(Mirror(k))
    /\ <>[][~ Interrupt]_vars

-----------------------------------------------------------------------------

IsTask(t) ==
    /\ DOMAIN t = {"pc", "source_keys", "i", "local_ulg", "overwrite"}
    /\ t.pc \in Ended \cup {"exists", "download", "convert", "upload"}
    /\ t.source_keys \in Seq(Key) /\ t.i \in 1 .. Len(t.source_keys) + 1
    /\ t.local_ulg \in Content /\ t.overwrite \in BOOLEAN
    /\ t.pc \in {"download", "convert", "upload"} => t.i \in DOMAIN t.source_keys
    /\ t.pc \in {"convert", "upload"} => t.local_ulg # "absent"

TypeOK ==
    /\ raw \in [Key -> Content] /\ ulog \in [Key -> Content] /\ mcap \in [Key -> Content]
    /\ DOMAIN task = Converter /\ \A c \in Converter : IsTask(task[c])

\* What the mcap bucket holds was made from what the ulog bucket holds, however
\* runs overlap, fail and are repeated, the cache changes below the bucket and
\* the buckets are wiped and seeded again: an existing .mcap is skipped for
\* ever, so a stale one would never be made good.
McapMatchesUlog == \A k \in Objects(mcap) : mcap[k] = ulog[k]

\* Every key a run has left behind has its .mcap, so a run that ends with "done"
\* has converted the whole listing, and one that fails all before the failure.
PassedKeysAreConverted ==
    \A c \in Converter : task[c].pc # "killed" =>
        \A j \in 1 .. task[c].i - 1 : mcap[task[c].source_keys[j]] # "absent"

\* Why the three hold.  The bucket is finite, so it has a listing; what a run has
\* listed stays in the bucket as long as the run lives, and what it has downloaded
\* stays the same there.
UlogIsFinite == IsFiniteSet(Objects(ulog))

ListedStays ==
    \A c \in Converter : task[c].pc \notin Ended =>
        \A j \in DOMAIN task[c].source_keys : ulog[task[c].source_keys[j]] # "absent"

LocalIsCurrent ==
    \A c \in Converter : task[c].pc \in {"convert", "upload"} => task[c].local_ulg = ulog[At(c)]

ConvertInvariant ==
    /\ TypeOK /\ UlogIsFinite /\ ListedStays /\ LocalIsCurrent
    /\ McapMatchesUlog /\ PassedKeysAreConverted

\* An object stays convertible when neither it nor one listed before it raises.
Reached(k) ==
    /\ ulog[k] # "absent"
    /\ \A j \in Key : Place[j] <= Place[k] => <<j, ulog[j]>> \notin Raises

EveryReachedUlogIsConverted ==
    \A k \in Key : <>[]Reached(k) => <>[](mcap[k] # "absent")

\* ulog_conversion/src/main.py: "Convert every .ulg object in --source-bucket to
\* .mcap in --dest-bucket", for those that can be converted.
EveryUlogIsConverted ==
    \A k \in Key :
        <>[](ulog[k] # "absent" /\ <<k, ulog[k]>> \notin Raises) => <>(mcap[k] # "absent")
=============================================================================
