------------------------------ MODULE Pipeline ------------------------------
(***************************************************************************)
(* The jobs as the operator runs them: "just batch" (justfile), which      *)
(* seeds the ulog bucket, runs the converter of BatchConvert and then the  *)
(* ingest of IcebergCommit, with the recipes that run beside it or between *)
(* two batches.  The jobs share the mcap bucket and nothing else.          *)
(*                                                                         *)
(* What IcebergCommit takes for an object is here a key with the content   *)
(* of the .ulg its .mcap was made from, so that the rows of the lake can   *)
(* be traced to it.                                                        *)
(*                                                                         *)
(* External: docker compose.  An attached "up" returns when its job ends,  *)
(* whatever the job returned, and with --no-deps it starts the job whether *)
(* or not those it depends on have succeeded.                              *)
(***************************************************************************)
EXTENDS Naturals, Sequences

CONSTANTS
    Key,            \* the object keys, without .ulg and .mcap
    FileContent,    \* what a cached file may hold: "partial", "whole"
    Place,          \* their place in the listing of a bucket
    Raises,         \* the pairs <<key, content>> on which the conversion raises
    Topic,          \* base topics
    FieldName,      \* the fields of messages
    TopicsOf,       \* what is in a log: <<key, content>> -> topic -> descriptor
    None            \* absence of an mcap or a topic

VARIABLES
    raw, ulog, mcap,                        \* the cache and the two buckets
    namespace, tables, warehouse, reset,    \* the lake
    converting,                             \* the converter's run
    ingesting,                              \* the ingest's
    batch                                   \* where "just batch" is

Converter == "ulog-converter"

Ingester == "rust-ingest"

Mcap == Key \X FileContent

\* The jobs.  The instances are of the modules with the theorems about BatchConvert
\* and IcebergCommit, for PipelineProofs to cite: they extend the models and add
\* nothing to them.
C == INSTANCE BatchConvertProofs WITH Converter <- {Converter}, task <- converting

Bucket == {<<k, mcap[k]>> : k \in C!Objects(mcap)}

I == INSTANCE IngestSchemaProofs WITH
        Ingesters <- {Ingester}, McapId <- Key, Groups <- TopicsOf,
        KeyRank <- [o \in Mcap |-> Place[o[1]]],
        McapIdOf <- [o \in Mcap |-> o[1]],
        Undecodable <- {}, ExclusiveReset <- FALSE,
        bucket <- Bucket, task <- ingesting

ASSUME PipelineAssumption ==
    /\ FileContent \subseteq {"partial", "whole"}
    /\ Place \in [Key -> Nat] /\ \A j, k \in Key : Place[j] = Place[k] => j = k
    /\ Raises \subseteq Mcap
    /\ None \notin Mcap \cup Topic
    /\ \A o \in Mcap : /\ DOMAIN TopicsOf[o] \subseteq Topic
                       /\ \A t \in DOMAIN TopicsOf[o] : I!IsDescriptor(TopicsOf[o][t])
    /\ I!StandardName \subseteq FieldName

files == <<raw, ulog, mcap>>

lake == <<namespace, tables, warehouse, reset>>

vars == <<files, lake, converting, ingesting, batch>>

-----------------------------------------------------------------------------
(* just batch.  For the properties, batch keeps what the cache held at its   *)
(* beginning, and whether another recipe has touched the lake since.         *)

NoBatch == [pc |-> "off", cached |-> {}, disturbed |-> FALSE]

StartBatch ==
    /\ batch.pc = "off"
    /\ batch' = [pc |-> "seed", cached |-> C!Objects(raw), disturbed |-> FALSE]
    /\ UNCHANGED <<files, lake, converting, ingesting>>

\* iceberg-rest waits for minio-init to complete; then the converter starts.
StartConverter ==
    /\ batch.pc = "seed" /\ batch.cached \subseteq C!Objects(ulog)
    /\ C!Start(Converter) /\ ~ converting'[Converter].overwrite
    /\ batch' = [batch EXCEPT !.pc = "convert"]
    /\ UNCHANGED <<lake, ingesting>>

\* The mistake honours the dependency on the converter.
StartAfterSuccess ==
    /\ batch.pc = "convert" /\ converting[Converter].pc = "done"
    /\ UNCHANGED <<files, converting>>
    /\ I!Start(Ingester)
    /\ batch' = [batch EXCEPT !.pc = "ingest"]

StartIngest ==
    /\ batch.pc = "convert" /\ converting[Converter].pc \in C!Ended
    /\ UNCHANGED <<files, converting>>
    /\ I!Start(Ingester)
    /\ batch' = [batch EXCEPT !.pc = "ingest"]

FinishBatch ==
    /\ batch.pc = "ingest" /\ ~ I!Running(Ingester)
    /\ batch' = NoBatch
    /\ UNCHANGED <<files, lake, converting, ingesting>>

\* The jobs of a batch that is interrupted are stopped.
StopJobs ==
    /\ converting' = IF converting[Converter].pc \in C!Ended THEN converting
                     ELSE [converting EXCEPT ![Converter].pc = "killed"]
    /\ ingesting' = IF ~ I!Running(Ingester) THEN ingesting
                    ELSE [ingesting EXCEPT ![Ingester] = [I!Idle EXCEPT !.pc = "panicked"]]
    /\ batch' = NoBatch

InterruptBatch ==
    /\ batch.pc # "off"
    /\ StopJobs
    /\ UNCHANGED <<files, lake>>

-----------------------------------------------------------------------------
(* The jobs *)

Convert == C!Step(Converter) /\ UNCHANGED <<lake, ingesting, batch>>

Ingest == UNCHANGED <<files, converting, batch>> /\ I!Step(Ingester)

KillConverter == C!Kill(Converter) /\ UNCHANGED <<lake, ingesting, batch>>

Crash == UNCHANGED <<files, converting, batch>> /\ I!Crash(Ingester)

-----------------------------------------------------------------------------
(* Beside it: the downloader, and the other recipes.  infra-up, which       *)
(* reset-lake and query begin with, starts minio-init again.                *)

Download(k) == C!Cache(k) /\ raw'[k] \in FileContent /\ UNCHANGED <<lake, ingesting, batch>>

Seed(k) == C!Mirror(k) /\ UNCHANGED <<lake, ingesting, batch>>

Disturb == batch' = [batch EXCEPT !.disturbed = batch.pc # "off"]

DropCatalog == UNCHANGED <<files, converting>> /\ I!DropCatalog /\ Disturb

DropWarehouse == UNCHANGED <<files, converting>> /\ I!DropWarehouse /\ Disturb

InterruptReset == UNCHANGED <<files, converting>> /\ I!InterruptReset /\ Disturb

\* wipe-all removes the containers, then one volume after the other.  It may be
\* interrupted between them.  The mistake leaves out --profile "*", which the
\* ingest belongs to.
WipeOtherServices ==
    /\ C!WipeAll
    /\ warehouse' = [t \in Topic |-> I!NoObjects]
    /\ tables' = [t \in Topic |->
                     [tables[t] EXCEPT !.state = IF I!Exists(t) THEN "broken" ELSE @]]
    /\ reset' = "idle"
    /\ UNCHANGED <<namespace, ingesting, batch>>

WipeObjects ==
    /\ C!WipeAll
    /\ warehouse' = [t \in Topic |-> I!NoObjects]
    /\ tables' = [t \in Topic |->
                     [tables[t] EXCEPT !.state = IF I!Exists(t) THEN "broken" ELSE @]]
    /\ ingesting' = [ingesting EXCEPT ![Ingester] = [I!Idle EXCEPT !.pc = "panicked"]]
    /\ batch' = NoBatch /\ reset' = "idle"
    /\ UNCHANGED namespace

WipeCatalog ==
    /\ StopJobs
    /\ namespace' = FALSE
    /\ tables' = [t \in Topic |-> I!NoTable]
    /\ reset' = "idle"
    /\ UNCHANGED <<files, warehouse>>

-----------------------------------------------------------------------------

Init ==
    /\ C!Init /\ I!Init
    /\ batch = NoBatch

Next ==
    \/ StartBatch \/ StartConverter \/ StartIngest \/ FinishBatch \/ InterruptBatch
    \/ Convert \/ Ingest \/ KillConverter \/ Crash
    \/ \E k \in Key : Download(k) \/ Seed(k)
    \/ DropCatalog \/ DropWarehouse \/ InterruptReset
    \/ WipeObjects \/ WipeCatalog

Spec == Init /\ [][Next]_vars

\* The batch is run again and again, with a reset after an ingest that panicked;
\* at some point nothing is interrupted, killed, wiped or reset without need any
\* more, and no recipe is begun while a reset is under way.
ResetAfterPanic ==
    batch.pc = "off" /\ ingesting[Ingester].pc = "panicked" /\ DropCatalog

Interruption ==
    \/ InterruptBatch \/ KillConverter \/ WipeObjects \/ WipeCatalog
    \/ Crash /\ ~ Ingest
    \/ InterruptReset /\ ~ DropWarehouse
    \/ DropCatalog /\ ~ ResetAfterPanic
    \/ StartBatch /\ reset # "idle"

RecoverySpec ==
    /\ Spec
    /\ WF_vars(StartBatch) /\ WF_vars(StartConverter) /\ WF_vars(StartIngest)
    /\ WF_vars(FinishBatch) /\ WF_vars(Convert) /\ WF_vars(Ingest)
    /\ \A k \in Key : WF_vars(Seed(k))
    /\ SF_vars(ResetAfterPanic) /\ WF_vars(DropWarehouse)
    /\ <>[][~ Interruption]_vars

-----------------------------------------------------------------------------

TypeOK ==
    /\ C!TypeOK /\ I!TypeOK
    /\ batch \in [pc : {"off", "seed", "convert", "ingest"}, cached : SUBSET Key,
                  disturbed : BOOLEAN]
    /\ converting[Converter].pc \notin C!Ended => batch.pc = "convert"
    /\ I!Running(Ingester) => batch.pc = "ingest"

\* Every row of the lake was made from the .ulg that the bucket has now: in any
\* sequence of batches that fail half way, of conversions that are skipped because
\* an .mcap is there, of resets and of wipes that stop between two volumes, and
\* with a cache that changes below, no old flight stays under a log's name.
RowsMatchUlog ==
    \A t \in Topic : I!Loads(t) =>
        \A k \in DOMAIN tables[t].files :
            LET o == tables[t].files[k].mcap IN o[2] = ulog[o[1]]

\* What an ingest has listed is still there, and the same, when it loads it: no
\* recipe empties or rewrites the mcap bucket under it.
ListedIsThere == I!Running(Ingester) => ingesting[Ingester].pending \subseteq Bucket

\* Each topic of the log in the bucket can be read from its table.
InLake(k) ==
    /\ ulog[k] # "absent"
    /\ \A t \in DOMAIN TopicsOf[<<k, ulog[k]>>] : I!Loads(t) /\ I!Committed(<<k, ulog[k]>>, t)

\* A batch of which both jobs report success has brought every log that was cached
\* at its beginning into the lake, unless the lake was reset meanwhile.
WholeBatch ==
    /\ batch.pc = "ingest" /\ ~ batch.disturbed
    /\ converting[Converter].pc = "done" /\ ingesting[Ingester].pc = "finished"
    => \A k \in batch.cached : InLake(k)

\* Why they hold.  A bucket has what the cache had; the mcap in hand is in the bucket
\* like those to come.  From the time of its listing the converter has the batch's
\* logs on its list, and a run that is done has gone past all of it; the ingest then
\* lists their mcaps, and commits what it takes from the list.
ContentIsKnown ==
    \A k \in Key : raw[k] \in FileContent \cup {"absent"} /\ ulog[k] \in FileContent \cup {"absent"}

InHandIsThere ==
    I!Running(Ingester) /\ ingesting[Ingester].pc # "mcap" => ingesting[Ingester].mcap \in Bucket

DonePastAll ==
    converting[Converter].pc = "done" =>
        converting[Converter].i > Len(converting[Converter].source_keys)

ConverterListsBatch ==
    batch.pc \in {"convert", "ingest"} =>
        \A k \in batch.cached :
            /\ ulog[k] # "absent"
            /\ \E j \in DOMAIN converting[Converter].source_keys :
                   converting[Converter].source_keys[j] = k

IngestListsBatch ==
    batch.pc = "ingest" /\ ~ batch.disturbed =>
        /\ I!CommittedSoFar
        /\ converting[Converter].pc = "done" /\ I!Running(Ingester) =>
               \A k \in batch.cached : <<k, ulog[k]>> \in ingesting[Ingester].listed

PipelineInvariant ==
    /\ TypeOK /\ ContentIsKnown /\ C!ConvertInvariant
    /\ I!AppendsOwnFile /\ I!AbsentIsEmpty /\ I!AtMostOnce
    /\ ListedIsThere /\ InHandIsThere /\ RowsMatchUlog
    /\ DonePastAll /\ ConverterListsBatch /\ IngestListsBatch /\ WholeBatch

\* A log in the ulog bucket that converts, like all before it in the listing, is in
\* the lake in the end, and again after every reset, though the conversion of a
\* later log fails in every batch.
EveryReachedLogIsIngested ==
    \A k \in Key : <>[]C!Reached(k) => []<>InLake(k)

\* The guarantees of the ingest that are left when a reset or a wipe does not wait
\* for it.
AtMostOnce == I!AtMostOnce

TablesOnlyGrow == I!TablesOnlyGrow
=============================================================================
