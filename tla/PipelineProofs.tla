--------------------------- MODULE PipelineProofs ---------------------------
(***************************************************************************)
(* Theorems about the pipeline as the operator runs it, for any logs,      *)
(* contents, topics and message definitions: batches that fail half way,   *)
(* resets and wipes that stop half way or overlap a job, and a cache that  *)
(* changes meanwhile.                                                      *)
(***************************************************************************)
EXTENDS Pipeline, TLAPS

\* The constants are what BatchConvert and IcebergCommit assume of theirs.
LEMMA ConvertAssumed == C!ConvertAssumption
BY PipelineAssumption DEF Mcap

LEMMA IngestAssumed == I!IngestAssumption /\ I!FieldNameAssumption
<1>1. \A o \in Mcap : o[1] \in Key /\ Place[o[1]] \in Nat
  BY PipelineAssumption DEF Mcap
<1> QED BY <1>1, PipelineAssumption

-----------------------------------------------------------------------------
(* What a step of the pipeline is for each of the jobs *)

LEMMA ConverterStep ==
    ASSUME [Next]_vars
    PROVE  [C!Next]_C!vars
<1> USE DEF files, C!vars, C!Next
<1>1. UNCHANGED vars => UNCHANGED C!vars
  BY DEF vars
<1>2. StartBatch \/ StartIngest \/ FinishBatch \/ Ingest \/ Crash => UNCHANGED C!vars
  BY DEF StartBatch, StartIngest, FinishBatch, Ingest, Crash
<1>3. DropCatalog \/ DropWarehouse \/ InterruptReset => UNCHANGED C!vars
  BY DEF DropCatalog, DropWarehouse, InterruptReset
<1>4. StartConverter \/ Convert \/ KillConverter \/ WipeObjects => C!Next
  BY DEF StartConverter, Convert, KillConverter, WipeObjects
<1>5. \A k \in Key : Download(k) \/ Seed(k) => C!Next
  BY DEF Download, Seed
<1>6. InterruptBatch \/ WipeCatalog => [C!Next]_C!vars
  BY DEF InterruptBatch, WipeCatalog, StopJobs, C!Kill, C!Goto
<1> QED BY <1>1, <1>2, <1>3, <1>4, <1>5, <1>6 DEF Next

LEMMA LakeStep ==
    ASSUME [Next]_vars
    PROVE  \/ UNCHANGED <<lake, ingesting>>
           \/ UNCHANGED files /\ [I!Next]_I!vars
           \/ WipeObjects \/ WipeCatalog
<1>1. UNCHANGED vars => UNCHANGED <<lake, ingesting>>
  BY DEF vars
<1>2. StartBatch \/ StartConverter \/ FinishBatch \/ Convert \/ KillConverter
        => UNCHANGED <<lake, ingesting>>
  BY DEF StartBatch, StartConverter, FinishBatch, Convert, KillConverter
<1>3. \A k \in Key : Download(k) \/ Seed(k) => UNCHANGED <<lake, ingesting>>
  BY DEF Download, Seed
<1>4. StartIngest \/ Ingest \/ Crash => UNCHANGED files /\ I!Next
  BY DEF StartIngest, Ingest, Crash, I!Next
<1>5. DropCatalog \/ DropWarehouse \/ InterruptReset => UNCHANGED files /\ I!Next
  BY DEF DropCatalog, DropWarehouse, InterruptReset, I!Next, I!Operator
<1>6. InterruptBatch => UNCHANGED files /\ (I!Crash(Ingester) \/ UNCHANGED <<lake, ingesting>>)
  BY DEF InterruptBatch, StopJobs, I!Crash, I!Exit, files, lake, Bucket, C!Objects
<1>7. I!Crash(Ingester) => I!Next
  BY DEF I!Next
<1> QED BY <1>1, <1>2, <1>3, <1>4, <1>5, <1>6, <1>7 DEF Next

-----------------------------------------------------------------------------
(* The buckets *)

LEMMA UlogStep ==
    ASSUME [Next]_vars
    PROVE  ulog' = ulog \/ WipeObjects \/ \E k \in Key : C!Mirror(k)
<1>1. UNCHANGED files => ulog' = ulog
  BY DEF files
<1>2. StartConverter \/ Convert \/ KillConverter => ulog' = ulog
  BY DEF StartConverter, Convert, KillConverter, C!Start, C!Kill, C!Step, C!Skip, C!Take,
     C!Download, C!Convert, C!ConvertRaises, C!Upload, C!Finish
<1>3. \A k \in Key : Download(k) => ulog' = ulog
  BY DEF Download, C!Cache
<1>4. \A k \in Key : Seed(k) => C!Mirror(k)
  BY DEF Seed
<1> QED BY <1>1, <1>2, <1>3, <1>4 DEF Next, vars, StartBatch, StartIngest, FinishBatch, Ingest,
       Crash, DropCatalog, DropWarehouse, InterruptReset, InterruptBatch, WipeCatalog

LEMMA UlogKept ==
    ASSUME C!TypeOK, [Next]_vars, ~ WipeObjects, NEW k \in Key, ulog[k] # "absent"
    PROVE  ulog'[k] = ulog[k]
<1>1. ASSUME NEW j \in Key, C!Mirror(j) PROVE ulog'[k] = ulog[k]
  BY <1>1 DEF C!Mirror, C!TypeOK
<1> QED BY <1>1, UlogStep

LEMMA McapStep ==
    ASSUME [Next]_vars
    PROVE  mcap' = mcap \/ WipeObjects \/ C!Upload(Converter)
<1>1. UNCHANGED files => mcap' = mcap
  BY DEF files
<1>2. StartConverter \/ Convert \/ KillConverter => mcap' = mcap \/ C!Upload(Converter)
  BY DEF StartConverter, Convert, KillConverter, C!Start, C!Kill, C!Step, C!Skip, C!Take,
     C!Download, C!Convert, C!ConvertRaises, C!Finish
<1>3. \A k \in Key : Download(k) \/ Seed(k) => mcap' = mcap
  BY DEF Download, Seed, C!Cache, C!Mirror
<1> QED BY <1>1, <1>2, <1>3 DEF Next, vars, StartBatch, StartIngest, FinishBatch, Ingest,
       Crash, DropCatalog, DropWarehouse, InterruptReset, InterruptBatch, WipeCatalog

\* Under a running ingest nothing leaves the mcap bucket, and nothing in it changes, for
\* an upload over an object puts there what it had.
LEMMA BucketGrows ==
    ASSUME C!ConvertInvariant, [Next]_vars, ~ WipeObjects
    PROVE  Bucket \subseteq Bucket'
<1> SUFFICES ASSUME NEW k \in Key, mcap[k] # "absent"
             PROVE  mcap'[k] = mcap[k]
  BY DEF Bucket, C!Objects
<1>1. CASE C!Upload(Converter)
  <2>1. mcap' = [mcap EXCEPT ![C!At(Converter)] = ulog[C!At(Converter)]]
    BY <1>1, ConvertAssumed, C!UploadStep DEF C!ConvertInvariant
  <2>2. mcap[k] = ulog[k] /\ mcap \in [Key -> C!Content]
    BY DEF C!ConvertInvariant, C!McapMatchesUlog, C!Objects, C!TypeOK
  <2> QED BY <2>1, <2>2
<1> QED BY <1>1, McapStep

LEMMA BucketIsMcap ==
    ASSUME ContentIsKnown, C!McapMatchesUlog
    PROVE  /\ Bucket \subseteq Mcap
           /\ \A o \in Bucket : o[1] \in Key /\ ulog[o[1]] = o[2] /\ o[2] # "absent"
BY DEF ContentIsKnown, C!McapMatchesUlog, Bucket, Mcap, C!Objects

LEMMA ContentIsKnownStep ==
    ASSUME C!TypeOK, ContentIsKnown, [Next]_vars
    PROVE  ContentIsKnown'
<1>1. raw' = raw \/ \E k \in Key : C!Cache(k) /\ raw'[k] \in FileContent
  <2>1. UNCHANGED files => raw' = raw
    BY DEF files
  <2>2. StartConverter \/ Convert \/ KillConverter => raw' = raw
    BY DEF StartConverter, Convert, KillConverter, C!Start, C!Kill, C!Step, C!Skip, C!Take,
       C!Download, C!Convert, C!ConvertRaises, C!Upload, C!Finish
  <2>3. (\E k \in Key : Seed(k)) \/ WipeObjects => raw' = raw
    BY DEF Seed, C!Mirror, WipeObjects, C!WipeAll
  <2> QED BY <2>1, <2>2, <2>3 DEF Next, vars, StartBatch, StartIngest, FinishBatch, Ingest,
         Crash, DropCatalog, DropWarehouse, InterruptReset, InterruptBatch, WipeCatalog, Download
<1>2. \A k \in Key : raw'[k] \in FileContent \cup {"absent"}
  BY <1>1 DEF C!Cache, C!TypeOK, ContentIsKnown
<1>3. \A k \in Key : ulog'[k] \in FileContent \cup {"absent"}
  BY UlogStep DEF C!Mirror, C!WipeAll, WipeObjects, C!TypeOK, ContentIsKnown
<1> QED BY <1>2, <1>3 DEF ContentIsKnown

-----------------------------------------------------------------------------
(* The lake *)

\* What is left of a table by a wipe.
LEMMA WipedTable ==
    ASSUME I!TypeOK, NEW t \in Topic
    PROVE  /\ WipeObjects => tables'[t] =
                [tables[t] EXCEPT !.state = IF I!Exists(t) THEN "broken" ELSE @]
           /\ WipeCatalog => tables'[t] = I!NoTable
BY DEF WipeObjects, WipeCatalog

LEMMA StoppedIngest ==
    ASSUME I!TypeOK, WipeObjects \/ WipeCatalog
    PROVE  /\ DOMAIN ingesting' = {Ingester} /\ I!IsTask(ingesting'[Ingester])
           /\ ~ I!Running(Ingester)'
<1>1. I!IsTask([I!Idle EXCEPT !.pc = "panicked"])
  BY I!ExitType, IngestAssumed DEF I!Stopped
<1>2. [I!Idle EXCEPT !.pc = "panicked"].pc = "panicked"
  BY DEF I!Idle
<1> QED BY <1>1, <1>2 DEF WipeObjects, WipeCatalog, StopJobs, I!TypeOK, I!Running, I!Stopped

LEMMA LakeTypesStep ==
    ASSUME I!TypeOK, [Next]_vars, Bucket' \subseteq Mcap
    PROVE  I!TypeOK'
<1>1. CASE UNCHANGED <<lake, ingesting>>
  BY <1>1 DEF lake, I!TypeOK
<1>2. CASE [I!Next]_I!vars
  BY <1>2, I!TypeOKStep, IngestAssumed
<1>3. CASE WipeObjects
  <2>1. \A t \in Topic : I!IsTable(tables'[t])
    BY <1>3, WipedTable DEF I!TypeOK, I!IsTable
  <2> QED BY <1>3, <2>1, StoppedIngest DEF WipeObjects, I!TypeOK, I!NoObjects
<1>4. CASE WipeCatalog
  <2>1. \A t \in Topic : I!IsTable(tables'[t])
    BY <1>4, WipedTable, I!NoTableType, IngestAssumed
  <2> QED BY <1>4, <2>1, StoppedIngest DEF WipeCatalog, I!TypeOK
<1> QED BY <1>1, <1>2, <1>3, <1>4, LakeStep

LEMMA AppendsOwnFileStep ==
    ASSUME I!TypeOK, I!AppendsOwnFile, [Next]_vars
    PROVE  I!AppendsOwnFile'
<1>1. CASE UNCHANGED <<lake, ingesting>>
  BY <1>1 DEF I!AppendsOwnFile
<1>2. CASE [I!Next]_I!vars
  BY <1>2, I!AppendsOwnFileStep, IngestAssumed
<1>3. CASE WipeObjects \/ WipeCatalog
  BY <1>3, StoppedIngest DEF I!AppendsOwnFile, I!Running, I!Stopped
<1> QED BY <1>1, <1>2, <1>3, LakeStep

LEMMA AbsentIsEmptyStep ==
    ASSUME I!TypeOK, I!AbsentIsEmpty, [Next]_vars
    PROVE  I!AbsentIsEmpty'
<1>1. CASE UNCHANGED <<lake, ingesting>>
  BY <1>1 DEF I!AbsentIsEmpty, lake
<1>2. CASE [I!Next]_I!vars
  BY <1>2, I!AbsentIsEmptyStep, IngestAssumed
<1>3. CASE WipeObjects
  <2> SUFFICES ASSUME NEW t \in Topic, tables'[t].state = "absent"
               PROVE  tables'[t] = I!NoTable
    BY DEF I!AbsentIsEmpty
  <2>1. tables'[t] = [tables[t] EXCEPT !.state = IF I!Exists(t) THEN "broken" ELSE @]
    BY <1>3, WipedTable
  <2>2. tables[t].state = "absent"
    BY <2>1 DEF I!TypeOK, I!IsTable, I!Exists
  <2>3. tables[t] = I!NoTable
    BY <2>2 DEF I!AbsentIsEmpty
  <2> QED BY <2>1, <2>2, <2>3 DEF I!Exists, I!NoTable
<1>4. CASE WipeCatalog
  BY <1>4, WipedTable DEF I!AbsentIsEmpty
<1> QED BY <1>1, <1>2, <1>3, <1>4, LakeStep

LEMMA AtMostOnceStep ==
    ASSUME I!TypeOK, I!AppendsOwnFile, I!AtMostOnce, [Next]_vars
    PROVE  I!AtMostOnce'
<1>1. CASE UNCHANGED <<lake, ingesting>>
  BY <1>1 DEF I!AtMostOnce, lake
<1>2. CASE [I!Next]_I!vars
  BY <1>2, I!AtMostOnceStep, IngestAssumed
<1>3. CASE WipeObjects
  <2>1. \A t \in Topic : tables'[t].files = tables[t].files
    BY <1>3, WipedTable DEF I!TypeOK, I!IsTable
  <2> QED BY <2>1 DEF I!AtMostOnce
<1>4. CASE WipeCatalog
  <2>1. \A t \in Topic : tables'[t].files = <<>>
    BY <1>4 DEF WipeCatalog, I!NoTable
  <2>2. DOMAIN <<>> = {}
    OBVIOUS
  <2> QED BY <2>1, <2>2 DEF I!AtMostOnce
<1> QED BY <1>1, <1>2, <1>3, <1>4, LakeStep

LEMMA TablesGrow ==
    ASSUME I!TypeOK, I!AbsentIsEmpty, [Next]_vars, NEW t \in Topic
    PROVE  I!TableGrows(t)
<1> USE DEF I!TableGrows
<1>1. CASE UNCHANGED <<lake, ingesting>>
  BY <1>1 DEF lake, I!AbsentIsEmpty, I!NoTable
<1>2. CASE [I!Next]_I!vars
  BY <1>2, I!TableGrowsStep, IngestAssumed
<1>3. CASE WipeObjects
  <2>1. tables'[t] = [tables[t] EXCEPT !.state = IF I!Exists(t) THEN "broken" ELSE @]
    BY <1>3, WipedTable
  <2>2. I!IsTable(tables[t]) /\ (tables[t].state = "absent" => tables[t].files = <<>>)
    BY DEF I!TypeOK, I!AbsentIsEmpty, I!NoTable
  <2> QED BY <2>1, <2>2 DEF I!IsTable
<1>4. CASE WipeCatalog
  <2>1. tables'[t] = I!NoTable
    BY <1>4, WipedTable
  <2> QED BY <2>1 DEF I!NoTable
<1> QED BY <1>1, <1>2, <1>3, <1>4, LakeStep

-----------------------------------------------------------------------------
(* The mcap bucket, the ulog bucket and the lake *)

\* What a step makes of the objects that a running ingest has yet to load, and of the
\* one it has in hand.
LEMMA PendingStep ==
    ASSUME I!TypeOK, [Next]_vars, I!Running(Ingester)'
    PROVE  /\ ~ WipeObjects
           /\ \/ /\ I!Running(Ingester)
                 /\ ingesting'[Ingester].pending \subseteq ingesting[Ingester].pending
              \/ ingesting'[Ingester].pending \subseteq Bucket /\ ingesting'[Ingester].pc = "mcap"
           /\ ingesting'[Ingester].pc # "mcap" =>
                 \/ ingesting'[Ingester].mcap \in ingesting[Ingester].pending
                 \/ /\ ingesting[Ingester].pc # "mcap"
                    /\ ingesting'[Ingester].mcap = ingesting[Ingester].mcap
<1>1. CASE UNCHANGED <<lake, ingesting>>
  BY <1>1, StoppedIngest DEF I!Running
<1>2. CASE [I!Next]_I!vars
  <2> USE DEF I!Running, I!Stopped
  <2>1. I!IsTask(ingesting[Ingester]) /\ ~ WipeObjects
    BY StoppedIngest DEF I!TypeOK
  <2>2. CASE ingesting'[Ingester] = ingesting[Ingester]
    BY <2>1, <2>2
  <2>3. CASE I!Start(Ingester)
    BY <2>1, <2>3 DEF I!Start, I!TypeOK, I!Idle
  <2>4. ASSUME NEW o \in Mcap, I!LoadMcap(Ingester, o)
        PROVE  /\ ingesting[Ingester].pc = "mcap"
               /\ ingesting'[Ingester].pending \subseteq ingesting[Ingester].pending
               /\ ingesting'[Ingester].mcap \in ingesting[Ingester].pending
    BY <2>1, <2>4 DEF I!LoadMcap, I!IsNext, I!TypeOK, I!IsTask
  <2>5. ASSUME NEW t \in Topic, I!TakeGroup(Ingester, t)
        PROVE  /\ ingesting[Ingester].pc = "group"
               /\ ingesting'[Ingester].pending = ingesting[Ingester].pending
               /\ ingesting'[Ingester].mcap = ingesting[Ingester].mcap
    BY <2>1, <2>5 DEF I!TakeGroup, I!TypeOK, I!IsTask
  <2>6. CASE I!FinishMcap(Ingester)
    BY <2>1, <2>6 DEF I!FinishMcap, I!TypeOK, I!IsTask
  <2>7. CASE I!CommitAppend(Ingester)
    BY <2>1, <2>7 DEF I!CommitAppend, I!Goto, I!TypeOK, I!IsTask
  <2>8. CASE /\ ingesting[Ingester].pc \in I!InCommitTopicGroup
             /\ ingesting'[Ingester].pending = ingesting[Ingester].pending
             /\ ingesting'[Ingester].mcap = ingesting[Ingester].mcap
    BY <2>1, <2>8 DEF I!InCommitTopicGroup
  <2> QED BY <1>2, <2>1, <2>2, <2>3, <2>4, <2>5, <2>6, <2>7, <2>8, I!RunStep, IngestAssumed
<1> QED BY <1>1, <1>2, StoppedIngest, LakeStep

LEMMA ThereStep ==
    ASSUME I!TypeOK, C!ConvertInvariant, ListedIsThere, InHandIsThere, [Next]_vars
    PROVE  ListedIsThere' /\ InHandIsThere'
<1> SUFFICES ASSUME I!Running(Ingester)'
             PROVE  /\ ingesting'[Ingester].pending \subseteq Bucket'
                    /\ ingesting'[Ingester].pc # "mcap" => ingesting'[Ingester].mcap \in Bucket'
  BY DEF ListedIsThere, InHandIsThere
<1>1. Bucket \subseteq Bucket'
  BY PendingStep, BucketGrows
<1> QED BY <1>1, PendingStep DEF ListedIsThere, InHandIsThere

LEMMA RowsMatchUlogStep ==
    ASSUME C!ConvertInvariant, ContentIsKnown, I!TypeOK, I!AppendsOwnFile, InHandIsThere,
           RowsMatchUlog, [Next]_vars
    PROVE  RowsMatchUlog'
<1> SUFFICES ASSUME NEW t \in Topic, tables'[t].state = "present",
                    NEW k \in DOMAIN tables'[t].files
             PROVE  LET o == tables'[t].files[k].mcap IN o[2] = ulog'[o[1]]
  BY DEF RowsMatchUlog, I!Loads
<1> DEFINE o == tables'[t].files[k].mcap
<1>1. C!TypeOK /\ C!McapMatchesUlog
  BY DEF C!ConvertInvariant
<1>2. ASSUME o[1] \in Key, o[2] # "absent", o[2] = ulog[o[1]], ~ WipeObjects
      PROVE  o[2] = ulog'[o[1]]
  <2> HIDE DEF o
  <2> QED BY <1>1, <1>2, UlogKept
<1>3. ASSUME tables[t].state = "present", k \in DOMAIN tables[t].files,
             tables'[t].files[k] = tables[t].files[k], ~ WipeObjects
      PROVE  o[2] = ulog'[o[1]]
  <2>1. o \in Mcap
    BY <1>3 DEF I!TypeOK, I!IsTable, I!IsDataFile
  <2>2. o[1] \in Key /\ o[2] # "absent"
    BY <2>1, PipelineAssumption DEF Mcap
  <2>3. o[2] = ulog[o[1]]
    BY <1>3 DEF RowsMatchUlog, I!Loads
  <2> QED BY <1>2, <1>3, <2>2, <2>3
<1>4. CASE UNCHANGED <<lake, ingesting>> /\ ~ WipeObjects
  BY <1>3, <1>4 DEF lake
<1>5. CASE WipeObjects \/ WipeCatalog
  <2>1. \/ tables'[t] = [tables[t] EXCEPT !.state = IF I!Exists(t) THEN "broken" ELSE @]
        \/ tables'[t] = I!NoTable
    BY <1>5, WipedTable
  <2>2. I!IsTable(tables[t])
    BY DEF I!TypeOK
  <2> QED BY <2>1, <2>2 DEF I!IsTable, I!Exists, I!NoTable
<1>6. CASE UNCHANGED files /\ [I!Next]_I!vars /\ ~ WipeObjects
  <2>1. I!IsTable(tables[t])
    BY DEF I!TypeOK
  <2>2. CASE tables'[t] = tables[t]
    BY <1>3, <1>6, <2>2
  <2>3. CASE tables'[t] = I!NoTable
    BY <2>3 DEF I!NoTable
  <2>4. CASE tables'[t] = [tables[t] EXCEPT !.state = IF I!Exists(t) THEN "broken" ELSE @]
    BY <2>1, <2>4 DEF I!IsTable, I!Exists
  <2>5. ASSUME I!CreateTable(Ingester), ingesting[Ingester].topic = t
        PROVE  FALSE
    <3>1. tables'[t].files = <<>>
      BY <2>5 DEF I!CreateTable, I!TypeOK
    <3> QED BY <3>1
  <2>6. ASSUME I!EvolveSchema(Ingester), ingesting[Ingester].topic = t
        PROVE  tables[t].state = "present" /\ tables'[t].files = tables[t].files
    BY <2>1, <2>6 DEF I!EvolveSchema, I!TypeOK, I!IsTable, I!Loads
  <2>7. ASSUME I!CommitAppend(Ingester), ingesting[Ingester].topic = t
        PROVE  o[2] = ulog'[o[1]]
    <3>1. /\ tables[t].state = "present" /\ ingesting[Ingester].pc = "append"
          /\ I!IsExtended(tables[t].files, tables'[t].files, ingesting[Ingester].written)
      BY <2>7, I!AppendStep, IngestAssumed
    <3>2. CASE k \in DOMAIN tables[t].files
      BY <1>3, <1>6, <3>1, <3>2 DEF I!IsExtended
    <3>3. CASE k \notin DOMAIN tables[t].files
      <4>1. o = ingesting[Ingester].mcap
        BY <3>1, <3>3 DEF I!IsExtended, I!AppendsOwnFile
      <4>2. o \in Bucket
        BY <3>1, <4>1 DEF InHandIsThere, I!Running, I!Stopped
      <4> QED BY <1>1, <1>2, <1>6, <4>2, BucketIsMcap
    <3> QED BY <3>2, <3>3
  <2> HIDE DEF o
  <2> QED BY <1>3, <1>6, <2>2, <2>3, <2>4, <2>5, <2>6, <2>7, I!TablesStep, IngestAssumed DEF o
<1> QED BY <1>4, <1>5, <1>6, LakeStep

-----------------------------------------------------------------------------
(* Types *)

LEMMA StoppedConverter ==
    ASSUME C!TypeOK, StopJobs \/ WipeObjects
    PROVE  /\ converting'[Converter].pc \in C!Ended
           /\ converting'[Converter].pc = "done" => converting' = converting
           /\ StopJobs => converting'[Converter].source_keys = converting[Converter].source_keys
<1>1. CASE UNCHANGED converting /\ converting[Converter].pc \in C!Ended
  BY <1>1 DEF C!Ended, WipeObjects, C!WipeAll
<1>2. CASE C!Goto(Converter, "killed")
  BY <1>2, C!GotoStep, ConvertAssumed DEF C!Ended
<1>3. CASE C!WipeAll
  BY <1>3, C!WipeStep, ConvertAssumed DEF C!Ended
<1> QED BY <1>1, <1>2, <1>3 DEF StopJobs, WipeObjects, C!Goto

\* The converter only runs while the batch waits for it, and so does the ingest.
LEMMA ConverterInBatch ==
    ASSUME TypeOK, [Next]_vars, converting'[Converter].pc \notin C!Ended
    PROVE  batch'.pc = "convert"
<1>1. CASE UNCHANGED <<converting, batch>>
  BY <1>1 DEF TypeOK
<1>2. CASE StartConverter
  BY <1>2 DEF StartConverter, TypeOK
<1>3. CASE Convert
  <2>1. converting[Converter].pc \notin C!Ended
    BY <1>3 DEF Convert, C!Step, C!Skip, C!Take, C!Download, C!Convert, C!ConvertRaises,
       C!Upload, C!Finish, C!Running, C!Ended
  <2> QED BY <1>3, <2>1 DEF Convert, TypeOK
<1>4. CASE KillConverter
  BY <1>4 DEF KillConverter, C!Kill, TypeOK
<1>5. CASE InterruptBatch \/ WipeCatalog \/ WipeObjects
  BY <1>5, StoppedConverter DEF InterruptBatch, WipeCatalog, TypeOK
<1>6. CASE StartBatch \/ StartIngest \/ FinishBatch
  BY <1>6 DEF StartBatch, StartIngest, FinishBatch, TypeOK, C!Ended
<1>7. CASE DropCatalog \/ DropWarehouse \/ InterruptReset
  BY <1>7 DEF DropCatalog, DropWarehouse, InterruptReset, Disturb, TypeOK
<1>8. (\E k \in Key : Download(k) \/ Seed(k)) \/ Ingest \/ Crash \/ UNCHANGED vars
        => UNCHANGED <<converting, batch>>
  BY DEF Download, Seed, C!Cache, C!Mirror, Ingest, Crash, vars
<1> QED BY <1>1, <1>2, <1>3, <1>4, <1>5, <1>6, <1>7, <1>8 DEF Next

LEMMA IngestInBatch ==
    ASSUME TypeOK, [Next]_vars, I!Running(Ingester)'
    PROVE  batch'.pc = "ingest"
<1>1. CASE UNCHANGED <<ingesting, batch>>
  BY <1>1 DEF TypeOK, I!Running
<1>2. CASE StartIngest
  BY <1>2 DEF StartIngest, TypeOK
<1>3. CASE Ingest \/ Crash
  <2>1. I!Running(Ingester)
    BY <1>3, I!StepRuns, IngestAssumed DEF Ingest, Crash
  <2> QED BY <1>3, <2>1 DEF Ingest, Crash, TypeOK
<1>4. CASE InterruptBatch \/ WipeCatalog
  BY <1>4 DEF InterruptBatch, WipeCatalog, StopJobs, TypeOK, I!TypeOK, I!Running, I!Stopped, I!Idle
<1>5. ~ WipeObjects
  BY StoppedIngest DEF TypeOK
<1>6. CASE StartBatch \/ StartConverter \/ FinishBatch
  BY <1>6 DEF StartBatch, StartConverter, FinishBatch, TypeOK, I!Running
<1>7. CASE DropCatalog \/ DropWarehouse \/ InterruptReset
  BY <1>7 DEF DropCatalog, DropWarehouse, InterruptReset, Disturb, TypeOK, I!Running,
     I!DropCatalog, I!DropWarehouse, I!InterruptReset
<1>8. (\E k \in Key : Download(k) \/ Seed(k)) \/ Convert \/ KillConverter \/ UNCHANGED vars
        => UNCHANGED <<ingesting, batch>>
  BY DEF Download, Seed, Convert, KillConverter, vars
<1> QED BY <1>1, <1>2, <1>3, <1>4, <1>5, <1>6, <1>7, <1>8 DEF Next

LEMMA BatchType ==
    ASSUME TypeOK, [Next]_vars
    PROVE  batch' \in [pc : {"off", "seed", "convert", "ingest"}, cached : SUBSET Key,
                       disturbed : BOOLEAN]
<1>1. CASE UNCHANGED batch
  BY <1>1 DEF TypeOK
<1>2. CASE StartBatch
  BY <1>2 DEF StartBatch, C!Objects
<1>3. CASE StartConverter \/ StartIngest
  BY <1>3 DEF StartConverter, StartIngest, TypeOK
<1>4. CASE batch' = NoBatch
  BY <1>4 DEF NoBatch
<1>5. CASE Disturb
  BY <1>5 DEF Disturb, TypeOK
<1> QED BY <1>1, <1>2, <1>3, <1>4, <1>5 DEF Next, vars, FinishBatch, InterruptBatch, StopJobs,
       Convert, Ingest, KillConverter, Crash, Download, Seed, DropCatalog, DropWarehouse,
       InterruptReset, WipeObjects, WipeCatalog

LEMMA TypeOKStep ==
    ASSUME TypeOK, ContentIsKnown, C!ConvertInvariant, [Next]_vars
    PROVE  TypeOK' /\ ContentIsKnown' /\ C!ConvertInvariant'
<1>1. C!ConvertInvariant'
  BY C!ConvertInvariantStep, ConverterStep, ConvertAssumed
<1>2. C!TypeOK' /\ C!McapMatchesUlog'
  BY <1>1 DEF C!ConvertInvariant
<1>3. ContentIsKnown'
  BY ContentIsKnownStep DEF TypeOK
<1>4. Bucket' \subseteq Mcap
  BY <1>2, <1>3 DEF ContentIsKnown, C!McapMatchesUlog, Bucket, Mcap, C!Objects
<1>5. I!TypeOK'
  BY <1>4, LakeTypesStep DEF TypeOK
<1> QED BY <1>1, <1>2, <1>3, <1>5, ConverterInBatch, IngestInBatch, BatchType DEF TypeOK

-----------------------------------------------------------------------------
(* The converter's part of a batch *)

\* What a step leaves of the converter's list.
LEMMA ListKept ==
    ASSUME C!TypeOK, [Next]_vars, ~ StartConverter
    PROVE  converting'[Converter].source_keys = converting[Converter].source_keys
<1>1. CASE UNCHANGED converting
  BY <1>1
<1>2. CASE C!Goto(Converter, "killed")
  BY <1>2, C!GotoStep, ConvertAssumed
<1>3. CASE C!WipeAll
  BY <1>3, C!WipeStep, ConvertAssumed
<1>4. CASE C!Step(Converter)
  <2>1. CASE C!NextKey(Converter)
    BY <2>1, C!NextKeyStep, ConvertAssumed
  <2>2. ASSUME NEW pc, C!Goto(Converter, pc)
        PROVE  converting'[Converter].source_keys = converting[Converter].source_keys
    BY <2>2, C!GotoStep, ConvertAssumed
  <2>3. CASE C!Download(Converter)
    BY <2>3, C!DownloadStep, ConvertAssumed
  <2> QED BY <1>4, <2>1, <2>2, <2>3 DEF C!Step, C!Skip, C!Take, C!Convert, C!ConvertRaises,
         C!Upload, C!Finish
<1> QED BY <1>1, <1>2, <1>3, <1>4 DEF Next, vars, StartBatch, StartIngest, FinishBatch,
       InterruptBatch, StopJobs, Convert, Ingest, KillConverter, Crash, Download, Seed, C!Cache,
       C!Mirror, C!Kill, C!Goto, DropCatalog, DropWarehouse, InterruptReset, WipeObjects, WipeCatalog

LEMMA DonePastAllStep ==
    ASSUME C!TypeOK, DonePastAll, [Next]_vars
    PROVE  DonePastAll'
<1> SUFFICES ASSUME converting'[Converter].pc = "done"
             PROVE  converting'[Converter].i > Len(converting'[Converter].source_keys)
  BY DEF DonePastAll
<1>1. CASE converting'[Converter] = converting[Converter]
  BY <1>1 DEF DonePastAll
<1>2. CASE C!Finish(Converter)
  BY <1>2, C!GotoStep, ConvertAssumed DEF C!Finish
<1>3. ~ C!Start(Converter) /\ ~ C!Download(Converter) /\ ~ C!WipeAll
  BY C!StartStep, C!DownloadStep, C!WipeStep, ConvertAssumed
<1>4. ~ C!Skip(Converter) /\ ~ C!Upload(Converter)
  BY C!NextKeyStep, ConvertAssumed DEF C!Skip, C!Upload
<1>5. ASSUME NEW pc, C!Goto(Converter, pc) PROVE pc = "done"
  BY <1>5, C!GotoStep, ConvertAssumed
<1>6. /\ ~ C!Take(Converter) /\ ~ C!Convert(Converter) /\ ~ C!ConvertRaises(Converter)
      /\ ~ C!Kill(Converter)
  <2>1. \A pc \in {"download", "upload", "failed", "killed"} : ~ C!Goto(Converter, pc)
    BY <1>5
  <2> QED BY <2>1 DEF C!Take, C!Convert, C!ConvertRaises, C!Kill
<1> QED BY <1>1, <1>2, <1>3, <1>4, <1>6, C!TaskStep, ConverterStep, ConvertAssumed

\* From the time of its listing the converter has the logs of the batch on its list.
LEMMA ConverterListsBatchStep ==
    ASSUME TypeOK, C!UlogIsFinite, ConverterListsBatch, [Next]_vars
    PROVE  ConverterListsBatch'
<1> SUFFICES ASSUME batch'.pc \in {"convert", "ingest"}, NEW k \in batch'.cached
             PROVE  /\ ulog'[k] # "absent"
                    /\ \E j \in DOMAIN converting'[Converter].source_keys :
                           converting'[Converter].source_keys[j] = k
  BY DEF ConverterListsBatch
<1>1. CASE StartConverter
  <2>1. k \in C!Objects(ulog) /\ C!Start(Converter)
    BY <1>1 DEF StartConverter, TypeOK
  <2>2. ulog' = ulog /\ converting'[Converter].source_keys = C!list_ulg_keys
    BY <2>1, C!StartStep, ConvertAssumed DEF TypeOK, C!Start
  <2> QED BY <2>1, <2>2, C!Listing, ConvertAssumed DEF C!Objects
<1>2. CASE ~ StartConverter
  <2>1. /\ batch.pc \in {"convert", "ingest"} /\ k \in batch.cached /\ k \in Key
        /\ ~ WipeObjects
    <3>1. batch' # NoBatch /\ ~ StartBatch
      BY DEF NoBatch, StartBatch
    <3>2. UNCHANGED batch \/ Disturb \/ StartIngest
      BY <1>2, <3>1 DEF Next, vars, FinishBatch, InterruptBatch, StopJobs, Convert, Ingest,
         KillConverter, Crash, Download, Seed, DropCatalog, DropWarehouse, InterruptReset,
         WipeObjects, WipeCatalog
    <3> QED BY <3>1, <3>2 DEF Disturb, StartIngest, TypeOK, WipeObjects
  <2>2. ulog[k] # "absent" /\ ulog'[k] = ulog[k]
    BY <2>1, UlogKept DEF ConverterListsBatch, TypeOK
  <2>3. converting'[Converter].source_keys = converting[Converter].source_keys
    BY <1>2, ListKept DEF TypeOK
  <2> QED BY <2>1, <2>2, <2>3 DEF ConverterListsBatch
<1> QED BY <1>1, <1>2

-----------------------------------------------------------------------------
(* The ingest's part of a batch *)

\* In a batch that has come to its ingest, and that no reset or wipe disturbs, the
\* converter stands still, and nothing but the ingest touches the lake.
LEMMA QuietStep ==
    ASSUME TypeOK, [Next]_vars, batch'.pc = "ingest", ~ batch'.disturbed
    PROVE  \/ StartIngest
           \/ /\ batch' = batch /\ converting' = converting /\ ~ WipeObjects
              /\ UNCHANGED <<lake, ingesting>> \/ Ingest \/ Crash
<1>1. batch' # NoBatch
  BY DEF NoBatch
<1>2. ~ StartBatch /\ ~ StartConverter /\ ~ Disturb
  <2>1. DOMAIN batch = {"pc", "cached", "disturbed"}
    BY DEF TypeOK
  <2>2. ~ Disturb
    BY <2>1 DEF Disturb
  <2> QED BY <2>1, <2>2 DEF StartBatch, StartConverter
<1>3. batch.pc = "ingest" => ~ Convert /\ ~ KillConverter
  BY DEF TypeOK, Convert, KillConverter, C!Kill, C!Step, C!Skip, C!Take, C!Download, C!Convert,
     C!ConvertRaises, C!Upload, C!Finish, C!Running, C!Ended
<1>4. Convert \/ KillConverter => batch' = batch
  BY DEF Convert, KillConverter
<1>5. (\E k \in Key : Download(k) \/ Seed(k)) \/ UNCHANGED vars
        => UNCHANGED <<lake, ingesting, batch, converting>>
  BY DEF Download, Seed, C!Cache, C!Mirror, vars
<1>6. Ingest \/ Crash => UNCHANGED <<batch, converting>>
  BY DEF Ingest, Crash
<1> QED BY <1>1, <1>2, <1>3, <1>4, <1>5, <1>6 DEF Next, FinishBatch, InterruptBatch, StopJobs,
       DropCatalog, DropWarehouse, InterruptReset, WipeObjects, WipeCatalog

\* A step of the ingest is no reset.
LEMMA IngestStep ==
    ASSUME TypeOK, Ingest \/ Crash
    PROVE  /\ [I!Next]_I!vars /\ ~ I!DropCatalog /\ ~ I!DropWarehouse
           /\ I!Running(Ingester) /\ UNCHANGED files
           /\ I!Running(Ingester)' => ingesting'[Ingester].listed = ingesting[Ingester].listed
<1>1. [I!Next]_I!vars /\ UNCHANGED files
  BY DEF Ingest, Crash, I!Next
<1>2. I!Running(Ingester)
  BY I!StepRuns, IngestAssumed DEF Ingest, Crash
<1>3. reset' = reset
  BY DEF Ingest, Crash, I!Crash, I!Step, I!LoadMcap, I!DecodePanics, I!TakeGroup, I!FinishRun,
     I!FinishMcap, I!NamespaceExists, I!CreateNamespace, I!TableExists, I!LoadTable,
     I!CreateTable, I!SchemaIsCurrent, I!EvolveSchema, I!WriteDataFile, I!CommitAppend,
     I!CatalogRefuses
<1>4. ~ I!DropCatalog /\ ~ I!DropWarehouse
  BY <1>3 DEF I!DropCatalog, I!DropWarehouse
<1>5. ASSUME I!Running(Ingester)'
      PROVE  ingesting'[Ingester].listed = ingesting[Ingester].listed
  <2> USE DEF I!Running, I!Stopped
  <2>1. I!IsTask(ingesting[Ingester]) /\ I!TypeOK
    BY DEF TypeOK, I!TypeOK
  <2>2. ~ I!Start(Ingester)
    BY <1>2 DEF I!Start
  <2>3. ASSUME NEW o \in Mcap, I!LoadMcap(Ingester, o)
        PROVE  ingesting'[Ingester].listed = ingesting[Ingester].listed
    BY <2>1, <2>3 DEF I!LoadMcap, I!TypeOK, I!IsTask
  <2>4. ASSUME NEW t \in Topic, I!TakeGroup(Ingester, t)
        PROVE  ingesting'[Ingester].listed = ingesting[Ingester].listed
    BY <2>1, <2>4 DEF I!TakeGroup, I!TypeOK, I!IsTask
  <2>5. ASSUME I!FinishMcap(Ingester) \/ I!CommitAppend(Ingester)
        PROVE  ingesting'[Ingester].listed = ingesting[Ingester].listed
    BY <2>1, <2>5 DEF I!FinishMcap, I!CommitAppend, I!Goto, I!TypeOK, I!IsTask
  <2> HIDE DEF I!Running
  <2>6. ~ ingesting'[Ingester].pc \in I!Stopped
    BY <1>5 DEF I!Running
  <2> QED BY <1>1, <2>1, <2>2, <2>3, <2>4, <2>5, <2>6, I!RunStep, IngestAssumed
<1> QED BY <1>1, <1>2, <1>4, <1>5

\* When the converter is done, the mcap bucket has the batch's logs.
LEMMA DoneConverted ==
    ASSUME TypeOK, C!ConvertInvariant, DonePastAll, ConverterListsBatch,
           batch.pc \in {"convert", "ingest"}, converting[Converter].pc = "done",
           NEW k \in batch.cached
    PROVE  <<k, ulog[k]>> \in Bucket
<1>1. PICK j \in DOMAIN converting[Converter].source_keys :
          converting[Converter].source_keys[j] = k
  BY DEF ConverterListsBatch
<1>2. /\ converting[Converter].source_keys \in Seq(Key) /\ converting[Converter].i \in Nat
      /\ converting[Converter].i > Len(converting[Converter].source_keys) /\ k \in Key
  BY DEF TypeOK, C!TypeOK, C!IsTask, DonePastAll
<1>3. j \in 1 .. converting[Converter].i - 1
  BY <1>1, <1>2
<1>4. mcap[k] # "absent" /\ mcap[k] = ulog[k]
  BY <1>1, <1>2, <1>3 DEF C!ConvertInvariant, C!PassedKeysAreConverted, C!McapMatchesUlog,
     C!Objects
<1> QED BY <1>2, <1>4 DEF Bucket, C!Objects

LEMMA IngestListsBatchStep ==
    ASSUME TypeOK, C!ConvertInvariant, I!AbsentIsEmpty, I!AppendsOwnFile, DonePastAll,
           ConverterListsBatch, IngestListsBatch, [Next]_vars
    PROVE  IngestListsBatch'
<1> SUFFICES ASSUME batch'.pc = "ingest", ~ batch'.disturbed
             PROVE  /\ I!CommittedSoFar'
                    /\ converting'[Converter].pc = "done" /\ I!Running(Ingester)' =>
                          \A k \in batch'.cached :
                              <<k, ulog'[k]>> \in ingesting'[Ingester].listed
  BY DEF IngestListsBatch
<1>0. I!TypeOK /\ C!TypeOK /\ batch.cached \subseteq Key
  BY DEF TypeOK
<1>1. CASE StartIngest
  <2>1. /\ batch.pc = "convert" /\ batch'.cached = batch.cached
        /\ converting' = converting /\ ulog' = ulog /\ tables' = tables
    BY <1>1 DEF StartIngest, TypeOK, files, I!Start
  <2>2. /\ ingesting'[Ingester].listed = Bucket /\ ingesting'[Ingester].pending = Bucket
    BY <1>0, <1>1 DEF StartIngest, I!Start, I!TypeOK, I!Idle
  <2>3. I!CommittedSoFar'
    BY <2>2 DEF I!CommittedSoFar
  <2> QED BY <2>1, <2>2, <2>3, DoneConverted
<1>2. CASE batch' = batch /\ converting' = converting /\ ~ WipeObjects
  <2>1. \A k \in batch.cached : ulog'[k] = ulog[k]
    BY <1>0, <1>2, UlogKept DEF ConverterListsBatch
  <2>2. CASE UNCHANGED <<lake, ingesting>>
    <3>1. I!CommittedSoFar'
      BY <1>2, <2>2 DEF IngestListsBatch, I!CommittedSoFar, I!Running, I!InHand, I!Loads,
         I!Committed, lake
    <3> QED BY <1>2, <2>1, <2>2, <3>1 DEF IngestListsBatch, I!Running
  <2>3. CASE Ingest \/ Crash
    <3>1. I!CommittedSoFar'
      BY <1>0, <1>2, <2>3, IngestStep, I!CommittedSoFarStep, IngestAssumed DEF IngestListsBatch
    <3>2. I!Running(Ingester)' =>
              I!Running(Ingester) /\ ingesting'[Ingester].listed = ingesting[Ingester].listed
      BY <2>3, IngestStep
    <3> QED BY <1>2, <2>1, <3>1, <3>2 DEF IngestListsBatch
  <2> QED BY <1>1, <2>2, <2>3, <1>2, QuietStep
<1> QED BY <1>1, <1>2, QuietStep

LEMMA WholeBatchStep ==
    ASSUME TypeOK, ConverterListsBatch, IngestListsBatch, WholeBatch, [Next]_vars
    PROVE  WholeBatch'
<1> SUFFICES ASSUME batch'.pc = "ingest", ~ batch'.disturbed, converting'[Converter].pc = "done",
                    ingesting'[Ingester].pc = "finished", NEW k \in batch'.cached
             PROVE  InLake(k)'
  BY DEF WholeBatch
<1>0. I!TypeOK /\ C!TypeOK /\ batch.cached \subseteq Key
  BY DEF TypeOK
<1>1. /\ batch' = batch /\ converting' = converting /\ ~ WipeObjects
      /\ UNCHANGED <<lake, ingesting>> \/ Ingest \/ Crash
  <2>1. ~ StartIngest
    BY <1>0 DEF StartIngest, I!Start, I!TypeOK, I!Idle
  <2> QED BY <2>1, QuietStep
<1>2. k \in Key /\ ulog[k] # "absent" /\ ulog'[k] = ulog[k]
  BY <1>0, <1>1, UlogKept DEF ConverterListsBatch
<1>3. CASE UNCHANGED <<lake, ingesting>>
  <2>1. InLake(k)
    BY <1>1, <1>3 DEF WholeBatch
  <2> QED BY <1>2, <1>3, <2>1 DEF InLake, I!Loads, I!Committed, lake
<1>4. CASE Ingest \/ Crash
  <2>1. I!FinishRun(Ingester)
    <3>1. ingesting[Ingester].pc # "finished" /\ [I!Next]_I!vars
      BY <1>4, IngestStep DEF I!Running, I!Stopped
    <3> QED BY <1>0, <3>1, I!FinishStep, IngestAssumed
  <2>2. /\ ingesting[Ingester].pc = "mcap" /\ ingesting[Ingester].pending = {}
        /\ tables' = tables
    BY <2>1 DEF I!FinishRun
  <2>3. <<k, ulog[k]>> \in ingesting[Ingester].listed /\ I!CommittedSoFar
    BY <1>1, <1>4, IngestStep DEF IngestListsBatch
  <2>4. \A t \in DOMAIN TopicsOf[<<k, ulog[k]>>] : I!Loads(t) /\ I!Committed(<<k, ulog[k]>>, t)
    BY <1>4, <2>2, <2>3, IngestStep DEF I!CommittedSoFar, I!InHand
  <2> QED BY <1>2, <2>2, <2>4 DEF InLake, I!Loads, I!Committed
<1> QED BY <1>1, <1>3, <1>4

-----------------------------------------------------------------------------
(* The theorems *)

LEMMA PipelineInvariantInit == Init => PipelineInvariant
<1> SUFFICES ASSUME Init PROVE PipelineInvariant
  OBVIOUS
<1>1. C!ConvertInvariant /\ I!TypeOK
  BY C!ConvertInvariantInit, I!TypeOKInit, ConvertAssumed, IngestAssumed DEF Init
<1>2. converting[Converter].pc = "off" /\ ingesting[Ingester].pc = "off" /\ batch = NoBatch
  BY DEF Init, C!Init, I!Init, I!Idle
<1>3. ~ I!Running(Ingester) /\ C!TypeOK
  BY <1>1, <1>2 DEF I!Running, I!Stopped, C!ConvertInvariant
<1>4. TypeOK /\ ContentIsKnown
  BY <1>1, <1>2, <1>3 DEF TypeOK, ContentIsKnown, NoBatch, C!Ended, Init, C!Init
<1>5. \A t \in Topic : tables[t] = I!NoTable /\ tables[t].files = <<>> /\ ~ I!Loads(t)
  BY DEF Init, I!Init, I!NoTable, I!Loads
<1>6. I!AppendsOwnFile /\ I!AbsentIsEmpty /\ I!AtMostOnce
  <2>1. DOMAIN <<>> = {}
    OBVIOUS
  <2> QED BY <1>2, <1>5, <2>1 DEF I!AppendsOwnFile, I!AbsentIsEmpty, I!AtMostOnce
<1>7. ListedIsThere /\ InHandIsThere /\ RowsMatchUlog
  BY <1>3, <1>5 DEF ListedIsThere, InHandIsThere, RowsMatchUlog
<1>8. DonePastAll /\ ConverterListsBatch /\ IngestListsBatch /\ WholeBatch
  BY <1>2 DEF DonePastAll, ConverterListsBatch, IngestListsBatch, WholeBatch, NoBatch
<1> QED BY <1>1, <1>4, <1>6, <1>7, <1>8 DEF PipelineInvariant

LEMMA PipelineInvariantStep == PipelineInvariant /\ [Next]_vars => PipelineInvariant'
<1> SUFFICES ASSUME PipelineInvariant, [Next]_vars PROVE PipelineInvariant'
  OBVIOUS
<1>1. /\ TypeOK /\ ContentIsKnown /\ C!ConvertInvariant
      /\ I!AppendsOwnFile /\ I!AbsentIsEmpty /\ I!AtMostOnce
      /\ ListedIsThere /\ InHandIsThere /\ RowsMatchUlog
      /\ DonePastAll /\ ConverterListsBatch /\ IngestListsBatch /\ WholeBatch
  BY DEF PipelineInvariant
<1>2. C!TypeOK /\ C!UlogIsFinite /\ I!TypeOK
  BY <1>1 DEF TypeOK, C!ConvertInvariant
<1>3. TypeOK' /\ ContentIsKnown' /\ C!ConvertInvariant'
  BY <1>1, TypeOKStep
<1>4. I!AppendsOwnFile' /\ I!AbsentIsEmpty' /\ I!AtMostOnce'
  BY <1>1, <1>2, AppendsOwnFileStep, AbsentIsEmptyStep, AtMostOnceStep
<1>5. ListedIsThere' /\ InHandIsThere' /\ RowsMatchUlog'
  BY <1>1, <1>2, ThereStep, RowsMatchUlogStep
<1>6. DonePastAll' /\ ConverterListsBatch'
  BY <1>1, <1>2, DonePastAllStep, ConverterListsBatchStep
<1>7. IngestListsBatch' /\ WholeBatch'
  BY <1>1, IngestListsBatchStep, WholeBatchStep
<1> QED BY <1>3, <1>4, <1>5, <1>6, <1>7 DEF PipelineInvariant

LEMMA PipelineInvariantHolds == Spec => []PipelineInvariant
BY PipelineInvariantInit, PipelineInvariantStep, PTL DEF Spec

\* Whatever the recipes do to each other, the jobs keep to their states, and each runs
\* in its place in the batch only.
THEOREM PipelineTypes == Spec => []TypeOK
<1>1. PipelineInvariant => TypeOK
  BY DEF PipelineInvariant
<1> QED BY <1>1, PipelineInvariantHolds, PTL

\* No row that a query finds was made from an older file than the one that the bucket
\* has under the log's name: an .mcap is skipped for good, a log is committed once, but
\* only together can they be old, and a wipe takes both.
THEOREM RowsAreCurrent == Spec => []RowsMatchUlog
<1>1. PipelineInvariant => RowsMatchUlog
  BY DEF PipelineInvariant
<1> QED BY <1>1, PipelineInvariantHolds, PTL

\* No recipe takes from under a running ingest what it has listed.
THEOREM ListedStaysThere == Spec => []ListedIsThere
<1>1. PipelineInvariant => ListedIsThere
  BY DEF PipelineInvariant
<1> QED BY <1>1, PipelineInvariantHolds, PTL

\* A batch that no reset disturbs, and both jobs of which report success, has brought
\* every log of the cache into the lake.
THEOREM BatchIsWhole == Spec => []WholeBatch
<1>1. PipelineInvariant => WholeBatch
  BY DEF PipelineInvariant
<1> QED BY <1>1, PipelineInvariantHolds, PTL

\* A log's rows are counted once though resets and wipes do not wait for the ingest.
THEOREM OncePerLog == Spec => []AtMostOnce
<1>1. PipelineInvariant => AtMostOnce
  BY DEF PipelineInvariant, AtMostOnce
<1> QED BY <1>1, PipelineInvariantHolds, PTL

\* Nor does a reset or a wipe that overlaps the ingest take a column or a data file
\* from a table that lives on.
THEOREM PipelineTablesGrow == Spec => TablesOnlyGrow
<1>1. PipelineInvariant /\ [Next]_vars => [\A t \in Topic : I!TableGrows(t)]_tables
  BY TablesGrow DEF PipelineInvariant, TypeOK
<1> QED BY <1>1, PipelineInvariantHolds, PTL DEF Spec, TablesOnlyGrow, I!TablesOnlyGrow,
       I!TableGrows
=============================================================================
