--------------------------- MODULE IcebergCommit ---------------------------
(***************************************************************************)
(* The batch ingest: ingest-batch/src/main.rs driving iceberg_commit.rs    *)
(* against a REST catalog and the warehouse bucket, with the operator's    *)
(* reset-lake recipe (justfile).                                           *)
(*                                                                         *)
(* An ingester lists the mcap bucket once, then takes the objects in key   *)
(* order.  Decoding and grouping an object (mcap_reader.rs, topics.rs)     *)
(* yields one group per base topic, which commit_mcap takes in the         *)
(* arbitrary order of a HashMap.  Each group goes through one catalog call *)
(* or object write at a time; anything may happen between two of them.     *)
(*                                                                         *)
(* External: what the catalog and the iceberg crate do is modelled from    *)
(* how iceberg_commit.rs uses them.  A Transaction commit reloads the      *)
(* table, re-applies its actions to what it finds and publishes the result *)
(* in one atomic step; add_column refuses a name the table has, and        *)
(* fast_append refuses a data file the table already references.           *)
(***************************************************************************)
EXTENDS ArrowSchema, Naturals, Sequences

CONSTANTS
    Ingesters,      \* ingest-batch processes; the compose project runs one
    Mcap,           \* objects of the mcap bucket, all named *.mcap
    McapId,         \* values of the mcap_id column
    Topic,          \* base topics
    None,           \* absence of an mcap or a topic
    KeyRank,        \* position of an object's key in the bucket listing
    McapIdOf,       \* mcap_id_from_path of an object's key
    Groups,         \* what grouping an object yields: base topic -> descriptor
    Undecodable,    \* objects on which naming, decoding or grouping panics
    ExclusiveReset  \* whether reset-lake waits for the ingesters, and they for it

ASSUME IngestAssumption ==
    /\ None \notin Mcap \cup Topic
    /\ KeyRank \in [Mcap -> Nat]
    /\ McapIdOf \in [Mcap -> McapId]
    /\ \A o \in Mcap : /\ DOMAIN Groups[o] \subseteq Topic
                       /\ \A t \in DOMAIN Groups[o] : IsDescriptor(Groups[o][t])
    /\ Undecodable \subseteq Mcap
    /\ ExclusiveReset \in BOOLEAN

VARIABLES
    bucket,     \* objects now in the mcap bucket
    namespace,  \* whether the catalog has the namespace
    tables,     \* the catalog's table of each base topic
    warehouse,  \* the data file objects of each topic, by their path
    task,       \* the state of each ingester
    reset       \* where the operator's reset-lake is

vars == <<bucket, namespace, tables, warehouse, task, reset>>

-----------------------------------------------------------------------------
(* A data file is the mcap it was written from and the source of each      *)
(* column's cells; a table is its columns and the data files its snapshot  *)
(* references, as they were when they were appended.                       *)

EmptyColumns == [c \in {} |-> Scalar("Int64")]

NoCells == [c \in {} |-> "null"]

NoFile == [mcap |-> None, cells |-> NoCells]

NoObjects == [d \in {} |-> NoFile]

\* A table the catalog knows is "broken" once its metadata, which is kept in
\* the warehouse bucket too, has been removed: it exists but does not load.
NoTable == [state |-> "absent", columns |-> EmptyColumns, files |-> <<>>]

Exists(t) == tables[t].state # "absent"

Loads(t) == tables[t].state = "present"

Idle == [pc |-> "off", listed |-> {}, pending |-> {}, mcap |-> None,
         groups |-> {}, topic |-> None, columns |-> EmptyColumns,
         written |-> NoFile]

Stopped == {"off", "finished", "panicked"}

InCommitTopicGroup ==
    {"namespace", "create_namespace", "table", "create", "load", "evolve",
     "write", "append"}

Running(i) == task[i].pc \notin Stopped

\* The descriptor of the group ingester i is committing.
Descriptor(i) == Groups[task[i].mcap][task[i].topic]

\* The place of o's data file in its table: the log_date partition and the file
\* name both come from the mcap_id.  The mistake names the file after the date.
SharedPath(o) == CHOOSE d \in McapId : TRUE
DataFilePath(o) == McapIdOf[o]

\* Writing an object replaces the one of its key.
PutObject(objects, path, file) ==
    [d \in DOMAIN objects \cup {path} |-> IF d = path THEN file ELSE objects[d]]

\* fast_append finds the table already references the path of o's data file.
Referenced(t, o) ==
    \E k \in DOMAIN tables[t].files :
        DataFilePath(tables[t].files[k].mcap) = DataFilePath(o)

Goto(i, pc) == task' = [task EXCEPT ![i].pc = pc]

\* The process ends and forgets everything.
Exit(i, pc) == task' = [task EXCEPT ![i] = [Idle EXCEPT !.pc = pc]]

Init ==
    /\ bucket = {}
    /\ namespace = FALSE
    /\ tables = [t \in Topic |-> NoTable]
    /\ warehouse = [t \in Topic |-> NoObjects]
    /\ task = [i \in Ingesters |-> Idle]
    /\ reset = "idle"

-----------------------------------------------------------------------------
(* main *)

Start(i) ==
    /\ ~ Running(i)
    /\ ExclusiveReset => reset = "idle"
    /\ task' = [task EXCEPT ![i] = [Idle EXCEPT !.pc = "mcap",
                                                !.listed = bucket,
                                                !.pending = bucket]]
    /\ UNCHANGED <<bucket, namespace, tables, warehouse, reset>>

IsNext(o, pending) ==
    /\ o \in pending
    /\ \A p \in pending : KeyRank[o] <= KeyRank[p]

\* The object's name has a date, its bytes are an MCAP of protobuf messages, and
\* the channels of a base topic agree on the message type.  The mistake goes on
\* with an object that fails any of this.
AlwaysDecodes(o) == TRUE
Decodes(o) == o \notin Undecodable

LoadMcap(i, o) ==
    /\ task[i].pc = "mcap"
    /\ IsNext(o, task[i].pending)
    /\ Decodes(o)
    /\ task' = [task EXCEPT ![i].pc = "group",
                            ![i].pending = @ \ {o},
                            ![i].mcap = o,
                            ![i].groups = DOMAIN Groups[o]]
    /\ UNCHANGED <<bucket, namespace, tables, warehouse, reset>>

DecodePanics(i, o) ==
    /\ task[i].pc = "mcap"
    /\ IsNext(o, task[i].pending)
    /\ ~ Decodes(o)
    /\ Exit(i, "panicked")
    /\ UNCHANGED <<bucket, namespace, tables, warehouse, reset>>

FinishRun(i) ==
    /\ task[i].pc = "mcap"
    /\ task[i].pending = {}
    /\ Exit(i, "finished")
    /\ UNCHANGED <<bucket, namespace, tables, warehouse, reset>>

-----------------------------------------------------------------------------
(* commit_mcap *)

TakeGroup(i, t) ==
    /\ task[i].pc = "group"
    /\ t \in task[i].groups
    /\ task' = [task EXCEPT ![i].pc = "namespace",
                            ![i].groups = @ \ {t},
                            ![i].topic = t]
    /\ UNCHANGED <<bucket, namespace, tables, warehouse, reset>>

FinishMcap(i) ==
    /\ task[i].pc = "group"
    /\ task[i].groups = {}
    /\ task' = [task EXCEPT ![i].pc = "mcap",
                            ![i].mcap = None,
                            ![i].topic = None,
                            ![i].columns = EmptyColumns,
                            ![i].written = NoFile]
    /\ UNCHANGED <<bucket, namespace, tables, warehouse, reset>>

-----------------------------------------------------------------------------
(* ensure_table_exists: two checks, each followed by the creation it guards *)

NamespaceExists(i) ==
    /\ task[i].pc = "namespace"
    /\ Goto(i, IF namespace THEN "table" ELSE "create_namespace")
    /\ UNCHANGED <<bucket, namespace, tables, warehouse, reset>>

CreateNamespace(i) ==
    /\ task[i].pc = "create_namespace"
    /\ ~ namespace
    /\ namespace' = TRUE
    /\ Goto(i, "table")
    /\ UNCHANGED <<bucket, tables, warehouse, reset>>

TableExists(i) ==
    /\ task[i].pc = "table"
    /\ Goto(i, IF Exists(task[i].topic) THEN "load" ELSE "create")
    /\ UNCHANGED <<bucket, namespace, tables, warehouse, reset>>

LoadTable(i) ==
    LET t == task[i].topic IN
    /\ task[i].pc = "load"
    /\ Loads(t)
    /\ task' = [task EXCEPT ![i].pc = "evolve",
                            ![i].columns = tables[t].columns]
    /\ UNCHANGED <<bucket, namespace, tables, warehouse, reset>>

CreateTable(i) ==
    LET t == task[i].topic
        columns == build_arrow_schema(Descriptor(i))
    IN  /\ task[i].pc = "create"
        /\ ~ NamesClash(Descriptor(i))
        /\ namespace /\ ~ Exists(t)
        /\ tables' = [tables EXCEPT ![t] = [state |-> "present",
                                            columns |-> columns,
                                            files |-> <<>>]]
        /\ task' = [task EXCEPT ![i].pc = "evolve", ![i].columns = columns]
        /\ UNCHANGED <<bucket, namespace, warehouse, reset>>

-----------------------------------------------------------------------------
(* evolve_table_schema *)

\* The columns to add, computed from the table as it was loaded.
NewColumns(i) == Additions(Descriptor(i), task[i].columns)

SchemaIsCurrent(i) ==
    /\ task[i].pc = "evolve"
    /\ NewColumns(i) = {}
    /\ Goto(i, "write")
    /\ UNCHANGED <<bucket, namespace, tables, warehouse, reset>>

EvolveSchema(i) ==
    LET t == task[i].topic
        columns == AddColumns(tables[t].columns, NewColumns(i), Descriptor(i))
    IN  /\ task[i].pc = "evolve"
        /\ NewColumns(i) # {}
        /\ Loads(t)
        /\ NewColumns(i) \cap DOMAIN tables[t].columns = {}
        /\ tables' = [tables EXCEPT ![t].columns = columns]
        /\ task' = [task EXCEPT ![i].pc = "write", ![i].columns = columns]
        /\ UNCHANGED <<bucket, namespace, warehouse, reset>>

-----------------------------------------------------------------------------
(* The data file, then its snapshot *)

\* The object's key is the table's location, the date partition and the
\* mcap_id: writing it again replaces it.
\* The size and the statistics of the file, which the append records in the manifest,
\* are left out: that a file written again has others is not seen here.
WriteDataFile(i) ==
    LET t == task[i].topic
        o == task[i].mcap
        file == [mcap |-> o,
                 cells |-> build_record_batch(task[i].columns, Descriptor(i))]
    IN  /\ task[i].pc = "write"
        /\ warehouse' = [warehouse EXCEPT ![t] = PutObject(@, DataFilePath(o), file)]
        /\ task' = [task EXCEPT ![i].pc = "append", ![i].written = file]
        /\ UNCHANGED <<bucket, namespace, tables, reset>>

\* The mistake turns the duplicate check off.
AppendUnchecked(i) ==
    LET t == task[i].topic IN
    /\ task[i].pc = "append"
    /\ Loads(t)
    /\ tables' = [tables EXCEPT ![t].files = Append(@, task[i].written)]
    /\ Goto(i, "group")
    /\ UNCHANGED <<bucket, namespace, warehouse, reset>>

CommitAppend(i) ==
    LET t == task[i].topic IN
    /\ task[i].pc = "append"
    /\ Loads(t)
    /\ ~ Referenced(t, task[i].mcap)
    /\ tables' = [tables EXCEPT ![t].files = Append(@, task[i].written)]
    /\ Goto(i, "group")
    /\ UNCHANGED <<bucket, namespace, warehouse, reset>>

\* The catalog, or the iceberg crate, refuses a call.
Refused(i) ==
    LET t == task[i].topic IN
       \/ task[i].pc = "create_namespace" /\ namespace
       \/ task[i].pc = "create" /\ NamesClash(Descriptor(i))
       \/ task[i].pc = "create" /\ (Exists(t) \/ ~ namespace)
       \/ task[i].pc = "load" /\ ~ Loads(t)
       \/ task[i].pc = "evolve" /\ NewColumns(i) # {} /\ ~ Loads(t)
       \/ task[i].pc = "evolve" /\ NewColumns(i) \cap DOMAIN tables[t].columns # {}
       \/ task[i].pc = "append" /\ ~ Loads(t)
       \/ task[i].pc = "append" /\ Referenced(t, task[i].mcap)

\* The mistake reports the error and goes on with the next group.
SkipGroup(i) ==
    /\ Refused(i)
    /\ Goto(i, "group")
    /\ UNCHANGED <<bucket, namespace, tables, warehouse, reset>>

\* Every call is wrapped in expect().
CatalogRefuses(i) ==
    /\ Refused(i)
    /\ Exit(i, "panicked")
    /\ UNCHANGED <<bucket, namespace, tables, warehouse, reset>>

\* The process is killed, or a transient I/O error reaches an expect().  A
\* commit whose reply is lost is a CommitAppend followed by this.
Crash(i) ==
    /\ Running(i)
    /\ Exit(i, "panicked")
    /\ UNCHANGED <<bucket, namespace, tables, warehouse, reset>>

-----------------------------------------------------------------------------
(* The environment: the converter uploads, the operator resets the lake *)

Upload(o) ==
    /\ o \notin bucket
    /\ bucket' = bucket \cup {o}
    /\ UNCHANGED <<namespace, tables, warehouse, task, reset>>

\* Removing the catalog's database takes effect when the server restarts.  The
\* mistake leaves out the restart.
RemoveDatabase ==
    /\ reset = "idle"
    /\ ExclusiveReset => \A i \in Ingesters : ~ Running(i)
    /\ reset' = "drop_warehouse"
    /\ UNCHANGED <<bucket, namespace, tables, warehouse, task>>

DropCatalog ==
    /\ reset = "idle"
    /\ ExclusiveReset => \A i \in Ingesters : ~ Running(i)
    /\ namespace' = FALSE
    /\ tables' = [t \in Topic |-> NoTable]
    /\ reset' = "drop_warehouse"
    /\ UNCHANGED <<bucket, warehouse, task>>

DropWarehouse ==
    /\ reset = "drop_warehouse"
    /\ warehouse' = [t \in Topic |-> NoObjects]
    /\ tables' = [t \in Topic |->
                    [tables[t] EXCEPT !.state = IF Exists(t) THEN "broken" ELSE @]]
    /\ reset' = "idle"
    /\ UNCHANGED <<bucket, namespace, task>>

InterruptReset ==
    /\ reset = "drop_warehouse"
    /\ reset' = "idle"
    /\ UNCHANGED <<bucket, namespace, tables, warehouse, task>>

-----------------------------------------------------------------------------

\* What an ingester does when nothing disturbs it.
Step(i) ==
    \/ \E o \in Mcap : LoadMcap(i, o) \/ DecodePanics(i, o)
    \/ \E t \in Topic : TakeGroup(i, t)
    \/ FinishRun(i) \/ FinishMcap(i)
    \/ NamespaceExists(i) \/ CreateNamespace(i)
    \/ TableExists(i) \/ LoadTable(i) \/ CreateTable(i)
    \/ SchemaIsCurrent(i) \/ EvolveSchema(i)
    \/ WriteDataFile(i) \/ CommitAppend(i)
    \/ CatalogRefuses(i)

Operator == DropCatalog \/ DropWarehouse \/ InterruptReset

Next ==
    \/ \E i \in Ingesters : Start(i) \/ Step(i) \/ Crash(i)
    \/ \E o \in Mcap : Upload(o)
    \/ Operator

Spec == Init /\ [][Next]_vars

-----------------------------------------------------------------------------
(* Liveness.  An ingester that is not disturbed goes on, and the batch is run *)
(* again and again, with no crash and nobody resetting the lake.  (Pipeline    *)
(* has the operator, and crashes that end.)                                    *)

NextNoReset ==
    \/ \E i \in Ingesters : Start(i) \/ Step(i)
    \/ \E o \in Mcap : Upload(o)

RerunSpec ==
    /\ Init /\ [][NextNoReset]_vars
    /\ \A i \in Ingesters : WF_vars(Step(i)) /\ SF_vars(Start(i))
    /\ \A o \in Mcap : WF_vars(Upload(o))
=============================================================================
