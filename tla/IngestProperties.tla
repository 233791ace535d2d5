--------------------------- MODULE IngestProperties ---------------------------
(***************************************************************************)
(* What makes the batch ingest of IcebergCommit correct: its type          *)
(* invariant, the invariants of the tables and their data files, what a    *)
(* step may never do, the lake it implements (Lake), and what must happen  *)
(* in the end.                                                             *)
(***************************************************************************)
EXTENDS IcebergCommit

-----------------------------------------------------------------------------
(* Types *)

Groupable == {o \in Mcap : o \notin Undecodable}

IsSeq(s) == s \in Seq({s[k] : k \in DOMAIN s})

IsDataFile(f) ==
    /\ DOMAIN f = {"mcap", "cells"}
    /\ f.mcap \in Mcap
    /\ DOMAIN f.cells \subseteq ColumnName
    /\ \A c \in DOMAIN f.cells : f.cells[c] \in CellSource

IsTable(r) ==
    /\ DOMAIN r = {"state", "columns", "files"}
    /\ r.state \in {"absent", "present", "broken"}
    /\ IsColumns(r.columns)
    /\ IsSeq(r.files)
    /\ \A k \in DOMAIN r.files : IsDataFile(r.files[k])

IsTask(r) ==
    /\ DOMAIN r = {"pc", "listed", "pending", "mcap", "groups", "topic",
                   "columns", "written"}
    /\ r.pc \in Stopped \cup {"mcap", "group"} \cup InCommitTopicGroup
    /\ r.listed \subseteq Mcap /\ r.pending \subseteq r.listed
    /\ IsColumns(r.columns)
    /\ r.pc \in {"group"} \cup InCommitTopicGroup =>
           /\ r.mcap \in Groupable
           /\ r.groups \subseteq DOMAIN Groups[r.mcap]
    /\ r.pc \in InCommitTopicGroup => r.topic \in DOMAIN Groups[r.mcap]
    /\ r.pc = "append" => IsDataFile(r.written)

\* Every variable has its type.  An ingester inside commit_topic_group has an
\* mcap in hand that decoded, and a group of that mcap; one about to append has
\* a data file to append.
TypeOK ==
    /\ bucket \subseteq Mcap
    /\ namespace \in BOOLEAN
    /\ DOMAIN tables = Topic /\ \A t \in Topic : IsTable(tables[t])
    /\ DOMAIN warehouse = Topic
    /\ \A t \in Topic :
           /\ DOMAIN warehouse[t] \subseteq McapId
           /\ \A d \in DOMAIN warehouse[t] : IsDataFile(warehouse[t][d])
    /\ DOMAIN task = Ingesters /\ \A i \in Ingesters : IsTask(task[i])
    /\ reset \in {"idle", "drop_warehouse"}

-----------------------------------------------------------------------------
(* Safety *)

Committed(o, t) ==
    \E k \in DOMAIN tables[t].files : tables[t].files[k].mcap = o

\* No table references two data files of one mcap_id, however often the batch
\* is run again over the same bucket, killed, or run twice at once: a query
\* never counts a log's rows twice.
AtMostOnce ==
    \A t \in Topic : \A k, l \in DOMAIN tables[t].files :
        k # l => McapIdOf[tables[t].files[k].mcap] # McapIdOf[tables[t].files[l].mcap]

\* The object a snapshot references is in the warehouse.  commit_topic_group
\* writes it before it commits, and reset-lake drops the catalog before the
\* warehouse, wherever either of them stops.
NoDanglingReference ==
    \A t \in Topic : \A k \in DOMAIN tables[t].files :
        DataFilePath(tables[t].files[k].mcap) \in DOMAIN warehouse[t]

\* Why the two hold.  What an ingester appends is the file of the mcap it has
\* in hand, which is in the warehouse; and while a reset is between its two
\* halves no ingester runs and the catalog is empty.  A table that does not
\* exist has no history.
AppendsOwnFile ==
    \A i \in Ingesters : task[i].pc = "append" => task[i].written.mcap = task[i].mcap

WrittenBeforeAppend ==
    \A i \in Ingesters : task[i].pc = "append" =>
        DataFilePath(task[i].mcap) \in DOMAIN warehouse[task[i].topic]

ResetAlone ==
    reset = "drop_warehouse" => /\ \A i \in Ingesters : ~ Running(i)
                                /\ \A t \in Topic : tables[t] = NoTable

AbsentIsEmpty ==
    \A t \in Topic : tables[t].state = "absent" => tables[t] = NoTable

CommitInvariant ==
    /\ AppendsOwnFile /\ WrittenBeforeAppend /\ ResetAlone /\ AbsentIsEmpty
    /\ NoDanglingReference

WellFormed(columns) ==
    /\ \A n \in StandardName : /\ BaseColumn(n) \in DOMAIN columns
                               /\ columns[BaseColumn(n)] = StandardType(n)
    /\ \A c \in DOMAIN columns : c.as # NoSuffix =>
           /\ type_suffix(columns[c]) = c.as
           /\ BaseColumn(c.field) \in DOMAIN columns
           /\ ~ check_type_compatibility(columns[BaseColumn(c.field)], columns[c])

\* A sibling column only exists next to a column of its field's name that
\* cannot hold the sibling's type, and holds that type itself; the standard
\* columns keep theirs.  Field-type conflicts are judged on a table that was
\* loaded before, and applied to the table as it is by then.
SchemaWellFormed == \A t \in Topic : tables[t].state # "absent" => WellFormed(tables[t].columns)

\* What a data file has to say: the supported fields, but not one that a
\* standard column already stands for.
StoredFields(d) ==
    {n \in SupportedFields(d) :
        n \in StandardName =>
            ~ check_type_compatibility(StandardType(n), proto_field_to_arrow(d[n]))}

\* Every field of every committed group is in the column that a reader of the
\* table, with the schema it has now, looks for it: no field was dropped
\* because its column was missing when the batch was built, and none moved to
\* another column when the schema evolved afterwards.
EveryFieldWritten ==
    \A t \in Topic : \A k \in DOMAIN tables[t].files :
        LET f == tables[t].files[k]
            d == Groups[f.mcap][t]
        IN  \A n \in StoredFields(d) :
                LET c == ColumnOf(n, d, tables[t].columns) IN
                /\ c \in DOMAIN tables[t].columns
                /\ check_type_compatibility(tables[t].columns[c], proto_field_to_arrow(d[n]))
                /\ c \in DOMAIN f.cells /\ f.cells[c] = "field"

\* arrow_encode.rs: "present fields are decoded from the messages, absent ones
\* are null-filled".
PresentFieldsAreDecoded ==
    \A t \in Topic : \A k \in DOMAIN tables[t].files :
        LET f == tables[t].files[k]
            d == Groups[f.mcap][t]
        IN  \A n \in SupportedFields(d) : f.cells[ColumnOf(n, d, tables[t].columns)] = "field"

\* A later run that reaches a committed group writes its data file again, over
\* the committed object and under the schema the table has by then, before the
\* catalog refuses the append.  The object still holds every value the
\* snapshot's reader finds there.
RewritePreservesValues ==
    \A t \in Topic : \A k \in DOMAIN tables[t].files :
        LET f == tables[t].files[k]
            object == warehouse[t][DataFilePath(f.mcap)]
        IN  DataFilePath(f.mcap) \in DOMAIN warehouse[t] =>
                /\ object.mcap = f.mcap
                /\ \A c \in DOMAIN f.cells : f.cells[c] # "null" =>
                       c \in DOMAIN object.cells /\ object.cells[c] = f.cells[c]

\* The assumption under which an object keeps its place: the file names of two logs
\* differ.  (The downloader makes them from the log's id.)
DistinctNames == \A o, p \in Mcap : McapIdOf[o] = McapIdOf[p] => o = p

\* Why the three hold.  Between its look at the table and its commit, an ingester
\* knows part of the table's columns; before it writes, those have a column for
\* each of its fields.  A data file has its cells by the columns of the table as it
\* is now, whatever they were when it was written, and so has the object that a
\* later run has put in its place.
IsPart(columns, all) == \A c \in DOMAIN columns : c \in DOMAIN all /\ all[c] = columns[c]

HasColumns(d, columns) == \A n \in SupportedFields(d) : ColumnOf(n, d, columns) \in DOMAIN columns

FieldColumns(d, columns) == {ColumnOf(n, d, columns) : n \in SupportedFields(d)} \ standard_columns

CellsFit(cells, d, columns) ==
    /\ HasColumns(d, columns)
    /\ standard_columns \cup FieldColumns(d, columns) \subseteq DOMAIN cells
    /\ \A c \in DOMAIN cells :
           /\ c \in standard_columns => cells[c] = "standard"
           /\ c \in FieldColumns(d, columns) => cells[c] = "field"
           /\ c \notin standard_columns \cup FieldColumns(d, columns) => cells[c] = "null"

FileFits(f, o, t, columns) ==
    f.mcap = o /\ t \in DOMAIN Groups[o] /\ CellsFit(f.cells, Groups[o][t], columns)

KnowsColumns ==
    \A i \in Ingesters : task[i].pc \in {"evolve", "write", "append"} =>
        /\ Exists(task[i].topic)
        /\ standard_columns \subseteq DOMAIN task[i].columns
        /\ IsPart(task[i].columns, tables[task[i].topic].columns)

EvolvedBeforeWrite ==
    \A i \in Ingesters : task[i].pc \in {"write", "append"} =>
        HasColumns(Descriptor(i), task[i].columns)

FilesFit ==
    /\ \A t \in Topic : \A k \in DOMAIN tables[t].files :
           LET f == tables[t].files[k] IN FileFits(f, f.mcap, t, tables[t].columns)
    /\ \A i \in Ingesters : task[i].pc = "append" =>
           LET t == task[i].topic
           IN  FileFits(task[i].written, task[i].mcap, t, tables[t].columns)

ObjectFits(o, t) == FileFits(warehouse[t][DataFilePath(o)], o, t, tables[t].columns)

ObjectsFit ==
    /\ \A t \in Topic : \A k \in DOMAIN tables[t].files : ObjectFits(tables[t].files[k].mcap, t)
    /\ \A i \in Ingesters : task[i].pc = "append" => ObjectFits(task[i].mcap, task[i].topic)

SchemaInvariant ==
    SchemaWellFormed /\ KnowsColumns /\ EvolvedBeforeWrite /\ FilesFit /\ ObjectsFit

\* As long as a table exists, its columns keep their names and types and its
\* data files stay where they are in its history; a table never comes to life
\* with data files.
TablesOnlyGrow ==
    [][\A t \in Topic :
           /\ tables[t].state # "absent" /\ tables'[t].state # "absent" =>
                /\ \A c \in DOMAIN tables[t].columns :
                       /\ c \in DOMAIN tables'[t].columns
                       /\ tables'[t].columns[c] = tables[t].columns[c]
                /\ \A k \in DOMAIN tables[t].files :
                       /\ k \in DOMAIN tables'[t].files
                       /\ tables'[t].files[k] = tables[t].files[k]
           /\ tables[t].state = "absent" => tables'[t].files = <<>>]_tables

\* A run that reports success has committed every group of every mcap it
\* listed: no failure on the way, and no race with another run, is mistaken
\* for success.
FinishedRunCommittedAll ==
    [][\A i \in Ingesters :
           task[i].pc # "finished" /\ task'[i].pc = "finished" =>
               \A o \in task[i].listed : \A t \in DOMAIN Groups[o] : Committed(o, t)]_task

\* Why it does.  What a run has taken from its list it has committed, to a table that
\* still loads, but for the groups of the mcap in hand that are still to come.
InHand(i, o, t) ==
    /\ task[i].pc # "mcap" /\ o = task[i].mcap
    /\ t \in task[i].groups \/ (task[i].pc \in InCommitTopicGroup /\ t = task[i].topic)

CommittedSoFar ==
    \A i \in Ingesters : Running(i) =>
        \A o \in task[i].listed \ task[i].pending : \A t \in DOMAIN Groups[o] :
            (Loads(t) /\ Committed(o, t)) \/ InHand(i, o, t)

-----------------------------------------------------------------------------
(* The lake seen from outside: Lake.tla, with the rows a query returns read    *)
(* from the objects that the tables reference, under the tables' schemas.      *)

Content == [o \in Mcap |-> [t \in DOMAIN Groups[o] |-> StoredFields(Groups[o][t])]]

ReadFile(t, object) ==
    [mcap |-> object.mcap,
     fields |-> {n \in SupportedFields(Groups[object.mcap][t]) :
                    LET c == ColumnOf(n, Groups[object.mcap][t], tables[t].columns)
                    IN  c \in DOMAIN object.cells /\ object.cells[c] = "field"}]

Lost == [mcap |-> None, fields |-> {}]

Rows ==
    [t \in Topic |->
        [k \in DOMAIN tables[t].files |->
            LET path == DataFilePath(tables[t].files[k].mcap)
            IN  IF path \in DOMAIN warehouse[t]
                THEN ReadFile(t, warehouse[t][path])
                ELSE Lost]]

L == INSTANCE Lake WITH rows <- Rows

\* The ingest implements the lake it promises: through crashes, runs over what
\* is already there, schema drift and resets, a query sees whole entries, each
\* once, appearing at the instant of the commit and gone only by a reset.
ImplementsLake == L!Spec

-----------------------------------------------------------------------------
(* Liveness, under RerunSpec *)

\* main.rs: "Batch ingest: read every MCAP in the `mcap` bucket and commit it
\* to Iceberg."
EveryMcapIsCommitted ==
    \A o \in Mcap : o \in bucket ~> \A t \in DOMAIN Groups[o] : Committed(o, t)
=============================================================================
