---------------------------- MODULE IngestProofs ----------------------------
(***************************************************************************)
(* Theorems about the batch ingest, for any set of ingesters, mcaps and    *)
(* topics and any message definitions.                                     *)
(***************************************************************************)
EXTENDS IngestProperties, SequenceTheorems, TLAPS

-----------------------------------------------------------------------------
(* The operators of ArrowSchema: what they return, and that the column of a    *)
(* field does not move when a table's schema grows.                            *)

\* A supported field of a descriptor has a kind that is not a message, so
\* proto_kind_to_scalar_type does not panic on it.
LEMMA ArrowTypeOfField ==
    ASSUME NEW d, IsDescriptor(d), NEW n \in SupportedFields(d)
    PROVE  /\ n \in FieldName
           /\ proto_field_to_arrow(d[n]) \in [elem : ScalarType, list : {"none", "item"}]
<1>1. n \in DOMAIN d /\ n \in FieldName /\ d[n] \in FieldDescriptor /\ d[n].kind # "message"
  BY DEF SupportedFields, is_supported_field, IsDescriptor
<1>2. d[n].kind \in FloatKind \cup IntKind \cup {"bool", "string", "bytes", "enum"}
  BY <1>1 DEF FieldDescriptor, ProtoKind
<1>3. proto_kind_to_scalar_type(d[n].kind) \in ScalarType
  BY <1>2 DEF proto_kind_to_scalar_type, ScalarType, FloatKind, IntKind
<1> QED BY <1>1, <1>3 DEF proto_field_to_arrow

\* The type a table gives back is a data type, and a scalar one if and only if
\* the field's type is.
LEMMA TableTypeOfField ==
    ASSUME NEW type \in [elem : ScalarType, list : {"none", "item"}]
    PROVE  /\ TableType(type) \in DataType
           /\ type_suffix(TableType(type)) = type_suffix(type)
           /\ type_suffix(type) \in Suffix
           /\ check_type_compatibility(TableType(type), type)
<1>1. TableType(type) = [elem |-> type.elem,
                         list |-> IF type.list = "none" THEN "none" ELSE "element"]
  BY DEF TableType
<1>2. TableType(type) \in DataType
  BY <1>1 DEF DataType, ScalarType
<1>3. type_suffix(TableType(type)) = type_suffix(type) /\ type_suffix(type) \in Suffix
  BY <1>1 DEF type_suffix, Suffix
<1>4. check_type_compatibility(TableType(type), type)
  <2>1. CASE type.list = "none"
    BY <1>1, <2>1 DEF check_type_compatibility
  <2>2. CASE type.list = "item"
    BY <1>1, <2>2 DEF check_type_compatibility
  <2> QED BY <2>1, <2>2
<1> QED BY <1>2, <1>3, <1>4

\* Every supported field has a column name.
LEMMA ColumnOfField ==
    ASSUME NEW d, IsDescriptor(d), NEW n \in SupportedFields(d), NEW cols
    PROVE  /\ ColumnOf(n, d, cols) \in ColumnName
           /\ ColumnOf(n, d, cols).field = n
<1>1. n \in FieldName /\ proto_field_to_arrow(d[n]) \in [elem : ScalarType, list : {"none", "item"}]
  BY ArrowTypeOfField
<1>2. type_suffix(proto_field_to_arrow(d[n])) \in Suffix
  BY <1>1, TableTypeOfField
<1>3. BaseColumn(n) \in ColumnName /\ BaseColumn(n).field = n
  BY <1>1 DEF BaseColumn, ColumnName
<1>4. LET c == SiblingColumn(n, proto_field_to_arrow(d[n])) IN c \in ColumnName /\ c.field = n
  BY <1>1, <1>2 DEF SiblingColumn, ColumnName
<1> QED BY <1>3, <1>4 DEF ColumnOf, map_column_name

\* The schema of a new table is well typed.
LEMMA NewSchemaType ==
    ASSUME NEW d, IsDescriptor(d)
    PROVE  IsColumns(build_arrow_schema(d))
<1> DEFINE columns == build_arrow_schema(d)
<1>1. ASSUME NEW c \in standard_columns
      PROVE  c \in ColumnName /\ StandardType(c.field) \in DataType
  <2>1. PICK n \in StandardName : c = BaseColumn(n)
    BY <1>1 DEF standard_columns
  <2>2. c \in ColumnName /\ c.field = n
    BY <2>1, FieldNameAssumption DEF BaseColumn, ColumnName
  <2>3. StandardType(n) \in DataType
    BY <2>1 DEF StandardType, StandardName, Scalar, DataType, ScalarType
  <2> QED BY <2>2, <2>3
<1>2. ASSUME NEW n \in SupportedFields(d)
      PROVE  /\ BaseColumn(n) \in ColumnName
             /\ BaseColumn(n).field = n
             /\ TableType(proto_field_to_arrow(d[n])) \in DataType
  <2>1. n \in FieldName /\ proto_field_to_arrow(d[n]) \in [elem : ScalarType, list : {"none", "item"}]
    BY ArrowTypeOfField
  <2>2. TableType(proto_field_to_arrow(d[n])) \in DataType
    BY <2>1, TableTypeOfField
  <2> QED BY <2>1, <2>2 DEF BaseColumn, ColumnName
<1>3. DOMAIN columns \subseteq ColumnName
  BY <1>1, <1>2 DEF build_arrow_schema
<1>4. ASSUME NEW c \in DOMAIN columns PROVE columns[c] \in DataType
  <2>1. CASE c \in standard_columns
    BY <2>1, <1>1 DEF build_arrow_schema
  <2>2. CASE c \notin standard_columns
    <3>1. PICK n \in SupportedFields(d) : c = BaseColumn(n)
      BY <1>4, <2>2 DEF build_arrow_schema
    <3> QED BY <1>4, <2>2, <3>1, <1>2 DEF build_arrow_schema
  <2> QED BY <2>1, <2>2
<1> QED BY <1>3, <1>4 DEF IsColumns

\* So is an evolved one.
LEMMA AddColumnsType ==
    ASSUME NEW d, IsDescriptor(d), NEW loaded, NEW cols, IsColumns(cols)
    PROVE  IsColumns(AddColumns(cols, Additions(d, loaded), d))
<1> DEFINE columns == AddColumns(cols, Additions(d, loaded), d)
<1>1. ASSUME NEW c \in Additions(d, loaded)
      PROVE  c \in ColumnName /\ TableType(proto_field_to_arrow(d[c.field])) \in DataType
  <2>1. PICK n \in SupportedFields(d) : c = ColumnOf(n, d, loaded)
    BY DEF Additions
  <2>2. c \in ColumnName /\ c.field = n
    BY <2>1, ColumnOfField
  <2>3. TableType(proto_field_to_arrow(d[n])) \in DataType
    BY ArrowTypeOfField, TableTypeOfField
  <2> QED BY <2>2, <2>3
<1>2. DOMAIN columns \subseteq ColumnName
  BY <1>1 DEF AddColumns, IsColumns
<1>3. ASSUME NEW c \in DOMAIN columns PROVE columns[c] \in DataType
  <2>1. CASE c \in DOMAIN cols
    BY <2>1 DEF AddColumns, IsColumns
  <2>2. CASE c \notin DOMAIN cols
    <3>1. c \in Additions(d, loaded)
      BY <1>3, <2>2 DEF AddColumns
    <3> QED BY <2>2, <3>1, <1>1 DEF AddColumns
  <2> QED BY <2>1, <2>2
<1> QED BY <1>2, <1>3 DEF IsColumns

\* A record batch has a cell source for each column of its schema.
LEMMA RecordBatchType ==
    ASSUME NEW cols, NEW d
    PROVE  /\ DOMAIN build_record_batch(cols, d) = DOMAIN cols
           /\ \A c \in DOMAIN cols : build_record_batch(cols, d)[c] \in CellSource
BY DEF build_record_batch, CellSource

-----------------------------------------------------------------------------
(* Appending to a sequence, without its element type. *)

\* r is s with e in one more place.
IsExtended(s, r, e) ==
    /\ \A k \in DOMAIN s : k \in DOMAIN r /\ r[k] = s[k]
    /\ \A k \in DOMAIN r : k \notin DOMAIN s => r[k] = e
    /\ \E k \in DOMAIN r : k \notin DOMAIN s
    /\ \A k, l \in DOMAIN r : k \notin DOMAIN s /\ l \notin DOMAIN s => k = l

LEMMA AppendIsSeq ==
    ASSUME NEW s, IsSeq(s), NEW e
    PROVE  /\ IsSeq(Append(s, e))
           /\ IsExtended(s, Append(s, e), e)
<1> DEFINE S == {s[k] : k \in DOMAIN s}
           r == Append(s, e)
           R == {r[k] : k \in DOMAIN r}
<1>1. s \in Seq(S)
  BY DEF IsSeq
<1>2. /\ Len(s) \in Nat /\ DOMAIN s = 1 .. Len(s)
      /\ Len(r) = Len(s) + 1 /\ DOMAIN r = 1 .. (Len(s) + 1)
      /\ \A k \in 1 .. Len(s) : r[k] = s[k]
      /\ r[Len(s) + 1] = e
  <2>1. s \in Seq(S \cup {e}) /\ e \in S \cup {e}
    BY <1>1
  <2> HIDE DEF S
  <2> QED BY <1>1, <2>1
<1>3. r \in Seq(R)
  <2>1. r \in Seq(S \cup {e})
    <3>1. s \in Seq(S \cup {e}) /\ e \in S \cup {e}
      BY <1>1
    <3> HIDE DEF S
    <3> QED BY <3>1
  <2>2. \A k \in 1 .. (Len(s) + 1) : r[k] \in R
    BY <1>2
  <2>3. r \in [1 .. (Len(s) + 1) -> S \cup {e}]
    <3> HIDE DEF r, S
    <3> QED BY <2>1, <1>2, SeqDef
  <2>4. r \in [1 .. (Len(s) + 1) -> R]
    <3> HIDE DEF r, S, R
    <3> QED BY <2>2, <2>3
  <2> HIDE DEF r, R
  <2> QED BY <2>4, <1>2, SeqDef
<1> QED BY <1>2, <1>3 DEF IsSeq, IsExtended

LEMMA EmptyIsSeq == IsSeq(<<>>) /\ DOMAIN <<>> = {}
BY DEF IsSeq

-----------------------------------------------------------------------------
(* Type correctness *)

LEMMA EmptyIsColumns == IsColumns(EmptyColumns)
BY DEF IsColumns, EmptyColumns

LEMMA NoTableType == IsTable(NoTable)
BY EmptyIsColumns, EmptyIsSeq DEF IsTable, NoTable

LEMMA ExitType ==
    ASSUME NEW pc \in Stopped
    PROVE  IsTask([Idle EXCEPT !.pc = pc])
BY EmptyIsColumns DEF IsTask, Idle, Stopped, InCommitTopicGroup

\* Inside a commit, moving on to another step that is not the append.
LEMMA GotoType ==
    ASSUME NEW r, IsTask(r), r.pc \in InCommitTopicGroup,
           NEW pc \in (InCommitTopicGroup \cup {"group"}) \ {"append"},
           NEW columns, IsColumns(columns)
    PROVE  /\ IsTask([r EXCEPT !.pc = pc])
           /\ IsTask([r EXCEPT !.pc = pc, !.columns = columns])
<1> DEFINE q == [r EXCEPT !.pc = pc]
           p == [r EXCEPT !.pc = pc, !.columns = columns]
<1>1. /\ DOMAIN q = DOMAIN r /\ q.pc = pc
      /\ q.listed = r.listed /\ q.pending = r.pending /\ q.mcap = r.mcap
      /\ q.groups = r.groups /\ q.topic = r.topic /\ q.columns = r.columns
  BY DEF IsTask
<1>2. /\ DOMAIN p = DOMAIN r /\ p.pc = pc
      /\ p.listed = r.listed /\ p.pending = r.pending /\ p.mcap = r.mcap
      /\ p.groups = r.groups /\ p.topic = r.topic /\ p.columns = columns
  BY DEF IsTask
<1> HIDE DEF q, p
<1>3. IsTask(q)
  BY <1>1 DEF IsTask
<1>4. IsTask(p)
  BY <1>2 DEF IsTask
<1> QED BY <1>3, <1>4 DEF q, p

\* The group that is being committed has a descriptor.
LEMMA DescriptorType ==
    ASSUME TypeOK, NEW i \in Ingesters, task[i].pc \in InCommitTopicGroup
    PROVE  /\ task[i].mcap \in Mcap
           /\ task[i].topic \in Topic
           /\ task[i].topic \in DOMAIN Groups[task[i].mcap]
           /\ IsDescriptor(Descriptor(i))
           /\ DataFilePath(task[i].mcap) \in McapId
BY IngestAssumption DEF TypeOK, IsTask, Descriptor, Groupable, DataFilePath

LEMMA UpdateTask ==
    ASSUME TypeOK, NEW i \in Ingesters, NEW r, IsTask(r),
           task' = [task EXCEPT ![i] = r]
    PROVE  DOMAIN task' = Ingesters /\ \A j \in Ingesters : IsTask(task'[j])
BY DEF TypeOK

LEMMA UpdateTable ==
    ASSUME TypeOK, NEW t \in Topic, NEW r, IsTable(r),
           tables' = [tables EXCEPT ![t] = r]
    PROVE  DOMAIN tables' = Topic /\ \A u \in Topic : IsTable(tables'[u])
BY DEF TypeOK

LEMMA TypeOKStep ==
    ASSUME TypeOK, [Next]_vars
    PROVE  TypeOK'
<1> USE DEF vars
<1>1. ASSUME NEW i \in Ingesters, Start(i) PROVE TypeOK'
  <2>1. IsTask([Idle EXCEPT !.pc = "mcap", !.listed = bucket, !.pending = bucket])
    <3> DEFINE r == [Idle EXCEPT !.pc = "mcap", !.listed = bucket, !.pending = bucket]
    <3>1. /\ DOMAIN r = DOMAIN Idle /\ r.pc = "mcap"
          /\ r.listed = bucket /\ r.pending = bucket /\ r.columns = EmptyColumns
      BY DEF Idle
    <3>2. bucket \subseteq Mcap
      BY DEF TypeOK
    <3> HIDE DEF r
    <3> QED BY <3>1, <3>2, EmptyIsColumns DEF IsTask, Idle, InCommitTopicGroup, r
  <2> QED BY <1>1, <2>1, UpdateTask DEF Start, TypeOK
<1>2. ASSUME NEW i \in Ingesters, NEW o \in Mcap, LoadMcap(i, o) PROVE TypeOK'
  <2>1. IsTask([task[i] EXCEPT !.pc = "group", !.pending = @ \ {o}, !.mcap = o,
                               !.groups = DOMAIN Groups[o]])
    BY <1>2 DEF LoadMcap, Decodes, Groupable, TypeOK, IsTask, InCommitTopicGroup, IsNext
  <2> QED BY <1>2, <2>1, UpdateTask DEF LoadMcap, TypeOK
<1>3. ASSUME NEW i \in Ingesters, NEW pc \in Stopped, Exit(i, pc),
             UNCHANGED <<bucket, namespace, tables, warehouse, reset>>
      PROVE  TypeOK'
  BY <1>3, ExitType, UpdateTask DEF Exit, TypeOK
<1>4. ASSUME NEW i \in Ingesters, NEW t \in Topic, TakeGroup(i, t) PROVE TypeOK'
  <2>1. IsTask([task[i] EXCEPT !.pc = "namespace", !.groups = @ \ {t}, !.topic = t])
    BY <1>4 DEF TakeGroup, TypeOK, IsTask, InCommitTopicGroup, Stopped
  <2> QED BY <1>4, <2>1, UpdateTask DEF TakeGroup, TypeOK
<1>5. ASSUME NEW i \in Ingesters, FinishMcap(i) PROVE TypeOK'
  <2>1. IsTask([task[i] EXCEPT !.pc = "mcap", !.mcap = None, !.topic = None,
                               !.columns = EmptyColumns, !.written = NoFile])
    <3> DEFINE r == [task[i] EXCEPT !.pc = "mcap", !.mcap = None, !.topic = None,
                                    !.columns = EmptyColumns, !.written = NoFile]
    <3>1. /\ DOMAIN r = DOMAIN task[i] /\ r.pc = "mcap"
          /\ r.listed = task[i].listed /\ r.pending = task[i].pending
          /\ r.columns = EmptyColumns
      BY DEF TypeOK, IsTask
    <3>2. IsTask(task[i])
      BY DEF TypeOK
    <3> HIDE DEF r
    <3>3. IsTask(r)
      BY <3>1, <3>2, EmptyIsColumns DEF IsTask, InCommitTopicGroup
    <3> QED BY <3>3 DEF r
  <2> QED BY <1>5, <2>1, UpdateTask DEF FinishMcap, TypeOK
<1>6. ASSUME NEW i \in Ingesters, task[i].pc \in InCommitTopicGroup,
             NEW pc \in (InCommitTopicGroup \cup {"group"}) \ {"append"}, Goto(i, pc)
      PROVE  DOMAIN task' = Ingesters /\ \A j \in Ingesters : IsTask(task'[j])
  <2>1. IsTask([task[i] EXCEPT !.pc = pc])
    BY <1>6, GotoType, EmptyIsColumns DEF TypeOK
  <2> QED BY <1>6, <2>1, UpdateTask DEF Goto
<1>7. ASSUME NEW i \in Ingesters, NamespaceExists(i) PROVE TypeOK'
  BY <1>6, <1>7 DEF NamespaceExists, InCommitTopicGroup, TypeOK
<1>8. ASSUME NEW i \in Ingesters, CreateNamespace(i) PROVE TypeOK'
  BY <1>6, <1>8 DEF CreateNamespace, InCommitTopicGroup, TypeOK
<1>9. ASSUME NEW i \in Ingesters, TableExists(i) PROVE TypeOK'
  BY <1>6, <1>9 DEF TableExists, InCommitTopicGroup, TypeOK
<1>10. ASSUME NEW i \in Ingesters, LoadTable(i) PROVE TypeOK'
  <2>1. task[i].topic \in Topic /\ task[i].pc \in InCommitTopicGroup
    BY <1>10, DescriptorType DEF LoadTable, InCommitTopicGroup
  <2>2. IsTask([task[i] EXCEPT !.pc = "evolve", !.columns = tables[task[i].topic].columns])
    BY <2>1, GotoType DEF TypeOK, IsTable, InCommitTopicGroup
  <2> QED BY <1>10, <2>2, UpdateTask DEF LoadTable, TypeOK
<1>11. ASSUME NEW i \in Ingesters, CreateTable(i) PROVE TypeOK'
  <2> DEFINE columns == build_arrow_schema(Descriptor(i))
  <2>1. task[i].pc \in InCommitTopicGroup
    BY <1>11 DEF CreateTable, InCommitTopicGroup
  <2>2. task[i].topic \in Topic /\ IsColumns(columns)
    BY <2>1, DescriptorType, NewSchemaType
  <2>3. IsTable([state |-> "present", columns |-> columns, files |-> <<>>])
    BY <2>2, EmptyIsSeq DEF IsTable
  <2>4. IsTask([task[i] EXCEPT !.pc = "evolve", !.columns = columns])
    BY <2>1, <2>2, GotoType DEF TypeOK, InCommitTopicGroup
  <2> HIDE DEF columns
  <2>5. /\ tables' = [tables EXCEPT ![task[i].topic] =
                        [state |-> "present", columns |-> columns, files |-> <<>>]]
        /\ task' = [task EXCEPT ![i] = [@ EXCEPT !.pc = "evolve", !.columns = columns]]
        /\ UNCHANGED <<bucket, namespace, warehouse, reset>>
    BY <1>11 DEF CreateTable, columns
  <2> QED BY <2>2, <2>3, <2>4, <2>5, UpdateTask, UpdateTable DEF TypeOK
<1>12. ASSUME NEW i \in Ingesters, SchemaIsCurrent(i) PROVE TypeOK'
  BY <1>6, <1>12 DEF SchemaIsCurrent, InCommitTopicGroup, TypeOK
<1>13. ASSUME NEW i \in Ingesters, EvolveSchema(i) PROVE TypeOK'
  <2> DEFINE t == task[i].topic
             columns == AddColumns(tables[t].columns, NewColumns(i), Descriptor(i))
  <2>1. task[i].pc \in InCommitTopicGroup
    BY <1>13 DEF EvolveSchema, InCommitTopicGroup
  <2>2. t \in Topic /\ IsTable(tables[t])
    BY <2>1, DescriptorType DEF TypeOK
  <2>3. IsColumns(columns)
    BY <2>1, <2>2, DescriptorType, AddColumnsType DEF NewColumns, IsTable
  <2>4. IsTable([tables[t] EXCEPT !.columns = columns])
    <3> HIDE DEF t, columns
    <3> QED BY <2>2, <2>3 DEF IsTable
  <2>5. IsTask([task[i] EXCEPT !.pc = "write", !.columns = columns])
    BY <2>1, <2>3, GotoType DEF TypeOK, InCommitTopicGroup
  <2>6. /\ tables' = [tables EXCEPT ![t] = [@ EXCEPT !.columns = columns]]
        /\ task' = [task EXCEPT ![i] = [@ EXCEPT !.pc = "write", !.columns = columns]]
        /\ UNCHANGED <<bucket, namespace, warehouse, reset>>
    BY <1>13 DEF EvolveSchema
  <2> HIDE DEF t, columns
  <2> QED BY <2>2, <2>4, <2>5, <2>6, UpdateTask, UpdateTable DEF TypeOK
<1>14. ASSUME NEW i \in Ingesters, WriteDataFile(i) PROVE TypeOK'
  <2> DEFINE t == task[i].topic
             o == task[i].mcap
             file == [mcap |-> o,
                      cells |-> build_record_batch(task[i].columns, Descriptor(i))]
  <2>1. task[i].pc \in InCommitTopicGroup
    BY <1>14 DEF WriteDataFile, InCommitTopicGroup
  <2>2. t \in Topic /\ o \in Mcap /\ DataFilePath(o) \in McapId
    BY <2>1, DescriptorType
  <2>3. IsDataFile(file)
    <3>1. DOMAIN task[i].columns \subseteq ColumnName
      BY DEF TypeOK, IsTask, IsColumns
    <3>2. /\ DOMAIN file.cells \subseteq ColumnName
          /\ \A c \in DOMAIN file.cells : file.cells[c] \in CellSource
      BY <3>1, RecordBatchType
    <3> HIDE DEF file
    <3>3. file = [mcap |-> file.mcap, cells |-> file.cells] /\ file.mcap = o
      BY DEF file
    <3> QED BY <2>2, <3>2, <3>3 DEF IsDataFile
  <2>4. IsTask([task[i] EXCEPT !.pc = "append", !.written = file])
    <3> HIDE DEF file
    <3> DEFINE r == [task[i] EXCEPT !.pc = "append", !.written = file]
    <3>1. IsTask(task[i])
      BY DEF TypeOK
    <3>2. /\ DOMAIN r = DOMAIN task[i] /\ r.pc = "append" /\ r.written = file
          /\ r.listed = task[i].listed /\ r.pending = task[i].pending
          /\ r.mcap = task[i].mcap /\ r.groups = task[i].groups
          /\ r.topic = task[i].topic /\ r.columns = task[i].columns
      BY <3>1 DEF IsTask
    <3> HIDE DEF r
    <3>3. IsTask(r)
      BY <2>1, <2>3, <3>1, <3>2 DEF IsTask, InCommitTopicGroup
    <3> QED BY <3>3 DEF r
  <2>5. /\ warehouse' = [warehouse EXCEPT ![t] = PutObject(@, DataFilePath(o), file)]
        /\ task' = [task EXCEPT ![i] = [@ EXCEPT !.pc = "append", !.written = file]]
        /\ UNCHANGED <<bucket, namespace, tables, reset>>
    BY <1>14 DEF WriteDataFile
  <2> HIDE DEF t, o, file
  <2>6. DOMAIN task' = Ingesters /\ \A j \in Ingesters : IsTask(task'[j])
    BY <2>4, <2>5, UpdateTask DEF TypeOK
  <2>7. \A u \in Topic : /\ DOMAIN warehouse'[u] \subseteq McapId
                         /\ \A d \in DOMAIN warehouse'[u] : IsDataFile(warehouse'[u][d])
    BY <2>2, <2>3, <2>5 DEF TypeOK, PutObject
  <2> QED BY <2>5, <2>6, <2>7 DEF TypeOK
<1>15. ASSUME NEW i \in Ingesters, CommitAppend(i) PROVE TypeOK'
  <2> DEFINE t == task[i].topic
             files == Append(tables[t].files, task[i].written)
  <2>1. task[i].pc \in InCommitTopicGroup /\ task[i].pc = "append"
    BY <1>15 DEF CommitAppend, InCommitTopicGroup
  <2>2. t \in Topic /\ IsTable(tables[t]) /\ IsDataFile(task[i].written)
    BY <2>1, DescriptorType DEF TypeOK, IsTask
  <2>3. IsSeq(files) /\ \A k \in DOMAIN files : IsDataFile(files[k])
    BY <2>2, AppendIsSeq DEF IsTable, IsExtended
  <2>4. IsTable([tables[t] EXCEPT !.files = files])
    <3> HIDE DEF t, files
    <3> QED BY <2>2, <2>3 DEF IsTable
  <2>5. /\ tables' = [tables EXCEPT ![t] = [@ EXCEPT !.files = files]]
        /\ UNCHANGED <<bucket, namespace, warehouse, reset>>
    BY <1>15 DEF CommitAppend
  <2>6. DOMAIN task' = Ingesters /\ \A j \in Ingesters : IsTask(task'[j])
    BY <1>6, <1>15, <2>1 DEF CommitAppend, InCommitTopicGroup
  <2> HIDE DEF t, files
  <2> QED BY <2>2, <2>4, <2>5, <2>6, UpdateTable DEF TypeOK
<1>16. ASSUME NEW o \in Mcap, Upload(o) PROVE TypeOK'
  BY <1>16 DEF Upload, TypeOK
<1>17. CASE DropCatalog
  BY <1>17, NoTableType DEF DropCatalog, TypeOK
<1>18. CASE DropWarehouse
  <2>1. ASSUME NEW t \in Topic PROVE IsTable(tables'[t])
    BY <1>18 DEF DropWarehouse, TypeOK, IsTable
  <2> QED BY <1>18, <2>1 DEF DropWarehouse, TypeOK, NoObjects
<1>19. CASE InterruptReset
  BY <1>19 DEF InterruptReset, TypeOK
<1>20. CASE UNCHANGED vars
  BY <1>20 DEF TypeOK
<1>21. ASSUME NEW i \in Ingesters,
              \/ \E o \in Mcap : DecodePanics(i, o)
              \/ FinishRun(i) \/ CatalogRefuses(i) \/ Crash(i)
       PROVE  TypeOK'
  BY <1>3, <1>21 DEF DecodePanics, FinishRun, CatalogRefuses, Crash, Stopped
<1> QED
  BY <1>1, <1>2, <1>4, <1>5, <1>7, <1>8, <1>9, <1>10, <1>11, <1>12, <1>13, <1>14,
     <1>15, <1>16, <1>17, <1>18, <1>19, <1>20, <1>21
  DEF Next, Step, Operator

LEMMA TypeOKInit == Init => TypeOK
<1> SUFFICES ASSUME Init PROVE TypeOK
  OBVIOUS
<1>1. IsTask(Idle)
  BY EmptyIsColumns DEF IsTask, Idle, Stopped, InCommitTopicGroup
<1> QED BY <1>1, NoTableType DEF Init, TypeOK, NoObjects

\* No step of an ingester, of the operator or of the converter leaves the types
\* of TypeOK: an ingester that commits always has a decoded mcap, one of its
\* groups and, at the append, a data file.
THEOREM TypeCorrect == Spec => []TypeOK
<1>1. TypeOK /\ [Next]_vars => TypeOK'
  BY TypeOKStep
<1> QED BY <1>1, TypeOKInit, PTL DEF Spec

-----------------------------------------------------------------------------
(* What a step changes: the tasks, the tables and the warehouse. *)

LEMMA TaskStep ==
    ASSUME TypeOK, [Next]_vars, NEW i \in Ingesters, task'[i].pc = "append"
    PROVE  task'[i] = task[i] \/ WriteDataFile(i)
<1> USE DEF vars, TypeOK
<1>1. ASSUME NEW j \in Ingesters, Start(j) PROVE task'[i] = task[i]
  BY <1>1 DEF Start, Idle
<1>2. ASSUME NEW j \in Ingesters, NEW pc \in Stopped, Exit(j, pc) PROVE task'[i] = task[i]
  BY <1>2 DEF Exit, Idle, Stopped
<1>3. ASSUME NEW j \in Ingesters, NEW o \in Mcap, LoadMcap(j, o) PROVE task'[i] = task[i]
  BY <1>3 DEF LoadMcap, IsTask
<1>4. ASSUME NEW j \in Ingesters, NEW t \in Topic, TakeGroup(j, t) PROVE task'[i] = task[i]
  BY <1>4 DEF TakeGroup, IsTask
<1>5. ASSUME NEW j \in Ingesters, FinishMcap(j) PROVE task'[i] = task[i]
  BY <1>5 DEF FinishMcap, IsTask
<1>6. ASSUME NEW j \in Ingesters, NEW pc, pc # "append", Goto(j, pc) PROVE task'[i] = task[i]
  BY <1>6 DEF Goto, IsTask
<1>7. ASSUME NEW j \in Ingesters,
             NamespaceExists(j) \/ CreateNamespace(j) \/ TableExists(j)
               \/ SchemaIsCurrent(j) \/ CommitAppend(j)
      PROVE  task'[i] = task[i]
  BY <1>6, <1>7 DEF NamespaceExists, CreateNamespace, TableExists, SchemaIsCurrent, CommitAppend
<1>8. ASSUME NEW j \in Ingesters, LoadTable(j) \/ CreateTable(j) \/ EvolveSchema(j)
      PROVE  task'[i] = task[i]
  BY <1>8 DEF LoadTable, CreateTable, EvolveSchema, IsTask
<1>9. ASSUME NEW j \in Ingesters, WriteDataFile(j), j # i PROVE task'[i] = task[i]
  BY <1>9 DEF WriteDataFile
<1>10. ASSUME NEW j \in Ingesters,
              \/ \E o \in Mcap : DecodePanics(j, o)
              \/ FinishRun(j) \/ CatalogRefuses(j) \/ Crash(j)
       PROVE  task'[i] = task[i]
  BY <1>2, <1>10 DEF DecodePanics, FinishRun, CatalogRefuses, Crash, Stopped
<1>11. CASE Operator \/ UNCHANGED vars \/ \E o \in Mcap : Upload(o)
  BY <1>11 DEF Operator, DropCatalog, DropWarehouse, InterruptReset, Upload
<1> QED
  BY <1>1, <1>3, <1>4, <1>5, <1>7, <1>8, <1>9, <1>10, <1>11 DEF Next, Step

LEMMA TablesStep ==
    ASSUME TypeOK, [Next]_vars, NEW t \in Topic
    PROVE  \/ tables'[t] = tables[t]
           \/ DropCatalog /\ tables'[t] = NoTable
           \/ DropWarehouse /\ tables'[t] =
                [tables[t] EXCEPT !.state = IF Exists(t) THEN "broken" ELSE @]
           \/ \E i \in Ingesters : CreateTable(i) /\ task[i].topic = t
           \/ \E i \in Ingesters : EvolveSchema(i) /\ task[i].topic = t
           \/ \E i \in Ingesters : CommitAppend(i) /\ task[i].topic = t
<1> USE DEF vars, TypeOK
<1>1. ASSUME NEW i \in Ingesters, Start(i) \/ Crash(i) PROVE tables' = tables
  BY <1>1 DEF Start, Crash
<1>2. ASSUME NEW i \in Ingesters, Step(i)
      PROVE  tables' = tables \/ CreateTable(i) \/ EvolveSchema(i) \/ CommitAppend(i)
  BY <1>2 DEF Step, LoadMcap, DecodePanics, TakeGroup, FinishRun, FinishMcap,
       NamespaceExists, CreateNamespace, TableExists, LoadTable, SchemaIsCurrent,
       WriteDataFile, CatalogRefuses
<1>3. ASSUME NEW i \in Ingesters, CreateTable(i) \/ EvolveSchema(i) \/ CommitAppend(i),
             task[i].topic # t
      PROVE  tables'[t] = tables[t]
  BY <1>3 DEF CreateTable, EvolveSchema, CommitAppend
<1>4. CASE Operator \/ UNCHANGED vars \/ \E o \in Mcap : Upload(o)
  BY <1>4 DEF Operator, DropCatalog, DropWarehouse, InterruptReset, Upload
<1> QED BY <1>1, <1>2, <1>3, <1>4 DEF Next

LEMMA WarehouseStep ==
    ASSUME TypeOK, [Next]_vars, NEW t \in Topic
    PROVE  \/ warehouse'[t] = warehouse[t]
           \/ DropWarehouse
           \/ \E i \in Ingesters : WriteDataFile(i) /\ task[i].topic = t
<1> USE DEF vars, TypeOK
<1>1. ASSUME NEW i \in Ingesters, Start(i) \/ Crash(i) PROVE warehouse' = warehouse
  BY <1>1 DEF Start, Crash
<1>2. ASSUME NEW i \in Ingesters, Step(i) PROVE warehouse' = warehouse \/ WriteDataFile(i)
  BY <1>2 DEF Step, LoadMcap, DecodePanics, TakeGroup, FinishRun, FinishMcap,
       NamespaceExists, CreateNamespace, TableExists, LoadTable, CreateTable,
       SchemaIsCurrent, EvolveSchema, CommitAppend, CatalogRefuses
<1>3. ASSUME NEW i \in Ingesters, WriteDataFile(i), task[i].topic # t
      PROVE  warehouse'[t] = warehouse[t]
  BY <1>3 DEF WriteDataFile
<1>4. CASE Operator \/ UNCHANGED vars \/ \E o \in Mcap : Upload(o)
  BY <1>4 DEF Operator, DropCatalog, DropWarehouse, InterruptReset, Upload
<1> QED BY <1>1, <1>2, <1>3, <1>4 DEF Next

\* What CommitAppend does to the files of its table.
LEMMA AppendStep ==
    ASSUME TypeOK, NEW i \in Ingesters, CommitAppend(i), NEW t, t = task[i].topic
    PROVE  /\ t \in Topic /\ task[i].pc = "append"
           /\ tables[t].state = "present" /\ tables'[t].state = "present"
           /\ tables'[t].columns = tables[t].columns
           /\ IsExtended(tables[t].files, tables'[t].files, task[i].written)
           /\ \A k \in DOMAIN tables[t].files :
                DataFilePath(tables[t].files[k].mcap) # DataFilePath(task[i].mcap)
<1>1. t \in Topic /\ task[i].pc = "append"
  BY DescriptorType DEF CommitAppend, InCommitTopicGroup
<1>2. IsTable(tables[t])
  BY <1>1 DEF TypeOK
<1>3. /\ tables'[t].files = Append(tables[t].files, task[i].written)
      /\ tables'[t].columns = tables[t].columns /\ tables'[t].state = tables[t].state
      /\ tables[t].state = "present"
  BY <1>1, <1>2 DEF CommitAppend, IsTable, TypeOK, Loads
<1>4. IsSeq(tables[t].files)
  BY <1>2 DEF IsTable
<1>5. \A k \in DOMAIN tables[t].files :
        DataFilePath(tables[t].files[k].mcap) # DataFilePath(task[i].mcap)
  BY DEF CommitAppend, Referenced
<1>6. IsExtended(tables[t].files, tables'[t].files, task[i].written)
  BY <1>3, <1>4, AppendIsSeq
<1> QED BY <1>1, <1>3, <1>5, <1>6

-----------------------------------------------------------------------------
(* At most once *)

LEMMA AppendsOwnFileStep ==
    ASSUME TypeOK, AppendsOwnFile, [Next]_vars
    PROVE  AppendsOwnFile'
<1> SUFFICES ASSUME NEW i \in Ingesters, task'[i].pc = "append"
             PROVE  task'[i].written.mcap = task'[i].mcap
  BY DEF AppendsOwnFile
<1>1. CASE task'[i] = task[i]
  BY <1>1 DEF AppendsOwnFile
<1>2. CASE WriteDataFile(i)
  BY <1>2 DEF WriteDataFile, TypeOK, IsTask
<1> QED BY <1>1, <1>2, TaskStep

LEMMA AtMostOnceStep ==
    ASSUME TypeOK, AppendsOwnFile, AtMostOnce, [Next]_vars
    PROVE  AtMostOnce'
<1> SUFFICES ASSUME NEW t \in Topic,
                    NEW k \in DOMAIN tables'[t].files, NEW l \in DOMAIN tables'[t].files,
                    k # l
             PROVE  McapIdOf[tables'[t].files[k].mcap] # McapIdOf[tables'[t].files[l].mcap]
  BY DEF AtMostOnce
<1>1. CASE tables'[t].files = tables[t].files
  BY <1>1 DEF AtMostOnce
<1>2. ASSUME NEW i \in Ingesters, CommitAppend(i), task[i].topic = t
      PROVE  McapIdOf[tables'[t].files[k].mcap] # McapIdOf[tables'[t].files[l].mcap]
  <2> DEFINE old == tables[t].files
             new == tables'[t].files
  <2>1. /\ task[i].pc = "append"
        /\ IsExtended(old, new, task[i].written)
        /\ \A x \in DOMAIN old : DataFilePath(old[x].mcap) # DataFilePath(task[i].mcap)
    BY <1>2, AppendStep
  <2>2. task[i].written.mcap = task[i].mcap
    BY <2>1 DEF AppendsOwnFile
  <2>3. \A x, y \in DOMAIN old : x # y => McapIdOf[old[x].mcap] # McapIdOf[old[y].mcap]
    BY DEF AtMostOnce
  <2>4. k \in DOMAIN new /\ l \in DOMAIN new
    OBVIOUS
  <2> SUFFICES McapIdOf[new[k].mcap] # McapIdOf[new[l].mcap]
    OBVIOUS
  <2> HIDE DEF old, new
  <2> QED BY <2>1, <2>2, <2>3, <2>4 DEF DataFilePath, IsExtended
<1>3. ASSUME NEW i \in Ingesters, CreateTable(i), task[i].topic = t
      PROVE  tables'[t].files = <<>>
  BY <1>3 DEF CreateTable, TypeOK
<1>4. ASSUME NEW i \in Ingesters, EvolveSchema(i), task[i].topic = t
      PROVE  tables'[t].files = tables[t].files
  BY <1>4 DEF EvolveSchema, TypeOK, IsTable
<1>5. tables'[t].files # <<>>
  BY EmptyIsSeq
<1>6. CASE DropCatalog /\ tables'[t] = NoTable
  BY <1>5, <1>6 DEF NoTable
<1>7. CASE DropWarehouse /\ tables'[t] =
             [tables[t] EXCEPT !.state = IF Exists(t) THEN "broken" ELSE @]
  BY <1>1, <1>7 DEF TypeOK, IsTable
<1> QED BY <1>1, <1>2, <1>3, <1>4, <1>5, <1>6, <1>7, TablesStep

\* However many ingesters run, and whatever the operator does to the lake
\* meanwhile, a table never references the data file of an mcap_id twice.
THEOREM IngestedAtMostOnce == Spec => []AtMostOnce
<1>1. Init => AppendsOwnFile /\ AtMostOnce
  BY EmptyIsSeq DEF Init, AppendsOwnFile, AtMostOnce, Idle, NoTable
<1>2. TypeOK /\ AppendsOwnFile /\ AtMostOnce /\ [Next]_vars => AppendsOwnFile' /\ AtMostOnce'
  BY AppendsOwnFileStep, AtMostOnceStep
<1> QED BY <1>1, <1>2, TypeCorrect, PTL DEF Spec

-----------------------------------------------------------------------------
(* A table's history *)

\* What any step but an append makes of a table.
LEMMA OtherTableStep ==
    ASSUME TypeOK, [Next]_vars, NEW t \in Topic,
           ~ \E i \in Ingesters : CommitAppend(i) /\ task[i].topic = t
    PROVE  tables'[t].files \in {tables[t].files, <<>>}
<1>1. ASSUME NEW i \in Ingesters, CreateTable(i), task[i].topic = t
      PROVE  tables'[t].files = <<>>
  BY <1>1 DEF CreateTable, TypeOK
<1>2. ASSUME NEW i \in Ingesters, EvolveSchema(i), task[i].topic = t
      PROVE  tables'[t].files = tables[t].files
  BY <1>2 DEF EvolveSchema, TypeOK, IsTable
<1>3. CASE tables'[t] = NoTable
  BY <1>3 DEF NoTable
<1>4. CASE tables'[t] = [tables[t] EXCEPT !.state = IF Exists(t) THEN "broken" ELSE @]
  BY <1>4 DEF TypeOK, IsTable
<1> QED BY <1>1, <1>2, <1>3, <1>4, TablesStep

LEMMA AbsentIsEmptyStep ==
    ASSUME TypeOK, AbsentIsEmpty, [Next]_vars
    PROVE  AbsentIsEmpty'
<1> SUFFICES ASSUME NEW t \in Topic, tables'[t].state = "absent"
             PROVE  tables'[t] = NoTable
  BY DEF AbsentIsEmpty
<1>1. CASE tables'[t] = tables[t]
  BY <1>1 DEF AbsentIsEmpty
<1>2. CASE tables'[t] = [tables[t] EXCEPT !.state = IF Exists(t) THEN "broken" ELSE @]
  <2>1. tables[t].state = "absent"
    BY <1>2 DEF TypeOK, IsTable, Exists
  <2>2. tables[t] = NoTable
    BY <2>1 DEF AbsentIsEmpty
  <2>3. [tables[t] EXCEPT !.state = tables[t].state] = tables[t]
    BY <2>2 DEF NoTable
  <2> QED BY <1>2, <2>1, <2>2, <2>3 DEF Exists
<1>3. ASSUME NEW i \in Ingesters, CreateTable(i), task[i].topic = t
      PROVE  tables'[t].state = "present"
  BY <1>3 DEF CreateTable, TypeOK
<1>4. ASSUME NEW i \in Ingesters, EvolveSchema(i), task[i].topic = t
      PROVE  tables'[t].state = "present"
  BY <1>4 DEF EvolveSchema, TypeOK, IsTable, Loads
<1> QED BY <1>1, <1>2, <1>3, <1>4, AppendStep, TablesStep

\* A table that exists before and after a step has kept all of its columns, with
\* their types, and all of its data files.
TableGrows(t) ==
    /\ tables[t].state # "absent" /\ tables'[t].state # "absent" =>
         /\ \A c \in DOMAIN tables[t].columns :
                /\ c \in DOMAIN tables'[t].columns
                /\ tables'[t].columns[c] = tables[t].columns[c]
         /\ \A k \in DOMAIN tables[t].files :
                /\ k \in DOMAIN tables'[t].files
                /\ tables'[t].files[k] = tables[t].files[k]
    /\ tables[t].state = "absent" => tables'[t].files = <<>>

LEMMA TableGrowsStep ==
    ASSUME TypeOK, AbsentIsEmpty, [Next]_vars, NEW t \in Topic
    PROVE  TableGrows(t)
<1> USE DEF TableGrows
<1>1. CASE tables'[t] = tables[t]
  BY <1>1 DEF AbsentIsEmpty, NoTable
<1>2. CASE tables'[t] = NoTable
  BY <1>2 DEF NoTable
<1>3. CASE tables'[t] = [tables[t] EXCEPT !.state = IF Exists(t) THEN "broken" ELSE @]
  BY <1>3 DEF TypeOK, IsTable, AbsentIsEmpty, NoTable
<1>4. ASSUME NEW i \in Ingesters, CreateTable(i), task[i].topic = t
      PROVE  TableGrows(t)
  BY <1>4 DEF CreateTable, Exists, TypeOK
<1>5. ASSUME NEW i \in Ingesters, EvolveSchema(i), task[i].topic = t
      PROVE  TableGrows(t)
  <2>1. /\ tables[t].state = "present" /\ tables'[t].files = tables[t].files
        /\ tables'[t].columns = AddColumns(tables[t].columns, NewColumns(i), Descriptor(i))
    BY <1>5 DEF EvolveSchema, TypeOK, IsTable, Loads
  <2> QED BY <2>1 DEF AddColumns
<1>6. ASSUME NEW i \in Ingesters, CommitAppend(i), task[i].topic = t
      PROVE  TableGrows(t)
  <2>1. /\ tables[t].state = "present" /\ tables'[t].columns = tables[t].columns
        /\ IsExtended(tables[t].files, tables'[t].files, task[i].written)
    BY <1>6, AppendStep
  <2> QED BY <2>1 DEF IsExtended
<1> QED BY <1>1, <1>2, <1>3, <1>4, <1>5, <1>6, TablesStep

\* Neither an ingester nor the operator takes a column or a data file from a table
\* as long as it exists, or gives one to a table that does not.
THEOREM HistoryOnlyGrows == Spec => TablesOnlyGrow
<1>1. Init => AbsentIsEmpty
  BY DEF Init, AbsentIsEmpty
<1>2. TypeOK /\ AbsentIsEmpty /\ [Next]_vars => AbsentIsEmpty'
  BY AbsentIsEmptyStep
<1>3. TypeOK /\ AbsentIsEmpty /\ [Next]_vars => [\A t \in Topic : TableGrows(t)]_tables
  BY TableGrowsStep
<1> QED BY <1>1, <1>2, <1>3, TypeCorrect, PTL DEF Spec, TablesOnlyGrow, TableGrows

-----------------------------------------------------------------------------
(* No dangling reference, when a reset and the ingesters keep out of each      *)
(* other's way.                                                                *)

LEMMA StepRuns ==
    ASSUME NEW i \in Ingesters, Step(i) \/ Crash(i)
    PROVE  Running(i)
BY DEF Step, Crash, Running, Stopped, LoadMcap, DecodePanics, TakeGroup, FinishRun,
   FinishMcap, NamespaceExists, CreateNamespace, TableExists, LoadTable, CreateTable,
   SchemaIsCurrent, EvolveSchema, WriteDataFile, CommitAppend, CatalogRefuses, Refused

LEMMA ResetAloneStep ==
    ASSUME ExclusiveReset, TypeOK, ResetAlone, [Next]_vars
    PROVE  ResetAlone'
<1> SUFFICES ASSUME reset' = "drop_warehouse"
             PROVE  /\ \A i \in Ingesters : ~ Running(i)'
                    /\ \A t \in Topic : tables'[t] = NoTable
  BY DEF ResetAlone
<1>1. CASE DropCatalog
  BY <1>1 DEF DropCatalog, Running
<1>2. CASE reset = "drop_warehouse"
  <2>1. /\ \A i \in Ingesters : ~ Running(i)
        /\ \A t \in Topic : tables[t] = NoTable
    BY <1>2 DEF ResetAlone
  <2>2. \A i \in Ingesters : ~ (Step(i) \/ Crash(i) \/ Start(i))
    BY <1>2, <2>1, StepRuns DEF Start
  <2>3. UNCHANGED <<task, tables>>
    BY <1>2, <2>2 DEF Next, Operator, Upload, DropCatalog, DropWarehouse, InterruptReset, vars
  <2> QED BY <2>1, <2>3 DEF Running
<1>3. DropCatalog \/ reset = "drop_warehouse"
  BY DEF Next, Operator, Upload, DropWarehouse, InterruptReset, vars, Start, Step, Crash,
     LoadMcap, DecodePanics, TakeGroup, FinishRun, FinishMcap, NamespaceExists,
     CreateNamespace, TableExists, LoadTable, CreateTable, SchemaIsCurrent, EvolveSchema,
     WriteDataFile, CommitAppend, CatalogRefuses
<1> QED BY <1>1, <1>2, <1>3

\* No step but DropWarehouse removes an object.
LEMMA ObjectsStay ==
    ASSUME TypeOK, [Next]_vars, ~ DropWarehouse, NEW t \in Topic
    PROVE  DOMAIN warehouse[t] \subseteq DOMAIN warehouse'[t]
<1>1. ASSUME NEW i \in Ingesters, WriteDataFile(i), task[i].topic = t
      PROVE  DOMAIN warehouse[t] \subseteq DOMAIN warehouse'[t]
  BY <1>1 DEF WriteDataFile, PutObject, TypeOK
<1> QED BY <1>1, WarehouseStep

LEMMA WrittenBeforeAppendStep ==
    ASSUME TypeOK, ResetAlone, WrittenBeforeAppend, [Next]_vars
    PROVE  WrittenBeforeAppend'
<1> SUFFICES ASSUME NEW i \in Ingesters, task'[i].pc = "append"
             PROVE  DataFilePath(task'[i].mcap) \in DOMAIN warehouse'[task'[i].topic]
  BY DEF WrittenBeforeAppend, DataFilePath
<1>1. CASE WriteDataFile(i)
  <2>1. /\ task'[i].mcap = task[i].mcap /\ task'[i].topic = task[i].topic
        /\ task[i].topic \in Topic
    BY <1>1, DescriptorType DEF WriteDataFile, InCommitTopicGroup, TypeOK, IsTask
  <2> QED BY <1>1, <2>1 DEF WriteDataFile, PutObject, TypeOK
<1>2. CASE task'[i] = task[i]
  <2>1. task[i].topic \in Topic
    BY <1>2, DescriptorType DEF InCommitTopicGroup
  <2>2. ~ DropWarehouse
    BY <1>2 DEF DropWarehouse, ResetAlone, Running, Stopped
  <2> QED BY <1>2, <2>1, <2>2, ObjectsStay DEF WrittenBeforeAppend
<1> QED BY <1>1, <1>2, TaskStep

LEMMA NoDanglingReferenceStep ==
    ASSUME TypeOK, ResetAlone, AppendsOwnFile, WrittenBeforeAppend, NoDanglingReference,
           [Next]_vars
    PROVE  NoDanglingReference'
<1> SUFFICES ASSUME NEW t \in Topic, NEW k \in DOMAIN tables'[t].files
             PROVE  DataFilePath(tables'[t].files[k].mcap) \in DOMAIN warehouse'[t]
  BY DEF NoDanglingReference, DataFilePath
<1>1. ASSUME NEW i \in Ingesters, CommitAppend(i), task[i].topic = t
      PROVE  DataFilePath(tables'[t].files[k].mcap) \in DOMAIN warehouse[t]
  <2>1. /\ task[i].pc = "append"
        /\ IsExtended(tables[t].files, tables'[t].files, task[i].written)
    BY <1>1, AppendStep
  <2>2. /\ task[i].written.mcap = task[i].mcap
        /\ DataFilePath(task[i].mcap) \in DOMAIN warehouse[t]
    BY <1>1, <2>1 DEF AppendsOwnFile, WrittenBeforeAppend
  <2> QED BY <2>1, <2>2 DEF IsExtended, NoDanglingReference
<1>2. ASSUME tables'[t].files \in {tables[t].files, <<>>}
      PROVE  DataFilePath(tables'[t].files[k].mcap) \in DOMAIN warehouse[t]
  <2>1. tables'[t].files = tables[t].files
    BY <1>2, EmptyIsSeq
  <2> QED BY <2>1 DEF NoDanglingReference
<1>3. DataFilePath(tables'[t].files[k].mcap) \in DOMAIN warehouse[t]
  <2>1. CASE \E i \in Ingesters : CommitAppend(i) /\ task[i].topic = t
    BY <1>1, <2>1
  <2>2. CASE ~ \E i \in Ingesters : CommitAppend(i) /\ task[i].topic = t
    BY <1>2, <2>2, OtherTableStep
  <2> QED BY <2>1, <2>2
<1>4. CASE DropWarehouse
  <2>1. tables[t] = NoTable
    BY <1>4 DEF DropWarehouse, ResetAlone
  <2>2. tables'[t].files = <<>>
    BY <1>4, <2>1 DEF DropWarehouse, NoTable, TypeOK
  <2> QED BY <2>2, EmptyIsSeq
<1> QED BY <1>3, <1>4, ObjectsStay

\* What the two halves of a reset and the two of a commit keep up together, as long
\* as reset-lake and the ingesters exclude each other.
THEOREM CommitCorrect == ExclusiveReset => (Spec => []CommitInvariant)
<1> SUFFICES ASSUME ExclusiveReset PROVE Spec => []CommitInvariant
  OBVIOUS
<1>1. Init => CommitInvariant
  BY EmptyIsSeq DEF Init, CommitInvariant, AppendsOwnFile, WrittenBeforeAppend, ResetAlone,
     AbsentIsEmpty, NoDanglingReference, Idle, NoTable
<1>2. TypeOK /\ CommitInvariant /\ [Next]_vars => CommitInvariant'
  BY AppendsOwnFileStep, WrittenBeforeAppendStep, ResetAloneStep, AbsentIsEmptyStep,
     NoDanglingReferenceStep DEF CommitInvariant
<1> QED BY <1>1, <1>2, TypeCorrect, PTL DEF Spec

\* Every data file a table references is in the warehouse, as long as reset-lake
\* and the ingesters exclude each other: through crashes between the object and
\* the commit, concurrent ingesters and resets that stop half way.
THEOREM NothingDangles == ExclusiveReset => (Spec => []NoDanglingReference)
<1>1. CommitInvariant => NoDanglingReference
  BY DEF CommitInvariant
<1> QED BY <1>1, CommitCorrect, PTL
=============================================================================
