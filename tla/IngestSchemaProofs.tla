------------------------- MODULE IngestSchemaProofs -------------------------
(***************************************************************************)
(* Theorems about the schemas of the ingest's tables and the data files    *)
(* that are read with them, for any number of ingesters and any drift of   *)
(* the message types: every field is found where a reader looks for it.    *)
(* Then what the ingest promises to those outside: a run that reports      *)
(* success has committed all it listed, and the lake that a query sees is  *)
(* the one of Lake.                                                        *)
(***************************************************************************)
EXTENDS IngestProofs

-----------------------------------------------------------------------------
(* Columns that grow *)

LEMMA StandardColumn ==
    ASSUME NEW c \in standard_columns
    PROVE  c = BaseColumn(c.field) /\ c.field \in StandardName
BY DEF standard_columns, BaseColumn

\* The column of a field is the one of its name or a sibling of it, and never both.
LEMMA ColumnCases ==
    ASSUME NEW d, IsDescriptor(d), NEW n \in SupportedFields(d), NEW cols
    PROVE  LET type == proto_field_to_arrow(d[n])
               base == BaseColumn(n)
               c    == ColumnOf(n, d, cols)
           IN  /\ type \in [elem : ScalarType, list : {"none", "item"}]
               /\ base.field = n /\ base.as = NoSuffix
               /\ c.field = n
               /\ \/ /\ c = base
                     /\ base \in DOMAIN cols => check_type_compatibility(cols[base], type)
                  \/ /\ c = SiblingColumn(n, type) /\ c.as = type_suffix(type)
                     /\ c.as # NoSuffix /\ c # base
                     /\ base \in DOMAIN cols /\ ~ check_type_compatibility(cols[base], type)
<1> DEFINE type == proto_field_to_arrow(d[n])
<1>1. type \in [elem : ScalarType, list : {"none", "item"}]
  BY ArrowTypeOfField
<1>2. LET s == SiblingColumn(n, type)
      IN  s.field = n /\ s.as = type_suffix(type) /\ s.as # NoSuffix
  BY <1>1 DEF SiblingColumn, type_suffix, NoSuffix, ScalarType
<1>3. BaseColumn(n).field = n /\ BaseColumn(n).as = NoSuffix
  BY DEF BaseColumn
<1> QED BY <1>1, <1>2, <1>3 DEF ColumnOf, map_column_name

\* A field that has a column keeps it, however the schema grows.
LEMMA ColumnStays ==
    ASSUME NEW d, NEW n, NEW cols, NEW all, IsPart(cols, all),
           ColumnOf(n, d, cols) \in DOMAIN cols
    PROVE  ColumnOf(n, d, all) = ColumnOf(n, d, cols)
<1>1. BaseColumn(n) \in DOMAIN cols
  BY DEF ColumnOf, map_column_name
<1>2. BaseColumn(n) \in DOMAIN all /\ all[BaseColumn(n)] = cols[BaseColumn(n)]
  BY <1>1 DEF IsPart
<1> QED BY <1>1, <1>2 DEF ColumnOf, map_column_name

LEMMA ColumnsStay ==
    ASSUME NEW d, NEW cols, NEW all, IsPart(cols, all), HasColumns(d, cols)
    PROVE  HasColumns(d, all) /\ FieldColumns(d, all) = FieldColumns(d, cols)
<1>1. \A n \in SupportedFields(d) : /\ ColumnOf(n, d, all) = ColumnOf(n, d, cols)
                                    /\ ColumnOf(n, d, cols) \in DOMAIN cols
  BY ColumnStays DEF HasColumns
<1> QED BY <1>1 DEF HasColumns, FieldColumns, IsPart

\* The name a table gives to the element of a list makes no difference.
LEMMA TableTypeCompatible ==
    ASSUME NEW a, NEW type \in [elem : ScalarType, list : {"none", "item"}]
    PROVE  check_type_compatibility(a, TableType(type)) <=> check_type_compatibility(a, type)
<1>1. TableType(type) = [elem |-> type.elem,
                         list |-> IF type.list = "none" THEN "none" ELSE "element"]
  BY DEF TableType
<1>2. type = [elem |-> type.elem, list |-> type.list] /\ type.list \in {"none", "item"}
  OBVIOUS
<1> QED BY <1>1, <1>2 DEF check_type_compatibility

\* Types of one suffix are compatible.
LEMMA SuffixDecides ==
    ASSUME NEW a \in DataType, NEW type \in [elem : ScalarType, list : {"none", "item"}],
           type_suffix(a) = type_suffix(type)
    PROVE  check_type_compatibility(a, type)
<1>1. a = [elem |-> a.elem, list |-> a.list] /\ type = [elem |-> type.elem, list |-> type.list]
  BY DEF DataType
<1>2. a.elem = type.elem /\ (a.list # "none") = (type.list # "none")
  BY DEF type_suffix
<1> QED BY <1>1, <1>2 DEF check_type_compatibility

-----------------------------------------------------------------------------
(* What build_arrow_schema and evolve_table_schema make of a schema *)

LEMMA NewSchemaWellFormed ==
    ASSUME NEW d, IsDescriptor(d)
    PROVE  WellFormed(build_arrow_schema(d))
<1> DEFINE columns == build_arrow_schema(d)
<1>1. ASSUME NEW n \in StandardName
      PROVE  BaseColumn(n) \in DOMAIN columns /\ columns[BaseColumn(n)] = StandardType(n)
  BY DEF build_arrow_schema, standard_columns, BaseColumn
<1>2. ASSUME NEW c \in DOMAIN columns PROVE c.as = NoSuffix
  BY DEF build_arrow_schema, standard_columns, BaseColumn
<1> QED BY <1>1, <1>2 DEF WellFormed

LEMMA WellFormedHasStandard ==
    ASSUME NEW columns, WellFormed(columns)
    PROVE  standard_columns \subseteq DOMAIN columns
BY DEF WellFormed, standard_columns

\* The columns that are added, judged on a part of the table.
LEMMA AddedColumn ==
    ASSUME NEW d, IsDescriptor(d), NEW part, NEW cols, IsPart(part, cols),
           Additions(d, part) \cap DOMAIN cols = {},
           NEW c \in Additions(d, part)
    PROVE  LET new == AddColumns(cols, Additions(d, part), d)
               type == proto_field_to_arrow(d[c.field])
           IN  /\ c \in DOMAIN new /\ new[c] = TableType(type)
               /\ c.field \in SupportedFields(d)
               /\ c = ColumnOf(c.field, d, part)
<1>1. PICK n \in SupportedFields(d) : c = ColumnOf(n, d, part)
  BY DEF Additions
<1>2. c.field = n
  BY <1>1, ColumnCases
<1>3. c \notin DOMAIN cols
  OBVIOUS
<1> QED BY <1>1, <1>2, <1>3 DEF AddColumns

LEMMA AddColumnsKeeps ==
    ASSUME NEW d, NEW cols, NEW added
    PROVE  IsPart(cols, AddColumns(cols, added, d))
BY DEF IsPart, AddColumns

LEMMA AddColumnsWellFormed ==
    ASSUME NEW d, IsDescriptor(d), NEW part, NEW cols, IsPart(part, cols), WellFormed(cols),
           Additions(d, part) \cap DOMAIN cols = {}
    PROVE  WellFormed(AddColumns(cols, Additions(d, part), d))
<1> DEFINE new == AddColumns(cols, Additions(d, part), d)
<1>1. IsPart(cols, new)
  BY AddColumnsKeeps
<1>2. DOMAIN new = DOMAIN cols \cup Additions(d, part)
  BY DEF AddColumns
<1>3. ASSUME NEW c \in Additions(d, part), c.as # NoSuffix
      PROVE  /\ type_suffix(new[c]) = c.as
             /\ BaseColumn(c.field) \in DOMAIN new
             /\ ~ check_type_compatibility(new[BaseColumn(c.field)], new[c])
  <2> DEFINE n == c.field
             type == proto_field_to_arrow(d[n])
             base == BaseColumn(n)
  <2>1. new[c] = TableType(type) /\ n \in SupportedFields(d) /\ c = ColumnOf(n, d, part)
    BY AddedColumn
  <2>2. /\ type \in [elem : ScalarType, list : {"none", "item"}]
        /\ c.as = type_suffix(type)
        /\ base \in DOMAIN part /\ ~ check_type_compatibility(part[base], type)
    BY <1>3, <2>1, ColumnCases
  <2>3. base \in DOMAIN new /\ new[base] = part[base]
    BY <1>1, <2>2 DEF IsPart
  <2> HIDE DEF new, type, base
  <2> QED BY <2>1, <2>2, <2>3, TableTypeOfField, TableTypeCompatible DEF base
<1>4. ASSUME NEW c \in DOMAIN cols, c.as # NoSuffix
      PROVE  /\ type_suffix(new[c]) = c.as
             /\ BaseColumn(c.field) \in DOMAIN new
             /\ ~ check_type_compatibility(new[BaseColumn(c.field)], new[c])
  BY <1>1, <1>4 DEF IsPart, WellFormed
<1>5. \A n \in StandardName : /\ BaseColumn(n) \in DOMAIN new
                              /\ new[BaseColumn(n)] = StandardType(n)
  BY <1>1 DEF IsPart, WellFormed
<1> HIDE DEF new
<1> QED BY <1>2, <1>3, <1>4, <1>5 DEF WellFormed, new

LEMMA AddColumnsHasAll ==
    ASSUME NEW d, IsDescriptor(d), NEW part, NEW cols, IsPart(part, cols),
           Additions(d, part) \cap DOMAIN cols = {}
    PROVE  HasColumns(d, AddColumns(cols, Additions(d, part), d))
<1> DEFINE new == AddColumns(cols, Additions(d, part), d)
<1>1. IsPart(part, new)
  BY AddColumnsKeeps DEF IsPart
<1> SUFFICES ASSUME NEW n \in SupportedFields(d)
             PROVE  ColumnOf(n, d, new) \in DOMAIN new
  BY DEF HasColumns
<1> DEFINE c == ColumnOf(n, d, part)
           type == proto_field_to_arrow(d[n])
           base == BaseColumn(n)
<1>2. CASE c \in DOMAIN part
  BY <1>1, <1>2, ColumnStays DEF IsPart
<1>3. CASE c \notin DOMAIN part
  <2>1. c \in Additions(d, part)
    BY <1>3 DEF Additions
  <2>2. c.field = n
    BY ColumnCases
  <2>3. c \in DOMAIN new /\ new[c] = TableType(type)
    BY <2>1, <2>2, AddedColumn
  <2>4. CASE c = base
    <3>1. check_type_compatibility(new[base], type)
      BY <2>3, <2>4, ColumnCases, TableTypeOfField
    <3>2. ColumnOf(n, d, new) = base
      BY <3>1 DEF ColumnOf, map_column_name
    <3> QED BY <2>3, <2>4, <3>2
  <2>5. CASE c # base
    <3>1. /\ c = SiblingColumn(n, type)
          /\ base \in DOMAIN part /\ ~ check_type_compatibility(part[base], type)
      BY <2>5, ColumnCases
    <3>2. base \in DOMAIN new /\ ~ check_type_compatibility(new[base], type)
      BY <1>1, <3>1 DEF IsPart
    <3>3. ColumnOf(n, d, new) = c
      BY <3>1, <3>2 DEF ColumnOf, map_column_name
    <3> QED BY <2>3, <3>3
  <2> QED BY <2>4, <2>5
<1> QED BY <1>2, <1>3

-----------------------------------------------------------------------------
(* What build_record_batch makes of a group *)

LEMMA BatchFits ==
    ASSUME NEW d, NEW cols, HasColumns(d, cols), standard_columns \subseteq DOMAIN cols
    PROVE  CellsFit(build_record_batch(cols, d), d, cols)
<1> DEFINE cells == build_record_batch(cols, d)
<1>1. DOMAIN cells = DOMAIN cols /\ FieldColumns(d, cols) \subseteq DOMAIN cols
  BY DEF build_record_batch, HasColumns, FieldColumns
<1>2. ASSUME NEW c \in DOMAIN cells
      PROVE  /\ c \in standard_columns => cells[c] = "standard"
             /\ c \in FieldColumns(d, cols) => cells[c] = "field"
             /\ c \notin standard_columns \cup FieldColumns(d, cols) => cells[c] = "null"
  BY <1>1 DEF build_record_batch, FieldColumns
<1> QED BY <1>1, <1>2 DEF CellsFit

\* Cells that fit go on to fit when the schema grows.
LEMMA CellsStay ==
    ASSUME NEW d, NEW cols, NEW all, IsPart(cols, all), NEW cells, CellsFit(cells, d, cols)
    PROVE  CellsFit(cells, d, all)
BY ColumnsStay DEF CellsFit

-----------------------------------------------------------------------------
(* What a step makes of an ingester inside a commit, and of its table *)

LEMMA CommitStep ==
    ASSUME TypeOK, [Next]_vars, NEW i \in Ingesters,
           task'[i].pc \in {"evolve", "write", "append"}
    PROVE  \/ task'[i] = task[i]
           \/ LoadTable(i) \/ CreateTable(i)
           \/ SchemaIsCurrent(i) \/ EvolveSchema(i) \/ WriteDataFile(i)
<1> USE DEF vars, TypeOK
<1>1. ASSUME NEW j \in Ingesters, Start(j) PROVE task'[i] = task[i]
  BY <1>1 DEF Start, Idle
<1>2. ASSUME NEW j \in Ingesters, NEW pc \in Stopped, Exit(j, pc) PROVE task'[i] = task[i]
  BY <1>2 DEF Exit, Idle, Stopped
<1>3. ASSUME NEW j \in Ingesters, NEW o \in Mcap, LoadMcap(j, o) PROVE task'[i] = task[i]
  BY <1>3 DEF LoadMcap, IsTask
<1>4. ASSUME NEW j \in Ingesters, NEW t \in Topic, TakeGroup(j, t) PROVE task'[i] = task[i]
  BY <1>4 DEF TakeGroup, IsTask
<1>5. ASSUME NEW j \in Ingesters, FinishMcap(j) PROVE task'[i] = task[i]
  BY <1>5 DEF FinishMcap, IsTask
<1>6. ASSUME NEW j \in Ingesters, NEW pc \in {"table", "create_namespace", "load", "create", "group"},
             Goto(j, pc)
      PROVE  task'[i] = task[i]
  BY <1>6 DEF Goto, IsTask
<1>7. ASSUME NEW j \in Ingesters,
             NamespaceExists(j) \/ CreateNamespace(j) \/ TableExists(j) \/ CommitAppend(j)
      PROVE  task'[i] = task[i]
  BY <1>6, <1>7 DEF NamespaceExists, CreateNamespace, TableExists, CommitAppend
<1>8. ASSUME NEW j \in Ingesters, j # i,
             LoadTable(j) \/ CreateTable(j) \/ SchemaIsCurrent(j) \/ EvolveSchema(j)
               \/ WriteDataFile(j)
      PROVE  task'[i] = task[i]
  BY <1>8 DEF LoadTable, CreateTable, SchemaIsCurrent, Goto, EvolveSchema, WriteDataFile
<1>9. ASSUME NEW j \in Ingesters,
             \/ \E o \in Mcap : DecodePanics(j, o)
             \/ FinishRun(j) \/ CatalogRefuses(j) \/ Crash(j)
      PROVE  task'[i] = task[i]
  BY <1>2, <1>9 DEF DecodePanics, FinishRun, CatalogRefuses, Crash, Stopped
<1>10. CASE Operator \/ UNCHANGED vars \/ \E o \in Mcap : Upload(o)
  BY <1>10 DEF Operator, DropCatalog, DropWarehouse, InterruptReset, Upload
<1> QED
  BY <1>1, <1>3, <1>4, <1>5, <1>7, <1>8, <1>9, <1>10 DEF Next, Step

\* What the steps inside a commit do to the ingester that takes them.
LEMMA CommitTask ==
    ASSUME TypeOK, NEW i \in Ingesters,
           LoadTable(i) \/ CreateTable(i) \/ SchemaIsCurrent(i) \/ EvolveSchema(i)
             \/ WriteDataFile(i)
    PROVE  /\ task[i].pc \in InCommitTopicGroup
           /\ task'[i].mcap = task[i].mcap /\ task'[i].topic = task[i].topic
           /\ LoadTable(i) \/ CreateTable(i) => task'[i].pc = "evolve"
           /\ SchemaIsCurrent(i) \/ EvolveSchema(i) => task[i].pc = "evolve" /\ task'[i].pc = "write"
           /\ WriteDataFile(i) => task[i].pc = "write" /\ task'[i].pc = "append"
           /\ SchemaIsCurrent(i) \/ WriteDataFile(i) =>
                  task'[i].columns = task[i].columns /\ tables' = tables
           /\ LoadTable(i) => /\ task'[i].columns = tables[task[i].topic].columns
                              /\ Loads(task[i].topic) /\ tables' = tables
           /\ CreateTable(i) => task'[i].columns = build_arrow_schema(Descriptor(i))
<1>1. CASE LoadTable(i)
  BY <1>1 DEF LoadTable, TypeOK, IsTask, InCommitTopicGroup, CreateTable, SchemaIsCurrent,
       EvolveSchema, WriteDataFile
<1>2. CASE CreateTable(i)
  BY <1>2 DEF LoadTable, TypeOK, IsTask, InCommitTopicGroup, CreateTable, SchemaIsCurrent,
       EvolveSchema, WriteDataFile
<1>3. CASE SchemaIsCurrent(i)
  BY <1>3 DEF LoadTable, TypeOK, IsTask, InCommitTopicGroup, CreateTable, SchemaIsCurrent,
       EvolveSchema, WriteDataFile, Goto
<1>4. CASE EvolveSchema(i)
  BY <1>4 DEF LoadTable, TypeOK, IsTask, InCommitTopicGroup, CreateTable, SchemaIsCurrent,
       EvolveSchema, WriteDataFile
<1>5. CASE WriteDataFile(i)
  BY <1>5 DEF LoadTable, TypeOK, IsTask, InCommitTopicGroup, CreateTable, SchemaIsCurrent,
       EvolveSchema, WriteDataFile
<1> QED BY <1>1, <1>2, <1>3, <1>4, <1>5

\* A table that exists keeps existing and its columns only grow, unless the
\* catalog is dropped.
LEMMA TableStays ==
    ASSUME TypeOK, [Next]_vars, ~ DropCatalog, NEW t \in Topic, Exists(t)
    PROVE  /\ tables'[t].state # "absent"
           /\ IsPart(tables[t].columns, tables'[t].columns)
<1>1. CASE tables'[t] = tables[t]
  BY <1>1 DEF IsPart, Exists
<1>2. CASE tables'[t] = [tables[t] EXCEPT !.state = IF Exists(t) THEN "broken" ELSE @]
  BY <1>2 DEF TypeOK, IsTable, IsPart
<1>3. ASSUME NEW i \in Ingesters, CreateTable(i), task[i].topic = t
      PROVE  FALSE
  BY <1>3 DEF CreateTable
<1>4. ASSUME NEW i \in Ingesters, EvolveSchema(i), task[i].topic = t
      PROVE  tables'[t].state # "absent" /\ IsPart(tables[t].columns, tables'[t].columns)
  BY <1>4, AddColumnsKeeps DEF EvolveSchema, TypeOK, IsTable, Loads
<1>5. ASSUME NEW i \in Ingesters, CommitAppend(i), task[i].topic = t
      PROVE  tables'[t].state # "absent" /\ IsPart(tables[t].columns, tables'[t].columns)
  BY <1>5, AppendStep DEF IsPart
<1> QED BY <1>1, <1>2, <1>3, <1>4, <1>5, TablesStep

\* While an ingester runs, nobody begins a reset.
LEMMA NoResetUnderRun ==
    ASSUME ExclusiveReset, ResetAlone, NEW i \in Ingesters, Running(i)
    PROVE  ~ DropCatalog /\ ~ DropWarehouse
BY DEF ResetAlone, DropCatalog, DropWarehouse

-----------------------------------------------------------------------------
(* The invariant is preserved *)

\* What EvolveSchema has before it: a part of the columns of its table.
LEMMA EvolveContext ==
    ASSUME TypeOK, KnowsColumns, NEW i \in Ingesters, EvolveSchema(i),
           NEW t, t = task[i].topic
    PROVE  LET cols == tables[t].columns
               part == task[i].columns
               d    == Descriptor(i)
               new  == AddColumns(cols, Additions(d, part), d)
           IN  /\ t \in Topic /\ IsDescriptor(d) /\ IsColumns(cols)
               /\ IsPart(part, cols) /\ standard_columns \subseteq DOMAIN part
               /\ Additions(d, part) \cap DOMAIN cols = {}
               /\ tables'[t].state = "present" /\ tables'[t].columns = new
               /\ tables'[t].files = tables[t].files
               /\ task'[i].columns = new
<1>1. task[i].pc = "evolve" /\ task[i].pc \in InCommitTopicGroup
  BY DEF EvolveSchema, InCommitTopicGroup
<1>2. t \in Topic /\ IsDescriptor(Descriptor(i))
  BY <1>1, DescriptorType
<1>3. IsPart(task[i].columns, tables[t].columns) /\ standard_columns \subseteq DOMAIN task[i].columns
  BY <1>1 DEF KnowsColumns
<1>4. IsColumns(tables[t].columns)
  BY <1>2 DEF TypeOK, IsTable
<1> QED BY <1>1, <1>2, <1>3, <1>4 DEF EvolveSchema, NewColumns, TypeOK, IsTable, IsTask, Loads

LEMMA SchemaWellFormedStep ==
    ASSUME TypeOK, KnowsColumns, SchemaWellFormed, [Next]_vars
    PROVE  SchemaWellFormed'
<1> SUFFICES ASSUME NEW t \in Topic, tables'[t].state # "absent"
             PROVE  WellFormed(tables'[t].columns)
  BY DEF SchemaWellFormed
<1>1. CASE tables'[t] = tables[t]
  BY <1>1 DEF SchemaWellFormed
<1>2. CASE tables'[t] = [tables[t] EXCEPT !.state = IF Exists(t) THEN "broken" ELSE @]
  BY <1>2 DEF TypeOK, IsTable, SchemaWellFormed, Exists
<1>3. ASSUME NEW i \in Ingesters, CreateTable(i), task[i].topic = t
      PROVE  WellFormed(tables'[t].columns)
  <2>1. IsDescriptor(Descriptor(i))
    BY <1>3, DescriptorType DEF CreateTable, InCommitTopicGroup
  <2>2. tables'[t].columns = build_arrow_schema(Descriptor(i))
    BY <1>3 DEF CreateTable, TypeOK
  <2> QED BY <2>1, <2>2, NewSchemaWellFormed
<1>4. ASSUME NEW i \in Ingesters, EvolveSchema(i), task[i].topic = t
      PROVE  WellFormed(tables'[t].columns)
  <2>1. WellFormed(tables[t].columns)
    BY <1>4 DEF SchemaWellFormed, EvolveSchema, Loads
  <2> QED BY <1>4, <2>1, EvolveContext, AddColumnsWellFormed
<1>5. ASSUME NEW i \in Ingesters, CommitAppend(i), task[i].topic = t
      PROVE  WellFormed(tables'[t].columns)
  BY <1>5, AppendStep DEF SchemaWellFormed
<1>6. CASE tables'[t] = NoTable
  BY <1>6 DEF NoTable
<1> QED BY <1>1, <1>2, <1>3, <1>4, <1>5, <1>6, TablesStep

LEMMA KnowsColumnsStep ==
    ASSUME ExclusiveReset, ResetAlone, TypeOK, SchemaWellFormed, KnowsColumns, [Next]_vars
    PROVE  KnowsColumns'
<1> SUFFICES ASSUME NEW i \in Ingesters, task'[i].pc \in {"evolve", "write", "append"}
             PROVE  /\ tables'[task'[i].topic].state # "absent"
                    /\ standard_columns \subseteq DOMAIN task'[i].columns
                    /\ IsPart(task'[i].columns, tables'[task'[i].topic].columns)
  BY DEF KnowsColumns, Exists
<1>1. CASE task'[i].columns = task[i].columns /\ task'[i].topic = task[i].topic
             /\ task[i].pc \in {"evolve", "write", "append"}
  <2> DEFINE t == task[i].topic
  <2>1. t \in Topic /\ Running(i)
    BY <1>1, DescriptorType DEF InCommitTopicGroup, Running, Stopped
  <2>2. /\ Exists(t) /\ standard_columns \subseteq DOMAIN task[i].columns
        /\ IsPart(task[i].columns, tables[t].columns)
    BY <1>1 DEF KnowsColumns
  <2>3. ~ DropCatalog
    BY <2>1, NoResetUnderRun
  <2>4. tables'[t].state # "absent" /\ IsPart(tables[t].columns, tables'[t].columns)
    BY <2>1, <2>2, <2>3, TableStays
  <2> QED BY <1>1, <2>2, <2>4 DEF IsPart
<1>2. CASE task'[i] = task[i] \/ SchemaIsCurrent(i) \/ WriteDataFile(i)
  BY <1>1, <1>2, CommitTask
<1>3. CASE LoadTable(i)
  <2>1. task[i].topic \in Topic
    BY <1>3, CommitTask, DescriptorType
  <2>2. tables[task[i].topic].state = "present" /\ WellFormed(tables[task[i].topic].columns)
    BY <1>3, <2>1 DEF LoadTable, Loads, SchemaWellFormed
  <2> QED BY <1>3, <2>2, CommitTask, WellFormedHasStandard DEF IsPart
<1>4. CASE CreateTable(i)
  <2>1. task[i].topic \in Topic /\ IsDescriptor(Descriptor(i))
    BY <1>4, CommitTask, DescriptorType
  <2>2. /\ tables'[task[i].topic].state = "present"
        /\ tables'[task[i].topic].columns = task'[i].columns
        /\ task'[i].columns = build_arrow_schema(Descriptor(i))
    BY <1>4, <2>1, CommitTask DEF CreateTable, TypeOK
  <2> QED
    BY <1>4, <2>1, <2>2, CommitTask, NewSchemaWellFormed, WellFormedHasStandard DEF IsPart
<1>5. CASE EvolveSchema(i)
  <2> DEFINE t == task[i].topic
  <2>1. /\ standard_columns \subseteq DOMAIN task[i].columns
        /\ IsPart(task[i].columns, tables[t].columns)
        /\ tables'[t].state = "present" /\ tables'[t].columns = task'[i].columns
        /\ task'[i].columns = AddColumns(tables[t].columns,
                                         Additions(Descriptor(i), task[i].columns), Descriptor(i))
    BY <1>5, EvolveContext
  <2>2. IsPart(tables[t].columns, task'[i].columns)
    BY <2>1, AddColumnsKeeps
  <2> QED BY <1>5, <2>1, <2>2, CommitTask DEF IsPart
<1> QED BY <1>2, <1>3, <1>4, <1>5, CommitStep

LEMMA EvolvedBeforeWriteStep ==
    ASSUME TypeOK, KnowsColumns, EvolvedBeforeWrite, [Next]_vars
    PROVE  EvolvedBeforeWrite'
<1> SUFFICES ASSUME NEW i \in Ingesters, task'[i].pc \in {"write", "append"}
             PROVE  HasColumns(Groups[task'[i].mcap][task'[i].topic], task'[i].columns)
  BY DEF EvolvedBeforeWrite, Descriptor
<1>1. CASE task'[i] = task[i]
  BY <1>1 DEF EvolvedBeforeWrite, Descriptor
<1>2. CASE WriteDataFile(i)
  BY <1>2, CommitTask DEF EvolvedBeforeWrite, Descriptor
<1>3. CASE SchemaIsCurrent(i)
  <2>1. HasColumns(Descriptor(i), task[i].columns)
    BY <1>3 DEF SchemaIsCurrent, NewColumns, Additions, HasColumns
  <2> QED BY <1>3, <2>1, CommitTask DEF Descriptor
<1>4. CASE EvolveSchema(i)
  <2>1. HasColumns(Descriptor(i), task'[i].columns)
    BY <1>4, EvolveContext, AddColumnsHasAll
  <2> QED BY <1>4, <2>1, CommitTask DEF Descriptor
<1>5. CASE LoadTable(i) \/ CreateTable(i)
  BY <1>5, CommitTask
<1> QED BY <1>1, <1>2, <1>3, <1>4, <1>5, CommitStep

\* The file that WriteDataFile writes fits its table.
LEMMA WriteFits ==
    ASSUME TypeOK, KnowsColumns, EvolvedBeforeWrite, NEW i \in Ingesters, WriteDataFile(i)
    PROVE  LET t == task[i].topic
               o == task[i].mcap
           IN  /\ t \in Topic /\ o \in Mcap /\ Exists(t) /\ tables' = tables
               /\ DataFilePath(o) \in DOMAIN warehouse'[t]
               /\ FileFits(warehouse'[t][DataFilePath(o)], o, t, tables[t].columns)
               /\ task'[i].mcap = o /\ task'[i].topic = t
               /\ FileFits(task'[i].written, o, t, tables[t].columns)
               /\ \A d \in DOMAIN warehouse[t] :
                    d # DataFilePath(o) => warehouse'[t][d] = warehouse[t][d]
<1> DEFINE t == task[i].topic
           o == task[i].mcap
           d == Groups[o][t]
           cells == build_record_batch(task[i].columns, d)
           file == [mcap |-> o, cells |-> cells]
<1>1. /\ t \in Topic /\ o \in Mcap /\ t \in DOMAIN Groups[o]
      /\ task[i].pc = "write" /\ task'[i].mcap = o /\ task'[i].topic = t /\ tables' = tables
  BY CommitTask, DescriptorType
<1>2. /\ Exists(t) /\ standard_columns \subseteq DOMAIN task[i].columns
      /\ IsPart(task[i].columns, tables[t].columns)
      /\ HasColumns(d, task[i].columns)
  BY <1>1 DEF KnowsColumns, EvolvedBeforeWrite, Descriptor
<1>3. CellsFit(cells, d, tables[t].columns)
  <2> HIDE DEF d
  <2> QED BY <1>2, BatchFits, CellsStay
<1>4. FileFits(file, o, t, tables[t].columns)
  <2> HIDE DEF o, t, cells
  <2> QED BY <1>1, <1>3 DEF FileFits
<1>5. /\ task'[i].written = file
      /\ warehouse'[t] = PutObject(warehouse[t], DataFilePath(o), file)
  BY <1>1 DEF WriteDataFile, Descriptor, TypeOK, IsTask
<1> HIDE DEF file, o, t
<1>6. /\ DataFilePath(o) \in DOMAIN warehouse'[t]
      /\ warehouse'[t][DataFilePath(o)] = file
      /\ \A p \in DOMAIN warehouse[t] : p # DataFilePath(o) => warehouse'[t][p] = warehouse[t][p]
  BY <1>5 DEF PutObject
<1> QED BY <1>1, <1>2, <1>4, <1>5, <1>6 DEF o, t

\* An object that fits goes on to fit, also when it is written again.
LEMMA ObjectFitsStep ==
    ASSUME DistinctNames, TypeOK, KnowsColumns, EvolvedBeforeWrite, [Next]_vars,
           ~ DropCatalog, ~ DropWarehouse,
           NEW t \in Topic, Exists(t), NEW o \in Mcap, DataFilePath(o) \in DOMAIN warehouse[t],
           ObjectFits(o, t)
    PROVE  FileFits(warehouse'[t][DataFilePath(o)], o, t, tables'[t].columns)
<1> DEFINE path == DataFilePath(o)
<1>1. IsPart(tables[t].columns, tables'[t].columns)
  BY TableStays
<1>2. CASE warehouse'[t] = warehouse[t]
  BY <1>1, <1>2, CellsStay DEF FileFits, ObjectFits
<1>3. ASSUME NEW i \in Ingesters, WriteDataFile(i), task[i].topic = t
      PROVE  FileFits(warehouse'[t][path], o, t, tables'[t].columns)
  <2>1. CASE path = DataFilePath(task[i].mcap)
    <3>1. task[i].mcap = o
      BY <1>3, <2>1, WriteFits DEF DistinctNames, DataFilePath
    <3> QED BY <1>3, <3>1, WriteFits
  <2>2. CASE path # DataFilePath(task[i].mcap)
    BY <1>3, <2>2, WriteFits DEF ObjectFits
  <2> QED BY <2>1, <2>2
<1> QED BY <1>2, <1>3, WarehouseStep

\* What a step makes of a table with files that is not appended to.
LEMMA HistoryStays ==
    ASSUME ExclusiveReset, TypeOK, AbsentIsEmpty, ResetAlone, [Next]_vars,
           NEW t \in Topic, NEW k \in DOMAIN tables'[t].files,
           ~ \E i \in Ingesters : CommitAppend(i) /\ task[i].topic = t
    PROVE  /\ ~ DropCatalog /\ ~ DropWarehouse
           /\ k \in DOMAIN tables[t].files /\ tables'[t].files[k] = tables[t].files[k]
           /\ tables[t].files[k].mcap \in Mcap
           /\ Exists(t) /\ IsPart(tables[t].columns, tables'[t].columns)
<1>1. tables'[t].files = tables[t].files
  BY OtherTableStep, EmptyIsSeq
<1>2. Exists(t)
  BY <1>1, EmptyIsSeq DEF AbsentIsEmpty, Exists, NoTable
<1>3. ~ DropCatalog
  BY EmptyIsSeq DEF DropCatalog, NoTable
<1>4. ~ DropWarehouse
  BY <1>2 DEF DropWarehouse, ResetAlone, Exists, NoTable
<1>5. tables[t].files[k].mcap \in Mcap
  BY <1>1 DEF TypeOK, IsTable, IsDataFile
<1> QED BY <1>1, <1>2, <1>3, <1>4, <1>5, TableStays

\* What CommitAppend leaves in its table: the files that were there, and the one of
\* the mcap in hand.
LEMMA AppendedFile ==
    ASSUME TypeOK, AppendsOwnFile, NEW i \in Ingesters, CommitAppend(i),
           NEW t, t = task[i].topic, NEW k \in DOMAIN tables'[t].files
    PROVE  /\ task[i].pc = "append" /\ tables'[t].columns = tables[t].columns
           /\ warehouse' = warehouse
           /\ \/ k \in DOMAIN tables[t].files /\ tables'[t].files[k] = tables[t].files[k]
              \/ tables'[t].files[k] = task[i].written /\ task[i].written.mcap = task[i].mcap
<1>1. /\ task[i].pc = "append" /\ tables'[t].columns = tables[t].columns
      /\ IsExtended(tables[t].files, tables'[t].files, task[i].written)
  BY AppendStep
<1>2. warehouse' = warehouse
  BY DEF CommitAppend
<1>3. task[i].written.mcap = task[i].mcap
  BY <1>1 DEF AppendsOwnFile
<1> QED BY <1>1, <1>2, <1>3 DEF IsExtended

LEMMA FilesFitStep ==
    ASSUME ExclusiveReset, TypeOK, CommitInvariant, KnowsColumns, EvolvedBeforeWrite, FilesFit,
           [Next]_vars
    PROVE  FilesFit'
<1> USE DEF CommitInvariant
<1>1. ASSUME NEW t \in Topic, NEW k \in DOMAIN tables'[t].files
      PROVE  LET f == tables'[t].files[k] IN FileFits(f, f.mcap, t, tables'[t].columns)
  <2>1. CASE \E i \in Ingesters : CommitAppend(i) /\ task[i].topic = t
    BY <2>1, AppendedFile DEF FilesFit
  <2>2. CASE ~ \E i \in Ingesters : CommitAppend(i) /\ task[i].topic = t
    BY <2>2, HistoryStays, CellsStay DEF FilesFit, FileFits
  <2> QED BY <2>1, <2>2
<1>2. ASSUME NEW i \in Ingesters, task'[i].pc = "append"
      PROVE  FileFits(task'[i].written, task'[i].mcap, task'[i].topic,
                      tables'[task'[i].topic].columns)
  <2>1. CASE WriteDataFile(i)
    BY <2>1, WriteFits
  <2>2. CASE task'[i] = task[i]
    <3> DEFINE t == task[i].topic
    <3>1. task[i].pc = "append" /\ t \in Topic /\ Running(i)
      BY <1>2, <2>2, DescriptorType DEF InCommitTopicGroup, Running, Stopped
    <3>2. IsPart(tables[t].columns, tables'[t].columns)
      BY <3>1, NoResetUnderRun, TableStays DEF KnowsColumns
    <3>3. FileFits(task[i].written, task[i].mcap, t, tables[t].columns)
      BY <3>1 DEF FilesFit
    <3> QED BY <2>2, <3>2, <3>3, CellsStay DEF FileFits
  <2> QED BY <1>2, <2>1, <2>2, TaskStep
<1> QED BY <1>1, <1>2 DEF FilesFit

LEMMA ObjectsFitStep ==
    ASSUME ExclusiveReset, DistinctNames, TypeOK, CommitInvariant, KnowsColumns,
           EvolvedBeforeWrite, ObjectsFit, [Next]_vars
    PROVE  ObjectsFit'
<1> USE DEF CommitInvariant
<1>1. ASSUME NEW t \in Topic, NEW k \in DOMAIN tables'[t].files
      PROVE  LET o == tables'[t].files[k].mcap
             IN  FileFits(warehouse'[t][DataFilePath(o)], o, t, tables'[t].columns)
  <2>1. CASE \E i \in Ingesters : CommitAppend(i) /\ task[i].topic = t
    BY <2>1, AppendedFile DEF ObjectsFit, ObjectFits
  <2>2. CASE ~ \E i \in Ingesters : CommitAppend(i) /\ task[i].topic = t
    <3> DEFINE o == tables[t].files[k].mcap
    <3>1. /\ k \in DOMAIN tables[t].files /\ tables'[t].files[k].mcap = o /\ o \in Mcap
          /\ ~ DropCatalog /\ ~ DropWarehouse /\ Exists(t)
      BY <1>1, <2>2, HistoryStays
    <3>2. ObjectFits(o, t) /\ DataFilePath(o) \in DOMAIN warehouse[t]
      BY <3>1 DEF ObjectsFit, NoDanglingReference
    <3> QED BY <3>1, <3>2, ObjectFitsStep
  <2> QED BY <2>1, <2>2
<1>2. ASSUME NEW i \in Ingesters, task'[i].pc = "append"
      PROVE  LET o == task'[i].mcap
                 t == task'[i].topic
             IN  FileFits(warehouse'[t][DataFilePath(o)], o, t, tables'[t].columns)
  <2>1. CASE WriteDataFile(i)
    BY <2>1, WriteFits
  <2>2. CASE task'[i] = task[i]
    <3> DEFINE t == task[i].topic
               o == task[i].mcap
    <3>1. task[i].pc = "append" /\ t \in Topic /\ o \in Mcap /\ Running(i)
      BY <1>2, <2>2, DescriptorType DEF InCommitTopicGroup, Running, Stopped
    <3>2. ~ DropCatalog /\ ~ DropWarehouse
      BY <3>1, NoResetUnderRun
    <3>3. Exists(t) /\ DataFilePath(o) \in DOMAIN warehouse[t] /\ ObjectFits(o, t)
      BY <3>1 DEF KnowsColumns, WrittenBeforeAppend, ObjectsFit
    <3> QED BY <2>2, <3>1, <3>2, <3>3, ObjectFitsStep
  <2> QED BY <1>2, <2>1, <2>2, TaskStep
<1> QED BY <1>1, <1>2 DEF ObjectsFit, ObjectFits, DataFilePath

-----------------------------------------------------------------------------
(* The theorems *)

LEMMA SchemaInvariantHolds ==
    ExclusiveReset =>
        (Spec => [](SchemaWellFormed /\ KnowsColumns /\ EvolvedBeforeWrite /\ FilesFit))
<1> DEFINE Inv == SchemaWellFormed /\ KnowsColumns /\ EvolvedBeforeWrite /\ FilesFit
<1> SUFFICES ASSUME ExclusiveReset PROVE Spec => []Inv
  OBVIOUS
<1>1. Init => Inv
  BY EmptyIsSeq DEF Init, SchemaWellFormed, KnowsColumns, EvolvedBeforeWrite, FilesFit,
     Idle, NoTable
<1>2. TypeOK /\ CommitInvariant /\ Inv /\ [Next]_vars => Inv'
  BY SchemaWellFormedStep, KnowsColumnsStep, EvolvedBeforeWriteStep, FilesFitStep
  DEF CommitInvariant
<1>3. Spec => []CommitInvariant
  BY CommitCorrect
<1> QED BY <1>1, <1>2, <1>3, TypeCorrect, PTL DEF Spec

LEMMA ObjectsFitHolds ==
    ExclusiveReset /\ DistinctNames => (Spec => []ObjectsFit)
<1> SUFFICES ASSUME ExclusiveReset, DistinctNames PROVE Spec => []ObjectsFit
  OBVIOUS
<1>1. Init => ObjectsFit
  BY EmptyIsSeq DEF Init, ObjectsFit, Idle, NoTable
<1>2. TypeOK /\ CommitInvariant /\ KnowsColumns /\ EvolvedBeforeWrite /\ ObjectsFit /\ [Next]_vars
        => ObjectsFit'
  BY ObjectsFitStep
<1>3. Spec => [](SchemaWellFormed /\ KnowsColumns /\ EvolvedBeforeWrite /\ FilesFit)
  BY SchemaInvariantHolds
<1>4. Spec => []CommitInvariant
  BY CommitCorrect
<1> QED BY <1>1, <1>2, <1>3, <1>4, TypeCorrect, PTL DEF Spec

\* The schemas of the tables stay well formed when several ingesters evolve them from
\* what they have loaded, as long as no reset overlaps a run.
THEOREM SchemasWellFormed == ExclusiveReset => (Spec => []SchemaWellFormed)
<1> SUFFICES ASSUME ExclusiveReset PROVE Spec => []SchemaWellFormed
  OBVIOUS
<1>1. Spec => [](SchemaWellFormed /\ KnowsColumns /\ EvolvedBeforeWrite /\ FilesFit)
  BY SchemaInvariantHolds
<1> QED BY <1>1, PTL

\* The fields that a data file stores are those of which the column is not a standard
\* one.
LEMMA StoredColumn ==
    ASSUME NEW d, IsDescriptor(d), NEW columns, IsColumns(columns), WellFormed(columns),
           NEW n \in SupportedFields(d)
    PROVE  n \in StoredFields(d) <=> ColumnOf(n, d, columns) \notin standard_columns
<1> DEFINE type == proto_field_to_arrow(d[n])
           base == BaseColumn(n)
           c == ColumnOf(n, d, columns)
<1>1. c.field = n /\ type \in [elem : ScalarType, list : {"none", "item"}]
  BY ColumnCases
<1>2. CASE n \notin StandardName
  BY <1>1, <1>2, StandardColumn DEF StoredFields
<1>3. CASE n \in StandardName
  <2>1. base \in DOMAIN columns /\ columns[base] = StandardType(n) /\ base \in standard_columns
    BY <1>3 DEF WellFormed, standard_columns
  <2>2. c \in standard_columns <=> c = base
    BY <1>1, <2>1, StandardColumn
  <2>3. c = base <=> check_type_compatibility(StandardType(n), type)
    BY <2>1, ColumnCases
  <2> QED BY <1>3, <2>2, <2>3 DEF StoredFields
<1> QED BY <1>2, <1>3

\* The column of a field can hold its values.
LEMMA ColumnCompatible ==
    ASSUME NEW d, IsDescriptor(d), NEW columns, IsColumns(columns), WellFormed(columns),
           NEW n \in SupportedFields(d), ColumnOf(n, d, columns) \in DOMAIN columns
    PROVE  check_type_compatibility(columns[ColumnOf(n, d, columns)], proto_field_to_arrow(d[n]))
<1> DEFINE type == proto_field_to_arrow(d[n])
           c == ColumnOf(n, d, columns)
<1>1. CASE c = BaseColumn(n)
  BY <1>1, ColumnCases
<1>2. CASE c # BaseColumn(n)
  <2>1. /\ c.as = type_suffix(type) /\ c.as # NoSuffix
        /\ type \in [elem : ScalarType, list : {"none", "item"}]
    BY <1>2, ColumnCases
  <2>2. type_suffix(columns[c]) = c.as /\ columns[c] \in DataType
    BY <2>1 DEF WellFormed, IsColumns
  <2> QED BY <2>1, <2>2, SuffixDecides
<1> QED BY <1>1, <1>2

\* Every field of every committed group is in the column where a reader looks for
\* it, whatever the table's schema has become since its file was written.
THEOREM FieldsWritten == ExclusiveReset => (Spec => []EveryFieldWritten)
<1> SUFFICES ASSUME ExclusiveReset PROVE Spec => []EveryFieldWritten
  OBVIOUS
<1>1. TypeOK /\ AbsentIsEmpty /\ SchemaWellFormed /\ FilesFit => EveryFieldWritten
  <2> SUFFICES ASSUME TypeOK, AbsentIsEmpty, SchemaWellFormed, FilesFit,
                      NEW t \in Topic, NEW k \in DOMAIN tables[t].files,
                      NEW n \in StoredFields(Groups[tables[t].files[k].mcap][t])
               PROVE  LET f == tables[t].files[k]
                          d == Groups[f.mcap][t]
                          columns == tables[t].columns
                          c == ColumnOf(n, d, columns)
                      IN  /\ c \in DOMAIN columns
                          /\ check_type_compatibility(columns[c], proto_field_to_arrow(d[n]))
                          /\ c \in DOMAIN f.cells /\ f.cells[c] = "field"
    BY DEF EveryFieldWritten
  <2> DEFINE f == tables[t].files[k]
             d == Groups[f.mcap][t]
             columns == tables[t].columns
             c == ColumnOf(n, d, columns)
  <2>1. f.mcap \in Mcap /\ IsColumns(columns)
    BY DEF TypeOK, IsTable, IsDataFile
  <2>2. t \in DOMAIN Groups[f.mcap] /\ CellsFit(f.cells, d, columns)
    BY DEF FilesFit, FileFits
  <2>3. IsDescriptor(d) /\ n \in SupportedFields(d)
    BY <2>1, <2>2, IngestAssumption DEF StoredFields
  <2>4. WellFormed(columns)
    BY EmptyIsSeq DEF SchemaWellFormed, AbsentIsEmpty, NoTable
  <2> HIDE DEF d, columns
  <2>5. c \in DOMAIN columns /\ c \in FieldColumns(d, columns)
    BY <2>1, <2>2, <2>3, <2>4, StoredColumn DEF CellsFit, HasColumns, FieldColumns, d
  <2>6. c \in DOMAIN f.cells /\ f.cells[c] = "field"
    BY <2>2, <2>5 DEF CellsFit
  <2>7. check_type_compatibility(columns[c], proto_field_to_arrow(d[n]))
    BY <2>1, <2>3, <2>4, <2>5, ColumnCompatible
  <2> QED BY <2>5, <2>6, <2>7 DEF d, columns
<1>2. Spec => [](SchemaWellFormed /\ KnowsColumns /\ EvolvedBeforeWrite /\ FilesFit)
  BY SchemaInvariantHolds
<1>3. Spec => []CommitInvariant
  BY CommitCorrect
<1>4. CommitInvariant => AbsentIsEmpty
  BY DEF CommitInvariant
<1> QED BY <1>1, <1>2, <1>3, <1>4, TypeCorrect, PTL

\* A later run that writes a committed object again leaves every value of it where
\* it was, if no two logs have one file name.
THEOREM RewritesPreserve ==
    ExclusiveReset /\ DistinctNames => (Spec => []RewritePreservesValues)
<1> SUFFICES ASSUME ExclusiveReset, DistinctNames PROVE Spec => []RewritePreservesValues
  OBVIOUS
<1>1. FilesFit /\ ObjectsFit => RewritePreservesValues
  <2> SUFFICES ASSUME FilesFit, ObjectsFit, NEW t \in Topic, NEW k \in DOMAIN tables[t].files
               PROVE  LET f == tables[t].files[k]
                          object == warehouse[t][DataFilePath(f.mcap)]
                      IN  /\ object.mcap = f.mcap
                          /\ \A c \in DOMAIN f.cells : f.cells[c] # "null" =>
                                 c \in DOMAIN object.cells /\ object.cells[c] = f.cells[c]
    BY DEF RewritePreservesValues
  <2> DEFINE f == tables[t].files[k]
             object == warehouse[t][DataFilePath(f.mcap)]
             d == Groups[f.mcap][t]
             columns == tables[t].columns
  <2>1. CellsFit(f.cells, d, columns)
    BY DEF FilesFit, FileFits
  <2>2. object.mcap = f.mcap /\ CellsFit(object.cells, d, columns)
    BY DEF ObjectsFit, ObjectFits, FileFits
  <2> HIDE DEF f, object, d, columns
  <2> QED BY <2>1, <2>2 DEF CellsFit, f, object
<1>2. Spec => [](SchemaWellFormed /\ KnowsColumns /\ EvolvedBeforeWrite /\ FilesFit)
  BY SchemaInvariantHolds
<1>3. Spec => []ObjectsFit
  BY ObjectsFitHolds
<1> QED BY <1>1, <1>2, <1>3, PTL

-----------------------------------------------------------------------------
(* A run that finishes *)

\* What any step makes of one ingester.
LEMMA RunStep ==
    ASSUME TypeOK, [Next]_vars, NEW i \in Ingesters
    PROVE  \/ task'[i] = task[i]
           \/ task'[i].pc \in Stopped /\ (task'[i].pc = "finished" => FinishRun(i))
           \/ Start(i)
           \/ \E o \in Mcap : LoadMcap(i, o)
           \/ \E t \in Topic : TakeGroup(i, t)
           \/ FinishMcap(i) \/ CommitAppend(i)
           \/ /\ task[i].pc \in InCommitTopicGroup /\ task'[i].pc \in InCommitTopicGroup
              /\ task'[i].listed = task[i].listed /\ task'[i].pending = task[i].pending
              /\ task'[i].mcap = task[i].mcap /\ task'[i].groups = task[i].groups
              /\ task'[i].topic = task[i].topic
<1> USE DEF vars, TypeOK
<1> DEFINE Moves(j) ==
              /\ task[j].pc \in InCommitTopicGroup /\ task'[j].pc \in InCommitTopicGroup
              /\ task'[j].listed = task[j].listed /\ task'[j].pending = task[j].pending
              /\ task'[j].mcap = task[j].mcap /\ task'[j].groups = task[j].groups
              /\ task'[j].topic = task[j].topic
<1>1. ASSUME NEW j \in Ingesters, j # i, Start(j) \/ Step(j) \/ Crash(j)
      PROVE  task'[i] = task[i]
  BY <1>1 DEF Start, Step, Crash, Exit, Goto, LoadMcap, DecodePanics, TakeGroup, FinishRun,
       FinishMcap, NamespaceExists, CreateNamespace, TableExists, LoadTable, CreateTable,
       SchemaIsCurrent, EvolveSchema, WriteDataFile, CommitAppend, CatalogRefuses
<1>2. ASSUME NEW pc \in InCommitTopicGroup, task[i].pc \in InCommitTopicGroup, Goto(i, pc)
      PROVE  Moves(i)
  BY <1>2 DEF Goto, IsTask
<1>3. ASSUME NamespaceExists(i) \/ CreateNamespace(i) \/ TableExists(i) \/ SchemaIsCurrent(i)
      PROVE  Moves(i)
  BY <1>2, <1>3 DEF NamespaceExists, CreateNamespace, TableExists, SchemaIsCurrent,
       InCommitTopicGroup
<1>4. ASSUME LoadTable(i) \/ CreateTable(i) \/ EvolveSchema(i) \/ WriteDataFile(i)
      PROVE  Moves(i)
  BY <1>4 DEF LoadTable, CreateTable, EvolveSchema, WriteDataFile, InCommitTopicGroup, IsTask
<1>5. ASSUME NEW pc \in Stopped, Exit(i, pc)
      PROVE  task'[i].pc = pc
  BY <1>5 DEF Exit, Idle
<1>6. ASSUME (\E o \in Mcap : DecodePanics(i, o)) \/ CatalogRefuses(i) \/ Crash(i)
      PROVE  task'[i].pc = "panicked"
  BY <1>5, <1>6 DEF DecodePanics, CatalogRefuses, Crash, Stopped
<1>7. ASSUME FinishRun(i) PROVE task'[i].pc = "finished"
  BY <1>5, <1>7 DEF FinishRun, Stopped
<1>8. ASSUME Operator \/ UNCHANGED vars \/ \E o \in Mcap : Upload(o)
      PROVE  task'[i] = task[i]
  BY <1>8 DEF Operator, DropCatalog, DropWarehouse, InterruptReset, Upload
<1>9. Start(i) \/ Step(i) \/ Crash(i) \/ task'[i] = task[i]
  <2> HIDE DEF Moves, TypeOK, vars
  <2>1. CASE Next
    BY <1>1, <1>8, <2>1 DEF Next
  <2>2. CASE UNCHANGED vars
    BY <1>8, <2>2
  <2> QED BY <2>1, <2>2
<1>10. ASSUME Step(i)
       PROVE  \/ task'[i].pc = "panicked" \/ FinishRun(i)
              \/ \E o \in Mcap : LoadMcap(i, o)
              \/ \E t \in Topic : TakeGroup(i, t)
              \/ FinishMcap(i) \/ CommitAppend(i)
              \/ Moves(i)
  <2> HIDE DEF Moves, TypeOK
  <2>1. (\E o \in Mcap : DecodePanics(i, o)) \/ CatalogRefuses(i) => task'[i].pc = "panicked"
    BY <1>6
  <2> QED BY <1>3, <1>4, <1>10, <2>1 DEF Step
<1>11. Crash(i) => task'[i].pc = "panicked"
  BY <1>6
<1> HIDE DEF Moves, TypeOK
<1> QED BY <1>7, <1>9, <1>10, <1>11 DEF Moves, Stopped

\* The files of a table stay when nothing is appended and the catalog is not dropped.
LEMMA FilesStay ==
    ASSUME TypeOK, AbsentIsEmpty, [Next]_vars, ~ DropCatalog, NEW t \in Topic,
           ~ \E i \in Ingesters : CommitAppend(i) /\ task[i].topic = t
    PROVE  tables'[t].files = tables[t].files
<1>1. ASSUME NEW i \in Ingesters, CreateTable(i), task[i].topic = t
      PROVE  tables'[t].files = <<>> /\ tables[t].files = <<>>
  BY <1>1 DEF CreateTable, TypeOK, IsTable, Exists, AbsentIsEmpty, NoTable
<1>2. ASSUME NEW i \in Ingesters, EvolveSchema(i), task[i].topic = t
      PROVE  tables'[t].files = tables[t].files
  BY <1>2 DEF EvolveSchema, TypeOK, IsTable
<1>3. CASE tables'[t] = [tables[t] EXCEPT !.state = IF Exists(t) THEN "broken" ELSE @]
  BY <1>3 DEF TypeOK, IsTable
<1> QED BY <1>1, <1>2, <1>3, TablesStep

LEMMA CommittedStays ==
    ASSUME TypeOK, AbsentIsEmpty, [Next]_vars, ~ DropCatalog, NEW t \in Topic, NEW o,
           Committed(o, t)
    PROVE  Committed(o, t)'
<1>1. PICK k \in DOMAIN tables[t].files : tables[t].files[k].mcap = o
  BY DEF Committed
<1>2. k \in DOMAIN tables'[t].files /\ tables'[t].files[k] = tables[t].files[k]
  <2>1. CASE \E i \in Ingesters : CommitAppend(i) /\ task[i].topic = t
    BY <1>1, <2>1, AppendStep DEF IsExtended
  <2>2. CASE ~ \E i \in Ingesters : CommitAppend(i) /\ task[i].topic = t
    BY <1>1, <2>2, FilesStay
  <2> QED BY <2>1, <2>2
<1> QED BY <1>1, <1>2 DEF Committed

LEMMA LoadsStays ==
    ASSUME TypeOK, [Next]_vars, ~ DropCatalog, ~ DropWarehouse, NEW t \in Topic, Loads(t)
    PROVE  Loads(t)'
<1>1. ASSUME NEW i \in Ingesters, CreateTable(i) \/ EvolveSchema(i), task[i].topic = t
      PROVE  tables'[t].state = "present"
  BY <1>1 DEF CreateTable, EvolveSchema, TypeOK, IsTable, Loads
<1>2. ASSUME NEW i \in Ingesters, CommitAppend(i), task[i].topic = t
      PROVE  tables'[t].state = "present"
  BY <1>2, AppendStep
<1> QED BY <1>1, <1>2, TablesStep DEF Loads

\* What CommitAppend is there for.
LEMMA AppendCommits ==
    ASSUME TypeOK, AppendsOwnFile, NEW i \in Ingesters, CommitAppend(i)
    PROVE  /\ task[i].topic \in Topic
           /\ \E k \in DOMAIN tables'[task[i].topic].files :
                 tables'[task[i].topic].files[k].mcap = task[i].mcap
<1>1. task[i].pc = "append" /\ task[i].topic \in Topic
  BY AppendStep
<1>2. IsExtended(tables[task[i].topic].files, tables'[task[i].topic].files, task[i].written)
  BY AppendStep
<1> QED BY <1>1, <1>2 DEF AppendsOwnFile, IsExtended

LEMMA CommittedSoFarStep ==
    ASSUME TypeOK, AbsentIsEmpty, AppendsOwnFile, CommittedSoFar, [Next]_vars,
           ~ DropCatalog, ~ DropWarehouse
    PROVE  CommittedSoFar'
<1> SUFFICES ASSUME NEW i \in Ingesters, Running(i)',
                    NEW o \in task'[i].listed \ task'[i].pending, NEW t \in DOMAIN Groups[o],
                    ~ InHand(i, o, t)'
             PROVE  (Loads(t) /\ Committed(o, t))'
  BY DEF CommittedSoFar
<1> DEFINE Readable == Loads(t) /\ Committed(o, t)
<1>1. /\ task'[i].listed \subseteq Mcap /\ t \in Topic
  <2>1. TypeOK'
    BY TypeOKStep
  <2> QED BY <2>1, IngestAssumption DEF TypeOK, IsTask
<1>2. Readable => Readable'
  BY <1>1, CommittedStays, LoadsStays
<1>3. ASSUME Running(i), o \in task[i].listed \ task[i].pending
      PROVE  Readable \/ InHand(i, o, t)
  BY <1>3 DEF CommittedSoFar
<1> SUFFICES Readable'
  OBVIOUS
<1> HIDE DEF Readable
<1>4. CASE task'[i] = task[i]
  BY <1>2, <1>3, <1>4 DEF Running, InHand
<1>5. CASE Start(i)
  BY <1>5 DEF Start, TypeOK, Idle
<1>6. ASSUME NEW p \in Mcap, LoadMcap(i, p) PROVE Readable'
  <2>1. /\ task[i].pc = "mcap" /\ task'[i].pc = "group" /\ task'[i].mcap = p
        /\ task'[i].listed = task[i].listed /\ task'[i].pending = task[i].pending \ {p}
        /\ task'[i].groups = DOMAIN Groups[p]
    BY <1>6 DEF LoadMcap, TypeOK, IsTask
  <2>2. o # p
    BY <2>1 DEF InHand
  <2> QED BY <1>2, <1>3, <2>1, <2>2 DEF Running, Stopped, InHand
<1>7. ASSUME NEW u \in Topic, TakeGroup(i, u) PROVE Readable'
  <2>1. /\ task[i].pc = "group" /\ task'[i].pc = "namespace" /\ task'[i].topic = u
        /\ task'[i].mcap = task[i].mcap /\ task'[i].groups = task[i].groups \ {u}
        /\ task'[i].listed = task[i].listed /\ task'[i].pending = task[i].pending
    BY <1>7 DEF TakeGroup, TypeOK, IsTask
  <2> QED BY <1>2, <1>3, <2>1 DEF Running, Stopped, InHand, InCommitTopicGroup
<1>8. CASE FinishMcap(i)
  <2>1. /\ task[i].pc = "group" /\ task[i].groups = {}
        /\ task'[i].listed = task[i].listed /\ task'[i].pending = task[i].pending
    BY <1>8 DEF FinishMcap, TypeOK, IsTask
  <2> QED BY <1>2, <1>3, <2>1 DEF Running, Stopped, InHand, InCommitTopicGroup
<1>9. CASE CommitAppend(i)
  <2>1. /\ task[i].pc = "append" /\ task'[i].pc = "group" /\ task'[i].topic = task[i].topic
        /\ task'[i].mcap = task[i].mcap /\ task'[i].groups = task[i].groups
        /\ task'[i].listed = task[i].listed /\ task'[i].pending = task[i].pending
    BY <1>9 DEF CommitAppend, Goto, TypeOK, IsTask
  <2>2. CASE o = task[i].mcap /\ t = task[i].topic
    BY <1>9, <2>2, AppendCommits, AppendStep DEF Committed, Loads, Readable
  <2>3. CASE ~ (o = task[i].mcap /\ t = task[i].topic)
    BY <1>2, <1>3, <2>1, <2>3 DEF Running, Stopped, InHand
  <2> QED BY <2>2, <2>3
<1>10. CASE /\ task[i].pc \in InCommitTopicGroup /\ task'[i].pc \in InCommitTopicGroup
            /\ task'[i].listed = task[i].listed /\ task'[i].pending = task[i].pending
            /\ task'[i].mcap = task[i].mcap /\ task'[i].groups = task[i].groups
            /\ task'[i].topic = task[i].topic
  BY <1>2, <1>3, <1>10 DEF Running, Stopped, InHand, InCommitTopicGroup
<1> QED BY <1>4, <1>5, <1>6, <1>7, <1>8, <1>9, <1>10, RunStep DEF Running

\* A run only comes to its end through the end of its list.
LEMMA FinishStep ==
    ASSUME TypeOK, [Next]_vars, NEW i \in Ingesters,
           task[i].pc # "finished", task'[i].pc = "finished"
    PROVE  FinishRun(i)
<1>1. ASSUME Start(i) PROVE FALSE
  BY <1>1 DEF Start, TypeOK, Idle
<1>2. ASSUME NEW p \in Mcap, LoadMcap(i, p) PROVE FALSE
  BY <1>2 DEF LoadMcap, TypeOK, IsTask
<1>3. ASSUME NEW u \in Topic, TakeGroup(i, u) PROVE FALSE
  BY <1>3 DEF TakeGroup, TypeOK, IsTask
<1>4. ASSUME FinishMcap(i) PROVE FALSE
  BY <1>4 DEF FinishMcap, TypeOK, IsTask
<1>5. ASSUME CommitAppend(i) PROVE FALSE
  BY <1>5 DEF CommitAppend, Goto, TypeOK, IsTask
<1> QED BY <1>1, <1>2, <1>3, <1>4, <1>5, RunStep DEF InCommitTopicGroup

\* A run that reports success has committed every group of every mcap it listed, through
\* the drift of schemas, races with other runs and crashes of theirs, as long as no reset
\* overlaps a run.
THEOREM FinishedRunsCommitted == ExclusiveReset => (Spec => FinishedRunCommittedAll)
<1> SUFFICES ASSUME ExclusiveReset PROVE Spec => FinishedRunCommittedAll
  OBVIOUS
<1> DEFINE Commits(i) ==
      task[i].pc # "finished" /\ task'[i].pc = "finished" =>
          \A o \in task[i].listed : \A t \in DOMAIN Groups[o] : Committed(o, t)
<1>1. Init => CommittedSoFar
  BY DEF Init, CommittedSoFar, Running, Stopped, Idle
<1>2. TypeOK /\ CommitInvariant /\ CommittedSoFar /\ [Next]_vars => CommittedSoFar'
  <2> SUFFICES ASSUME TypeOK, CommitInvariant, CommittedSoFar, [Next]_vars PROVE CommittedSoFar'
    OBVIOUS
  <2>1. CASE DropCatalog \/ DropWarehouse
    <3>1. \A i \in Ingesters : ~ Running(i) /\ task' = task
      BY <2>1 DEF DropCatalog, DropWarehouse, CommitInvariant, ResetAlone
    <3> QED BY <3>1 DEF CommittedSoFar, Running
  <2>2. CASE ~ DropCatalog /\ ~ DropWarehouse
    BY <2>2, CommittedSoFarStep DEF CommitInvariant
  <2> QED BY <2>1, <2>2
<1>3. TypeOK /\ CommittedSoFar /\ [Next]_vars => [\A i \in Ingesters : Commits(i)]_task
  <2> SUFFICES ASSUME TypeOK, CommittedSoFar, [Next]_vars, NEW i \in Ingesters,
                      task[i].pc # "finished", task'[i].pc = "finished",
                      NEW o \in task[i].listed, NEW t \in DOMAIN Groups[o]
               PROVE  Committed(o, t)
    OBVIOUS
  <2>1. FinishRun(i)
    BY FinishStep
  <2> QED BY <2>1 DEF FinishRun, CommittedSoFar, Running, Stopped, InHand
<1>4. Spec => []CommitInvariant
  BY CommitCorrect
<1> QED BY <1>1, <1>2, <1>3, <1>4, TypeCorrect, PTL DEF Spec, FinishedRunCommittedAll

-----------------------------------------------------------------------------
(* The lake seen from outside *)

\* What a query should see of a topic: what each log of its history says in it.
Entry(o, t) == [mcap |-> o, fields |-> Content[o][t]]

Entries(t) == [k \in DOMAIN tables[t].files |-> Entry(tables[t].files[k].mcap, t)]

RowsAreEntries == Rows = [t \in Topic |-> Entries(t)]

LEMMA RowsSeen ==
    TypeOK /\ CommitInvariant /\ SchemaWellFormed /\ FilesFit /\ ObjectsFit => RowsAreEntries
<1> SUFFICES ASSUME TypeOK, CommitInvariant, SchemaWellFormed, FilesFit, ObjectsFit,
                    NEW t \in Topic, NEW k \in DOMAIN tables[t].files
             PROVE  Rows[t][k] = Entry(tables[t].files[k].mcap, t)
  <2>1. \A t \in Topic : Rows[t] = [k \in DOMAIN tables[t].files |-> Rows[t][k]]
    BY DEF Rows
  <2> QED BY <2>1 DEF RowsAreEntries, Entries, Rows
<1> DEFINE o == tables[t].files[k].mcap
           object == warehouse[t][DataFilePath(o)]
           d == Groups[o][t]
           columns == tables[t].columns
<1>1. Rows[t][k] = ReadFile(t, object)
  BY DEF Rows, CommitInvariant, NoDanglingReference
<1>2. o \in Mcap /\ IsColumns(columns) /\ WellFormed(columns)
  BY EmptyIsSeq DEF TypeOK, IsTable, IsDataFile, SchemaWellFormed, CommitInvariant,
     AbsentIsEmpty, NoTable
<1>3. object.mcap = o /\ t \in DOMAIN Groups[o] /\ CellsFit(object.cells, d, columns)
  BY DEF ObjectsFit, ObjectFits, FileFits
<1>4. IsDescriptor(d) /\ Content[o][t] = StoredFields(d)
  BY <1>2, <1>3, IngestAssumption DEF Content
<1> DEFINE Found(n) == /\ ColumnOf(n, d, columns) \in DOMAIN object.cells
                       /\ object.cells[ColumnOf(n, d, columns)] = "field"
<1>5. ReadFile(t, object) = [mcap |-> o, fields |-> {n \in SupportedFields(d) : Found(n)}]
  BY <1>3 DEF ReadFile
<1>6. ASSUME NEW n \in SupportedFields(d)
      PROVE  Found(n) <=> n \in StoredFields(d)
  <2> HIDE DEF d, columns, object
  <2>1. CASE ColumnOf(n, d, columns) \in standard_columns
    BY <1>2, <1>3, <1>4, <2>1, StoredColumn DEF CellsFit
  <2>2. CASE ColumnOf(n, d, columns) \notin standard_columns
    BY <1>2, <1>3, <1>4, <2>2, StoredColumn DEF CellsFit, FieldColumns
  <2> QED BY <2>1, <2>2
<1>7. {n \in SupportedFields(d) : Found(n)} = StoredFields(d)
  <2> HIDE DEF Found, d
  <2> QED BY <1>6 DEF StoredFields
<1> QED BY <1>1, <1>4, <1>5, <1>7 DEF Entry

\* A function over one more place of a sequence is the sequence it was before, with
\* one element appended.
LEMMA MapAppended ==
    ASSUME NEW s, IsSeq(s), NEW e, NEW A, NEW x \in A,
           NEW a \in [DOMAIN s -> A], NEW b \in [DOMAIN Append(s, e) -> A],
           \A k \in DOMAIN s : b[k] = a[k],
           \A k \in DOMAIN Append(s, e) : k \notin DOMAIN s => b[k] = x
    PROVE  b = Append(a, x)
<1> DEFINE S == {s[k] : k \in DOMAIN s}
           n == Len(s)
<1>1. n \in Nat /\ DOMAIN s = 1 .. n /\ DOMAIN Append(s, e) = 1 .. (n + 1)
  <2>1. s \in Seq(S \cup {e})
    BY DEF IsSeq
  <2> HIDE DEF S
  <2> QED BY <2>1
<1>2. a \in Seq(A) /\ b \in Seq(A) /\ Len(a) = n /\ Len(b) = n + 1
  <2> HIDE DEF n
  <2> QED BY <1>1, SeqDef
<1>3. b[n + 1] = x /\ \A k \in 1 .. n : b[k] = a[k]
  <2> HIDE DEF n
  <2> QED BY <1>1
<1> HIDE DEF n
<1> QED BY <1>1, <1>2, <1>3

LEMMA EntriesAppended ==
    ASSUME TypeOK, AppendsOwnFile, NEW i \in Ingesters, CommitAppend(i),
           NEW t, t = task[i].topic
    PROVE  [k \in DOMAIN tables'[t].files |-> Entry(tables'[t].files[k].mcap, t)]
             = Append(Entries(t), Entry(task[i].mcap, t))
<1> DEFINE s == tables[t].files
           e == task[i].written
           a == Entries(t)
           b == [k \in DOMAIN Append(s, e) |-> Entry(Append(s, e)[k].mcap, t)]
           x == Entry(task[i].mcap, t)
<1>1. t \in Topic /\ task[i].pc = "append"
  BY AppendStep
<1>2. tables'[t].files = Append(s, e) /\ IsSeq(s) /\ e.mcap = task[i].mcap
  BY <1>1 DEF CommitAppend, TypeOK, IsTable, AppendsOwnFile
<1>3. [k \in DOMAIN tables'[t].files |-> Entry(tables'[t].files[k].mcap, t)] = b
  BY <1>2
<1>4. IsExtended(s, Append(s, e), e)
  BY <1>2, AppendIsSeq
<1>5. /\ \A k \in DOMAIN s : b[k] = a[k]
      /\ \A k \in DOMAIN Append(s, e) : k \notin DOMAIN s => b[k] = x
  BY <1>2, <1>4 DEF Entries, IsExtended
<1> DEFINE A == {a[k] : k \in DOMAIN s} \cup {b[k] : k \in DOMAIN Append(s, e)} \cup {x}
<1>6. x \in A /\ a \in [DOMAIN s -> A] /\ b \in [DOMAIN Append(s, e) -> A]
  BY DEF Entries
<1> HIDE DEF b, s, e, x, a, A
<1>7. b = Append(a, x)
  BY <1>2, <1>5, <1>6, MapAppended
<1> QED BY <1>3, <1>7 DEF x, a

\* A commit is the arrival of one entry.
LEMMA AppendIngests ==
    ASSUME TypeOK, CommitInvariant, FilesFit, RowsAreEntries, RowsAreEntries',
           NEW i \in Ingesters, CommitAppend(i)
    PROVE  L!Ingest(task[i].mcap, task[i].topic)
<1> DEFINE o == task[i].mcap
           t == task[i].topic
<1>1. /\ t \in Topic /\ task[i].pc = "append" /\ o \in Mcap
      /\ \A k \in DOMAIN tables[t].files :
            DataFilePath(tables[t].files[k].mcap) # DataFilePath(o)
  BY AppendStep, DescriptorType DEF InCommitTopicGroup
<1>2. t \in DOMAIN Content[o]
  BY <1>1 DEF FilesFit, FileFits, Content
<1>3. \A k \in DOMAIN Rows[t] : Rows[t][k].mcap # o
  BY <1>1 DEF RowsAreEntries, Entries, Entry
<1>4. [k \in DOMAIN tables'[t].files |-> Entry(tables'[t].files[k].mcap, t)]
        = Append(Entries(t), Entry(o, t))
  BY EntriesAppended DEF CommitInvariant
<1>5. ASSUME NEW u \in Topic, u # t
      PROVE  [k \in DOMAIN tables'[u].files |-> Entry(tables'[u].files[k].mcap, u)] = Entries(u)
  BY <1>1, <1>5 DEF CommitAppend, TypeOK, Entries
<1>6. Rows' = [Rows EXCEPT ![t] = Append(@, Entry(o, t))]
  <2>1. Rows' = [u \in Topic |-> [k \in DOMAIN tables'[u].files |-> Entry(tables'[u].files[k].mcap, u)]]
    BY DEF RowsAreEntries, Entries, Entry
  <2>2. Rows = [u \in Topic |-> Entries(u)]
    BY DEF RowsAreEntries
  <2> DEFINE new(u) == [k \in DOMAIN tables'[u].files |-> Entry(tables'[u].files[k].mcap, u)]
  <2> HIDE DEF new, t, o
  <2> QED BY <1>1, <1>4, <1>5, <2>1, <2>2 DEF new
<1> QED BY <1>2, <1>3, <1>6 DEF L!Ingest, Entry

\* Nothing else but a reset is seen from outside.
LEMMA EntriesStay ==
    ASSUME TypeOK, AbsentIsEmpty, RowsAreEntries, RowsAreEntries', [Next]_vars, ~ DropCatalog,
           ~ \E i \in Ingesters : CommitAppend(i)
    PROVE  Rows' = Rows
<1>1. \A t \in Topic : tables'[t].files = tables[t].files
  BY FilesStay
<1>2. Rows' = [t \in Topic |-> [k \in DOMAIN tables'[t].files |-> Entry(tables'[t].files[k].mcap, t)]]
  BY DEF RowsAreEntries, Entries, Entry
<1> QED BY <1>1, <1>2 DEF RowsAreEntries, Entries

LEMMA DropResets ==
    ASSUME RowsAreEntries', DropCatalog
    PROVE  L!Reset
<1>1. \A t \in Topic : tables'[t].files = <<>>
  BY DEF DropCatalog, NoTable
<1>2. Rows' = [t \in Topic |-> [k \in DOMAIN tables'[t].files |-> Entry(tables'[t].files[k].mcap, t)]]
  BY DEF RowsAreEntries, Entries, Entry
<1> QED BY <1>1, <1>2, EmptyIsSeq DEF L!Reset

\* The ingest implements the lake it promises: whatever ingesters do, a query sees
\* whole entries, one per log, that appear at the commit, never change and only leave
\* with a reset.
THEOREM IngestImplementsLake == ExclusiveReset /\ DistinctNames => (Spec => ImplementsLake)
<1> SUFFICES ASSUME ExclusiveReset, DistinctNames PROVE Spec => ImplementsLake
  OBVIOUS
<1>1. Init => L!Init
  BY EmptyIsSeq DEF Init, NoTable, L!Init, Rows
<1>2. TypeOK /\ CommitInvariant /\ FilesFit /\ RowsAreEntries /\ RowsAreEntries' /\ [Next]_vars
        => [L!Next]_Rows
  <2> SUFFICES ASSUME TypeOK, CommitInvariant, FilesFit, RowsAreEntries, RowsAreEntries',
                      [Next]_vars
               PROVE  L!Next \/ Rows' = Rows
    OBVIOUS
  <2>1. CASE \E i \in Ingesters : CommitAppend(i)
    BY <2>1, AppendIngests, AppendStep, DescriptorType DEF L!Next, InCommitTopicGroup
  <2>2. CASE DropCatalog
    BY <2>2, DropResets DEF L!Next
  <2>3. CASE ~ DropCatalog /\ ~ \E i \in Ingesters : CommitAppend(i)
    BY <2>3, EntriesStay DEF CommitInvariant
  <2> QED BY <2>1, <2>2, <2>3
<1>3. Spec => [](SchemaWellFormed /\ KnowsColumns /\ EvolvedBeforeWrite /\ FilesFit)
  BY SchemaInvariantHolds
<1>4. Spec => []CommitInvariant
  BY CommitCorrect
<1>5. Spec => []ObjectsFit
  BY ObjectsFitHolds
<1> QED BY <1>1, <1>2, <1>3, <1>4, <1>5, TypeCorrect, RowsSeen, PTL DEF Spec, ImplementsLake, L!Spec
=============================================================================
