---------------------------- MODULE ArrowSchema ----------------------------
(***************************************************************************)
(* Column names and column types of a topic's table                        *)
(* (mcap_ingest/ingest-core/src/arrow_schema.rs), and the projection of a  *)
(* topic group onto a table's columns (build_record_batch of               *)
(* arrow_encode.rs).  Everything here is a pure function: there is no      *)
(* state.                                                                  *)
(*                                                                         *)
(* A table's columns are a function from column name to data type.  The    *)
(* order of the columns is left out.  So are the values: a cell of a data  *)
(* file is only the place its values come from.                            *)
(***************************************************************************)

CONSTANT FieldName      \* the names a proto field may have

-----------------------------------------------------------------------------
(* Proto side: a descriptor maps field names to their kind and label. *)

FloatKind == {"double", "float"}

IntKind == {"int32", "sint32", "sfixed32", "int64", "sint64", "sfixed64",
            "uint32", "fixed32", "uint64", "fixed64"}

ProtoKind == FloatKind \cup IntKind
               \cup {"bool", "string", "bytes", "enum", "message"}

FieldDescriptor == [kind : ProtoKind, label : {"singular", "list", "map"}]

IsDescriptor(d) ==
    /\ DOMAIN d \subseteq FieldName
    /\ \A n \in DOMAIN d : d[n] \in FieldDescriptor

is_supported_field(f) == f.label # "map" /\ f.kind # "message"

SupportedFields(d) == {n \in DOMAIN d : is_supported_field(d[n])}

-----------------------------------------------------------------------------
(* Arrow side.  "list" is the name of the list's element field, which a    *)
(* proto-derived type calls "item" and a table-derived type "element";     *)
(* "none" stands for a scalar.                                             *)

ScalarType == {"Int64", "Float64", "Boolean", "Utf8", "Binary"}

DataType == [elem : ScalarType \cup {"Timestamp", "Int32", "Date32"},
             list : {"none", "item", "element"}]

Scalar(t) == [elem |-> t, list |-> "none"]

proto_kind_to_scalar_type(kind) ==
    CASE kind \in FloatKind -> "Float64"
      [] kind \in IntKind -> "Int64"
      [] kind = "bool" -> "Boolean"
      [] kind \in {"string", "enum"} -> "Utf8"
      [] kind = "bytes" -> "Binary"

proto_field_to_arrow(f) ==
    [elem |-> proto_kind_to_scalar_type(f.kind),
     list |-> IF f.label = "list" THEN "item" ELSE "none"]

\* The type a table gives back for a column created with type t: Iceberg names
\* the list element itself.
TableType(t) == [t EXCEPT !.list = IF @ = "none" THEN @ ELSE "element"]

\* A mistake the comment of check_type_compatibility warns of: "plain == would
\* spuriously differ".
PlainEquality(a, b) == a = b

check_type_compatibility(a, b) ==
    \/ a = b
    \/ a.list # "none" /\ b.list # "none" /\ a.elem = b.elem

-----------------------------------------------------------------------------
(* Column names: "name", or "name__as_suffix" for a sibling column.  A     *)
(* name is kept as its two parts, so no proto field is ever spelled like a *)
(* sibling column.                                                         *)

NoSuffix == [elem |-> "none", list |-> FALSE]

Suffix == [elem : ScalarType, list : BOOLEAN]

ColumnName == [field : FieldName, as : Suffix \cup {NoSuffix}]

type_suffix(t) == [elem |-> t.elem, list |-> t.list # "none"]

BaseColumn(n) == [field |-> n, as |-> NoSuffix]

\* x__as_i64.  As a pair it differs from every field: a field that has this very name
\* is left out.
SiblingColumn(n, t) == [field |-> n, as |-> type_suffix(t)]

IsColumns(cols) ==
    /\ DOMAIN cols \subseteq ColumnName
    /\ \A c \in DOMAIN cols : cols[c] \in DataType

\* The mistake sends a field whose type conflicts to the column of its name.
FieldNameOnly(n, type, cols) == BaseColumn(n)

map_column_name(n, type, cols) ==
    IF /\ BaseColumn(n) \in DOMAIN cols
       /\ ~ check_type_compatibility(cols[BaseColumn(n)], type)
    THEN SiblingColumn(n, type)
    ELSE BaseColumn(n)

\* The column that receives field n of descriptor d.
ColumnOf(n, d, cols) == map_column_name(n, proto_field_to_arrow(d[n]), cols)

-----------------------------------------------------------------------------
(* Schemas *)

StandardType(n) ==
    CASE n \in {"log_time", "publish_time"} -> Scalar("Timestamp")
      [] n \in {"sequence", "offset_us"} -> Scalar("Int64")
      [] n \in {"mcap_id", "time_source"} -> Scalar("Utf8")
      [] n = "multi_id" -> Scalar("Int32")
      [] n = "log_date" -> Scalar("Date32")

StandardName == {"log_time", "publish_time", "sequence", "mcap_id",
                 "multi_id", "offset_us", "log_date", "time_source"}

ASSUME FieldNameAssumption == StandardName \subseteq FieldName

standard_columns == {BaseColumn(n) : n \in StandardName}

\* A schema with two columns of one name does not build.
NamesClash(d) == SupportedFields(d) \cap StandardName # {}

build_arrow_schema(d) ==
    [c \in standard_columns \cup {BaseColumn(n) : n \in SupportedFields(d)} |->
        IF c \in standard_columns
        THEN StandardType(c.field)
        ELSE TableType(proto_field_to_arrow(d[c.field]))]

\* The columns evolve_table_schema finds missing, and the columns after they
\* are added.  The mistakes look for the field's name where the column's is
\* meant, and change the type of the column that is already there.
AdditionsByField(d, cols) ==
    {BaseColumn(n) : n \in SupportedFields(d)} \ DOMAIN cols

Retype(cols, added, d) ==
    [c \in DOMAIN cols \cup added |->
        IF c.field \in {a.field : a \in added}
        THEN TableType(proto_field_to_arrow(d[c.field]))
        ELSE cols[c]]

Additions(d, cols) ==
    {ColumnOf(n, d, cols) : n \in SupportedFields(d)} \ DOMAIN cols

AddColumns(cols, added, d) ==
    [c \in DOMAIN cols \cup added |->
        IF c \in DOMAIN cols
        THEN cols[c]
        ELSE TableType(proto_field_to_arrow(d[c.field]))]

-----------------------------------------------------------------------------
(* The record batch of one group: where the cells of each column of the    *)
(* schema come from.  The standard columns are the first eight, and are    *)
(* filled before any proto field is looked at.                             *)

CellSource == {"standard", "field", "null"}

build_record_batch(cols, d) ==
    [c \in DOMAIN cols |->
        IF c \in standard_columns THEN "standard"
        ELSE IF \E n \in SupportedFields(d) : ColumnOf(n, d, cols) = c
             THEN "field"
             ELSE "null"]
=============================================================================
