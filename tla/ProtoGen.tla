------------------------------ MODULE ProtoGen ------------------------------
(***************************************************************************)
(* ulog_conversion/src/proto_gen.py: the proto fields of a ULog message    *)
(* type, and what the four codecs make of a record.                        *)
(*                                                                         *)
(* pyulog names the cells of a row by their flattened path: esc[0].rpm.  A *)
(* name is the sequence of its segments between periods, each an           *)
(* identifier and an index; an identifier is the sequence of its words     *)
(* between underscores.  The two regexes are conditions on the segments.   *)
(***************************************************************************)
EXTENDS Integers, Sequences, SequencesExt, Ordering

CONSTANTS
    HalfBits,   \* the bits of the narrower proto integers: 32
    WordBits    \* the bits of the wider ones: 64

ASSUME WidthAssumption ==
    HalfBits \in Nat \ {0} /\ WordBits \in Nat /\ HalfBits < WordBits

NoIndex == -1

NoLeaf == <<>>

UlogType == {"int8_t", "int16_t", "int32_t", "int64_t", "uint8_t", "uint16_t",
             "uint32_t", "uint64_t", "float", "double", "bool", "char"}

_ULOG_TO_PROTO_TYPE(type_str) ==
    CASE type_str \in {"int8_t", "int16_t", "int32_t"} -> "int32"
      [] type_str = "int64_t" -> "int64"
      [] type_str \in {"uint8_t", "uint16_t", "uint32_t"} -> "uint32"
      [] type_str = "uint64_t" -> "uint64"
      [] type_str \in {"float", "double", "bool"} -> type_str
      [] type_str = "char" -> "string"

Larger(a, b) == IF a > b THEN a ELSE b

-----------------------------------------------------------------------------
(* The two regexes *)

Indexed(name, k) == name[k].idx # NoIndex

\* _STRUCT_ARRAY_REGEX: base[idx].leaf, with the shortest base.
IsStructArray(name) == \E k \in 1 .. Len(name) - 1 : Indexed(name, k)

StructAt(name) ==
    CHOOSE k \in 1 .. Len(name) - 1 :
        Indexed(name, k) /\ \A j \in 1 .. k - 1 : ~ Indexed(name, j)

\* _ARRAY_REGEX: base[idx].
IsArray(name) == Indexed(name, Len(name))

-----------------------------------------------------------------------------
(* _aggregate_fields.  A UlogField also stands for its key in proto_fields, *)
(* which is its ulog_base and leaf.                                        *)

\* What has no place without nested messages: a leaf below a second period, and
\* an array of anything but characters inside a struct array.
Dropped(name, type_str) ==
    /\ IsStructArray(name)
    /\ Len(name) > StructAt(name) + 1 \/ (IsArray(name) /\ type_str # "char")

\* The field of one name.
UlogField(name, type_str) ==
    LET struct == IsStructArray(name)
        at     == IF struct THEN StructAt(name) ELSE Len(name)
        chars  == type_str = "char" /\ IsArray(name)
        items  == struct \/ (IsArray(name) /\ type_str # "char")
    IN  [ulog_base   |-> [k \in 1 .. at |-> name[k].id],
         leaf        |-> IF struct THEN name[Len(name)].id ELSE NoLeaf,
         proto_type  |-> _ULOG_TO_PROTO_TYPE(type_str),
         is_repeated |-> items,
         outer_len   |-> IF items THEN name[at].idx + 1 ELSE 1,
         inner_len   |-> IF chars THEN name[Len(name)].idx + 1 ELSE 1]

SameKey(f, g) == f.ulog_base = g.ulog_base /\ f.leaf = g.leaf

\* A later name of the same field can only make it longer.  The mistake takes
\* the length of the string from its first name.
WidenOuter(f, g) == [f EXCEPT !.outer_len = Larger(@, g.outer_len)]

Widen(f, g) == [f EXCEPT !.outer_len = Larger(@, g.outer_len),
                         !.inner_len = Larger(@, g.inner_len)]

Aggregate(proto_fields, field) ==
    LET g == UlogField(field.name, field.type_str) IN
    IF Dropped(field.name, field.type_str)
    THEN proto_fields
    ELSE IF \E k \in DOMAIN proto_fields : SameKey(proto_fields[k], g)
    THEN [k \in DOMAIN proto_fields |->
             IF SameKey(proto_fields[k], g) THEN Widen(proto_fields[k], g) ELSE proto_fields[k]]
    ELSE Append(proto_fields, g)

_aggregate_fields(fields) ==
    LET after[n \in 0 .. Len(fields)] ==
            IF n = 0 THEN <<>> ELSE Aggregate(after[n - 1], fields[n])
    IN  after[Len(fields)]

\* Periods become underscores, and a leaf follows two of them.
proto_name(f) ==
    FlattenSeq(f.ulog_base) \o (IF f.leaf = NoLeaf THEN <<>> ELSE <<"">> \o f.leaf)

\* The descriptor pool refuses a message with two fields of one name.
Builds(proto_fields) ==
    \A j, k \in DOMAIN proto_fields :
        j # k => proto_name(proto_fields[j]) # proto_name(proto_fields[k])

-----------------------------------------------------------------------------
(* The descriptor: its fields in the order of their numbers, from 1 *)

Declared(name, proto_type, is_repeated) ==
    [name |-> name, proto_type |-> proto_type, is_repeated |-> is_repeated]

_file_descriptor(ulog_fields) ==
    [number \in DOMAIN ulog_fields |->
        LET f == ulog_fields[number]
        IN  Declared(proto_name(f), f.proto_type, f.is_repeated)]

-----------------------------------------------------------------------------
(* TopicCodec.  A record is a function from the names of its cells to their *)
(* values; what is encoded is the value of each field, by its number.       *)

\* The name under which encode looks for character j of item i of a field.
CellName(f, i, j) ==
    LET string == f.proto_type = "string"
        last   == Len(f.ulog_base)
        idx    == IF f.is_repeated THEN i ELSE IF string THEN j ELSE NoIndex
        base   == [k \in 1 .. last |->
                      [id |-> f.ulog_base[k], idx |-> IF k = last THEN idx ELSE NoIndex]]
    IN  IF f.leaf = NoLeaf THEN base
        ELSE Append(base, [id |-> f.leaf, idx |-> IF string THEN j ELSE NoIndex])

Places(f) == (0 .. f.outer_len - 1) \X (0 .. f.inner_len - 1)

\* A char is a signed byte: & 0xFF.  The mistake leaves out the mask.
SignedByte(char) == char

Byte(char) == char % 256

\* protobuf refuses a number that its field does not hold, and bytes() one that
\* is no byte.
Holds(proto_type, v) ==
    CASE proto_type = "int32"  -> v \in - 2^(HalfBits - 1) .. 2^(HalfBits - 1) - 1
      [] proto_type = "int64"  -> v \in - 2^(WordBits - 1) .. 2^(WordBits - 1) - 1
      [] proto_type = "uint32" -> v \in 0 .. 2^HalfBits - 1
      [] proto_type = "uint64" -> v \in 0 .. 2^WordBits - 1
      [] proto_type = "string" -> Byte(v) \in 0 .. 255
      [] proto_type \in {"float", "double", "bool"} -> TRUE

\* A name that is not in the row is a KeyError.
Encodes(proto_fields, record) ==
    \A f \in ToSet(proto_fields) : \A p \in Places(f) :
        LET cell == CellName(f, p[1], p[2])
        IN  cell \in DOMAIN record /\ Holds(f.proto_type, record[cell])

\* UTF-8: the bytes of the character that a byte begins, and those that may follow
\* it (no overlong form, no surrogate, nothing above 0x10FFFF).
Width(byte) ==
    CASE byte \in 194 .. 223 -> 2
      [] byte \in 224 .. 239 -> 3
      [] byte \in 240 .. 244 -> 4
      [] OTHER -> 1

SecondByte(byte) ==
    CASE byte = 224 -> 160 .. 191
      [] byte = 237 -> 128 .. 159
      [] byte = 240 -> 144 .. 191
      [] byte = 244 -> 128 .. 143
      [] OTHER -> 128 .. 191

\* Byte p goes on with what byte q begins: a character or, if the rest is missing,
\* what becomes one replacement.
Continues(bytes, q, p) ==
    /\ p - q < Width(bytes[q])
    /\ bytes[q + 1] \in SecondByte(bytes[q])
    /\ \A r \in q + 2 .. p : bytes[r] \in 128 .. 191

Begins(bytes) == {p \in DOMAIN bytes : \A q \in 1 .. p - 1 : ~ Continues(bytes, q, p)}

CodePoint(bytes, p) ==
    LET low(k) == bytes[p + k] - 128
    IN  CASE Width(bytes[p]) = 2 -> (bytes[p] - 192) * 64 + low(1)
          [] Width(bytes[p]) = 3 -> (bytes[p] - 224) * 4096 + low(1) * 64 + low(2)
          [] Width(bytes[p]) = 4 ->
                 (bytes[p] - 240) * 262144 + low(1) * 4096 + low(2) * 64 + low(3)

ReplacementCharacter == 65533

Character(bytes, p) ==
    LET last == p + Width(bytes[p]) - 1
    IN  CASE bytes[p] < 128 -> bytes[p]
          [] last > p /\ last \in DOMAIN bytes /\ Continues(bytes, p, last) -> CodePoint(bytes, p)
          [] OTHER -> ReplacementCharacter

\* decode("utf-8", errors="replace").
decode(bytes) ==
    LET begins == Ascending(Begins(bytes))
    IN  [k \in DOMAIN begins |-> Character(bytes, begins[k])]

\* The characters of item i, up to the first null.  The mistake keeps the padding.
WholeBuffer(record, f, i) ==
    decode([j \in 1 .. f.inner_len |-> Byte(record[CellName(f, i, j - 1)])])

_decode_char_string(record, f, i) ==
    LET chars == [j \in 1 .. f.inner_len |-> Byte(record[CellName(f, i, j - 1)])]
        null  == SelectInSeq(chars, LAMBDA c : c = 0)
    IN  decode([j \in 1 .. (IF null = 0 THEN f.inner_len ELSE null - 1) |-> chars[j]])

ItemValue(record, f, i) ==
    CASE f.proto_type = "string" -> _decode_char_string(record, f, i)
      [] f.proto_type = "bool"   -> record[CellName(f, i, 0)] # 0
      [] OTHER                   -> record[CellName(f, i, 0)]

_repeated_values(record, f) == [i \in 1 .. f.outer_len |-> ItemValue(record, f, i - 1)]

TopicCodec_encode(proto_fields, record) ==
    [number \in DOMAIN proto_fields |->
        LET f == proto_fields[number]
        IN  IF f.is_repeated THEN _repeated_values(record, f) ELSE ItemValue(record, f, 0)]

-----------------------------------------------------------------------------
(* The codecs with a schema of their own.  A field that is not set reads as  *)
(* its default, also one of a oneof.                                        *)

ParameterChanged_FIELDS ==
    <<Declared(<<"timestamp">>, "uint64", FALSE), Declared(<<"name">>, "string", FALSE),
      Declared(<<"int", "value">>, "int64", FALSE),
      Declared(<<"float", "value">>, "double", FALSE)>>

ParameterChangedCodec_encode(payload) ==
    LET has == DOMAIN payload
    IN  <<payload.timestamp, payload.name,
          IF "int_value" \in has THEN payload.int_value ELSE 0,
          IF "float_value" \in has \ {"int_value"} THEN payload.float_value ELSE 0>>

\* foxglove.Log.
Log_FIELDS ==
    <<Declared(<<"timestamp">>, "message", FALSE), Declared(<<"level">>, "enum", FALSE),
      Declared(<<"message">>, "string", FALSE), Declared(<<"name">>, "string", FALSE),
      Declared(<<"file">>, "string", FALSE), Declared(<<"line">>, "fixed32", FALSE)>>

LogCodec_encode(payload) ==
    <<payload.timestamp, payload.level, payload.message, payload.name, <<>>, 0>>

ned_to_enu(p) == [x |-> p.y, y |-> p.x, z |-> - p.z]

\* foxglove.SceneUpdate, of which the one entity is the time and the line.
SceneUpdate_FIELDS ==
    <<Declared(<<"deletions">>, "message", TRUE), Declared(<<"entities">>, "message", TRUE)>>

TrajectoryCodec_encode(payload) ==
    <<<<>>, <<[timestamp |-> payload.timestamp, points |-> payload.points]>>>>

-----------------------------------------------------------------------------
(* ProtobufCodec: fields is only there for a TopicCodec *)

ProtobufCodec(class) == [class |-> class, fields |-> <<>>]

TopicCodec(proto_fields) == [class |-> "TopicCodec", fields |-> proto_fields]

descriptor(codec) ==
    CASE codec.class = "TopicCodec"            -> _file_descriptor(codec.fields)
      [] codec.class = "ParameterChangedCodec" -> ParameterChanged_FIELDS
      [] codec.class = "LogCodec"              -> Log_FIELDS
      [] codec.class = "TrajectoryCodec"       -> SceneUpdate_FIELDS

\* The schema record: one file with one message.  Those of Foxglove have packages, and
\* come with the files that they import.
FoxglovePackage == {<<"foxglove">>, <<"google">>}

schema_bytes(schema_name, codec) ==
    [file     |-> CASE codec.class = "TopicCodec"            -> schema_name
                    [] codec.class = "ParameterChangedCodec" -> <<"parameter", "changed">>
                    [] codec.class = "LogCodec"              -> <<"foxglove/Log">>
                    [] codec.class = "TrajectoryCodec"       -> <<"foxglove/SceneUpdate">>,
     packages |-> IF codec.class \in {"LogCodec", "TrajectoryCodec"} THEN FoxglovePackage ELSE {},
     fields   |-> descriptor(codec)]

encode(codec, payload) ==
    CASE codec.class = "TopicCodec"            -> TopicCodec_encode(codec.fields, payload)
      [] codec.class = "ParameterChangedCodec" -> ParameterChangedCodec_encode(payload)
      [] codec.class = "LogCodec"              -> LogCodec_encode(payload)
      [] codec.class = "TrajectoryCodec"       -> TrajectoryCodec_encode(payload)
=============================================================================
