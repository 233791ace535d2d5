---------------------------- MODULE ArrowEncode ----------------------------
(***************************************************************************)
(* arrow_encode.rs of ingest-core: the rows of a topic group as the rows   *)
(* of a record batch, a row being a function from column to value.  The    *)
(* batch is for a table that the group itself created, so that each column *)
(* has the name of its field: the columns of a table that other logs have  *)
(* changed are the subject of ArrowSchema.                                 *)
(***************************************************************************)
EXTENDS Integers, Sequences, SequencesExt

CONSTANTS
    WordBits,   \* the bits of an i64 and of a u64: 64
    Anchor      \* midnight of the log's date, in microseconds

LogLevelName == <<"UNKNOWN", "DEBUG", "INFO", "WARNING", "ERROR", "FATAL">>

\* "as i64" keeps the bits.  The mistake saturates.
SaturatingI64(n) == IF n >= 2^(WordBits - 1) THEN 2^(WordBits - 1) - 1 ELSE n

as_i64(n) == IF n >= 2^(WordBits - 1) THEN n - 2^WordBits ELSE n

\* The other integers, and an f32, fit into what they become.
ArrowValue(proto_type, v) ==
    CASE proto_type = "uint64" -> as_i64(v)
      [] proto_type = "enum"   -> IF v + 1 \in DOMAIN LogLevelName
                                  THEN LogLevelName[v + 1] ELSE "UNKNOWN_n"
      [] OTHER                 -> v

FieldValue(field, v) ==
    IF field.is_repeated
    THEN [i \in DOMAIN v |-> ArrowValue(field.proto_type, v[i])]
    ELSE ArrowValue(field.proto_type, v)

\* Nanoseconds become microseconds, on the log's date for a time.
Micros(ns) == ns \div 1000

StandardColumn == {<<"log", "time">>, <<"publish", "time">>, <<"sequence">>, <<"mcap", "id">>,
                   <<"multi", "id">>, <<"offset", "us">>, <<"log", "date">>, <<"time", "source">>}

\* The id of the one .mcap.
McapId == "mcap"

\* The date stands as its midnight.
StandardValue(column, row) ==
    CASE column = <<"log", "time">>     -> Anchor + Micros(row.log_time)
      [] column = <<"publish", "time">> -> Anchor + Micros(row.publish_time)
      [] column = <<"offset", "us">>    -> Micros(row.log_time)
      [] column = <<"multi", "id">>     -> row.multi_id
      [] column = <<"sequence">>        -> row.sequence
      [] column = <<"mcap", "id">>      -> McapId
      [] column = <<"log", "date">>     -> Anchor
      [] column = <<"time", "source">>  -> "log_date"

\* The columns of what is not a nested message.  The values of a row are those
\* that its bytes have under the group's descriptor, by number.
Column(descriptor) == {n \in DOMAIN descriptor : descriptor[n].proto_type # "message"}

build_record_batch(group) ==
    [k \in DOMAIN group.rows |->
        LET row == group.rows[k]
            number(c) == CHOOSE n \in Column(group.descriptor) : group.descriptor[n].name = c
        IN  [c \in StandardColumn \cup {group.descriptor[n].name : n \in Column(group.descriptor)} |->
                IF c \in StandardColumn THEN StandardValue(c, row)
                ELSE FieldValue(group.descriptor[number(c)], row.message[number(c)])]]
============================================================================
