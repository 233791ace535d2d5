----------------------------- MODULE UlogConvert -----------------------------
(***************************************************************************)
(* convert_ulog_to_mcap of ulog_conversion/src/convert.py: one log, from   *)
(* the streams that pyulog reads it into to the messages of the .mcap.     *)
(*                                                                         *)
(* A ULog is its data_list (topic, instance, fields and records in the     *)
(* order of the file, a record being a function from cells to values), its *)
(* logged messages, tagged logged messages by tag, and parameter changes.  *)
(* A message carries the values of its fields, and for the properties the  *)
(* record they were encoded from and the codec that encoded them.          *)
(***************************************************************************)
EXTENDS ProtoGen, Ordering

CONSTANTS
    Ulogs,      \* the logs that may be converted
    Digits,     \* the words that are numbers of instances, 0 to 255: Digits[n]
    Second,     \* microseconds in a second: 1_000_000
    NaN,        \* the float that is no number
    JsonName(_) \* the name of a proto field in JSON

VARIABLES
    ulog,       \* the log
    pc,         \* where the conversion is
    registered, \* entries of data_list gone through
    codecs,     \* codecs_by_type, with schema_ids_by_type
    channels,   \* topic -> channel
    written,    \* records written of each stream
    mcap        \* the messages written

vars == <<ulog, pc, registered, codecs, channels, written, mcap>>

LogsTopic == <<"logged", "messages">>
ParameterChangesTopic == <<"parameter", "changes">>
TrajectoryTopic == <<"vehicle", "trajectory", "foxglove">>
LocalPosition == <<"vehicle", "local", "position">>

FixedTopic == {LogsTopic, ParameterChangesTopic, TrajectoryTopic}

FixedSchema ==
    [t \in FixedTopic |->
        CASE t = LogsTopic -> <<"foxglove.Log">>
          [] t = ParameterChangesTopic -> <<"ParameterChanged">>
          [] t = TrajectoryTopic -> <<"foxglove.SceneUpdate">>]

FixedCodec(t) ==
    ProtobufCodec(CASE t = LogsTopic -> "LogCodec"
                    [] t = ParameterChangesTopic -> "ParameterChangedCodec"
                    [] t = TrajectoryTopic -> "TrajectoryCodec")

\* The name of a topic is its words.
map_topic_name(d) == Append(d.name, Digits[d.multi_id])

-----------------------------------------------------------------------------
(* The streams *)

Stream(topic, items, source) ==
    [k \in DOMAIN items |-> [topic |-> topic, time |-> items[k].time,
                             payload |-> items[k].payload,
                             record |-> [source |-> source, row |-> k]]]

Cell(id) == <<[id |-> id, idx |-> NoIndex]>>

TimeOf(record) == record[Cell(<<"timestamp">>)]

stream_topic_records(n) ==
    LET d == ulog.data_list[n]
    IN  Stream(map_topic_name(d),
               [k \in DOMAIN d.records |->
                   [time |-> TimeOf(d.records[k]), payload |-> d.records[k]]],
               [kind |-> "data", n |-> n])

_micros_to_foxglove_time(micros) ==
    [sec |-> micros \div Second, nsec |-> (micros % Second) * 1000]

\* Foxglove's levels, Unknown to Fatal, are numbered from 0.
_PX4_TO_FOXGLOVE_LOG_LEVEL(level) ==
    CASE level \in {"EMERGENCY", "ALERT", "CRITICAL"} -> 5
      [] level = "ERROR"            -> 4
      [] level = "WARNING"          -> 3
      [] level \in {"NOTICE", "INFO"} -> 2
      [] level = "DEBUG"            -> 1
      [] OTHER                      -> 0

FormattedRecord(log_record, name) ==
    [time |-> log_record.timestamp,
     payload |-> [message |-> log_record.message,
                  level |-> _PX4_TO_FOXGLOVE_LOG_LEVEL(log_record.level),
                  name |-> name,
                  timestamp |-> _micros_to_foxglove_time(log_record.timestamp)]]

stream_logged_messages ==
    Stream(LogsTopic,
           [k \in DOMAIN ulog.logged_messages |->
               FormattedRecord(ulog.logged_messages[k], <<>>)],
           [kind |-> "log", n |-> 0])

\* The places of the tagged messages, by tag and number.  Each tag's messages are
\* sorted, which keeps the order of those of one time, and merged, which takes
\* those of the earlier tag first.
Tagged ==
    UNION {{tag} \X (DOMAIN ulog.logged_messages_tagged[tag]) :
           tag \in DOMAIN ulog.logged_messages_tagged}

TaggedTime(p) == ulog.logged_messages_tagged[p[1]][p[2]].timestamp

TaggedBefore ==
    {r \in Tagged \X Tagged :
        \/ TaggedTime(r[1]) < TaggedTime(r[2])
        \/ /\ TaggedTime(r[1]) = TaggedTime(r[2])
           /\ r[1][1] < r[2][1] \/ (r[1][1] = r[2][1] /\ r[1][2] < r[2][2])}

\* The mistake formats them like the others.
Untagged(tag) == <<>>

TagName(tag) == <<tag>>

stream_logged_messages_tagged ==
    LET order == InOrder(Tagged, TaggedBefore)
    IN  [k \in DOMAIN order |->
            LET tag == order[k][1]
                log == ulog.logged_messages_tagged[tag][order[k][2]]
            IN  [topic |-> LogsTopic, time |-> log.timestamp,
                 payload |-> FormattedRecord(log, TagName(tag)).payload,
                 record |-> [source |-> [kind |-> "tagged", n |-> tag], row |-> order[k][2]]]]

\* The mistake is float() for every value.
FloatOnly(change) ==
    [timestamp |-> change.timestamp, name |-> change.name, float_value |-> change.value]

ParameterPayload(change) ==
    IF change.int
    THEN [timestamp |-> change.timestamp, name |-> change.name, int_value |-> change.value]
    ELSE [timestamp |-> change.timestamp, name |-> change.name, float_value |-> change.value]

stream_parameter_changes ==
    Stream(ParameterChangesTopic,
           [k \in DOMAIN ulog.changed_parameters |->
               LET change == ulog.changed_parameters[k]
               IN  [time |-> change.timestamp, payload |-> ParameterPayload(change)]],
           [kind |-> "parameter", n |-> 0])

\* One message for the whole track, at the time of its first valid point.
Point(record) == [x |-> record[Cell(<<"x">>)], y |-> record[Cell(<<"y">>)], z |-> record[Cell(<<"z">>)]]

stream_trajectory ==
    LET places  == {n \in DOMAIN ulog.data_list :
                       ulog.data_list[n].name = LocalPosition /\ ulog.data_list[n].multi_id = 0}
        records == IF places = {} THEN <<>> ELSE ulog.data_list[Ascending(places)[1]].records
        valid   == Ascending({k \in DOMAIN records :
                       \A c \in {"x", "y", "z"} : records[k][Cell(<<c>>)] # NaN})
        first   == TimeOf(records[valid[1]])
    IN  IF valid = <<>> THEN <<>>
        ELSE Stream(TrajectoryTopic,
                    <<[time |-> first,
                       payload |-> [points |-> [k \in DOMAIN valid |->
                                                   ned_to_enu(Point(records[valid[k]]))],
                                    timestamp |-> _micros_to_foxglove_time(first)]]>>,
                    [kind |-> "trajectory", n |-> 0])

Sequence(s) == s \in Seq(ToSet(s))

\* What pyulog makes of a message definition: the cells of nested messages and arrays,
\* by their flattened paths.  A path without its indices is the place of a member in
\* nested definitions, which gives it a type and says which segments are arrays; the
\* items of an array are all there and are all alike.
Segment == [id : Seq(STRING) \ {<<>>}, idx : Nat \cup {NoIndex}]

Ids(name) == [k \in DOMAIN name |-> name[k].id]

NamesOf(field_data) == {f.name : f \in ToSet(field_data)}

Flattened(field_data) ==
    /\ Sequence(field_data)
    /\ \A f \in ToSet(field_data) : f.name \in Seq(Segment) \ {<<>>} /\ f.type_str \in UlogType
    /\ \A f, g \in ToSet(field_data) : Ids(f.name) = Ids(g.name) =>
           /\ f.type_str = g.type_str
           /\ \A k \in DOMAIN f.name :
                  /\ Indexed(f.name, k) <=> Indexed(g.name, k)
                  /\ \A i \in 0 .. g.name[k].idx :
                         [f.name EXCEPT ![k].idx = i] \in NamesOf(field_data)

\* The numbers of a type, those of the narrower ones among those of the widest.
NumbersOf(type_str) ==
    CASE type_str \in {"int8_t", "int16_t", "int32_t"} -> - 2^(HalfBits - 1) .. 2^(HalfBits - 1) - 1
      [] type_str \in {"uint8_t", "uint16_t", "uint32_t"} -> 0 .. 2^HalfBits - 1
      [] type_str = "int64_t"  -> - 2^(WordBits - 1) .. 2^(WordBits - 1) - 1
      [] type_str = "uint64_t" -> 0 .. 2^WordBits - 1
      [] type_str = "char"     -> -128 .. 127

IsRecord(r, field_data) ==
    /\ DOMAIN r = NamesOf(field_data)
    /\ \A f \in ToSet(field_data) :
           f.type_str \in {"float", "double", "bool"} \/ r[f.name] \in NumbersOf(f.type_str)

\* What pyulog reads has the form of a ULog.  A topic's name has at least one word
\* and one definition, no message type is named like a schema of the converter's own
\* (there is "no risk of a name collision", proto_gen.py:43), each position has its
\* x, y and z, and an integer parameter is a number.
ASSUME UlogAssumption ==
    \A u \in Ulogs :
        /\ Sequence(u.data_list)
        /\ \A d \in ToSet(u.data_list) :
               /\ d.name \in Seq(STRING) \ {<<>>}
               /\ \A t \in FixedTopic : d.name # FixedSchema[t]
               /\ d.multi_id \in DOMAIN Digits
               /\ \A e \in ToSet(u.data_list) : d.name = e.name => d.field_data = e.field_data
               /\ Flattened(d.field_data)
               /\ d.name = LocalPosition =>
                      \A c \in {"x", "y", "z"} : Cell(<<c>>) \in NamesOf(d.field_data)
               /\ Sequence(d.records)
               /\ \A r \in ToSet(d.records) : IsRecord(r, d.field_data) /\ TimeOf(r) \in Nat
        /\ Sequence(u.logged_messages) /\ Sequence(u.logged_messages_tagged)
        /\ \A logs \in ToSet(u.logged_messages_tagged) \cup {u.logged_messages} :
               Sequence(logs) /\ \A log \in ToSet(logs) : log.timestamp \in Nat
        /\ Sequence(u.changed_parameters)
        /\ \A change \in ToSet(u.changed_parameters) :
               /\ change.timestamp \in Nat
               /\ change.int => change.value \in NumbersOf("int64_t")

\* In proto3 no two fields of a message may have one name in JSON, which drops the
\* underscores: a pool that finds two refuses the message.  No message type has them.
ASSUME JsonAssumption ==
    \A u \in Ulogs : \A d \in ToSet(u.data_list) :
        \A f, g \in ToSet(_aggregate_fields(d.field_data)) :
            JsonName(proto_name(f)) = JsonName(proto_name(g)) => proto_name(f) = proto_name(g)

Streams ==
    [n \in DOMAIN ulog.data_list |-> stream_topic_records(n)]
        \o <<stream_logged_messages, stream_logged_messages_tagged,
             stream_parameter_changes, stream_trajectory>>

-----------------------------------------------------------------------------

Init ==
    /\ ulog \in Ulogs
    /\ pc = "register" /\ registered = 0
    /\ codecs = [t \in {} |-> <<>>] /\ channels = [t \in {} |-> <<>>]
    /\ written = [s \in DOMAIN Streams |-> 0]
    /\ mcap = <<>>

\* A channel of the file, with its schema record, and the codec kept for it.
Channel(schema_name, schema_codec, codec) ==
    [schema_name |-> schema_name, schema_data |-> schema_bytes(schema_name, schema_codec),
     codec |-> codec]

NextTopic == ulog.data_list[registered + 1]

\* The codecs after the type of topic d has been met.
CodecsWith(d) ==
    [t \in DOMAIN codecs \cup {d.name} |->
        IF t \in DOMAIN codecs THEN codecs[t] ELSE TopicCodec(_aggregate_fields(d.field_data))]

AddChannel(topic, channel) ==
    [t \in DOMAIN channels \cup {topic} |-> IF t = topic THEN channel ELSE channels[t]]

\* The mistake gives the channel the codec made last, in place of the one of the
\* topic's type.
RegisterWithLastCodec ==
    LET d == NextTopic
        last == IF d.name \in DOMAIN codecs
                THEN channels[map_topic_name(ulog.data_list[registered])].codec
                ELSE CodecsWith(d)[d.name]
    IN  /\ pc = "register" /\ registered < Len(ulog.data_list)
        /\ Builds(CodecsWith(d)[d.name].fields)
        /\ codecs' = CodecsWith(d)
        /\ channels' = AddChannel(map_topic_name(d), Channel(d.name, CodecsWith(d)[d.name], last))
        /\ registered' = registered + 1
        /\ UNCHANGED <<ulog, pc, written, mcap>>

RegisterTopic ==
    LET d == NextTopic
    IN  /\ pc = "register" /\ registered < Len(ulog.data_list)
        /\ Builds(CodecsWith(d)[d.name].fields)
        /\ codecs' = CodecsWith(d)
        /\ channels' = AddChannel(map_topic_name(d),
                                  Channel(d.name, CodecsWith(d)[d.name], CodecsWith(d)[d.name]))
        /\ registered' = registered + 1
        /\ UNCHANGED <<ulog, pc, written, mcap>>

WithFixed ==
    [t \in DOMAIN channels \cup FixedTopic |->
        IF t \in FixedTopic THEN Channel(FixedSchema[t], FixedCodec(t), FixedCodec(t))
        ELSE channels[t]]

\* The mistake registers them inside the loop, and leaves it.
RegisterFixedInLoop ==
    /\ pc = "register" /\ registered > 0
    /\ channels' = WithFixed
    /\ pc' = "write"
    /\ UNCHANGED <<ulog, registered, codecs, written, mcap>>

RegisterFixed ==
    /\ pc = "register" /\ registered = Len(ulog.data_list)
    /\ channels' = WithFixed
    /\ pc' = "write"
    /\ UNCHANGED <<ulog, registered, codecs, written, mcap>>

CodecRaises ==
    /\ pc = "register" /\ registered < Len(ulog.data_list)
    /\ ~ Builds(CodecsWith(NextTopic)[NextTopic.name].fields)
    /\ pc' = "raised"
    /\ UNCHANGED <<ulog, registered, codecs, channels, written, mcap>>

\* heapq.merge takes the earliest of the streams' next records, and of several
\* the one of the first stream.  The mistake is itertools.chain.
Pending == {s \in DOMAIN Streams : written[s] < Len(Streams[s])}

NextRecord(s) == Streams[s][written[s] + 1]

TakeFirst(s) == \A r \in Pending : s <= r

TakeEarliest(s) ==
    \A r \in Pending : \/ NextRecord(s).time < NextRecord(r).time
                       \/ NextRecord(s).time = NextRecord(r).time /\ s <= r

NextCodec(s) == channels[NextRecord(s).topic].codec

\* Foxglove's Timestamp has its seconds in 32 bits.
CanEncode(codec, payload) ==
    CASE codec.class = "TopicCodec" -> Encodes(codec.fields, payload)
      [] codec.class = "ParameterChangedCodec" ->
             /\ Holds("uint64", payload.timestamp)
             /\ "int_value" \in DOMAIN payload => Holds("int64", payload.int_value)
      [] codec.class \in {"LogCodec", "TrajectoryCodec"} -> Holds("uint32", payload.timestamp.sec)

\* The writer has 64 bits for the nanoseconds of log_time and publish_time.
CanWrite(codec, next) ==
    CanEncode(codec, next.payload) /\ Holds("uint64", next.time * 1000)

WriteMessage(s) ==
    LET next == NextRecord(s)
        channel == channels[next.topic]
    IN  /\ pc = "write" /\ s \in Pending /\ TakeEarliest(s)
        /\ CanWrite(NextCodec(s), next)
        /\ mcap' = Append(mcap, [topic |-> next.topic, schema_name |-> channel.schema_name,
                                 schema_data |-> channel.schema_data,
                                 log_time |-> next.time * 1000,
                                 publish_time |-> next.time * 1000, sequence |-> 0,
                                 data |-> encode(NextCodec(s), next.payload),
                                 record |-> next.record, encoded |-> NextCodec(s)])
        /\ written' = [written EXCEPT ![s] = @ + 1]
        /\ UNCHANGED <<ulog, pc, registered, codecs, channels>>

\* encode or add_message raises: the half-written file goes with its temporary
\* directory.
EncodeRaises(s) ==
    /\ pc = "write" /\ s \in Pending /\ TakeEarliest(s)
    /\ ~ CanWrite(NextCodec(s), NextRecord(s))
    /\ pc' = "raised"
    /\ UNCHANGED <<ulog, registered, codecs, channels, written, mcap>>

FinishFile ==
    /\ pc = "write" /\ Pending = {}
    /\ pc' = "finished"
    /\ UNCHANGED <<ulog, registered, codecs, channels, written, mcap>>

Next ==
    \/ RegisterTopic \/ RegisterFixed \/ CodecRaises
    \/ \E s \in DOMAIN Streams : WriteMessage(s) \/ EncodeRaises(s)
    \/ FinishFile

Spec == Init /\ [][Next]_vars
=============================================================================
