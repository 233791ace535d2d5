------------------------------ MODULE FlightLog ------------------------------
(***************************************************************************)
(* One log from the ULog to the rows of its tables: the converter of       *)
(* UlogConvert, then the reader of McapReader over the .mcap it finished,  *)
(* and the views of Warehouse on the rows.  The first two share that file  *)
(* and nothing else.                                                       *)
(***************************************************************************)
EXTENDS UlogConvert

CONSTANTS U8, Anchor

\* An instance's number is written in digits and read back from them, and no word
\* that one of the converter's own topics ends in is such a number.
ASSUME DigitsAssumption ==
    /\ \A n \in DOMAIN Digits : Digits[n] \in STRING \cap DOMAIN U8 /\ U8[Digits[n]] = n
    /\ \A t \in FixedTopic : Last(t) \notin DOMAIN U8

VARIABLES reading, read, pool, topic_descriptors, groups, batches

R == INSTANCE McapReader

W == INSTANCE Warehouse WITH tables <- batches

readerVars == <<reading, read, pool, topic_descriptors, groups, batches>>

logVars == <<vars, readerVars>>

InitLog == Init /\ R!InitReader

Convert == Next /\ UNCHANGED readerVars

\* convert_object uploads a finished file only.
Ingest == pc = "finished" /\ R!NextReader /\ UNCHANGED vars

NextLog == Convert \/ Ingest

FlightSpec == InitLog /\ [][NextLog]_logVars

-----------------------------------------------------------------------------

\* The types, and: when the writing starts there is a channel for every record.
TypeOK ==
    /\ ulog \in Ulogs
    /\ pc \in {"register", "write", "finished", "raised"}
    /\ registered \in 0 .. Len(ulog.data_list)
    /\ written \in [DOMAIN Streams -> Nat]
    /\ Len(mcap) = Cardinality(UNION {{s} \X (1 .. written[s]) : s \in DOMAIN Streams})
    /\ pc = "write" => \A s \in Pending : NextRecord(s).topic \in DOMAIN channels
    /\ reading \in {"closed", "open", "panicked", "sorted", "encoded"}
    /\ read \in 0 .. Len(mcap)
    /\ DOMAIN topic_descriptors = {mcap[k].topic : k \in 1 .. read}
    /\ DOMAIN pool \subseteq {mcap[k].schema_name : k \in 1 .. read}
    /\ DOMAIN batches = IF reading = "encoded" THEN DOMAIN groups ELSE {}

-----------------------------------------------------------------------------

Sorted == reading \in {"sorted", "encoded"}

\* The rows of entry n of data_list in a group, and where they should be.
RowsOf(n, base) ==
    LET rows == groups[base].rows
    IN  {k \in DOMAIN rows : rows[k].record.source = [kind |-> "data", n |-> n]}

InItsTable(n) ==
    LET d == ulog.data_list[n]
    IN  d.records # <<>> =>
            /\ d.name \in DOMAIN groups
            /\ Cardinality(RowsOf(n, d.name)) = Len(d.records)
            /\ \A k \in RowsOf(n, d.name) : groups[d.name].rows[k].multi_id = d.multi_id
            /\ \A g \in DOMAIN groups \ {d.name} : RowsOf(n, g) = {}

\* The names that the schemas of the converter's own take in a descriptor pool.
TakenName ==
    LET set(t) == schema_bytes(FixedSchema[t], FixedCodec(t))
    IN  UNION {{set(t).file} \cup set(t).packages : t \in FixedTopic}

\* What the ULog calls a topic and an instance is the table and the multi_id of
\* its records in the lake: the converter writes both into the name of the
\* channel and the ingest takes them apart again.  Every record is there, once,
\* and no two of the topics are mixed up, except that the reader panics on a
\* message type named like one of the converter's own topics, or like a file or a
\* package of one of its own schemas.
EveryRecordInItsTable ==
    /\ Sorted => \A n \in DOMAIN ulog.data_list : InItsTable(n)
    /\ reading = "panicked" =>
           \E d \in ToSet(ulog.data_list) : d.name \in FixedTopic \cup TakenName

\* The rows of a table are in the order of their time, those of one time in the
\* order their stream had, whatever the order of the streams.
RowsInOrder ==
    Sorted =>
        \A g \in DOMAIN groups :
            LET rows == groups[g].rows
            IN  \A k \in 1 .. Len(rows), j \in 1 .. Len(rows) : j < k =>
                    /\ rows[j].publish_time <= rows[k].publish_time
                    /\ (rows[j].publish_time = rows[k].publish_time
                            /\ rows[j].record.source = rows[k].record.source)
                           => rows[j].record.row < rows[k].record.row

\* A row is decoded with the descriptor it was encoded with, through the schema
\* record of its channel, the reader's pool of names and its cache of topics.
DecodedAsEncoded ==
    \A g \in DOMAIN groups :
        \A k \in DOMAIN groups[g].rows :
            /\ groups[g].rows[k].decoded = descriptor(groups[g].rows[k].encoded)
            /\ groups[g].descriptor = groups[g].rows[k].decoded

StoredOnce(cell, fields) ==
    Cardinality(UNION {{k} \X {p \in Places(fields[k]) : CellName(fields[k], p[1], p[2]) = cell} :
                       k \in DOMAIN fields}) = 1

\* Each cell of a record that is not documented as dropped is read for exactly
\* one place of one field: none is lost and none is stored twice.
EveryCellStored ==
    \A k \in DOMAIN mcap : mcap[k].record.source.kind = "data" =>
        \A f \in ToSet(ulog.data_list[mcap[k].record.source.n].field_data) :
            Dropped(f.name, f.type_str) \/ StoredOnce(f.name, mcap[k].encoded.fields)

\* The row of a table that a record became.
RowOf(table, source, row) ==
    LET rows == groups[table].rows
        k == CHOOSE j \in DOMAIN rows : rows[j].record = [source |-> source, row |-> row]
    IN  batches[table][k]

\* A number in the lake stands for the one in the log: it is the same, but for a
\* uint64 that an i64 does not hold, whose bits are.
SameNumber(type_str, stored, v) ==
    CASE type_str = "bool" -> stored = (v # 0)
      [] type_str \in {"float", "double"} -> stored = v
      [] OTHER -> /\ v < 2^(WordBits - 1) => stored = v
                  /\ stored % 2^WordBits = v % 2^WordBits

\* The column of a cell, and its value in a row of the table.
ColumnOf(f) == proto_name(UlogField(f.name, f.type_str))

\* No cell is named like a standard column: what becomes of one that is, is the
\* subject of ArrowSchema.
ASSUME ColumnAssumption ==
    \A u \in Ulogs : \A d \in ToSet(u.data_list) : \A f \in ToSet(d.field_data) :
        Dropped(f.name, f.type_str) \/ ColumnOf(f) \notin R!StandardColumn

Stored(f, row) ==
    LET field == UlogField(f.name, f.type_str)
    IN  IF field.is_repeated
        THEN row[ColumnOf(f)][f.name[Len(field.ulog_base)].idx + 1]
        ELSE row[ColumnOf(f)]

\* Every number of every record of the log can be read from the table of its topic,
\* in the column and at the index that its name says, next to the time it has in
\* the log: through the codec that packs it, the numbers of the fields, the wire
\* and the conversion to the types of Arrow.
EveryNumberReadable ==
    reading = "encoded" =>
        \A n \in DOMAIN ulog.data_list :
            LET d == ulog.data_list[n] IN
            \A k \in DOMAIN d.records :
                LET row == RowOf(d.name, [kind |-> "data", n |-> n], k) IN
                /\ row[<<"offset", "us">>] = TimeOf(d.records[k])
                /\ row[<<"publish", "time">>] = Anchor + TimeOf(d.records[k])
                /\ \A f \in ToSet(d.field_data) :
                       f.type_str = "char" \/ Dropped(f.name, f.type_str)
                           \/ SameNumber(f.type_str, Stored(f, row), d.records[k][f.name])

\* The cells before a char in its array, and itself.
UpTo(f, d) ==
    {g \in {h.name : h \in ToSet(d.field_data)} :
        /\ Front(g) = Front(f.name)
        /\ Last(g).id = Last(f.name).id /\ Last(g).idx <= Last(f.name).idx}

\* The bytes that begin a character of several, as signed numbers.
LeadChar == -62 .. -12

\* A string in the lake has the characters of the log's array before its first
\* null, and nothing of the padding after it: each has its place as long as no
\* character of several bytes is before it.
EveryStringReadable ==
    reading = "encoded" =>
        \A n \in DOMAIN ulog.data_list :
            LET d == ulog.data_list[n] IN
            \A k \in DOMAIN d.records, f \in ToSet(d.field_data) :
                f.type_str = "char" /\ ~ Dropped(f.name, f.type_str) =>
                    LET string == Stored(f, RowOf(d.name, [kind |-> "data", n |-> n], k))
                        i == Last(f.name).idx + 1
                        char == d.records[k][f.name]
                    IN  (\A g \in UpTo(f, d) : d.records[k][g] \notin LeadChar) =>
                        /\ i <= Len(string) <=> \A g \in UpTo(f, d) : d.records[k][g] # 0
                        /\ i <= Len(string) /\ char > 0 => string[i] = char

\* A parameter change in the lake has the changed value, as an integer or as a
\* float: the member of the oneof that is not set reads as 0.
ParameterChangesReadable ==
    reading = "encoded" =>
        \A k \in DOMAIN ulog.changed_parameters :
            LET change == ulog.changed_parameters[k]
                row == RowOf(ParameterChangesTopic, [kind |-> "parameter", n |-> 0], k)
            IN  /\ row[<<"name">>] = change.name
                /\ row[<<"int", "value">>] = IF change.int THEN change.value ELSE 0
                /\ row[<<"float", "value">>] = IF change.int THEN 0 ELSE change.value

\* A message that was logged under a tag says so in the lake, and no other does.
TagsReadable ==
    reading = "encoded" /\ LogsTopic \in DOMAIN groups =>
        LET rows == groups[LogsTopic].rows IN
        \A k \in DOMAIN rows :
            LET source == rows[k].record.source
                name == batches[LogsTopic][k][<<"name">>]
            IN  /\ source.kind = "tagged" => name = <<source.n>>
                /\ source.kind = "log" => name = <<>>

\* The view names the column of arming_state, which each vehicle_status has; an hour
\* has its seconds and a day its midnight.
ASSUME StatusAssumption ==
    \A u \in Ulogs : \A d \in ToSet(u.data_list) : d.name = W!VehicleStatus =>
        [name |-> Cell(<<"arming", "state">>), type_str |-> "uint8_t"] \in ToSet(d.field_data)

ASSUME ClockAssumption == Second \in Nat \ {0} /\ Anchor \in Int

LogErrors == {k \in DOMAIN ulog.logged_messages : ulog.logged_messages[k].level = "ERROR"}

TaggedErrors ==
    {p \in Tagged : ulog.logged_messages_tagged[p[1]][p[2]].level = "ERROR"}

StatusRecords ==
    UNION {ToSet(d.records) : d \in {e \in ToSet(ulog.data_list) : e.name = W!VehicleStatus}}

ArmedRecords == {r \in StatusRecords : r[Cell(<<"arming", "state">>)] = 2}

Tells(shown, records) ==
    LET times == {TimeOf(r) : r \in records}
        us == Max(times) - Min(times)
    IN  records # {} /\ us # 60 * Second /\ us < 3600 * Second
            => shown[1] * 60 + shown[2] = us \div Second

\* curated.flights speaks of the log: the errors are the messages that PX4 logged
\* as ERROR, tagged or not (and not those above it), and the times are those of
\* the topic, of all its instances, to the second, unless they are a minute or
\* more than an hour.  (The table of the messages must be theirs alone.)
FlightsTellTheLog ==
    reading = "encoded" /\ W!VehicleStatus \in DOMAIN batches
        /\ (\A d \in ToSet(ulog.data_list) : d.name # LogsTopic) =>
            /\ W!error_count = Cardinality(LogErrors) + Cardinality(TaggedErrors)
            /\ Tells(W!duration, StatusRecords)
            /\ Tells(W!armed_duration, ArmedRecords)

InTimeOrder(s) == \A k \in DOMAIN s : k > 1 => s[k - 1].time <= s[k].time

\* If the log has each of its streams in order of time, so is the whole .mcap.
OrderedIfStreamsAre ==
    (\A s \in DOMAIN Streams : InTimeOrder(Streams[s])) =>
        \A k \in DOMAIN mcap : k > 1 => mcap[k - 1].publish_time <= mcap[k].publish_time

\* The nanoseconds do not fit into the 64 bits of a message's time, or the seconds
\* into the 32 of Foxglove's Timestamp.
TooLate(next) ==
    \/ next.time * 1000 >= 2^WordBits
    \/ next.topic \in {LogsTopic, TrajectoryTopic} /\ next.time \div Second >= 2^HalfBits

\* Of what a record holds, only its time can cost the log: if the conversion raises,
\* then because of the names and types that a message type declares, or because
\* the time of the next record is beyond what can be written.
RaisesForNamesOrTimes ==
    pc = "raised" =>
        \/ \E d \in ToSet(ulog.data_list) :
               \/ ~ Builds(_aggregate_fields(d.field_data))
               \/ \E f \in ToSet(d.field_data) : f.type_str = "char" /\ ~ IsArray(f.name)
        \/ \E s \in Pending : TooLate(NextRecord(s))

\* proto_gen.py:99: a UlogField has "everything needed to both declare it in a
\* descriptor and pull its value back out of a pyulog row dict": the rows of a
\* type for which a codec was made can be encoded.
EveryFieldIsPulledBack ==
    \A d \in ToSet(ulog.data_list) : d.name \in DOMAIN codecs =>
        \A r \in ToSet(d.records) : Encodes(codecs[d.name].fields, r)
==============================================================================
