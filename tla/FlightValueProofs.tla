-------------------------- MODULE FlightValueProofs --------------------------
(***************************************************************************)
(* What the rows of the lake say: theorems about the values of FlightLog,  *)
(* from LogInvariant.                                                      *)
(*                                                                         *)
(* A cell of a record and its column are followed through one definition   *)
(* each: the fields that _aggregate_fields makes of the cells, one for a   *)
(* key and wide enough for each of its cells (by induction over the steps  *)
(* of its function); the place of a cell in its field, and the one cell of *)
(* a place; the value that TopicCodec makes of a place; and the column of  *)
(* the field in the batch, by the descriptor of the group.  What of this   *)
(* is about a record at all is that its cells are those of its type.       *)
(***************************************************************************)
EXTENDS FlightLogProofs

-----------------------------------------------------------------------------
(* The cells of a row *)

\* The values of a row of a batch: those of the standard columns, and of each field
\* of the descriptor with a name that no other column has.
LEMMA BatchRow ==
    ASSUME NEW group, NEW i \in DOMAIN group.rows
    PROVE  LET desc == group.descriptor
               cells == R!build_record_batch(group)[i] IN
           /\ \A c \in R!StandardColumn : cells[c] = R!StandardValue(c, group.rows[i])
           /\ \A n \in R!Column(desc) :
                  /\ desc[n].name \notin R!StandardColumn
                  /\ \A m \in R!Column(desc) : desc[m].name = desc[n].name => m = n
                  => cells[desc[n].name] = R!FieldValue(desc[n], group.rows[i].message[n])
<1> DEFINE desc == group.descriptor
           row == group.rows[i]
           cells == R!build_record_batch(group)[i]
           number(c) == CHOOSE n \in R!Column(desc) : desc[n].name = c
           columns == R!StandardColumn \cup {desc[n].name : n \in R!Column(desc)}
<1>1. cells = [c \in columns |->
                  IF c \in R!StandardColumn THEN R!StandardValue(c, row)
                  ELSE R!FieldValue(desc[number(c)], row.message[number(c)])]
  BY DEF R!build_record_batch
<1> HIDE DEF cells
<1>2. ASSUME NEW n \in R!Column(desc), desc[n].name \notin R!StandardColumn,
             \A m \in R!Column(desc) : desc[m].name = desc[n].name => m = n
      PROVE  cells[desc[n].name] = R!FieldValue(desc[n], row.message[n])
  <2>1. number(desc[n].name) = n
    BY <1>2
  <2>2. desc[n].name \in columns
    OBVIOUS
  <2> HIDE DEF number, columns
  <2> QED BY <1>1, <1>2, <2>1, <2>2
<1>3. \A c \in R!StandardColumn : cells[c] = R!StandardValue(c, row)
  BY <1>1
<1> QED BY <1>2, <1>3 DEF cells

\* The row of a record, in the table of its stream.
LEMMA RowOfIs ==
    ASSUME LogInvariant, reading = "encoded", NEW s \in 1 .. N + 4, NEW j \in 1 .. Len(Streams[s]),
           NEW source, NEW row, Streams[s][j].record = [source |-> source, row |-> row]
    PROVE  LET b == TableOf(s) IN
           /\ b \in DOMAIN groups /\ b \in DOMAIN batches /\ GroupIs(b, s)
           /\ \E i \in DOMAIN groups[b].rows :
                  /\ RowIs(groups[b].rows[i], s, j)
                  /\ RowOf(b, source, row) = R!build_record_batch(groups[b])[i]
<1> DEFINE b == TableOf(s)
<1>1. /\ Sorted /\ Logged /\ ReaderPhases /\ RowsOfMessages
      /\ \A g \in DOMAIN groups : DOMAIN groups[g].rows = 1 .. Len(groups[g].rows)
  BY InvariantParts DEF Sorted
<1>2. b \in DOMAIN groups
  BY <1>1, RecordHasRow
<1>3. PICK i \in 1 .. Len(groups[b].rows) : groups[b].rows[i].record = Streams[s][j].record
  BY <1>1, RecordHasRow
<1>4. PICK r \in 1 .. N + 4 : GroupIs(b, r) /\ \E k \in 1 .. Len(Streams[r]) : RowIs(groups[b].rows[i], r, k)
  BY <1>2, RowIsOfRecord
<1>5. PICK k \in 1 .. Len(Streams[r]) : RowIs(groups[b].rows[i], r, k)
  BY <1>4
<1>6. Streams[r][k].record = Streams[s][j].record
  BY <1>3, <1>5 DEF RowIs
<1>7. r = s /\ k = j
  BY <1>1, <1>6, RecordsDiffer
<1>8. batches = [g \in DOMAIN groups |-> R!build_record_batch(groups[g])]
  BY <1>1 DEF ReaderPhases
<1>9. \A x, y \in 1 .. Len(groups[b].rows) : groups[b].rows[x].record = groups[b].rows[y].record => x = y
  BY <1>1, <1>2 DEF RowsOfMessages
<1>10. (CHOOSE x \in DOMAIN groups[b].rows : groups[b].rows[x].record = [source |-> source, row |-> row]) = i
  <2>1. groups[b].rows[i].record = [source |-> source, row |-> row]
    BY <1>3
  <2>2. DOMAIN groups[b].rows = 1 .. Len(groups[b].rows)
    BY <1>1, <1>2
  <2>3. \A x \in DOMAIN groups[b].rows : groups[b].rows[x].record = [source |-> source, row |-> row] => x = i
    BY <1>9, <2>1, <2>2
  <2> HIDE DEF b
  <2> QED BY <2>1, <2>2, <2>3
<1>11. RowOf(b, source, row) = batches[b][i]
  BY <1>10 DEF RowOf
<1>12. batches[b] = R!build_record_batch(groups[b]) /\ b \in DOMAIN batches /\ i \in DOMAIN groups[b].rows
  BY <1>1, <1>2, <1>8
<1> QED BY <1>2, <1>4, <1>5, <1>7, <1>11, <1>12

-----------------------------------------------------------------------------
(* The converter's own codecs *)

LEMMA OwnCodecs ==
    ASSUME Logged
    PROVE  LET parameters == CodecOf(N + 3)
               logs(s) == CodecOf(s) IN
           /\ TableOf(N + 3) = ParameterChangesTopic
           /\ descriptor(parameters) = ParameterChanged_FIELDS
           /\ \A p : encode(parameters, p) = ParameterChangedCodec_encode(p)
           /\ \A s \in {N + 1, N + 2} :
                  /\ TableOf(s) = LogsTopic
                  /\ descriptor(logs(s)) = Log_FIELDS
                  /\ \A p : encode(logs(s), p) = LogCodec_encode(p)
<1>1. N \in Nat /\ N + 3 \notin 1 .. N /\ N + 1 \notin 1 .. N /\ N + 2 \notin 1 .. N
      /\ N + 1 # N + 3 /\ N + 2 # N + 3 /\ N + 1 # N + 4 /\ N + 2 # N + 4
  <2>1. N \in Nat
    BY StreamsAre
  <2> QED BY <2>1
<1>2. TopicOf(N + 3) = ParameterChangesTopic /\ TopicOf(N + 1) = LogsTopic /\ TopicOf(N + 2) = LogsTopic
  BY <1>1 DEF TopicOf
<1>3. /\ ParameterChangesTopic # LogsTopic /\ ParameterChangesTopic # TrajectoryTopic
      /\ LogsTopic # TrajectoryTopic
  BY DEF ParameterChangesTopic, LogsTopic, TrajectoryTopic
<1>4. /\ FixedCodec(ParameterChangesTopic) = ProtobufCodec("ParameterChangedCodec")
      /\ FixedCodec(LogsTopic) = ProtobufCodec("LogCodec")
  BY <1>3 DEF FixedCodec
<1>5. /\ CodecOf(N + 3) = ProtobufCodec("ParameterChangedCodec")
      /\ CodecOf(N + 1) = ProtobufCodec("LogCodec") /\ CodecOf(N + 2) = ProtobufCodec("LogCodec")
  BY <1>1, <1>2, <1>4 DEF CodecOf
<1>6. /\ ProtobufCodec("ParameterChangedCodec").class = "ParameterChangedCodec"
      /\ ProtobufCodec("LogCodec").class = "LogCodec"
  BY DEF ProtobufCodec
<1>7. /\ descriptor(ProtobufCodec("ParameterChangedCodec")) = ParameterChanged_FIELDS
      /\ descriptor(ProtobufCodec("LogCodec")) = Log_FIELDS
  BY <1>6 DEF descriptor
<1>8. \A p : /\ encode(ProtobufCodec("ParameterChangedCodec"), p) = ParameterChangedCodec_encode(p)
             /\ encode(ProtobufCodec("LogCodec"), p) = LogCodec_encode(p)
  BY <1>6 DEF encode
<1>9. /\ TableOf(N + 3) = ParameterChangesTopic
      /\ TableOf(N + 1) = LogsTopic /\ TableOf(N + 2) = LogsTopic
  BY <1>1, <1>2 DEF TableOf
<1> QED BY <1>5, <1>7, <1>8, <1>9

ParameterSource == [kind |-> "parameter", n |-> 0]

LEMMA ParameterRecords ==
    ASSUME Logged
    PROVE  LET changes == ulog.changed_parameters IN
           /\ DOMAIN changes = 1 .. Len(Streams[N + 3])
           /\ \A k \in DOMAIN changes :
                  /\ Streams[N + 3][k].record = [source |-> ParameterSource, row |-> k]
                  /\ Streams[N + 3][k].payload = ParameterPayload(changes[k])
<1>1. Streams[N + 3] = stream_parameter_changes
  BY StreamsAre
<1>2. DOMAIN ulog.changed_parameters = 1 .. Len(ulog.changed_parameters)
  BY MessageFacts, SequenceFacts DEF Logged
<1>3. /\ Len(stream_parameter_changes) = Len(ulog.changed_parameters)
      /\ \A k \in 1 .. Len(ulog.changed_parameters) :
             /\ stream_parameter_changes[k].payload = ParameterPayload(ulog.changed_parameters[k])
             /\ stream_parameter_changes[k].record = [source |-> ParameterSource, row |-> k]
  BY ParameterStream DEF ParameterSource
<1> QED BY <1>1, <1>2, <1>3

\* The columns of the parameter changes, and what they say.
LEMMA ParameterColumns ==
    /\ DOMAIN ParameterChanged_FIELDS = 1 .. 4
    /\ R!Column(ParameterChanged_FIELDS) = 1 .. 4
    /\ \A n \in 2 .. 4 : /\ ParameterChanged_FIELDS[n].name \notin R!StandardColumn
                         /\ \A m \in 1 .. 4 : ParameterChanged_FIELDS[m].name = ParameterChanged_FIELDS[n].name
                                => m = n
    /\ ParameterChanged_FIELDS[2] = Declared(<<"name">>, "string", FALSE)
    /\ ParameterChanged_FIELDS[3] = Declared(<<"int", "value">>, "int64", FALSE)
    /\ ParameterChanged_FIELDS[4] = Declared(<<"float", "value">>, "double", FALSE)
<1>1. /\ ParameterChanged_FIELDS[1].name = <<"timestamp">>
      /\ ParameterChanged_FIELDS[2].name = <<"name">>
      /\ ParameterChanged_FIELDS[3].name = <<"int", "value">>
      /\ ParameterChanged_FIELDS[4].name = <<"float", "value">>
  BY DEF ParameterChanged_FIELDS, Declared
<1>2. DOMAIN ParameterChanged_FIELDS = 1 .. 4
  BY DEF ParameterChanged_FIELDS
<1>3. /\ ParameterChanged_FIELDS[1].proto_type = "uint64"
      /\ ParameterChanged_FIELDS[2] = Declared(<<"name">>, "string", FALSE)
      /\ ParameterChanged_FIELDS[3] = Declared(<<"int", "value">>, "int64", FALSE)
      /\ ParameterChanged_FIELDS[4] = Declared(<<"float", "value">>, "double", FALSE)
  BY DEF ParameterChanged_FIELDS, Declared
<1>4. \A n \in 1 .. 4 : ParameterChanged_FIELDS[n].proto_type # "message"
  <2>1. \A n \in 1 .. 4 : n = 1 \/ n = 2 \/ n = 3 \/ n = 4
    OBVIOUS
  <2> QED BY <1>3, <2>1 DEF Declared
<1>5. R!Column(ParameterChanged_FIELDS) = 1 .. 4
  BY <1>2, <1>4 DEF R!Column
<1>6. ASSUME NEW n \in 2 .. 4
      PROVE  /\ ParameterChanged_FIELDS[n].name \notin R!StandardColumn
             /\ \A m \in 1 .. 4 : ParameterChanged_FIELDS[m].name = ParameterChanged_FIELDS[n].name => m = n
  <2>1. /\ <<"name">> \notin R!StandardColumn /\ <<"int", "value">> \notin R!StandardColumn
        /\ <<"float", "value">> \notin R!StandardColumn
    BY DEF R!StandardColumn
  <2>2. n = 2 \/ n = 3 \/ n = 4
    OBVIOUS
  <2>3. \A m \in 1 .. 4 : m = 1 \/ m = 2 \/ m = 3 \/ m = 4
    OBVIOUS
  <2>4. /\ <<"timestamp">> # <<"name">> /\ <<"timestamp">> # <<"int", "value">>
        /\ <<"timestamp">> # <<"float", "value">> /\ <<"name">> # <<"int", "value">>
        /\ <<"name">> # <<"float", "value">> /\ <<"int", "value">> # <<"float", "value">>
    OBVIOUS
  <2> QED BY <1>1, <2>1, <2>2, <2>3, <2>4
<1> QED BY <1>2, <1>3, <1>5, <1>6

LEMMA ChangeReadable ==
    ASSUME LogInvariant, reading = "encoded", NEW k \in DOMAIN ulog.changed_parameters
    PROVE  LET change == ulog.changed_parameters[k]
               row == RowOf(ParameterChangesTopic, ParameterSource, k) IN
           /\ row[<<"name">>] = change.name
           /\ row[<<"int", "value">>] = IF change.int THEN change.value ELSE 0
           /\ row[<<"float", "value">>] = IF change.int THEN 0 ELSE change.value
<1> DEFINE change == ulog.changed_parameters[k]
           b == ParameterChangesTopic
           payload == ParameterPayload(change)
           F == ParameterChanged_FIELDS
<1>1. Logged /\ N \in Nat /\ N + 3 \in 1 .. N + 4
  BY InvariantParts
<1>2. /\ TableOf(N + 3) = b /\ descriptor(CodecOf(N + 3)) = F
      /\ \A p : encode(CodecOf(N + 3), p) = ParameterChangedCodec_encode(p)
  BY <1>1, OwnCodecs
<1>3. /\ k \in 1 .. Len(Streams[N + 3])
      /\ Streams[N + 3][k].record = [source |-> ParameterSource, row |-> k]
      /\ Streams[N + 3][k].payload = payload
  BY <1>1, ParameterRecords
<1>4. /\ GroupIs(b, N + 3)
      /\ \E i \in DOMAIN groups[b].rows :
             /\ RowIs(groups[b].rows[i], N + 3, k)
             /\ RowOf(b, ParameterSource, k) = R!build_record_batch(groups[b])[i]
  BY <1>1, <1>2, <1>3, RowOfIs
<1>5. PICK i \in DOMAIN groups[b].rows :
          /\ RowIs(groups[b].rows[i], N + 3, k)
          /\ RowOf(b, ParameterSource, k) = R!build_record_batch(groups[b])[i]
  BY <1>4
<1>6. groups[b].descriptor = F
  BY <1>2, <1>4 DEF GroupIs
<1>7. PICK m : m = groups[b].rows[i].message
  OBVIOUS
<1>8. m = ParameterChangedCodec_encode(payload)
  BY <1>2, <1>3, <1>5, <1>7 DEF RowIs
<1>9. PICK row : row = RowOf(b, ParameterSource, k)
  OBVIOUS
<1>10. \A n \in 2 .. 4 : row[F[n].name] = R!FieldValue(F[n], m[n])
  <2>1. \A n \in R!Column(groups[b].descriptor) :
            /\ groups[b].descriptor[n].name \notin R!StandardColumn
            /\ \A l \in R!Column(groups[b].descriptor) :
                   groups[b].descriptor[l].name = groups[b].descriptor[n].name => l = n
            => R!build_record_batch(groups[b])[i][groups[b].descriptor[n].name]
                   = R!FieldValue(groups[b].descriptor[n], groups[b].rows[i].message[n])
    BY BatchRow
  <2> HIDE DEF F, b
  <2>2. \A n \in R!Column(F) :
            /\ F[n].name \notin R!StandardColumn
            /\ \A l \in R!Column(F) : F[l].name = F[n].name => l = n
            => row[F[n].name] = R!FieldValue(F[n], m[n])
    BY <1>5, <1>6, <1>7, <1>9, <2>1
  <2> QED BY <2>2, ParameterColumns DEF F
<1>11. /\ row[<<"name">>] = m[2] /\ row[<<"int", "value">>] = m[3]
       /\ row[<<"float", "value">>] = m[4]
  <2>1. /\ F[2] = Declared(<<"name">>, "string", FALSE)
        /\ F[3] = Declared(<<"int", "value">>, "int64", FALSE)
        /\ F[4] = Declared(<<"float", "value">>, "double", FALSE)
    BY ParameterColumns
  <2> HIDE DEF F
  <2>2. /\ F[2].name = <<"name">> /\ F[3].name = <<"int", "value">>
        /\ F[4].name = <<"float", "value">>
    BY <2>1 DEF Declared
  <2>3. R!FieldValue(F[2], m[2]) = m[2] /\ R!FieldValue(F[3], m[3]) = m[3]
        /\ R!FieldValue(F[4], m[4]) = m[4]
    BY <2>1 DEF Declared, R!FieldValue, R!ArrowValue
  <2> QED BY <1>10, <2>2, <2>3
<1>12. /\ m[2] = change.name /\ m[3] = (IF change.int THEN change.value ELSE 0)
       /\ m[4] = IF change.int THEN 0 ELSE change.value
  <2>1. CASE change.int
    <3>1. payload = [timestamp |-> change.timestamp, name |-> change.name, int_value |-> change.value]
      BY <2>1 DEF ParameterPayload
    <3>2. DOMAIN payload = {"timestamp", "name", "int_value"} /\ payload.name = change.name
          /\ payload.int_value = change.value
      BY <3>1
    <3> HIDE DEF payload
    <3>3. m[2] = payload.name /\ m[3] = payload.int_value /\ m[4] = 0
      BY <1>8, <3>2 DEF ParameterChangedCodec_encode
    <3> QED BY <2>1, <3>2, <3>3
  <2>2. CASE ~ change.int
    <3>1. payload = [timestamp |-> change.timestamp, name |-> change.name, float_value |-> change.value]
      BY <2>2 DEF ParameterPayload
    <3>2. DOMAIN payload = {"timestamp", "name", "float_value"} /\ payload.name = change.name
          /\ payload.float_value = change.value
      BY <3>1
    <3> HIDE DEF payload
    <3>3. m[2] = payload.name /\ m[3] = 0 /\ m[4] = payload.float_value
      BY <1>8, <3>2 DEF ParameterChangedCodec_encode
    <3> QED BY <2>2, <3>2, <3>3
  <2> QED BY <2>1, <2>2
<1> QED BY <1>9, <1>11, <1>12

\* A parameter change is in the lake with its name and its value, the value in the
\* column of its kind and 0 in the other one: the oneof that convert.py sets, the
\* descriptor of proto_gen.py and the columns of arrow_encode.rs agree.
THEOREM ParametersReachTheLake == FlightSpec => []ParameterChangesReadable
<1>1. LogInvariant => ParameterChangesReadable
  BY ChangeReadable DEF ParameterChangesReadable, ParameterSource
<1> QED BY <1>1, LogInvariantHolds, PTL

-----------------------------------------------------------------------------
(* Logged messages *)

\* The columns of logged_messages: of level and name, with no other of their names.
LEMMA LogColumns ==
    /\ R!Column(Log_FIELDS) = 2 .. 6
    /\ \A n \in {2, 4} : /\ Log_FIELDS[n].name \notin R!StandardColumn
                         /\ \A m \in 2 .. 6 : Log_FIELDS[m].name = Log_FIELDS[n].name => m = n
    /\ Log_FIELDS[2] = Declared(<<"level">>, "enum", FALSE)
    /\ Log_FIELDS[4] = Declared(<<"name">>, "string", FALSE)
<1>1. /\ Log_FIELDS[1] = Declared(<<"timestamp">>, "message", FALSE)
      /\ Log_FIELDS[2] = Declared(<<"level">>, "enum", FALSE)
      /\ Log_FIELDS[3] = Declared(<<"message">>, "string", FALSE)
      /\ Log_FIELDS[4] = Declared(<<"name">>, "string", FALSE)
      /\ Log_FIELDS[5] = Declared(<<"file">>, "string", FALSE)
      /\ Log_FIELDS[6] = Declared(<<"line">>, "fixed32", FALSE)
      /\ DOMAIN Log_FIELDS = 1 .. 6
  BY DEF Log_FIELDS
<1>2. /\ Log_FIELDS[1].proto_type = "message"
      /\ Log_FIELDS[2].proto_type = "enum" /\ Log_FIELDS[2].name = <<"level">>
      /\ Log_FIELDS[3].proto_type = "string" /\ Log_FIELDS[3].name = <<"message">>
      /\ Log_FIELDS[4].proto_type = "string" /\ Log_FIELDS[4].name = <<"name">>
      /\ Log_FIELDS[5].proto_type = "string" /\ Log_FIELDS[5].name = <<"file">>
      /\ Log_FIELDS[6].proto_type = "fixed32" /\ Log_FIELDS[6].name = <<"line">>
  BY <1>1 DEF Declared
<1>3. \A n \in 1 .. 6 : n = 1 \/ n = 2 \/ n = 3 \/ n = 4 \/ n = 5 \/ n = 6
  OBVIOUS
<1>4. R!Column(Log_FIELDS) = 2 .. 6
  <2>1. \A n \in 2 .. 6 : n \in 1 .. 6 /\ Log_FIELDS[n].proto_type # "message"
    BY <1>2, <1>3
  <2>2. \A n \in 1 .. 6 : n \in 2 .. 6 \/ n = 1
    OBVIOUS
  <2> QED BY <1>1, <1>2, <2>1, <2>2 DEF R!Column
<1>5. <<"level">> \notin R!StandardColumn /\ <<"name">> \notin R!StandardColumn
  BY DEF R!StandardColumn
<1>6. /\ <<"level">> # <<"message">> /\ <<"level">> # <<"name">> /\ <<"level">> # <<"file">>
      /\ <<"level">> # <<"line">> /\ <<"name">> # <<"message">> /\ <<"name">> # <<"file">>
      /\ <<"name">> # <<"line">>
  OBVIOUS
<1>7. \A m \in 2 .. 6 : /\ Log_FIELDS[m].name = <<"level">> => m = 2
                        /\ Log_FIELDS[m].name = <<"name">> => m = 4
  BY <1>2, <1>3, <1>6
<1> QED BY <1>1, <1>2, <1>4, <1>5, <1>7

\* The row of a logged message has its name and the word of its level.
LEMMA LogRow ==
    ASSUME LogInvariant, reading = "encoded", LogsTopic \in DOMAIN groups,
           NEW k \in DOMAIN groups[LogsTopic].rows, NEW s \in {N + 1, N + 2},
           NEW j \in 1 .. Len(Streams[s]), RowIs(groups[LogsTopic].rows[k], s, j)
    PROVE  /\ batches[LogsTopic][k][<<"name">>] = Streams[s][j].payload.name
           /\ batches[LogsTopic][k][<<"level">>] = R!ArrowValue("enum", Streams[s][j].payload.level)
<1> DEFINE b == LogsTopic
           F == Log_FIELDS
           row == batches[b][k]
           m == groups[b].rows[k].message
           payload == Streams[s][j].payload
<1>1. /\ Logged /\ ReaderPhases /\ N \in Nat /\ N + 1 \in 1 .. N + 4 /\ N + 2 \in 1 .. N + 4
      /\ k \in 1 .. Len(groups[b].rows)
  BY InvariantParts
<1>2. /\ TableOf(s) = b /\ descriptor(CodecOf(s)) = F
      /\ \A p : encode(CodecOf(s), p) = LogCodec_encode(p)
  BY <1>1, OwnCodecs
<1>3. groups[b].descriptor = F
  <2>1. PICK r \in 1 .. N + 4 : GroupIs(b, r) /\ \E i \in 1 .. Len(Streams[r]) : RowIs(groups[b].rows[k], r, i)
    BY <1>1, RowIsOfRecord
  <2>2. PICK i \in 1 .. Len(Streams[r]) : RowIs(groups[b].rows[k], r, i)
    BY <2>1
  <2>3. Streams[r][i].record = Streams[s][j].record
    BY <2>2 DEF RowIs
  <2>4. r = s
    BY <1>1, <2>3, RecordsDiffer
  <2> QED BY <1>2, <2>1, <2>4 DEF GroupIs
<1>4. m = LogCodec_encode(payload)
  BY <1>2 DEF RowIs
<1>5. m[2] = payload.level /\ m[4] = payload.name
  BY <1>4 DEF LogCodec_encode
<1>6. row = R!build_record_batch(groups[b])[k]
  BY <1>1 DEF ReaderPhases
<1>7. \A n \in {2, 4} : row[F[n].name] = R!FieldValue(F[n], m[n])
  <2>1. \A n \in R!Column(groups[b].descriptor) :
            /\ groups[b].descriptor[n].name \notin R!StandardColumn
            /\ \A l \in R!Column(groups[b].descriptor) :
                   groups[b].descriptor[l].name = groups[b].descriptor[n].name => l = n
            => R!build_record_batch(groups[b])[k][groups[b].descriptor[n].name]
                   = R!FieldValue(groups[b].descriptor[n], groups[b].rows[k].message[n])
    BY BatchRow
  <2>2. {2, 4} \subseteq R!Column(F) /\ R!Column(F) = 2 .. 6
    BY LogColumns
  <2> HIDE DEF F, b, m, row
  <2>3. \A n \in R!Column(F) :
            /\ F[n].name \notin R!StandardColumn
            /\ \A l \in R!Column(F) : F[l].name = F[n].name => l = n
            => row[F[n].name] = R!FieldValue(F[n], m[n])
    BY <1>3, <1>6, <2>1 DEF m
  <2> QED BY <2>2, <2>3, LogColumns DEF F
<1>8. /\ F[2] = Declared(<<"level">>, "enum", FALSE)
      /\ F[4] = Declared(<<"name">>, "string", FALSE)
  BY LogColumns
<1> HIDE DEF F, b, m, row, payload
<1>9. /\ F[2].name = <<"level">> /\ F[4].name = <<"name">>
      /\ R!FieldValue(F[2], m[2]) = R!ArrowValue("enum", m[2])
      /\ R!FieldValue(F[4], m[4]) = m[4]
  BY <1>8 DEF Declared, R!FieldValue, R!ArrowValue
<1>10. row[<<"name">>] = payload.name /\ row[<<"level">>] = R!ArrowValue("enum", payload.level)
  BY <1>5, <1>7, <1>9
<1> QED BY <1>10 DEF row, payload, b

\* What the records of the two streams of logged messages say of them.
LEMMA LogRecords ==
    ASSUME Logged
    PROVE  /\ Len(Streams[N + 1]) = Len(ulog.logged_messages)
           /\ \A j \in 1 .. Len(Streams[N + 1]) :
                  /\ Streams[N + 1][j].record = [source |-> [kind |-> "log", n |-> 0], row |-> j]
                  /\ Streams[N + 1][j].payload.name = <<>>
                  /\ Streams[N + 1][j].payload.level
                         = _PX4_TO_FOXGLOVE_LOG_LEVEL(ulog.logged_messages[j].level)
           /\ \A j \in 1 .. Len(Streams[N + 2]) :
                  LET tag == Streams[N + 2][j].record.source.n
                      row == Streams[N + 2][j].record.row IN
                  /\ Streams[N + 2][j].record = [source |-> [kind |-> "tagged", n |-> tag], row |-> row]
                  /\ <<tag, row>> \in Tagged
                  /\ Streams[N + 2][j].payload.name = <<tag>>
                  /\ Streams[N + 2][j].payload.level
                         = _PX4_TO_FOXGLOVE_LOG_LEVEL(ulog.logged_messages_tagged[tag][row].level)
           /\ \A p \in Tagged : \E j \in 1 .. Len(Streams[N + 2]) :
                  Streams[N + 2][j].record = [source |-> [kind |-> "tagged", n |-> p[1]], row |-> p[2]]
<1>1. Streams[N + 1] = stream_logged_messages /\ Streams[N + 2] = stream_logged_messages_tagged
  BY StreamsAre
<1>2. \A log, name : /\ FormattedRecord(log, name).payload.name = name
                     /\ FormattedRecord(log, name).payload.level = _PX4_TO_FOXGLOVE_LOG_LEVEL(log.level)
  BY DEF FormattedRecord
<1>3. /\ Len(stream_logged_messages) = Len(ulog.logged_messages)
      /\ \A j \in 1 .. Len(stream_logged_messages) :
             /\ stream_logged_messages[j].record = [source |-> [kind |-> "log", n |-> 0], row |-> j]
             /\ stream_logged_messages[j].payload = FormattedRecord(ulog.logged_messages[j], <<>>).payload
  BY LogStream
<1>4. \A j \in 1 .. Len(stream_logged_messages_tagged) :
          LET tag == stream_logged_messages_tagged[j].record.source.n
              row == stream_logged_messages_tagged[j].record.row IN
          /\ stream_logged_messages_tagged[j].record = [source |-> [kind |-> "tagged", n |-> tag], row |-> row]
          /\ <<tag, row>> \in Tagged
          /\ stream_logged_messages_tagged[j].payload
                 = FormattedRecord(ulog.logged_messages_tagged[tag][row], TagName(tag)).payload
  BY TaggedStream
<1>5. \A p \in Tagged : \E j \in 1 .. Len(stream_logged_messages_tagged) :
          stream_logged_messages_tagged[j].record = [source |-> [kind |-> "tagged", n |-> p[1]], row |-> p[2]]
  BY TaggedStream
<1>6. \A tag : TagName(tag) = <<tag>>
  BY DEF TagName
<1>7. ASSUME NEW j \in 1 .. Len(Streams[N + 2])
      PROVE  LET tag == Streams[N + 2][j].record.source.n
                 row == Streams[N + 2][j].record.row IN
             /\ Streams[N + 2][j].record = [source |-> [kind |-> "tagged", n |-> tag], row |-> row]
             /\ <<tag, row>> \in Tagged
             /\ Streams[N + 2][j].payload.name = <<tag>>
             /\ Streams[N + 2][j].payload.level
                    = _PX4_TO_FOXGLOVE_LOG_LEVEL(ulog.logged_messages_tagged[tag][row].level)
  <2>1. PICK st, tag, row :
            /\ st = Streams[N + 2][j] /\ tag = st.record.source.n /\ row = st.record.row
    OBVIOUS
  <2>2. /\ st.record = [source |-> [kind |-> "tagged", n |-> tag], row |-> row]
        /\ <<tag, row>> \in Tagged
        /\ st.payload = FormattedRecord(ulog.logged_messages_tagged[tag][row], TagName(tag)).payload
    BY <1>1, <1>4, <2>1
  <2>3. /\ st.payload.name = <<tag>>
        /\ st.payload.level = _PX4_TO_FOXGLOVE_LOG_LEVEL(ulog.logged_messages_tagged[tag][row].level)
    BY <1>2, <1>6, <2>2
  <2> QED BY <2>1, <2>2, <2>3
<1>8. ASSUME NEW j \in 1 .. Len(Streams[N + 1])
      PROVE  /\ Streams[N + 1][j].record = [source |-> [kind |-> "log", n |-> 0], row |-> j]
             /\ Streams[N + 1][j].payload.name = <<>>
             /\ Streams[N + 1][j].payload.level
                    = _PX4_TO_FOXGLOVE_LOG_LEVEL(ulog.logged_messages[j].level)
  <2>1. PICK st, log, none : st = Streams[N + 1][j] /\ log = ulog.logged_messages[j] /\ none = <<>>
    OBVIOUS
  <2>2. st.record = [source |-> [kind |-> "log", n |-> 0], row |-> j]
    BY <1>1, <1>3, <2>1
  <2>3. st.payload = FormattedRecord(log, none).payload
    BY <1>1, <1>3, <2>1
  <2>4. st.payload.name = none /\ st.payload.level = _PX4_TO_FOXGLOVE_LOG_LEVEL(log.level)
    BY <1>2, <2>3
  <2> QED BY <2>1, <2>2, <2>4
<1> QED BY <1>1, <1>3, <1>5, <1>7, <1>8

LEMMA TagReadable ==
    ASSUME LogInvariant, reading = "encoded", LogsTopic \in DOMAIN groups,
           NEW k \in DOMAIN groups[LogsTopic].rows
    PROVE  LET source == groups[LogsTopic].rows[k].record.source
               name == batches[LogsTopic][k][<<"name">>] IN
           /\ source.kind = "tagged" => name = <<source.n>>
           /\ source.kind = "log" => name = <<>>
<1> DEFINE source == groups[LogsTopic].rows[k].record.source
<1>1. Logged /\ N \in Nat /\ k \in 1 .. Len(groups[LogsTopic].rows)
  BY InvariantParts
<1>2. PICK s \in 1 .. N + 4 : \E j \in 1 .. Len(Streams[s]) : RowIs(groups[LogsTopic].rows[k], s, j)
  BY <1>1, RowIsOfRecord
<1>3. PICK j \in 1 .. Len(Streams[s]) : RowIs(groups[LogsTopic].rows[k], s, j)
  BY <1>2
<1>4. source = Streams[s][j].record.source
  BY <1>3 DEF RowIs
<1>5. From(s, source)
  BY <1>1, <1>4, RecordFacts
<1> HIDE DEF source
<1>6. CASE source.kind = "tagged"
  <2>1. s = N + 2
    BY <1>5, <1>6 DEF From
  <2>2. batches[LogsTopic][k][<<"name">>] = Streams[s][j].payload.name
    BY <1>3, <2>1, LogRow
  <2>3. Streams[s][j].payload.name = <<source.n>>
    BY <1>1, <1>4, <2>1, LogRecords
  <2> QED BY <1>6, <2>2, <2>3 DEF source
<1>7. CASE source.kind = "log"
  <2>1. s = N + 1
    BY <1>5, <1>7 DEF From
  <2>2. batches[LogsTopic][k][<<"name">>] = Streams[s][j].payload.name
    BY <1>3, <2>1, LogRow
  <2>3. Streams[s][j].payload.name = <<>>
    BY <1>1, <2>1, LogRecords
  <2> QED BY <1>7, <2>2, <2>3 DEF source
<1> QED BY <1>6, <1>7 DEF source

\* A message that was logged under a tag has the tag for its name in the lake, and
\* one that was not has none.
THEOREM TagsReachTheLake == FlightSpec => []TagsReadable
<1>1. LogInvariant => TagsReadable
  BY TagReadable DEF TagsReadable
<1> QED BY <1>1, LogInvariantHolds, PTL

-----------------------------------------------------------------------------
(* The field of a cell *)

FieldOf(f) == UlogField(f.name, f.type_str)

Entry(f) == f.name \in Seq(Segment) \ {<<>>} /\ f.type_str \in UlogType

LEMMA NameFacts ==
    ASSUME NEW f, Entry(f)
    PROVE  LET len == Len(f.name) IN
           /\ len \in Nat /\ len >= 1 /\ DOMAIN f.name = 1 .. len
           /\ f.name = [k \in 1 .. len |-> f.name[k]]
           /\ \A k \in 1 .. len :
                  /\ f.name[k] = [id |-> f.name[k].id, idx |-> f.name[k].idx]
                  /\ f.name[k].id # NoLeaf /\ f.name[k].idx \in Int
                  /\ Indexed(f.name, k) <=> f.name[k].idx >= 0
                  /\ ~ Indexed(f.name, k) <=> f.name[k].idx = NoIndex
<1>1. f.name \in Seq(Segment) /\ f.name # <<>>
  BY DEF Entry
<1>2. PICK name \in Seq(Segment) : name = f.name
  BY <1>1
<1>3. Len(name) \in Nat /\ DOMAIN name = 1 .. Len(name) /\ name # <<>>
      /\ name = [k \in 1 .. Len(name) |-> name[k]]
  BY <1>1, <1>2
<1>4. Len(name) >= 1
  BY <1>3, EmptySeq
<1>5. ASSUME NEW k \in 1 .. Len(name)
      PROVE  /\ name[k] = [id |-> name[k].id, idx |-> name[k].idx]
             /\ name[k].id # NoLeaf /\ name[k].idx \in Int
             /\ Indexed(name, k) <=> name[k].idx >= 0
             /\ ~ Indexed(name, k) <=> name[k].idx = NoIndex
  <2>1. name[k] \in Segment
    BY <1>2, ElementOfSeq
  <2>2. PICK seg \in Segment : seg = name[k]
    BY <2>1
  <2>3. seg.id # NoLeaf /\ seg.idx \in Nat \cup {NoIndex} /\ seg = [id |-> seg.id, idx |-> seg.idx]
    BY DEF Segment, NoLeaf
  <2> QED BY <2>2, <2>3 DEF Indexed, NoIndex
<1> QED BY <1>2, <1>3, <1>4, <1>5

\* The segment that is the last of the field's base.
LEMMA StructAtIs ==
    ASSUME NEW f, Entry(f), IsStructArray(f.name)
    PROVE  LET at == StructAt(f.name) IN
           /\ at \in 1 .. Len(f.name) - 1 /\ Indexed(f.name, at)
           /\ \A k \in 1 .. at - 1 : ~ Indexed(f.name, k)
<1> DEFINE S == {k \in 1 .. Len(f.name) - 1 : Indexed(f.name, k)}
<1>1. Len(f.name) \in Nat
  BY NameFacts
<1>2. S # {} /\ S \subseteq Nat
  BY <1>1 DEF IsStructArray
<1>3. PICK m \in S : \A k \in S : m <= k
  BY <1>2, Least
<1>4. \A j \in 1 .. m - 1 : ~ Indexed(f.name, j)
  BY <1>1, <1>3
<1> QED BY <1>1, <1>3, <1>4 DEF StructAt

LEMMA ProtoTypes ==
    ASSUME NEW type_str \in UlogType
    PROVE  LET type == _ULOG_TO_PROTO_TYPE(type_str) IN
           /\ type \in {"int32", "int64", "uint32", "uint64", "float", "double", "bool", "string"}
           /\ type = "string" <=> type_str = "char"
           /\ type = "bool" <=> type_str = "bool"
           /\ type = "uint64" <=> type_str = "uint64_t"
           /\ type \in {"float", "double"} <=> type_str \in {"float", "double"}
BY DEF UlogType, _ULOG_TO_PROTO_TYPE

\* What UlogField makes of a cell that is kept, by the segments of its name.
Shaped(f) ==
    LET F   == FieldOf(f)
        at  == Len(F.ulog_base)
        len == Len(f.name)
    IN  /\ at \in 1 .. len /\ (at = len \/ at = len - 1)
        /\ \A k \in 1 .. len : k # at /\ k # len => ~ Indexed(f.name, k)
        /\ F.ulog_base = [k \in 1 .. at |-> f.name[k].id]
        /\ at = len => F.leaf = NoLeaf
        /\ at # len => F.leaf = f.name[len].id
        /\ F.proto_type = _ULOG_TO_PROTO_TYPE(f.type_str)
        /\ F.is_repeated \in BOOLEAN
        /\ F.is_repeated <=> (Indexed(f.name, at) /\ (at = len => f.type_str # "char"))
        /\ at # len => F.is_repeated
        /\ at # len /\ Indexed(f.name, len) => f.type_str = "char"
        /\ F.outer_len = (IF F.is_repeated THEN f.name[at].idx ELSE 0) + 1
        /\ F.inner_len = (IF f.type_str = "char" /\ Indexed(f.name, len)
                          THEN f.name[len].idx ELSE 0) + 1
        /\ DOMAIN F = {"ulog_base", "leaf", "proto_type", "is_repeated", "outer_len", "inner_len"}

LEMMA Shape ==
    ASSUME NEW f, Entry(f), ~ Dropped(f.name, f.type_str)
    PROVE  Shaped(f)
<1> DEFINE len == Len(f.name)
           name == f.name
<1>1. /\ len \in Nat /\ len >= 1 /\ DOMAIN name = 1 .. len
      /\ \A k \in 1 .. len : name[k].idx \in Int
  BY NameFacts
<1>2. CASE IsStructArray(name)
  <2>1. PICK at : at = StructAt(name)
    OBVIOUS
  <2>2. /\ at \in 1 .. len - 1 /\ Indexed(name, at)
        /\ \A k \in 1 .. at - 1 : ~ Indexed(name, k)
    BY <1>2, <2>1, StructAtIs
  <2>3. at = len - 1 /\ (Indexed(name, len) => f.type_str = "char")
    <3>1. ~ (len > at + 1 \/ (IsArray(name) /\ f.type_str # "char"))
      BY <1>2, <2>1 DEF Dropped
    <3> QED BY <1>1, <2>2, <3>1 DEF IsArray
  <2>4. PICK F : F = FieldOf(f)
    OBVIOUS
  <2>5. F = [ulog_base   |-> [k \in 1 .. at |-> name[k].id],
             leaf        |-> name[len].id,
             proto_type  |-> _ULOG_TO_PROTO_TYPE(f.type_str),
             is_repeated |-> TRUE,
             outer_len   |-> name[at].idx + 1,
             inner_len   |-> IF f.type_str = "char" /\ Indexed(name, len) THEN name[len].idx + 1 ELSE 1]
    BY <1>2, <2>1, <2>4 DEF FieldOf, UlogField, IsArray
  <2>6. /\ F.ulog_base = [k \in 1 .. at |-> name[k].id] /\ F.leaf = name[len].id
        /\ F.proto_type = _ULOG_TO_PROTO_TYPE(f.type_str) /\ F.is_repeated = TRUE
        /\ F.outer_len = name[at].idx + 1
        /\ F.inner_len = IF f.type_str = "char" /\ Indexed(name, len) THEN name[len].idx + 1 ELSE 1
        /\ DOMAIN F = {"ulog_base", "leaf", "proto_type", "is_repeated", "outer_len", "inner_len"}
    BY <2>5
  <2>7. Len(F.ulog_base) = at
    BY <2>2, <2>6, <1>1
  <2>8. \A k \in 1 .. len : k # at /\ k # len => ~ Indexed(name, k)
    BY <1>1, <2>2, <2>3
  <2>9. at \in 1 .. len /\ at # len
    BY <1>1, <2>2
  <2>10. F.inner_len = (IF f.type_str = "char" /\ Indexed(name, len) THEN name[len].idx ELSE 0) + 1
    BY <2>6
  <2> HIDE DEF len, name
  <2> QED BY <2>2, <2>3, <2>4, <2>6, <2>7, <2>8, <2>9, <2>10 DEF Shaped, len, name
<1>3. CASE ~ IsStructArray(name)
  <2>1. PICK F : F = FieldOf(f)
    OBVIOUS
  <2>2. F = [ulog_base   |-> [k \in 1 .. len |-> name[k].id],
             leaf        |-> NoLeaf,
             proto_type  |-> _ULOG_TO_PROTO_TYPE(f.type_str),
             is_repeated |-> Indexed(name, len) /\ f.type_str # "char",
             outer_len   |-> IF Indexed(name, len) /\ f.type_str # "char" THEN name[len].idx + 1 ELSE 1,
             inner_len   |-> IF f.type_str = "char" /\ Indexed(name, len) THEN name[len].idx + 1 ELSE 1]
    BY <1>3, <2>1 DEF FieldOf, UlogField, IsArray
  <2>3. /\ F.ulog_base = [k \in 1 .. len |-> name[k].id] /\ F.leaf = NoLeaf
        /\ F.proto_type = _ULOG_TO_PROTO_TYPE(f.type_str)
        /\ F.is_repeated = (Indexed(name, len) /\ f.type_str # "char")
        /\ F.outer_len = IF Indexed(name, len) /\ f.type_str # "char" THEN name[len].idx + 1 ELSE 1
        /\ F.inner_len = IF f.type_str = "char" /\ Indexed(name, len) THEN name[len].idx + 1 ELSE 1
        /\ DOMAIN F = {"ulog_base", "leaf", "proto_type", "is_repeated", "outer_len", "inner_len"}
    BY <2>2
  <2>4. Len(F.ulog_base) = len
    BY <1>1, <2>3
  <2>5. \A k \in 1 .. len : k # len => ~ Indexed(name, k)
    <3>1. \A k \in 1 .. len - 1 : ~ Indexed(name, k)
      BY <1>3 DEF IsStructArray
    <3> QED BY <1>1, <3>1
  <2>6. F.is_repeated \in BOOLEAN
    BY <2>3 DEF Indexed
  <2>7. /\ F.outer_len = (IF F.is_repeated THEN name[len].idx ELSE 0) + 1
        /\ F.inner_len = (IF f.type_str = "char" /\ Indexed(name, len) THEN name[len].idx ELSE 0) + 1
    <3>1. F.is_repeated <=> (Indexed(name, len) /\ f.type_str # "char")
      BY <2>3
    <3>2. /\ F.outer_len = IF Indexed(name, len) /\ f.type_str # "char" THEN name[len].idx + 1 ELSE 1
          /\ F.inner_len = IF f.type_str = "char" /\ Indexed(name, len) THEN name[len].idx + 1 ELSE 1
      BY <2>3
    <3> QED BY <3>1, <3>2
  <2>8. len \in 1 .. len
    BY <1>1
  <2>9. F.is_repeated <=> (Indexed(name, len) /\ f.type_str # "char")
    BY <2>3
  <2> HIDE DEF len, name
  <2> QED BY <2>1, <2>3, <2>4, <2>5, <2>6, <2>7, <2>8, <2>9 DEF Shaped, len, name
<1> QED BY <1>2, <1>3

\* The fields that are kept.
KeptOf(fields) == {f \in ToSet(fields) : ~ Dropped(f.name, f.type_str)}

LEMMA KeptFacts ==
    ASSUME NEW fields, Flattened(fields), NEW f \in KeptOf(fields)
    PROVE  /\ f \in ToSet(fields) /\ Entry(f) /\ Shaped(f)
           /\ ~ Dropped(f.name, f.type_str) /\ f.name \in NamesOf(fields)
<1>1. f \in ToSet(fields) /\ ~ Dropped(f.name, f.type_str)
  BY DEF KeptOf
<1>2. Entry(f)
  BY <1>1 DEF Flattened, Entry
<1> QED BY <1>1, <1>2, Shape DEF NamesOf

\* Cells of one key are cells of one member of the message.
LEMMA Agree ==
    ASSUME NEW fields, Flattened(fields), NEW f \in KeptOf(fields), NEW g \in KeptOf(fields),
           SameKey(FieldOf(f), FieldOf(g))
    PROVE  /\ Ids(f.name) = Ids(g.name) /\ Len(f.name) = Len(g.name)
           /\ f.type_str = g.type_str
           /\ \A k \in 1 .. Len(f.name) : Indexed(f.name, k) <=> Indexed(g.name, k)
           /\ FieldOf(f).ulog_base = FieldOf(g).ulog_base /\ FieldOf(f).leaf = FieldOf(g).leaf
           /\ FieldOf(f).proto_type = FieldOf(g).proto_type
           /\ FieldOf(f).is_repeated = FieldOf(g).is_repeated
<1> DEFINE F == FieldOf(f)
           G == FieldOf(g)
<1>1. PICK at : at = Len(F.ulog_base)
  OBVIOUS
<1>2. F.ulog_base = G.ulog_base /\ F.leaf = G.leaf /\ at = Len(G.ulog_base)
  BY <1>1 DEF SameKey
<1>3. Entry(f) /\ Entry(g) /\ Shaped(f) /\ Shaped(g) /\ f \in ToSet(fields) /\ g \in ToSet(fields)
  BY KeptFacts
<1>4. PICK m, n : m = f.name /\ n = g.name
  OBVIOUS
<1>5. /\ Len(m) \in Nat /\ DOMAIN m = 1 .. Len(m) /\ \A k \in 1 .. Len(m) : m[k].id # NoLeaf
      /\ Len(n) \in Nat /\ DOMAIN n = 1 .. Len(n) /\ \A k \in 1 .. Len(n) : n[k].id # NoLeaf
      /\ Len(m) >= 1 /\ Len(n) >= 1
  BY <1>3, <1>4, NameFacts
<1>6. /\ at \in 1 .. Len(m) /\ (at = Len(m) \/ at = Len(m) - 1)
      /\ F.ulog_base = [k \in 1 .. at |-> m[k].id]
      /\ at = Len(m) => F.leaf = NoLeaf
      /\ at # Len(m) => F.leaf = m[Len(m)].id
  BY <1>1, <1>3, <1>4 DEF Shaped
<1>7. /\ at \in 1 .. Len(n) /\ (at = Len(n) \/ at = Len(n) - 1)
      /\ G.ulog_base = [k \in 1 .. at |-> n[k].id]
      /\ at = Len(n) => G.leaf = NoLeaf
      /\ at # Len(n) => G.leaf = n[Len(n)].id
  BY <1>2, <1>3, <1>4 DEF Shaped
<1>8. Len(m) = Len(n)
  <2>1. PICK x, y \in Nat : x = Len(m) /\ y = Len(n)
    BY <1>5
  <2>2. /\ x >= 1 /\ y >= 1 /\ at \in 1 .. x /\ (at = x \/ at = x - 1)
        /\ at \in 1 .. y /\ (at = y \/ at = y - 1)
    BY <1>5, <1>6, <1>7, <2>1
  <2>3. x \in 1 .. x /\ y \in 1 .. y
    BY <2>2
  <2>4. m[x].id # NoLeaf /\ n[y].id # NoLeaf
    BY <1>5, <2>1, <2>3
  <2>5. at = x <=> at = y
    BY <1>2, <1>6, <1>7, <2>1, <2>4
  <2>6. x = y
    BY <2>2, <2>5
  <2> QED BY <2>1, <2>6
<1>9. \A k \in 1 .. Len(m) : m[k].id = n[k].id
  <2>1. \A k \in 1 .. at : m[k].id = n[k].id
    <3>1. \A k \in 1 .. at : F.ulog_base[k] = m[k].id /\ G.ulog_base[k] = n[k].id
      BY <1>6, <1>7
    <3> QED BY <1>2, <3>1
  <2>2. at # Len(m) => m[Len(m)].id = n[Len(m)].id
    BY <1>2, <1>6, <1>7, <1>8
  <2>3. \A k \in 1 .. Len(m) : k \in 1 .. at \/ (k = Len(m) /\ at # Len(m))
    <3>1. PICK x \in Nat : x = Len(m)
      BY <1>5
    <3>2. at \in 1 .. x /\ (at = x \/ at = x - 1)
      BY <1>6, <3>1
    <3>3. \A k \in 1 .. x : k \in 1 .. at \/ (k = x /\ at # x)
      BY <3>2
    <3> QED BY <3>1, <3>3
  <2> QED BY <2>1, <2>2, <2>3
<1>10. Ids(m) = Ids(n)
  BY <1>5, <1>8, <1>9 DEF Ids
<1>11. f.type_str = g.type_str /\ \A k \in DOMAIN m : Indexed(m, k) <=> Indexed(n, k)
  BY <1>3, <1>4, <1>10 DEF Flattened
<1>12. /\ F.proto_type = _ULOG_TO_PROTO_TYPE(f.type_str)
       /\ G.proto_type = _ULOG_TO_PROTO_TYPE(g.type_str)
       /\ F.is_repeated \in BOOLEAN /\ G.is_repeated \in BOOLEAN
       /\ F.is_repeated <=> (Indexed(m, at) /\ (at = Len(m) => f.type_str # "char"))
       /\ G.is_repeated <=> (Indexed(n, at) /\ (at = Len(n) => g.type_str # "char"))
  BY <1>1, <1>2, <1>3, <1>4 DEF Shaped
<1>13. F.proto_type = G.proto_type /\ F.is_repeated = G.is_repeated
  <2>1. Indexed(m, at) <=> Indexed(n, at)
    BY <1>5, <1>6, <1>11
  <2>2. F.proto_type = G.proto_type
    BY <1>11, <1>12
  <2>3. F.is_repeated <=> G.is_repeated
    BY <1>8, <1>11, <1>12, <2>1
  <2> QED BY <1>12, <2>2, <2>3
<1> QED BY <1>2, <1>4, <1>5, <1>8, <1>10, <1>11, <1>13

\* The name of a cell of the array, or array of structs, that f is a cell of.
Cells(f, i, j) ==
    LET at == Len(FieldOf(f).ulog_base)
    IN  [k \in 1 .. Len(f.name) |->
            [id  |-> f.name[k].id,
             idx |-> IF k = at /\ FieldOf(f).is_repeated THEN i
                     ELSE IF k = Len(f.name) /\ f.type_str = "char" THEN j ELSE NoIndex]]

\* A proto field for the cells of f.
FieldFor(g, f) ==
    /\ g.ulog_base = FieldOf(f).ulog_base /\ g.leaf = FieldOf(f).leaf
    /\ g.proto_type = FieldOf(f).proto_type /\ g.is_repeated = FieldOf(f).is_repeated

\* The names under which encode looks for the cells of a field.
LEMMA CellNameIs ==
    ASSUME NEW f, Entry(f), Shaped(f), NEW g, FieldFor(g, f), NEW i \in Int, NEW j \in Int
    PROVE  CellName(g, i, j) = Cells(f, i, j)
<1> DEFINE F == FieldOf(f)
           string == f.type_str = "char"
<1>1. PICK at, rep : at = Len(F.ulog_base) /\ rep = F.is_repeated
  OBVIOUS
<1>2. PICK name : name = f.name
  OBVIOUS
<1>3. PICK len \in Nat : len = Len(name)
  BY <1>2, NameFacts
<1>4. /\ at \in 1 .. len /\ (at = len \/ at = len - 1)
      /\ F.ulog_base = [k \in 1 .. at |-> name[k].id]
      /\ at = len => F.leaf = NoLeaf
      /\ at # len => F.leaf = name[len].id
      /\ F.proto_type = _ULOG_TO_PROTO_TYPE(f.type_str)
      /\ rep \in BOOLEAN
      /\ rep => (at = len => ~ string)
      /\ at # len => rep
  BY <1>1, <1>2, <1>3 DEF Shaped
<1>5. /\ g.ulog_base = F.ulog_base /\ g.leaf = F.leaf /\ Len(g.ulog_base) = at
      /\ g.is_repeated = rep /\ (g.proto_type = "string" <=> string)
  <2>1. f.type_str \in UlogType
    BY DEF Entry
  <2>2. g.proto_type = _ULOG_TO_PROTO_TYPE(f.type_str)
    BY <1>4 DEF FieldFor
  <2>3. g.proto_type = "string" <=> string
    BY <2>1, <2>2, ProtoTypes
  <2> QED BY <1>1, <2>3 DEF FieldFor
<1>6. len \in 1 .. len /\ \A k \in 1 .. len : name[k].id # NoLeaf
  <2>1. len >= 1
    BY <1>2, <1>3, NameFacts
  <2>2. \A k \in 1 .. len : name[k].id # NoLeaf
    BY <1>2, <1>3, NameFacts
  <2> QED BY <2>1, <2>2
<1>7. PICK idx : idx = IF g.is_repeated THEN i ELSE IF g.proto_type = "string" THEN j ELSE NoIndex
  OBVIOUS
<1>8. PICK base : base = [k \in 1 .. at |->
                             [id |-> g.ulog_base[k], idx |-> IF k = at THEN idx ELSE NoIndex]]
  OBVIOUS
<1>9. CellName(g, i, j) = IF g.leaf = NoLeaf THEN base
                          ELSE Append(base, [id |-> g.leaf, idx |-> IF g.proto_type = "string" THEN j ELSE NoIndex])
  BY <1>5, <1>7, <1>8 DEF CellName
<1>10. base = [k \in 1 .. at |-> [id |-> name[k].id, idx |-> IF k = at THEN idx ELSE NoIndex]]
  BY <1>4, <1>5, <1>8
<1>11. PICK cells : cells = Cells(f, i, j)
  OBVIOUS
<1>12. cells = [k \in 1 .. len |-> [id |-> name[k].id,
                                    idx |-> IF k = at /\ rep THEN i ELSE IF k = len /\ string THEN j ELSE NoIndex]]
  BY <1>1, <1>2, <1>3, <1>11 DEF Cells
<1> HIDE DEF F, string
<1>13. CASE at = len
  <2>1. g.leaf = NoLeaf
    BY <1>4, <1>5, <1>13
  <2>2. ASSUME NEW k \in 1 .. len
        PROVE  (IF k = at THEN idx ELSE NoIndex) = IF k = at /\ rep THEN i ELSE IF k = len /\ string THEN j ELSE NoIndex
    BY <1>4, <1>5, <1>7, <1>13
  <2>3. base = cells
    BY <1>10, <1>12, <1>13, <2>2
  <2> QED BY <1>9, <1>11, <2>1, <2>3
<1>14. CASE at # len
  <2>1. g.leaf = name[len].id /\ g.leaf # NoLeaf /\ rep /\ at + 1 = len /\ idx = i
    BY <1>4, <1>5, <1>6, <1>7, <1>14
  <2>2. PICK last : last = [id |-> name[len].id, idx |-> IF string THEN j ELSE NoIndex]
    OBVIOUS
  <2>3. CellName(g, i, j) = Append(base, last)
    BY <1>5, <1>9, <2>1, <2>2
  <2>4. base = [k \in 1 .. at |-> base[k]] /\ at \in Nat
    BY <1>4, <1>10
  <2>5. Sequence(base) /\ Len(base) = at
    BY <2>4, FunctionIsSequence
  <2>6. PICK r : r = Append(base, last)
    OBVIOUS
  <2>7. /\ Sequence(r) /\ Len(r) = len
        /\ \A k \in 1 .. at : r[k] = base[k]
        /\ r[len] = last
    BY <2>1, <2>5, <2>6, AppendSequence
  <2>8. r = [k \in 1 .. len |-> r[k]]
    BY <2>7, SequenceFacts
  <2>9. ASSUME NEW k \in 1 .. len PROVE r[k] = cells[k]
    <3>1. CASE k = len
      BY <1>12, <1>14, <2>1, <2>2, <2>7, <3>1
    <3>2. CASE k # len
      <4>1. k \in 1 .. at
        BY <1>4, <2>1, <3>2
      <4>2. r[k] = [id |-> name[k].id, idx |-> IF k = at THEN idx ELSE NoIndex]
        BY <1>10, <2>7, <4>1
      <4> QED BY <1>12, <2>1, <3>2, <4>2
    <3> QED BY <3>1, <3>2
  <2>10. cells = [k \in 1 .. len |-> cells[k]]
    BY <1>12
  <2>11. r = cells
    BY <2>8, <2>9, <2>10
  <2> QED BY <1>11, <2>3, <2>6, <2>11
<1> QED BY <1>13, <1>14

\* A cell is one of them itself, unless it is a character that is no array.
LEMMA OwnCell ==
    ASSUME NEW f, Entry(f), Shaped(f), f.type_str = "char" => IsArray(f.name)
    PROVE  LET F == FieldOf(f) IN
           /\ F.outer_len - 1 \in Nat /\ F.inner_len - 1 \in Nat
           /\ Cells(f, F.outer_len - 1, F.inner_len - 1) = f.name
<1> DEFINE F == FieldOf(f)
           string == f.type_str = "char"
<1>1. PICK at, rep : at = Len(F.ulog_base) /\ rep = F.is_repeated
  OBVIOUS
<1>2. PICK name : name = f.name
  OBVIOUS
<1>3. PICK len \in Nat : len = Len(name)
  BY <1>2, NameFacts
<1>4. /\ name = [k \in 1 .. len |-> name[k]]
      /\ \A k \in 1 .. len : /\ name[k] = [id |-> name[k].id, idx |-> name[k].idx]
                             /\ name[k].idx \in Int
                             /\ Indexed(name, k) <=> name[k].idx >= 0
                             /\ ~ Indexed(name, k) <=> name[k].idx = NoIndex
  BY <1>2, <1>3, NameFacts
<1>5. /\ at \in 1 .. len /\ (at = len \/ at = len - 1)
      /\ \A k \in 1 .. len : k # at /\ k # len => ~ Indexed(name, k)
      /\ rep <=> (Indexed(name, at) /\ (at = len => ~ string))
      /\ at # len => rep
      /\ at # len /\ Indexed(name, len) => string
      /\ F.outer_len = (IF rep THEN name[at].idx ELSE 0) + 1
      /\ F.inner_len = (IF string /\ Indexed(name, len) THEN name[len].idx ELSE 0) + 1
  BY <1>1, <1>2, <1>3 DEF Shaped
<1>6. string => Indexed(name, len)
  BY <1>2, <1>3 DEF IsArray
<1>7. PICK i, j : i = (IF rep THEN name[at].idx ELSE 0) /\ j = (IF string THEN name[len].idx ELSE 0)
  OBVIOUS
<1>8. len \in 1 .. len
  BY <1>5
<1>9. i \in Nat /\ j \in Nat /\ F.outer_len = i + 1 /\ F.inner_len = j + 1
  BY <1>4, <1>5, <1>6, <1>7, <1>8
<1>10. PICK cells : cells = Cells(f, i, j)
  OBVIOUS
<1>11. cells = [k \in 1 .. len |-> [id |-> name[k].id,
                                    idx |-> IF k = at /\ rep THEN i ELSE IF k = len /\ string THEN j ELSE NoIndex]]
  BY <1>1, <1>2, <1>3, <1>10 DEF Cells
<1> HIDE DEF string, F
<1>12. ASSUME NEW k \in 1 .. len
       PROVE  name[k].idx = IF k = at /\ rep THEN i ELSE IF k = len /\ string THEN j ELSE NoIndex
  BY <1>4, <1>5, <1>6, <1>7
<1>13. cells = name
  BY <1>4, <1>11, <1>12
<1>14. F.outer_len - 1 = i /\ F.inner_len - 1 = j
  BY <1>9
<1> QED BY <1>2, <1>9, <1>10, <1>13, <1>14 DEF F

\* One name of a message is as good as another with the same identifiers for the cells
\* of an array: the other items have theirs.
LEMMA OtherItem ==
    ASSUME NEW fields, Flattened(fields), NEW f \in ToSet(fields), NEW g \in ToSet(fields),
           Ids(f.name) = Ids(g.name), NEW k \in DOMAIN f.name, NEW i \in 0 .. g.name[k].idx
    PROVE  \E h \in ToSet(fields) : h.name = [f.name EXCEPT ![k].idx = i]
BY DEF Flattened, NamesOf

LEMMA SameIdsAgain ==
    ASSUME NEW f, Entry(f), NEW k \in DOMAIN f.name, NEW i, NEW h, h.name = [f.name EXCEPT ![k].idx = i]
    PROVE  /\ Ids(h.name) = Ids(f.name) /\ Len(h.name) = Len(f.name) /\ DOMAIN h.name = DOMAIN f.name
           /\ h.name[k] = [id |-> f.name[k].id, idx |-> i]
           /\ \A l \in DOMAIN f.name : l # k => h.name[l] = f.name[l]
<1>1. PICK m, n : m = f.name /\ n = h.name
  OBVIOUS
<1>2. PICK len \in Nat : len = Len(m)
  BY <1>1, NameFacts
<1>3. /\ DOMAIN m = 1 .. len
      /\ \A l \in 1 .. len : m[l] = [id |-> m[l].id, idx |-> m[l].idx]
  BY <1>1, <1>2, NameFacts
<1>4. n = [m EXCEPT ![k].idx = i]
  BY <1>1
<1>5. DOMAIN n = 1 .. len /\ k \in 1 .. len
  BY <1>1, <1>3, <1>4
<1>6. n[k] = [id |-> m[k].id, idx |-> i]
  <2>1. n[k] = [m[k] EXCEPT !.idx = i]
    BY <1>3, <1>4, <1>5
  <2>2. PICK s : s = m[k]
    OBVIOUS
  <2>3. s = [id |-> s.id, idx |-> s.idx]
    BY <1>3, <1>5, <2>2
  <2> QED BY <2>1, <2>2, <2>3
<1>7. \A l \in 1 .. len : l # k => n[l] = m[l]
  BY <1>3, <1>4
<1>8. \A l \in 1 .. len : n[l].id = m[l].id
  BY <1>6, <1>7
<1>9. Ids(n) = Ids(m)
  BY <1>3, <1>5, <1>8 DEF Ids
<1>10. Len(n) = len
  <2>1. n = [l \in 1 .. len |-> n[l]]
    BY <1>3, <1>4
  <2> QED BY <2>1, FunctionIsSequence
<1> QED BY <1>1, <1>2, <1>3, <1>5, <1>6, <1>7, <1>9, <1>10

\* Every cell that encode looks for is there: that of item i of the array that g is in,
\* and of character j of the string that h is in.
LEMMA CellIsThere ==
    ASSUME NEW fields, Flattened(fields), NEW f \in KeptOf(fields), NEW g \in KeptOf(fields),
           NEW h \in KeptOf(fields), f.type_str = "char" => IsArray(f.name),
           SameKey(FieldOf(f), FieldOf(g)), SameKey(FieldOf(f), FieldOf(h)),
           NEW i \in 0 .. FieldOf(g).outer_len - 1, NEW j \in 0 .. FieldOf(h).inner_len - 1
    PROVE  \E c \in ToSet(fields) : c.name = Cells(f, i, j) /\ c.type_str = f.type_str
<1> DEFINE F == FieldOf(f)
           string == f.type_str = "char"
<1>1. PICK at, rep : at = Len(F.ulog_base) /\ rep = F.is_repeated
  OBVIOUS
<1>2. PICK name : name = f.name
  OBVIOUS
<1>3. PICK len \in Nat : len = Len(name)
  BY <1>2, KeptFacts, NameFacts
<1>4. /\ Entry(f) /\ Shaped(f) /\ Entry(g) /\ Shaped(g) /\ Entry(h) /\ Shaped(h)
      /\ f \in ToSet(fields) /\ g \in ToSet(fields) /\ h \in ToSet(fields)
  BY KeptFacts
<1>5. /\ DOMAIN name = 1 .. len
      /\ name = [k \in 1 .. len |-> name[k]]
      /\ \A k \in 1 .. len : /\ name[k] = [id |-> name[k].id, idx |-> name[k].idx]
                             /\ ~ Indexed(name, k) <=> name[k].idx = NoIndex
  BY <1>2, <1>3, <1>4, NameFacts
<1>6. /\ at \in 1 .. len /\ (at = len \/ at = len - 1)
      /\ \A k \in 1 .. len : k # at /\ k # len => ~ Indexed(name, k)
      /\ rep <=> (Indexed(name, at) /\ (at = len => ~ string))
      /\ at # len => rep
      /\ at # len /\ Indexed(name, len) => string
  BY <1>1, <1>2, <1>3, <1>4 DEF Shaped
<1>7. string => Indexed(name, len)
  BY <1>2, <1>3 DEF IsArray
<1>8. /\ Ids(name) = Ids(g.name) /\ Ids(name) = Ids(h.name) /\ h.type_str = f.type_str
      /\ Len(FieldOf(g).ulog_base) = at /\ FieldOf(g).is_repeated = rep
      /\ Len(h.name) = len /\ (Indexed(name, len) <=> Indexed(h.name, len))
  <2>1. len \in 1 .. len
    BY <1>6
  <2> QED BY <1>1, <1>2, <1>3, <2>1, Agree
<1>9. rep => i \in 0 .. g.name[at].idx
  <2>1. rep => FieldOf(g).outer_len = g.name[at].idx + 1
    BY <1>4, <1>8 DEF Shaped
  <2>2. g.name[at].idx \in Int
    <3>1. Len(g.name) = len
      BY <1>2, <1>3, Agree
    <3> QED BY <1>4, <1>6, <3>1, NameFacts
  <2> QED BY <2>1, <2>2
<1>10. string => j \in 0 .. h.name[len].idx
  <2>1. string => FieldOf(h).inner_len = h.name[len].idx + 1
    BY <1>4, <1>7, <1>8 DEF Shaped
  <2>2. h.name[len].idx \in Int
    <3>1. len \in 1 .. len
      BY <1>6
    <3> QED BY <1>4, <1>8, <3>1, NameFacts
  <2> QED BY <2>1, <2>2
<1> HIDE DEF string, F
<1>11. PICK a \in ToSet(fields) :
           /\ Entry(a) /\ Ids(a.name) = Ids(name) /\ Len(a.name) = len /\ DOMAIN a.name = 1 .. len
           /\ \A k \in 1 .. len : a.name[k] = [id |-> name[k].id,
                                               idx |-> IF k = at /\ rep THEN i ELSE name[k].idx]
  <2>1. CASE rep
    <3>0. /\ f \in ToSet(fields) /\ g \in ToSet(fields) /\ at \in DOMAIN f.name
          /\ Ids(f.name) = Ids(g.name) /\ i \in 0 .. g.name[at].idx /\ Entry(f)
      BY <1>2, <1>4, <1>5, <1>6, <1>8, <1>9, <2>1
    <3>1. PICK a \in ToSet(fields) : a.name = [f.name EXCEPT ![at].idx = i]
      BY <3>0, OtherItem
    <3>2. Entry(a)
      BY DEF Flattened, Entry
    <3>3. /\ Ids(a.name) = Ids(name) /\ Len(a.name) = len /\ DOMAIN a.name = 1 .. len
          /\ a.name[at] = [id |-> name[at].id, idx |-> i]
          /\ \A l \in 1 .. len : l # at => a.name[l] = name[l]
      <4>1. /\ Ids(a.name) = Ids(f.name) /\ Len(a.name) = Len(f.name) /\ DOMAIN a.name = DOMAIN f.name
            /\ a.name[at] = [id |-> f.name[at].id, idx |-> i]
            /\ \A l \in DOMAIN f.name : l # at => a.name[l] = f.name[l]
        BY <3>0, <3>1, SameIdsAgain
      <4> QED BY <1>2, <1>3, <1>5, <4>1
    <3>4. \A k \in 1 .. len : a.name[k] = [id |-> name[k].id,
                                           idx |-> IF k = at /\ rep THEN i ELSE name[k].idx]
      BY <1>5, <2>1, <3>3
    <3> QED BY <3>2, <3>3, <3>4
  <2>2. CASE ~ rep
    BY <1>2, <1>3, <1>4, <1>5, <2>2
  <2> QED BY <2>1, <2>2
<1>12. PICK b \in ToSet(fields) :
           /\ Ids(b.name) = Ids(name) /\ DOMAIN b.name = 1 .. len /\ Len(b.name) = len /\ Entry(b)
           /\ \A k \in 1 .. len :
                  b.name[k] = [id |-> name[k].id,
                               idx |-> IF k = len /\ string THEN j
                                       ELSE IF k = at /\ rep THEN i ELSE name[k].idx]
  <2>1. CASE string
    <3>1. len \in DOMAIN a.name
      BY <1>6, <1>11
    <3>2. PICK b \in ToSet(fields) : b.name = [a.name EXCEPT ![len].idx = j]
      BY <1>4, <1>8, <1>10, <1>11, <2>1, <3>1, OtherItem
    <3>3. Entry(b)
      BY DEF Flattened, Entry
    <3>4. /\ Ids(b.name) = Ids(a.name) /\ DOMAIN b.name = 1 .. len /\ Len(b.name) = len
          /\ b.name[len] = [id |-> a.name[len].id, idx |-> j]
          /\ \A l \in 1 .. len : l # len => b.name[l] = a.name[l]
      BY <1>11, <3>1, <3>2, SameIdsAgain
    <3>5. ASSUME NEW k \in 1 .. len
          PROVE  b.name[k] = [id |-> name[k].id,
                               idx |-> IF k = len /\ string THEN j
                                       ELSE IF k = at /\ rep THEN i ELSE name[k].idx]
      <4>1. CASE k = len
        <5>1. a.name[len] = [id |-> name[len].id, idx |-> IF len = at /\ rep THEN i ELSE name[len].idx]
          <6>1. len \in 1 .. len
            BY <1>6
          <6> QED BY <1>11, <6>1
        <5>2. a.name[len].id = name[len].id
          BY <5>1
        <5> QED BY <2>1, <3>4, <4>1, <5>2
      <4>2. CASE k # len
        BY <1>11, <2>1, <3>4, <4>2
      <4> QED BY <4>1, <4>2
    <3> QED BY <1>11, <3>3, <3>4, <3>5
  <2>2. CASE ~ string
    BY <1>11, <2>2
  <2> QED BY <2>1, <2>2
<1>13. PICK cells : cells = Cells(f, i, j)
  OBVIOUS
<1>14. cells = [k \in 1 .. len |-> [id |-> name[k].id,
                                    idx |-> IF k = at /\ rep THEN i ELSE IF k = len /\ string THEN j ELSE NoIndex]]
  BY <1>1, <1>2, <1>3, <1>13 DEF Cells, string, F
<1>15. ASSUME NEW k \in 1 .. len
       PROVE  (IF k = len /\ string THEN j ELSE IF k = at /\ rep THEN i ELSE name[k].idx)
                  = IF k = at /\ rep THEN i ELSE IF k = len /\ string THEN j ELSE NoIndex
  BY <1>5, <1>6
<1>16. b.name = [k \in 1 .. len |-> b.name[k]]
  BY <1>12, NameFacts
<1>17. b.name = cells
  BY <1>12, <1>14, <1>15, <1>16
<1>18. b.type_str = f.type_str
  BY <1>2, <1>4, <1>12 DEF Flattened
<1> QED BY <1>13, <1>17, <1>18

-----------------------------------------------------------------------------
(* _aggregate_fields *)

Steps(f, fields) ==
    f = [n \in 0 .. Len(fields) |-> IF n = 0 THEN <<>> ELSE Aggregate(f[n - 1], fields[n])]

\* There is a function like the one that _aggregate_fields defines by recursion.
LEMMA AggregateSteps ==
    ASSUME NEW fields, Len(fields) \in Nat
    PROVE  \E f : Steps(f, fields)
<1> DEFINE UpToHere(m) ==
               \E f : f = [n \in 0 .. m |-> IF n = 0 THEN <<>> ELSE Aggregate(f[n - 1], fields[n])]
           S == {m \in Nat : ~ UpToHere(m)}
<1>1. UpToHere(0)
  <2>1. [n \in 0 .. 0 |-> <<>>] = [n \in 0 .. 0 |-> IF n = 0 THEN <<>>
                                     ELSE Aggregate([k \in 0 .. 0 |-> <<>>][n - 1], fields[n])]
    OBVIOUS
  <2> QED BY <2>1
<1>2. ASSUME NEW m \in Nat, UpToHere(m) PROVE UpToHere(m + 1)
  <2>1. PICK f : f = [n \in 0 .. m |-> IF n = 0 THEN <<>> ELSE Aggregate(f[n - 1], fields[n])]
    BY <1>2
  <2>2. PICK g : g = [n \in 0 .. m + 1 |->
                         IF n = m + 1 THEN Aggregate(f[m], fields[m + 1]) ELSE f[n]]
    OBVIOUS
  <2>3. ASSUME NEW n \in 0 .. m + 1
        PROVE  g[n] = IF n = 0 THEN <<>> ELSE Aggregate(g[n - 1], fields[n])
    <3>1. CASE n = m + 1
      BY <2>2, <3>1
    <3>2. CASE n = 0
      BY <2>1, <2>2, <3>2
    <3>3. CASE n # 0 /\ n # m + 1
      <4>1. n \in 0 .. m /\ n - 1 \in 0 .. m /\ n \in 0 .. m + 1 /\ n - 1 \in 0 .. m + 1 /\ n - 1 # m + 1
        BY <3>3
      <4>2. g[n] = f[n] /\ g[n - 1] = f[n - 1]
        BY <2>2, <3>3, <4>1
      <4>3. f[n] = Aggregate(f[n - 1], fields[n])
        BY <2>1, <3>3, <4>1
      <4> QED BY <3>3, <4>2, <4>3
    <3> QED BY <3>1, <3>2, <3>3
  <2>4. g = [n \in 0 .. m + 1 |-> IF n = 0 THEN <<>> ELSE Aggregate(g[n - 1], fields[n])]
    <3>1. g = [n \in 0 .. m + 1 |-> g[n]]
      BY <2>2
    <3> QED BY <2>3, <3>1
  <2> QED BY <2>4
<1>3. \A m \in Nat : UpToHere(m)
  <2>1. SUFFICES ASSUME S # {} PROVE FALSE
    OBVIOUS
  <2>2. PICK m \in S : \A k \in S : m <= k
    BY <2>1, Least
  <2>3. m # 0
    BY <1>1, <2>2
  <2>4. m - 1 \in Nat /\ m - 1 \notin S /\ m - 1 + 1 = m
    BY <2>2, <2>3
  <2> HIDE DEF UpToHere
  <2> QED BY <1>2, <2>2, <2>4
<1> QED BY <1>3 DEF Steps

LEMMA AggregatedIs ==
    ASSUME NEW fields, Len(fields) \in Nat
    PROVE  \E f : Steps(f, fields) /\ _aggregate_fields(fields) = f[Len(fields)]
<1>1. PICK f : Steps(f, fields)
  BY AggregateSteps
<1>2. PICK g : g = CHOOSE h : h = [n \in 0 .. Len(fields) |->
                                     IF n = 0 THEN <<>> ELSE Aggregate(h[n - 1], fields[n])]
  OBVIOUS
<1>3. Steps(g, fields)
  BY <1>1, <1>2 DEF Steps
<1>4. _aggregate_fields(fields) = g[Len(fields)]
  BY <1>2 DEF _aggregate_fields
<1> QED BY <1>3, <1>4

\* The field g is that of cell a, and its strings have the length that cell b gives.
Made(g, a, b) ==
    /\ g = [ulog_base |-> FieldOf(a).ulog_base, leaf |-> FieldOf(a).leaf,
            proto_type |-> FieldOf(a).proto_type, is_repeated |-> FieldOf(a).is_repeated,
            outer_len |-> FieldOf(a).outer_len, inner_len |-> FieldOf(b).inner_len]
    /\ SameKey(FieldOf(a), FieldOf(b))

\* The field g holds the cell f.
Covers(g, f) ==
    /\ SameKey(g, FieldOf(f))
    /\ FieldOf(f).outer_len <= g.outer_len /\ FieldOf(f).inner_len <= g.inner_len

\* The fields that the cells K make: one for each key, as long as its longest cell.
Aggregated(proto_fields, K) ==
    /\ Sequence(proto_fields)
    /\ \A j, k \in 1 .. Len(proto_fields) : SameKey(proto_fields[j], proto_fields[k]) => j = k
    /\ \A k \in 1 .. Len(proto_fields) : \E a, b \in K : Made(proto_fields[k], a, b)
    /\ \A f \in K : \E k \in 1 .. Len(proto_fields) : Covers(proto_fields[k], f)

LEMMA MadeFacts ==
    ASSUME NEW g, NEW a, NEW b, Made(g, a, b)
    PROVE  /\ FieldFor(g, a) /\ SameKey(g, FieldOf(a)) /\ SameKey(g, FieldOf(b))
           /\ g.outer_len = FieldOf(a).outer_len /\ g.inner_len = FieldOf(b).inner_len
           /\ DOMAIN g = {"ulog_base", "leaf", "proto_type", "is_repeated", "outer_len", "inner_len"}
<1>1. PICK A, B : A = FieldOf(a) /\ B = FieldOf(b)
  OBVIOUS
<1>2. g = [ulog_base |-> A.ulog_base, leaf |-> A.leaf,
            proto_type |-> A.proto_type, is_repeated |-> A.is_repeated,
            outer_len |-> A.outer_len, inner_len |-> B.inner_len]
  BY <1>1 DEF Made
<1>3. /\ g.ulog_base = A.ulog_base /\ g.leaf = A.leaf
      /\ g.proto_type = A.proto_type /\ g.is_repeated = A.is_repeated
      /\ g.outer_len = A.outer_len /\ g.inner_len = B.inner_len
      /\ DOMAIN g = {"ulog_base", "leaf", "proto_type", "is_repeated", "outer_len", "inner_len"}
  BY <1>2
<1>4. SameKey(A, B)
  BY <1>1 DEF Made
<1> QED BY <1>1, <1>3, <1>4 DEF FieldFor, SameKey

LEMMA Lengths ==
    ASSUME NEW f, Entry(f), Shaped(f)
    PROVE  FieldOf(f).outer_len \in Int /\ FieldOf(f).inner_len \in Int
<1>1. PICK F, at : F = FieldOf(f) /\ at = Len(F.ulog_base)
  OBVIOUS
<1>2. PICK len \in Nat : len = Len(f.name)
  BY NameFacts
<1>3. \A k \in 1 .. len : f.name[k].idx \in Int
  BY <1>2, NameFacts
<1>4. /\ at \in 1 .. len
      /\ F.outer_len = (IF F.is_repeated THEN f.name[at].idx ELSE 0) + 1
      /\ F.inner_len = (IF f.type_str = "char" /\ Indexed(f.name, len) THEN f.name[len].idx ELSE 0) + 1
  BY <1>1, <1>2 DEF Shaped
<1>5. f.name[at].idx \in Int /\ f.name[len].idx \in Int
  BY <1>3, <1>4
<1> QED BY <1>1, <1>4, <1>5

\* A cell makes a field of itself.
LEMMA MadeOfOne ==
    ASSUME NEW f, Entry(f), Shaped(f)
    PROVE  Made(FieldOf(f), f, f) /\ Covers(FieldOf(f), f)
<1>1. PICK F : F = FieldOf(f)
  OBVIOUS
<1>2. F = [ulog_base |-> F.ulog_base, leaf |-> F.leaf,
            proto_type |-> F.proto_type, is_repeated |-> F.is_repeated,
            outer_len |-> F.outer_len, inner_len |-> F.inner_len]
  BY <1>1 DEF FieldOf, UlogField
<1>3. F.outer_len <= F.outer_len /\ F.inner_len <= F.inner_len
  BY <1>1, Lengths
<1> QED BY <1>1, <1>2, <1>3 DEF Made, Covers, SameKey

\* And widens one that is there.
LEMMA Widened ==
    ASSUME NEW fields, Flattened(fields), NEW a \in KeptOf(fields), NEW b \in KeptOf(fields),
           NEW f \in KeptOf(fields), NEW g, Made(g, a, b), SameKey(g, FieldOf(f))
    PROVE  LET w == Widen(g, FieldOf(f)) IN
           /\ Covers(w, f) /\ SameKey(w, g)
           /\ \E c, d \in {a, b, f} : Made(w, c, d)
           /\ \A e \in KeptOf(fields) : Covers(g, e) => Covers(w, e)
<1>1. PICK A, B, F : A = FieldOf(a) /\ B = FieldOf(b) /\ F = FieldOf(f)
  OBVIOUS
<1>2. /\ A.outer_len \in Int /\ F.outer_len \in Int
      /\ B.inner_len \in Int /\ F.inner_len \in Int
  BY <1>1, KeptFacts, Lengths
<1>3. /\ g.ulog_base = A.ulog_base /\ g.leaf = A.leaf
      /\ g.proto_type = A.proto_type /\ g.is_repeated = A.is_repeated
      /\ g.outer_len = A.outer_len /\ g.inner_len = B.inner_len
      /\ DOMAIN g = {"ulog_base", "leaf", "proto_type", "is_repeated", "outer_len", "inner_len"}
      /\ SameKey(g, B)
  BY <1>1, MadeFacts DEF FieldFor
<1>4. g = [ulog_base |-> A.ulog_base, leaf |-> A.leaf,
            proto_type |-> A.proto_type, is_repeated |-> A.is_repeated,
            outer_len |-> A.outer_len, inner_len |-> B.inner_len]
  BY <1>1 DEF Made
<1>5. SameKey(A, F) /\ SameKey(F, A) /\ SameKey(A, B) /\ SameKey(F, B)
  BY <1>1, <1>3 DEF SameKey
<1>6. /\ F.ulog_base = A.ulog_base /\ F.leaf = A.leaf
      /\ F.proto_type = A.proto_type /\ F.is_repeated = A.is_repeated
  BY <1>1, <1>5, Agree
<1>7. PICK o, i : o = Larger(A.outer_len, F.outer_len) /\ i = Larger(B.inner_len, F.inner_len)
  OBVIOUS
<1>8. /\ o \in Int /\ i \in Int
      /\ A.outer_len <= o /\ F.outer_len <= o /\ B.inner_len <= i /\ F.inner_len <= i
      /\ o = A.outer_len \/ o = F.outer_len
      /\ i = B.inner_len \/ i = F.inner_len
  BY <1>2, <1>7 DEF Larger
<1>9. PICK w : w = Widen(g, F)
  OBVIOUS
<1>10. w = [ulog_base |-> A.ulog_base, leaf |-> A.leaf,
            proto_type |-> A.proto_type, is_repeated |-> A.is_repeated,
            outer_len |-> o, inner_len |-> i]
  BY <1>3, <1>4, <1>7, <1>9 DEF Widen
<1>11. w.ulog_base = A.ulog_base /\ w.leaf = A.leaf /\ w.outer_len = o /\ w.inner_len = i
  BY <1>10
<1>12. Covers(w, f) /\ SameKey(w, g)
  BY <1>1, <1>3, <1>6, <1>8, <1>11 DEF Covers, SameKey
<1>13. \E c, d \in {a, b, f} : Made(w, c, d)
  <2>1. PICK c \in {a, f} : FieldOf(c).outer_len = o /\ FieldOf(c) \in {A, F}
    BY <1>1, <1>8
  <2>2. PICK d \in {b, f} : FieldOf(d).inner_len = i /\ FieldOf(d) \in {B, F}
    BY <1>1, <1>8
  <2>3. w = [ulog_base |-> FieldOf(c).ulog_base, leaf |-> FieldOf(c).leaf,
            proto_type |-> FieldOf(c).proto_type, is_repeated |-> FieldOf(c).is_repeated,
            outer_len |-> FieldOf(c).outer_len, inner_len |-> FieldOf(d).inner_len]
    <3>1. PICK C : C = FieldOf(c)
      OBVIOUS
    <3>2. /\ C.ulog_base = A.ulog_base /\ C.leaf = A.leaf
          /\ C.proto_type = A.proto_type /\ C.is_repeated = A.is_repeated
      BY <1>6, <2>1, <3>1
    <3> QED BY <1>10, <2>1, <2>2, <3>1, <3>2
  <2>4. SameKey(FieldOf(c), FieldOf(d))
    BY <1>5, <2>1, <2>2 DEF SameKey
  <2> QED BY <2>3, <2>4 DEF Made
<1>14. ASSUME NEW e \in KeptOf(fields), Covers(g, e)
       PROVE  Covers(w, e)
  <2>1. FieldOf(e).outer_len \in Int /\ FieldOf(e).inner_len \in Int
    BY KeptFacts, Lengths
  <2>2. SameKey(w, FieldOf(e))
    BY <1>3, <1>11, <1>14 DEF Covers, SameKey
  <2>3. FieldOf(e).outer_len <= o /\ FieldOf(e).inner_len <= i
    BY <1>2, <1>3, <1>8, <1>14, <2>1 DEF Covers
  <2> QED BY <1>11, <2>2, <2>3 DEF Covers
<1> QED BY <1>1, <1>9, <1>12, <1>13, <1>14

LEMMA AggregateStep ==
    ASSUME NEW fields, Flattened(fields), NEW K \in SUBSET KeptOf(fields),
           NEW F, Aggregated(F, K), NEW f \in KeptOf(fields)
    PROVE  Aggregated(Aggregate(F, f), K \cup {f})
<1> DEFINE g == FieldOf(f)
           met == \E k \in DOMAIN F : SameKey(F[k], g)
           wide == [k \in DOMAIN F |-> IF SameKey(F[k], g) THEN Widen(F[k], g) ELSE F[k]]
<1>1. ~ Dropped(f.name, f.type_str) /\ Entry(f) /\ Shaped(f)
  BY KeptFacts
<1>2. Aggregate(F, f) = IF met THEN wide ELSE Append(F, g)
  BY <1>1 DEF Aggregate, FieldOf
<1>3. /\ Sequence(F) /\ Len(F) \in Nat /\ DOMAIN F = 1 .. Len(F)
      /\ \A j, k \in 1 .. Len(F) : SameKey(F[j], F[k]) => j = k
      /\ \A k \in 1 .. Len(F) : \E a, b \in K : Made(F[k], a, b)
      /\ \A e \in K : \E k \in 1 .. Len(F) : Covers(F[k], e)
  BY SequenceFacts DEF Aggregated
<1>4. PICK n \in Nat : n = Len(F)
  BY <1>3
<1>5. K \subseteq KeptOf(fields)
  OBVIOUS
<1>6. Made(g, f, f) /\ Covers(g, f)
  BY <1>1, MadeOfOne
<1> HIDE DEF g
<1>7. CASE met
  <2>1. PICK w : w = wide
    OBVIOUS
  <2>2. Sequence(w) /\ Len(w) = n /\ w = [k \in 1 .. n |-> IF SameKey(F[k], g) THEN Widen(F[k], g) ELSE F[k]]
    <3>1. w = [k \in 1 .. n |-> IF SameKey(F[k], g) THEN Widen(F[k], g) ELSE F[k]]
      BY <1>3, <1>4, <2>1
    <3>2. w = [k \in 1 .. n |-> w[k]]
      BY <3>1
    <3> QED BY <3>1, <3>2, FunctionIsSequence
  <2>3. ASSUME NEW k \in 1 .. n
        PROVE  /\ SameKey(w[k], F[k])
               /\ \E c, d \in K \cup {f} : Made(w[k], c, d)
               /\ \A e \in K : Covers(F[k], e) => Covers(w[k], e)
               /\ SameKey(F[k], g) => Covers(w[k], f)
    <3>1. PICK a \in K, b \in K : Made(F[k], a, b)
      BY <1>3, <1>4
    <3>2. CASE SameKey(F[k], g)
      <4>1. w[k] = Widen(F[k], g)
        BY <2>2, <3>2
      <4>2. /\ Covers(Widen(F[k], FieldOf(f)), f) /\ SameKey(Widen(F[k], FieldOf(f)), F[k])
            /\ \E c, d \in {a, b, f} : Made(Widen(F[k], FieldOf(f)), c, d)
            /\ \A e \in KeptOf(fields) : Covers(F[k], e) => Covers(Widen(F[k], FieldOf(f)), e)
        BY <1>5, <3>1, <3>2, Widened DEF g
      <4> QED BY <1>5, <4>1, <4>2 DEF g
    <3>3. CASE ~ SameKey(F[k], g)
      <4>1. w[k] = F[k]
        BY <2>2, <3>3
      <4>2. SameKey(F[k], F[k])
        BY DEF SameKey
      <4> QED BY <3>1, <3>3, <4>1, <4>2
    <3> QED BY <3>2, <3>3
  <2>4. \A j, k \in 1 .. n : SameKey(w[j], w[k]) => j = k
    <3>1. ASSUME NEW j \in 1 .. n, NEW k \in 1 .. n, SameKey(w[j], w[k]) PROVE SameKey(F[j], F[k])
      <4>1. SameKey(w[j], F[j]) /\ SameKey(w[k], F[k])
        BY <2>3
      <4> QED BY <3>1, <4>1 DEF SameKey
    <3> QED BY <1>3, <1>4, <3>1
  <2>5. \A k \in 1 .. n : \E c, d \in K \cup {f} : Made(w[k], c, d)
    BY <2>3
  <2>6. \A e \in K \cup {f} : \E k \in 1 .. n : Covers(w[k], e)
    <3>1. \A e \in K : \E k \in 1 .. n : Covers(w[k], e)
      BY <1>3, <1>4, <2>3
    <3>2. \E k \in 1 .. n : Covers(w[k], f)
      BY <1>3, <1>4, <1>7, <2>3
    <3> QED BY <3>1, <3>2
  <2>7. Aggregate(F, f) = w
    BY <1>2, <1>7, <2>1
  <2> QED BY <2>2, <2>4, <2>5, <2>6, <2>7 DEF Aggregated
<1>8. CASE ~ met
  <2>1. PICK w : w = Append(F, g)
    OBVIOUS
  <2>2. /\ Sequence(w) /\ Len(w) = n + 1
        /\ \A k \in 1 .. n : w[k] = F[k]
        /\ w[n + 1] = g
    BY <1>3, <1>4, <2>1, AppendSequence
  <2>3. \A k \in 1 .. n : ~ SameKey(F[k], g) /\ ~ SameKey(g, F[k])
    BY <1>3, <1>4, <1>8 DEF SameKey
  <2>4. \A k \in 1 .. n + 1 : k \in 1 .. n \/ k = n + 1
    BY <1>4
  <2>5. 1 .. n \subseteq 1 .. n + 1 /\ n + 1 \in 1 .. n + 1
    BY <1>4
  <2>6. \A j, k \in 1 .. n + 1 : SameKey(w[j], w[k]) => j = k
    BY <1>3, <1>4, <2>2, <2>3, <2>4
  <2>7. \A k \in 1 .. n + 1 : \E c, d \in K \cup {f} : Made(w[k], c, d)
    BY <1>3, <1>4, <1>6, <2>2, <2>4
  <2>8. \A e \in K \cup {f} : \E k \in 1 .. n + 1 : Covers(w[k], e)
    <3>1. \A e \in K : \E k \in 1 .. n + 1 : Covers(w[k], e)
      BY <1>3, <1>4, <2>2, <2>5
    <3>2. \E k \in 1 .. n + 1 : Covers(w[k], f)
      BY <1>6, <2>2, <2>5
    <3> QED BY <3>1, <3>2
  <2>9. Aggregate(F, f) = w
    BY <1>2, <1>8, <2>1
  <2> QED BY <2>2, <2>6, <2>7, <2>8, <2>9 DEF Aggregated
<1> QED BY <1>7, <1>8

\* _aggregate_fields makes one field for each key of the cells that are kept, and makes
\* it as long as the cells of the key need it to be and no longer, for any definition.
LEMMA FieldsAggregated ==
    ASSUME NEW fields, Flattened(fields)
    PROVE  Aggregated(_aggregate_fields(fields), KeptOf(fields))
<1>1. /\ Sequence(fields) /\ Len(fields) \in Nat
      /\ \A k \in 1 .. Len(fields) : fields[k] \in ToSet(fields)
      /\ \A e \in ToSet(fields) : \E k \in 1 .. Len(fields) : fields[k] = e
  BY SequenceFacts DEF Flattened
<1>2. PICK n \in Nat : n = Len(fields)
  BY <1>1
<1>3. PICK after : Steps(after, fields) /\ _aggregate_fields(fields) = after[n]
  BY <1>2, AggregatedIs
<1>4. after = [m \in 0 .. n |-> IF m = 0 THEN <<>> ELSE Aggregate(after[m - 1], fields[m])]
  BY <1>2, <1>3 DEF Steps
<1> DEFINE Of(m) == {f \in KeptOf(fields) : \E k \in 1 .. m : fields[k] = f}
           Good(m) == Aggregated(after[m], Of(m))
           S == {m \in 0 .. n : ~ Good(m)}
<1>5. Good(0)
  <2>1. after[0] = <<>> /\ Of(0) = {}
    BY <1>2, <1>4
  <2>2. Sequence(<<>>) /\ Len(<<>>) = 0
    BY EmptySeq DEF Sequence
  <2>3. \A k : k \notin 1 .. 0
    OBVIOUS
  <2> HIDE DEF Of
  <2> QED BY <2>1, <2>2, <2>3 DEF Aggregated
<1>6. ASSUME NEW m \in 0 .. n - 1, Good(m)
      PROVE  Good(m + 1)
  <2>1. PICK f : f = fields[m + 1]
    OBVIOUS
  <2>2. m + 1 \in 1 .. n /\ m + 1 \in 0 .. n /\ m + 1 # 0 /\ m + 1 - 1 = m
    BY <1>2
  <2>3. after[m + 1] = Aggregate(after[m], f)
    BY <1>4, <2>1, <2>2
  <2>4. f \in ToSet(fields)
    BY <1>1, <1>2, <2>1, <2>2
  <2>5. \A k \in 1 .. m + 1 : k \in 1 .. m \/ k = m + 1
    BY <1>2
  <2>6. 1 .. m \subseteq 1 .. m + 1 /\ m + 1 \in 1 .. m + 1
    BY <1>2
  <2>7. CASE Dropped(f.name, f.type_str)
    <3>1. after[m + 1] = after[m]
      BY <2>3, <2>7 DEF Aggregate
    <3>2. f \notin KeptOf(fields)
      BY <2>7 DEF KeptOf
    <3>3. Of(m + 1) = Of(m)
      BY <2>1, <2>5, <2>6, <3>2
    <3> QED BY <1>6, <3>1, <3>3
  <2>8. CASE ~ Dropped(f.name, f.type_str)
    <3>1. f \in KeptOf(fields)
      BY <2>4, <2>8 DEF KeptOf
    <3>2. Of(m + 1) = Of(m) \cup {f}
      BY <2>1, <2>5, <2>6, <3>1
    <3>3. Of(m) \in SUBSET KeptOf(fields)
      OBVIOUS
    <3> HIDE DEF Of
    <3>4. Aggregated(Aggregate(after[m], f), Of(m) \cup {f})
      BY <1>6, <3>1, <3>3, AggregateStep
    <3> QED BY <2>3, <3>2, <3>4
  <2> QED BY <2>7, <2>8
<1>7. Good(n)
  <2>1. SUFFICES ASSUME S # {} PROVE FALSE
    <3>1. n \in 0 .. n
      BY <1>2
    <3> QED BY <2>1, <3>1
  <2> HIDE DEF Good
  <2>2. S \subseteq Nat
    OBVIOUS
  <2>3. PICK m \in S : \A k \in S : m <= k
    BY <2>1, <2>2, Least
  <2>4. m \in 0 .. n /\ ~ Good(m)
    OBVIOUS
  <2>5. m # 0
    BY <1>5, <2>4
  <2>6. m - 1 \in 0 .. n - 1 /\ m - 1 \in 0 .. n /\ m - 1 + 1 = m /\ ~ (m <= m - 1)
    BY <1>2, <2>4, <2>5
  <2>7. Good(m - 1)
    BY <2>3, <2>6
  <2> QED BY <1>6, <2>4, <2>6, <2>7
<1>8. Of(n) = KeptOf(fields)
  <2>1. \A f \in KeptOf(fields) : f \in ToSet(fields)
    BY DEF KeptOf
  <2> QED BY <1>1, <1>2, <2>1
<1> QED BY <1>3, <1>7, <1>8

LEMMA LengthsPositive ==
    ASSUME NEW f, Entry(f), Shaped(f)
    PROVE  LET F == FieldOf(f) IN
           /\ F.outer_len - 1 \in Nat /\ F.inner_len - 1 \in Nat
           /\ F.outer_len \in Int /\ F.inner_len \in Int
           /\ ~ F.is_repeated => F.outer_len = 1
           /\ f.type_str # "char" => F.inner_len = 1
<1>1. PICK F, at : F = FieldOf(f) /\ at = Len(F.ulog_base)
  OBVIOUS
<1>2. PICK len \in Nat : len = Len(f.name)
  BY NameFacts
<1>3. \A k \in 1 .. len : f.name[k].idx \in Int /\ (Indexed(f.name, k) <=> f.name[k].idx >= 0)
  BY <1>2, NameFacts
<1>4. /\ at \in 1 .. len
      /\ F.is_repeated => Indexed(f.name, at)
      /\ F.outer_len = (IF F.is_repeated THEN f.name[at].idx ELSE 0) + 1
      /\ F.inner_len = (IF f.type_str = "char" /\ Indexed(f.name, len) THEN f.name[len].idx ELSE 0) + 1
  BY <1>1, <1>2 DEF Shaped
<1>5. PICK i, j : /\ i = (IF F.is_repeated THEN f.name[at].idx ELSE 0)
                  /\ j = (IF f.type_str = "char" /\ Indexed(f.name, len) THEN f.name[len].idx ELSE 0)
  OBVIOUS
<1>6. i \in Nat /\ j \in Nat
  BY <1>3, <1>4, <1>5
<1>7. /\ F.outer_len = i + 1 /\ F.inner_len = j + 1
      /\ ~ F.is_repeated => i = 0
      /\ f.type_str # "char" => j = 0
  BY <1>4, <1>5
<1> QED BY <1>1, <1>6, <1>7

LEMMA TypeHolds ==
    ASSUME NEW type_str \in UlogType, NEW v,
           type_str \in {"float", "double", "bool"} \/ v \in NumbersOf(type_str)
    PROVE  Holds(_ULOG_TO_PROTO_TYPE(type_str), v)
<1>1. CASE type_str = "char"
  <2>1. v \in -128 .. 127
    BY <1>1 DEF NumbersOf
  <2>2. v % 256 \in 0 .. 255
    BY <2>1
  <2> QED BY <1>1, <2>2 DEF Holds, Byte, _ULOG_TO_PROTO_TYPE
<1>2. CASE type_str # "char"
  BY <1>2 DEF Holds, NumbersOf, UlogType, _ULOG_TO_PROTO_TYPE
<1> QED BY <1>1, <1>2

\* A field of the message: the cells that make it.
LEMMA FieldIsMade ==
    ASSUME NEW fields, Flattened(fields), NEW k \in DOMAIN _aggregate_fields(fields)
    PROVE  LET g == _aggregate_fields(fields)[k] IN
           \E a, b \in KeptOf(fields) :
               /\ Made(g, a, b) /\ FieldFor(g, a)
               /\ g.outer_len = FieldOf(a).outer_len /\ g.inner_len = FieldOf(b).inner_len
               /\ \A i, j \in Int : CellName(g, i, j) = Cells(a, i, j)
<1>1. PICK F : F = _aggregate_fields(fields)
  OBVIOUS
<1>2. Aggregated(F, KeptOf(fields)) /\ k \in 1 .. Len(F)
  BY <1>1, FieldsAggregated, SequenceFacts DEF Aggregated
<1>3. PICK a \in KeptOf(fields), b \in KeptOf(fields) : Made(F[k], a, b)
  BY <1>2 DEF Aggregated
<1>4. FieldFor(F[k], a) /\ F[k].outer_len = FieldOf(a).outer_len /\ F[k].inner_len = FieldOf(b).inner_len
  BY <1>3, MadeFacts
<1>5. \A i, j \in Int : CellName(F[k], i, j) = Cells(a, i, j)
  BY <1>4, KeptFacts, CellNameIs
<1> QED BY <1>1, <1>3, <1>4, <1>5

\* A record can be encoded, if the characters of its type are in arrays.
LEMMA RecordEncodes ==
    ASSUME NEW fields, Flattened(fields), NEW r, IsRecord(r, fields),
           \A f \in ToSet(fields) : f.type_str = "char" => IsArray(f.name)
    PROVE  Encodes(_aggregate_fields(fields), r)
<1>1. PICK F : F = _aggregate_fields(fields)
  OBVIOUS
<1>2. SUFFICES ASSUME NEW g \in ToSet(F), NEW p \in Places(g)
               PROVE  /\ CellName(g, p[1], p[2]) \in DOMAIN r
                      /\ Holds(g.proto_type, r[CellName(g, p[1], p[2])])
  BY <1>1 DEF Encodes
<1>3. PICK k \in DOMAIN F : g = F[k]
  BY DEF ToSet
<1>4. PICK a \in KeptOf(fields), b \in KeptOf(fields) :
          /\ Made(g, a, b) /\ FieldFor(g, a)
          /\ g.outer_len = FieldOf(a).outer_len /\ g.inner_len = FieldOf(b).inner_len
          /\ \A i, j \in Int : CellName(g, i, j) = Cells(a, i, j)
  BY <1>1, <1>3, FieldIsMade
<1>5. /\ a \in ToSet(fields) /\ Entry(a) /\ Shaped(a) /\ (a.type_str = "char" => IsArray(a.name))
      /\ b \in ToSet(fields)
  BY KeptFacts
<1>6. PICK i, j : i = p[1] /\ j = p[2]
  OBVIOUS
<1>7. i \in 0 .. FieldOf(a).outer_len - 1 /\ j \in 0 .. FieldOf(b).inner_len - 1
  BY <1>4, <1>6 DEF Places
<1>8. SameKey(FieldOf(a), FieldOf(a)) /\ SameKey(FieldOf(a), FieldOf(b))
  BY <1>4 DEF Made, SameKey
<1>9. PICK c \in ToSet(fields) : c.name = Cells(a, i, j) /\ c.type_str = a.type_str
  BY <1>5, <1>7, <1>8, CellIsThere
<1>10. CellName(g, i, j) = c.name
  <2>1. i \in Int /\ j \in Int
    BY <1>7
  <2> QED BY <1>4, <1>9, <2>1
<1>11. c.name \in DOMAIN r
  BY DEF IsRecord, NamesOf
<1>12. c.type_str \in UlogType /\ (c.type_str \in {"float", "double", "bool"} \/ r[c.name] \in NumbersOf(c.type_str))
  BY <1>5, <1>9 DEF IsRecord, Entry
<1>13. g.proto_type = _ULOG_TO_PROTO_TYPE(c.type_str)
  BY <1>4, <1>5, <1>9 DEF FieldFor, Shaped
<1> QED BY <1>6, <1>10, <1>11, <1>12, <1>13, TypeHolds

\* And then only.
LEMMA EncodesArrays ==
    ASSUME NEW fields, Flattened(fields), NEW r, IsRecord(r, fields),
           Encodes(_aggregate_fields(fields), r), NEW f \in KeptOf(fields), f.type_str = "char"
    PROVE  IsArray(f.name)
<1>1. SUFFICES ASSUME ~ IsArray(f.name) PROVE FALSE
  OBVIOUS
<1>2. PICK F : F = _aggregate_fields(fields)
  OBVIOUS
<1>3. PICK k \in DOMAIN F : Covers(F[k], f)
  <2>1. Aggregated(F, KeptOf(fields))
    BY <1>2, FieldsAggregated
  <2> QED BY <2>1, SequenceFacts DEF Aggregated
<1>4. PICK a \in KeptOf(fields), b \in KeptOf(fields) :
          /\ Made(F[k], a, b) /\ FieldFor(F[k], a)
          /\ F[k].outer_len = FieldOf(a).outer_len /\ F[k].inner_len = FieldOf(b).inner_len
          /\ \A i, j \in Int : CellName(F[k], i, j) = Cells(a, i, j)
  BY <1>2, FieldIsMade
<1>5. Entry(f) /\ Entry(a) /\ Shaped(a) /\ Entry(b) /\ Shaped(b)
  BY KeptFacts
<1>6. SameKey(FieldOf(a), FieldOf(f))
  BY <1>3, <1>4 DEF Covers, FieldFor, SameKey
<1>7. PICK len \in Nat : len = Len(a.name) /\ len >= 1
  BY <1>5, NameFacts
<1>8. a.type_str = "char" /\ len = Len(f.name) /\ (Indexed(a.name, len) <=> Indexed(f.name, len))
  <2>1. len \in 1 .. len
    BY <1>7
  <2> QED BY <1>6, <1>7, <2>1, Agree
<1>9. ~ Indexed(a.name, len)
  BY <1>1, <1>8 DEF IsArray
<1>10. <<0, 0>> \in Places(F[k])
  <2>1. FieldOf(a).outer_len - 1 \in Nat /\ FieldOf(b).inner_len - 1 \in Nat
    BY <1>5, LengthsPositive
  <2>2. 0 \in 0 .. FieldOf(a).outer_len - 1 /\ 0 \in 0 .. FieldOf(b).inner_len - 1
    BY <2>1
  <2> QED BY <1>4, <2>2 DEF Places
<1>11. CellName(F[k], 0, 0) \in DOMAIN r
  <2>1. F[k] \in ToSet(F)
    BY DEF ToSet
  <2> QED BY <1>2, <1>10, <2>1 DEF Encodes
<1>12. CellName(F[k], 0, 0) = Cells(a, 0, 0)
  BY <1>4
<1>13. PICK c \in ToSet(fields) : c.name = Cells(a, 0, 0)
  BY <1>11, <1>12 DEF IsRecord, NamesOf
<1>14. PICK at, rep : at = Len(FieldOf(a).ulog_base) /\ rep = FieldOf(a).is_repeated
  OBVIOUS
<1>15. c.name = [l \in 1 .. len |-> [id |-> a.name[l].id,
                                     idx |-> IF l = at /\ rep THEN 0 ELSE IF l = len THEN 0 ELSE NoIndex]]
  BY <1>7, <1>8, <1>13, <1>14 DEF Cells
<1>16. len \in 1 .. len /\ DOMAIN a.name = 1 .. len
  BY <1>5, <1>7, NameFacts
<1>17. c.name[len].idx = 0 /\ DOMAIN c.name = 1 .. len /\ \A l \in 1 .. len : c.name[l].id = a.name[l].id
  BY <1>15, <1>16
<1>18. Ids(c.name) = Ids(a.name)
  BY <1>16, <1>17 DEF Ids
<1>19. Indexed(a.name, len) <=> Indexed(c.name, len)
  <2>1. a \in ToSet(fields)
    BY KeptFacts
  <2> QED BY <1>16, <1>18, <2>1 DEF Flattened
<1> QED BY <1>9, <1>17, <1>19 DEF Indexed, NoIndex

\* Cells with the same identifiers are cells of one field.
LEMMA SameMember ==
    ASSUME NEW fields, Flattened(fields), NEW f \in KeptOf(fields), NEW g \in KeptOf(fields),
           Ids(f.name) = Ids(g.name)
    PROVE  SameKey(FieldOf(f), FieldOf(g))
<1>1. PICK F, G, at, bt : /\ F = FieldOf(f) /\ G = FieldOf(g)
                          /\ at = Len(F.ulog_base) /\ bt = Len(G.ulog_base)
  OBVIOUS
<1>2. /\ Entry(f) /\ Shaped(f) /\ f \in ToSet(fields)
      /\ Entry(g) /\ Shaped(g) /\ g \in ToSet(fields)
  BY KeptFacts
<1>3. PICK len \in Nat : len = Len(f.name)
  BY <1>2, NameFacts
<1>4. DOMAIN f.name = 1 .. len /\ DOMAIN g.name = 1 .. Len(g.name) /\ Len(g.name) \in Nat
  BY <1>2, <1>3, NameFacts
<1>5. Len(g.name) = len /\ DOMAIN g.name = 1 .. len /\ \A k \in 1 .. len : f.name[k].id = g.name[k].id
  <2>1. DOMAIN Ids(f.name) = 1 .. len /\ DOMAIN Ids(g.name) = 1 .. Len(g.name)
    BY <1>4 DEF Ids
  <2>2. 1 .. len = 1 .. Len(g.name)
    BY <2>1
  <2>3. DOMAIN g.name = 1 .. len
    BY <1>4, <2>2
  <2>4. ASSUME NEW k \in 1 .. len PROVE f.name[k].id = g.name[k].id
    <3>1. Ids(f.name)[k] = f.name[k].id /\ Ids(g.name)[k] = g.name[k].id
      BY <1>4, <2>3 DEF Ids
    <3> QED BY <3>1
  <2>5. Len(g.name) = len
    <3>1. PICK m \in Nat : m = Len(g.name)
      BY <1>4
    <3>2. 1 .. len = 1 .. m
      BY <2>2, <3>1
    <3> QED BY <3>1, <3>2
  <2> QED BY <2>3, <2>4, <2>5
<1>6. f.type_str = g.type_str /\ \A k \in 1 .. len : Indexed(f.name, k) <=> Indexed(g.name, k)
  BY <1>2, <1>4 DEF Flattened
<1>7. /\ at \in 1 .. len /\ (at = len \/ at = len - 1)
      /\ \A k \in 1 .. len : k # at /\ k # len => ~ Indexed(f.name, k)
      /\ F.ulog_base = [k \in 1 .. at |-> f.name[k].id]
      /\ at = len => F.leaf = NoLeaf
      /\ at # len => F.leaf = f.name[len].id
      /\ F.is_repeated => Indexed(f.name, at)
      /\ at # len => F.is_repeated
  BY <1>1, <1>2, <1>3 DEF Shaped
<1>8. /\ bt \in 1 .. len /\ (bt = len \/ bt = len - 1)
      /\ \A k \in 1 .. len : k # bt /\ k # len => ~ Indexed(g.name, k)
      /\ G.ulog_base = [k \in 1 .. bt |-> g.name[k].id]
      /\ bt = len => G.leaf = NoLeaf
      /\ bt # len => G.leaf = g.name[len].id
      /\ G.is_repeated => Indexed(g.name, bt)
      /\ bt # len => G.is_repeated
  BY <1>1, <1>2, <1>5 DEF Shaped
<1>9. at = bt
  <2>1. at # len => bt = at
    BY <1>6, <1>7, <1>8
  <2>2. bt # len => bt = at
    BY <1>6, <1>7, <1>8
  <2> QED BY <2>1, <2>2
<1>10. F.ulog_base = G.ulog_base
  <2>1. \A k \in 1 .. at : f.name[k].id = g.name[k].id
    BY <1>3, <1>5, <1>7
  <2> QED BY <1>7, <1>8, <1>9, <2>1
<1>11. F.leaf = G.leaf
  <2>1. len \in 1 .. len
    BY <1>7
  <2> QED BY <1>5, <1>7, <1>8, <1>9, <2>1
<1> QED BY <1>1, <1>10, <1>11 DEF SameKey

LEMMA CellsDiffer ==
    ASSUME NEW f, Entry(f), Shaped(f), NEW i, NEW j, NEW k, NEW l, Cells(f, i, j) = Cells(f, k, l)
    PROVE  (FieldOf(f).is_repeated => i = k) /\ (f.type_str = "char" => j = l)
<1>1. PICK at, rep : at = Len(FieldOf(f).ulog_base) /\ rep = FieldOf(f).is_repeated
  OBVIOUS
<1>2. PICK len \in Nat : len = Len(f.name) /\ len >= 1
  BY NameFacts
<1>3. at \in 1 .. len /\ (at = len /\ rep => f.type_str # "char") /\ len \in 1 .. len
  BY <1>1, <1>2 DEF Shaped
<1>4. \A x, y : Cells(f, x, y) = [n \in 1 .. len |->
              [id  |-> f.name[n].id,
               idx |-> IF n = at /\ rep THEN x
                       ELSE IF n = len /\ f.type_str = "char" THEN y ELSE NoIndex]]
  BY <1>1, <1>2 DEF Cells
<1>5. PICK c : c = Cells(f, i, j)
  OBVIOUS
<1>6. c = Cells(f, k, l)
  BY <1>5
<1>7. ASSUME rep PROVE i = k
  <2>1. c[at].idx = i
    BY <1>3, <1>4, <1>5, <1>7
  <2>2. c[at].idx = k
    BY <1>3, <1>4, <1>6, <1>7
  <2> QED BY <2>1, <2>2
<1>8. ASSUME f.type_str = "char" PROVE j = l
  <2>1. ~ (len = at /\ rep)
    BY <1>3, <1>8
  <2>2. c[len].idx = j
    BY <1>3, <1>4, <1>5, <1>8, <2>1
  <2>3. c[len].idx = l
    BY <1>3, <1>4, <1>6, <1>8, <2>1
  <2> QED BY <2>2, <2>3
<1> QED BY <1>1, <1>7, <1>8

\* The place of a cell: the number of its field, and where it is in the field.
LEMMA PlaceOfCell ==
    ASSUME NEW fields, Flattened(fields), NEW f \in KeptOf(fields),
           f.type_str = "char" => IsArray(f.name)
    PROVE  LET F == _aggregate_fields(fields)
               i == FieldOf(f).outer_len - 1
               j == FieldOf(f).inner_len - 1 IN
           \E k \in DOMAIN F :
               /\ Covers(F[k], f) /\ FieldFor(F[k], f)
               /\ <<i, j>> \in Places(F[k])
               /\ \A n, m \in Int : CellName(F[k], n, m) = Cells(f, n, m)
               /\ CellName(F[k], i, j) = f.name
<1>1. PICK F : F = _aggregate_fields(fields)
  OBVIOUS
<1>2. PICK i, j : i = FieldOf(f).outer_len - 1 /\ j = FieldOf(f).inner_len - 1
  OBVIOUS
<1>3. Entry(f) /\ Shaped(f)
  BY KeptFacts
<1>4. PICK k \in DOMAIN F : Covers(F[k], f)
  <2>1. Aggregated(F, KeptOf(fields))
    BY <1>1, FieldsAggregated
  <2> QED BY <2>1, SequenceFacts DEF Aggregated
<1>5. PICK a \in KeptOf(fields), b \in KeptOf(fields) :
          /\ FieldFor(F[k], a)
          /\ F[k].outer_len = FieldOf(a).outer_len /\ F[k].inner_len = FieldOf(b).inner_len
  BY <1>1, FieldIsMade
<1>6. SameKey(FieldOf(a), FieldOf(f))
  BY <1>4, <1>5 DEF Covers, FieldFor, SameKey
<1>7. FieldFor(F[k], f)
  BY <1>5, <1>6, Agree DEF FieldFor
<1>8. i \in Nat /\ j \in Nat /\ Cells(f, i, j) = f.name
  BY <1>2, <1>3, OwnCell
<1>9. <<i, j>> \in Places(F[k])
  <2>1. FieldOf(a).outer_len \in Int /\ FieldOf(b).inner_len \in Int
        /\ FieldOf(f).outer_len \in Int /\ FieldOf(f).inner_len \in Int
    BY <1>3, KeptFacts, LengthsPositive
  <2>2. FieldOf(f).outer_len <= F[k].outer_len /\ FieldOf(f).inner_len <= F[k].inner_len
    BY <1>4 DEF Covers
  <2>3. i \in 0 .. F[k].outer_len - 1 /\ j \in 0 .. F[k].inner_len - 1
    BY <1>2, <1>5, <1>8, <2>1, <2>2
  <2> QED BY <2>3 DEF Places
<1>10. \A n, m \in Int : CellName(F[k], n, m) = Cells(f, n, m)
  BY <1>3, <1>7, CellNameIs
<1>11. CellName(F[k], i, j) = f.name
  <2>1. i \in Int /\ j \in Int
    BY <1>8
  <2> QED BY <1>8, <1>10, <2>1
<1> QED BY <1>1, <1>2, <1>4, <1>7, <1>9, <1>10, <1>11

\* A cell that is kept is read for one place of one field, for any definition.
LEMMA CellStoredOnce ==
    ASSUME NEW fields, Flattened(fields), NEW f \in KeptOf(fields),
           f.type_str = "char" => IsArray(f.name)
    PROVE  StoredOnce(f.name, _aggregate_fields(fields))
<1>1. PICK F : F = _aggregate_fields(fields)
  OBVIOUS
<1>2. PICK i, j : i = FieldOf(f).outer_len - 1 /\ j = FieldOf(f).inner_len - 1
  OBVIOUS
<1>3. Entry(f) /\ Shaped(f) /\ f \in ToSet(fields)
  BY KeptFacts
<1>4. PICK k \in DOMAIN F :
          /\ Covers(F[k], f) /\ FieldFor(F[k], f)
          /\ <<i, j>> \in Places(F[k])
          /\ \A n, m \in Int : CellName(F[k], n, m) = Cells(f, n, m)
          /\ CellName(F[k], i, j) = f.name
  BY <1>1, <1>2, PlaceOfCell
<1>5. i \in Int /\ j \in Int /\ Cells(f, i, j) = f.name
  BY <1>2, <1>3, OwnCell
<1>6. DOMAIN F = 1 .. Len(F)
      /\ \A x, y \in 1 .. Len(F) : SameKey(F[x], F[y]) => x = y
  <2>1. Aggregated(F, KeptOf(fields))
    BY <1>1, FieldsAggregated
  <2> QED BY <2>1, SequenceFacts DEF Aggregated
<1>7. \A l \in DOMAIN F : \E a, b \in KeptOf(fields) :
           /\ Made(F[l], a, b) /\ FieldFor(F[l], a)
           /\ F[l].outer_len = FieldOf(a).outer_len /\ F[l].inner_len = FieldOf(b).inner_len
  BY <1>1, FieldIsMade
<1>8. ASSUME NEW l \in DOMAIN F, NEW p \in Places(F[l]), CellName(F[l], p[1], p[2]) = f.name
      PROVE  l = k /\ p = <<i, j>>
  <2>1. PICK a \in KeptOf(fields), b \in KeptOf(fields) :
            /\ Made(F[l], a, b) /\ FieldFor(F[l], a)
            /\ F[l].outer_len = FieldOf(a).outer_len /\ F[l].inner_len = FieldOf(b).inner_len
    BY <1>7
  <2>2. PICK n, m : n = p[1] /\ m = p[2]
    OBVIOUS
  <2>3. /\ Entry(a) /\ Shaped(a) /\ Entry(b) /\ Shaped(b)
        /\ FieldOf(a).outer_len \in Int /\ FieldOf(b).inner_len \in Int
        /\ ~ FieldOf(a).is_repeated => FieldOf(a).outer_len = 1
        /\ b.type_str # "char" => FieldOf(b).inner_len = 1
    BY KeptFacts, LengthsPositive
  <2>4. n \in 0 .. FieldOf(a).outer_len - 1 /\ m \in 0 .. FieldOf(b).inner_len - 1 /\ p = <<n, m>>
    BY <2>1, <2>2 DEF Places
  <2>5. n \in Int /\ m \in Int
    BY <2>4
  <2>6. Cells(a, n, m) = f.name
    BY <1>8, <2>1, <2>2, <2>3, <2>5, CellNameIs
  <2>7. Ids(f.name) = Ids(a.name)
    <3>1. PICK c : c = Cells(a, n, m)
      OBVIOUS
    <3>2. DOMAIN a.name = 1 .. Len(a.name)
      BY <2>3, NameFacts
    <3>3. DOMAIN c = 1 .. Len(a.name) /\ \A x \in 1 .. Len(a.name) : c[x].id = a.name[x].id
      BY <3>1 DEF Cells
    <3> QED BY <2>6, <3>1, <3>2, <3>3 DEF Ids
  <2>8. SameKey(FieldOf(f), FieldOf(a))
    BY <2>7, SameMember
  <2>9. SameKey(F[l], F[k])
    BY <1>4, <2>1, <2>8 DEF Covers, FieldFor, SameKey
  <2>10. l = k
    BY <1>6, <2>9
  <2>11. Cells(f, n, m) = Cells(f, i, j)
    BY <1>4, <1>5, <1>8, <2>2, <2>5, <2>10
  <2>12. (FieldOf(f).is_repeated => n = i) /\ (f.type_str = "char" => m = j)
    BY <1>3, <2>11, CellsDiffer
  <2>13. /\ ~ FieldOf(f).is_repeated => i = 0
         /\ f.type_str # "char" => j = 0
    BY <1>2, <1>3, LengthsPositive
  <2>14. FieldOf(a).is_repeated = FieldOf(f).is_repeated /\ a.type_str = f.type_str
    BY <2>8, Agree
  <2>15. b.type_str = f.type_str
    <3>1. SameKey(FieldOf(f), FieldOf(b))
      BY <2>1, <2>8 DEF Made, SameKey
    <3> QED BY <3>1, Agree
  <2>16. n = i
    BY <2>3, <2>4, <2>12, <2>13, <2>14
  <2>17. m = j
    BY <2>3, <2>4, <2>12, <2>13, <2>15
  <2> QED BY <2>4, <2>10, <2>16, <2>17
<1> DEFINE at(l) == {p \in Places(F[l]) : CellName(F[l], p[1], p[2]) = f.name}
           all == UNION {{l} \X at(l) : l \in DOMAIN F}
<1>9. all = {<<k, <<i, j>>>>}
  <2>1. <<i, j>> \in at(k)
    BY <1>4
  <2>2. \A l \in DOMAIN F : \A p \in at(l) : l = k /\ p = <<i, j>>
    BY <1>8
  <2> HIDE DEF at
  <2> QED BY <2>1, <2>2
<1>10. Cardinality(all) = 1
  <2> HIDE DEF all
  <2> QED BY <1>9, FS_Singleton
<1> QED BY <1>1, <1>10 DEF StoredOnce

-----------------------------------------------------------------------------
(* What costs a log, and what a log does not lose *)

\* What UlogAssumption says of the message types and their records.
LEMMA DefinitionFacts ==
    ASSUME Logged, NEW n \in 1 .. N
    PROVE  LET d == ulog.data_list[n] IN
           /\ d \in ToSet(ulog.data_list) /\ Flattened(d.field_data)
           /\ \A k \in 1 .. Len(d.records) : IsRecord(d.records[k], d.field_data)
<1>1. ulog \in Ulogs /\ ulog.data_list[n] \in ToSet(ulog.data_list)
  BY LogFacts DEF Logged, N
<1>2. PICK d \in ToSet(ulog.data_list) : d = ulog.data_list[n]
  BY <1>1
<1>3. Flattened(d.field_data) /\ Sequence(d.records)
  BY <1>1, UlogAssumption
<1>4. \A r \in ToSet(d.records) : IsRecord(r, d.field_data)
  BY <1>1, UlogAssumption
<1>5. \A k \in 1 .. Len(d.records) : d.records[k] \in ToSet(d.records)
  BY <1>3, SequenceFacts
<1> QED BY <1>2, <1>3, <1>4, <1>5

\* The codecs of the streams of records, and no others, look for the cells of fields.
LEMMA TopicCodecs ==
    ASSUME Logged, NEW s \in 1 .. N + 4
    PROVE  /\ CodecOf(s).class = "TopicCodec" <=> s \in 1 .. N
           /\ s \in 1 .. N => CodecOf(s).fields = _aggregate_fields(ulog.data_list[s].field_data)
<1>1. CASE s \in 1 .. N
  <2>1. CodecOf(s) = TopicCodec(_aggregate_fields(ulog.data_list[s].field_data))
    BY <1>1 DEF CodecOf
  <2> QED BY <1>1, <2>1 DEF TopicCodec
<1>2. CASE s \notin 1 .. N
  <2>1. CodecOf(s) = FixedCodec(TopicOf(s))
    BY <1>2 DEF CodecOf
  <2>2. TopicOf(s) \in FixedTopic
    BY <1>2 DEF TopicOf, FixedTopic
  <2>3. \A t \in FixedTopic : FixedCodec(t).class # "TopicCodec"
    BY DEF FixedTopic, FixedCodec, ProtobufCodec
  <2> QED BY <1>2, <2>1, <2>2, <2>3
<1> QED BY <1>1, <1>2

\* The seconds in a message of Foxglove's are those of its record's time.
LEMMA StreamItem ==
    ASSUME NEW topic, NEW items, NEW source, NEW k \in DOMAIN Stream(topic, items, source)
    PROVE  /\ k \in DOMAIN items
           /\ Stream(topic, items, source)[k].time = items[k].time
           /\ Stream(topic, items, source)[k].payload = items[k].payload
<1>1. k \in DOMAIN items
  BY DEF Stream
<1>2. PICK time, payload : time = items[k].time /\ payload = items[k].payload
  OBVIOUS
<1>3. PICK record : record = [source |-> source, row |-> k]
  OBVIOUS
<1>4. Stream(topic, items, source)[k]
          = [topic |-> topic, time |-> time, payload |-> payload, record |-> record]
  BY <1>1, <1>2, <1>3 DEF Stream
<1> QED BY <1>1, <1>2, <1>4

LEMMA FormattedTime ==
    ASSUME NEW log, NEW name
    PROVE  /\ FormattedRecord(log, name).time = log.timestamp
           /\ FormattedRecord(log, name).payload.timestamp = _micros_to_foxglove_time(log.timestamp)
<1>1. PICK stamp : stamp = _micros_to_foxglove_time(log.timestamp)
  OBVIOUS
<1>2. PICK payload : payload = [message |-> log.message,
                                level |-> _PX4_TO_FOXGLOVE_LOG_LEVEL(log.level),
                                name |-> name, timestamp |-> stamp]
  OBVIOUS
<1>3. FormattedRecord(log, name) = [time |-> log.timestamp, payload |-> payload]
  BY <1>1, <1>2 DEF FormattedRecord
<1>4. payload.timestamp = stamp
  BY <1>2
<1> QED BY <1>1, <1>3, <1>4

LEMMA TrajectoryTime ==
    ASSUME NEW k \in DOMAIN stream_trajectory
    PROVE  stream_trajectory[k].payload.timestamp
               = _micros_to_foxglove_time(stream_trajectory[k].time)
<1> DEFINE places  == {n \in DOMAIN ulog.data_list :
                          ulog.data_list[n].name = LocalPosition /\ ulog.data_list[n].multi_id = 0}
           records == IF places = {} THEN <<>> ELSE ulog.data_list[Ascending(places)[1]].records
           valid   == Ascending({j \in DOMAIN records :
                          \A c \in {"x", "y", "z"} : records[j][Cell(<<c>>)] # NaN})
           first   == TimeOf(records[valid[1]])
           points  == [j \in DOMAIN valid |-> ned_to_enu(Point(records[valid[j]]))]
           payload == [points |-> points, timestamp |-> _micros_to_foxglove_time(first)]
           items   == <<[time |-> first, payload |-> payload]>>
           source  == [kind |-> "trajectory", n |-> 0]
<1>1. stream_trajectory = IF valid = <<>> THEN <<>> ELSE Stream(TrajectoryTopic, items, source)
  BY DEF stream_trajectory
<1> HIDE DEF valid, first, points
<1>2. payload.timestamp = _micros_to_foxglove_time(first)
  OBVIOUS
<1> HIDE DEF payload
<1>3. \A j \in DOMAIN items : items[j].time = first /\ items[j].payload = payload
  OBVIOUS
<1> HIDE DEF items, source
<1>4. stream_trajectory = Stream(TrajectoryTopic, items, source)
  BY <1>1
<1> QED BY <1>2, <1>3, <1>4, StreamItem

\* What a record has in the streams that are the converter's own.
LEMMA OwnRecords ==
    ASSUME Logged, NEW s \in 1 .. N + 4, NEW j \in 1 .. Len(Streams[s])
    PROVE  /\ s \in {N + 1, N + 2, N + 4} =>
                  Streams[s][j].payload.timestamp = _micros_to_foxglove_time(Streams[s][j].time)
           /\ s = N + 3 =>
                  \E change \in ToSet(ulog.changed_parameters) :
                      /\ Streams[s][j].time = change.timestamp
                      /\ Streams[s][j].payload = ParameterPayload(change)
<1>1. j \in DOMAIN Streams[s]
  BY StreamsAre, SequenceFacts DEF WellFormed
<1>2. CASE s = N + 1
  <2>1. PICK items : items = [k \in DOMAIN ulog.logged_messages |->
                                 FormattedRecord(ulog.logged_messages[k], <<>>)]
    OBVIOUS
  <2>2. Streams[s] = Stream(LogsTopic, items, [kind |-> "log", n |-> 0])
    BY <1>2, <2>1, StreamsAre DEF stream_logged_messages
  <2>3. /\ j \in DOMAIN items /\ Streams[s][j].time = items[j].time
        /\ Streams[s][j].payload = items[j].payload
    BY <1>1, <2>2, StreamItem
  <2>4. items[j] = FormattedRecord(ulog.logged_messages[j], <<>>)
    BY <2>1, <2>3
  <2>5. Streams[s][j].payload.timestamp = _micros_to_foxglove_time(Streams[s][j].time)
    BY <2>3, <2>4, FormattedTime
  <2>6. N \in Nat
    BY StreamsAre
  <2> QED BY <1>2, <2>5, <2>6
<1>3. CASE s = N + 2
  <2>1. PICK order : order = InOrder(Tagged, TaggedBefore)
    OBVIOUS
  <2>2. Streams[s] = stream_logged_messages_tagged
    BY <1>3, StreamsAre
  <2>3. j \in DOMAIN order
    BY <1>1, <2>1, <2>2 DEF stream_logged_messages_tagged
  <2>4. PICK log, tag, number : /\ tag = order[j][1] /\ number = order[j][2]
                                /\ log = ulog.logged_messages_tagged[tag][number]
    OBVIOUS
  <2>5. PICK source : source = [source |-> [kind |-> "tagged", n |-> tag], row |-> number]
    OBVIOUS
  <2>6. PICK payload : payload = FormattedRecord(log, TagName(tag)).payload
    OBVIOUS
  <2>7. Streams[s][j] = [topic |-> LogsTopic, time |-> log.timestamp, payload |-> payload,
                         record |-> source]
    BY <2>1, <2>2, <2>3, <2>4, <2>5, <2>6 DEF stream_logged_messages_tagged
  <2>8. Streams[s][j].time = log.timestamp /\ Streams[s][j].payload = payload
    BY <2>7
  <2>9. Streams[s][j].payload.timestamp = _micros_to_foxglove_time(Streams[s][j].time)
    BY <2>6, <2>8, FormattedTime
  <2>10. N \in Nat
    BY StreamsAre
  <2> QED BY <1>3, <2>9, <2>10
<1>4. CASE s = N + 3
  <2>1. PICK items : items = [k \in DOMAIN ulog.changed_parameters |->
                                 LET change == ulog.changed_parameters[k]
                                 IN  [time |-> change.timestamp, payload |-> ParameterPayload(change)]]
    OBVIOUS
  <2>2. Streams[s] = Stream(ParameterChangesTopic, items, [kind |-> "parameter", n |-> 0])
    BY <1>4, <2>1, StreamsAre DEF stream_parameter_changes
  <2>3. /\ j \in DOMAIN items /\ Streams[s][j].time = items[j].time
        /\ Streams[s][j].payload = items[j].payload
    BY <1>1, <2>2, StreamItem
  <2>4. PICK change : change = ulog.changed_parameters[j]
    OBVIOUS
  <2>5. items[j] = [time |-> change.timestamp, payload |-> ParameterPayload(change)]
    BY <2>1, <2>3, <2>4
  <2>6. items[j].time = change.timestamp /\ items[j].payload = ParameterPayload(change)
    BY <2>5
  <2>7. j \in DOMAIN ulog.changed_parameters
    BY <2>1, <2>3
  <2>8. change \in ToSet(ulog.changed_parameters)
    BY <2>4, <2>7 DEF ToSet
  <2>9. N \in Nat
    BY StreamsAre
  <2> QED BY <1>4, <2>3, <2>6, <2>8, <2>9
<1>5. CASE s = N + 4
  <2>1. Streams[s] = stream_trajectory
    BY <1>5, StreamsAre
  <2>2. N \in Nat
    BY StreamsAre
  <2> QED BY <1>1, <1>5, <2>1, <2>2, TrajectoryTime
<1> QED BY <1>2, <1>3, <1>4, <1>5

\* A time that does not fit is too late.
LEMMA TimeTooLate ==
    ASSUME NEW time \in Nat
    PROVE  /\ ~ Holds("uint64", time) \/ ~ Holds("uint64", time * 1000)
                  => time * 1000 >= 2^WordBits
           /\ ~ Holds("uint32", _micros_to_foxglove_time(time).sec)
                  => time \div Second >= 2^HalfBits
<1>1. PICK m, h : m = 2^WordBits /\ h = 2^HalfBits
  OBVIOUS
<1>2. m \in Int /\ h \in Int
  BY <1>1, WidthAssumption
<1>3. /\ Holds("uint64", time) <=> time \in 0 .. m - 1
      /\ Holds("uint64", time * 1000) <=> time * 1000 \in 0 .. m - 1
  BY <1>1 DEF Holds
<1>4. PICK sec : sec = time \div Second
  OBVIOUS
<1>5. _micros_to_foxglove_time(time).sec = sec
  <2>1. PICK nsec : nsec = (time % Second) * 1000
    OBVIOUS
  <2>2. _micros_to_foxglove_time(time) = [sec |-> sec, nsec |-> nsec]
    BY <1>4, <2>1 DEF _micros_to_foxglove_time
  <2> QED BY <2>2
<1>6. Holds("uint32", sec) <=> sec \in 0 .. h - 1
  BY <1>1 DEF Holds
<1>7. sec \in Nat
  BY <1>4, ClockAssumption
<1> QED BY <1>1, <1>2, <1>3, <1>4, <1>5, <1>6, <1>7

\* A parameter change can be encoded, but for its time.
LEMMA ParameterHolds ==
    ASSUME Logged, NEW change \in ToSet(ulog.changed_parameters),
           NEW codec, codec.class = "ParameterChangedCodec",
           ~ CanEncode(codec, ParameterPayload(change))
    PROVE  ~ Holds("uint64", change.timestamp)
<1>1. PICK payload : payload = ParameterPayload(change)
  OBVIOUS
<1>2. ulog \in Ulogs
  BY DEF Logged
<1>3. CASE change.int
  <2>1. payload = [timestamp |-> change.timestamp, name |-> change.name, int_value |-> change.value]
    BY <1>1, <1>3 DEF ParameterPayload
  <2>2. change.value \in NumbersOf("int64_t")
    BY <1>2, <1>3, UlogAssumption
  <2>3. payload.timestamp = change.timestamp /\ payload.int_value = change.value
    BY <2>1
  <2>4. Holds("int64", change.value)
    BY <2>2 DEF Holds, NumbersOf
  <2> QED BY <1>1, <2>3, <2>4 DEF CanEncode
<1>4. CASE ~ change.int
  <2>1. payload = [timestamp |-> change.timestamp, name |-> change.name, float_value |-> change.value]
    BY <1>1, <1>4 DEF ParameterPayload
  <2>2. payload.timestamp = change.timestamp /\ "int_value" \notin DOMAIN payload
    BY <2>1
  <2> QED BY <1>1, <2>2 DEF CanEncode
<1> QED BY <1>3, <1>4

\* Why the next record of a stream cannot be written.
LEMMA NotWritten ==
    ASSUME Logged, NEW s \in 1 .. N + 4, NEW j \in 1 .. Len(Streams[s]),
           ~ CanWrite(CodecOf(s), Streams[s][j])
    PROVE  \/ TooLate(Streams[s][j])
           \/ \E d \in ToSet(ulog.data_list) : \E f \in ToSet(d.field_data) :
                  f.type_str = "char" /\ ~ IsArray(f.name)
<1>1. N \in Nat /\ Streams[s][j].topic = TopicOf(s) /\ Streams[s][j].time \in Nat
  BY StreamsAre, RecordFacts
<1>2. PICK time \in Nat : time = Streams[s][j].time
  BY <1>1
<1>3. PICK payload : payload = Streams[s][j].payload
  OBVIOUS
<1>4. ~ Holds("uint64", time * 1000) \/ ~ CanEncode(CodecOf(s), payload)
  BY <1>2, <1>3 DEF CanWrite
<1>5. CASE ~ Holds("uint64", time) \/ ~ Holds("uint64", time * 1000)
  <2>1. ~ Holds("uint64", time) \/ ~ Holds("uint64", time * 1000) => time * 1000 >= 2^WordBits
    BY <1>2, TimeTooLate
  <2>2. time * 1000 >= 2^WordBits
    BY <1>5, <2>1
  <2> QED BY <1>2, <2>2 DEF TooLate
<1>6. CASE s \in 1 .. N /\ ~ CanEncode(CodecOf(s), payload)
  <2>1. /\ CodecOf(s).class = "TopicCodec"
        /\ CodecOf(s).fields = _aggregate_fields(ulog.data_list[s].field_data)
    BY <1>6, TopicCodecs
  <2>2. ~ Encodes(CodecOf(s).fields, payload)
    BY <1>6, <2>1 DEF CanEncode
  <2>3. PICK d \in ToSet(ulog.data_list) : d = ulog.data_list[s]
    BY <1>6, DefinitionFacts
  <2>4. j \in 1 .. Len(d.records) /\ payload = d.records[j]
    BY <1>3, <1>6, <2>3, DataRecords
  <2>5. Flattened(d.field_data) /\ IsRecord(d.records[j], d.field_data)
    BY <1>6, <2>3, <2>4, DefinitionFacts
  <2>6. ~ Encodes(_aggregate_fields(d.field_data), d.records[j])
    BY <2>1, <2>2, <2>3, <2>4
  <2>7. \E f \in ToSet(d.field_data) : f.type_str = "char" /\ ~ IsArray(f.name)
    BY <2>5, <2>6, RecordEncodes
  <2> QED BY <2>7
<1>7. CASE s \in {N + 1, N + 2, N + 4} /\ ~ CanEncode(CodecOf(s), payload)
  <2>1. s \notin 1 .. N /\ TopicOf(s) \in {LogsTopic, TrajectoryTopic}
    BY <1>1, <1>7 DEF TopicOf
  <2>2. CodecOf(s) = FixedCodec(TopicOf(s))
    BY <2>1 DEF CodecOf
  <2>3. CodecOf(s).class \in {"LogCodec", "TrajectoryCodec"}
    BY <2>1, <2>2 DEF FixedCodec, ProtobufCodec, LogsTopic, TrajectoryTopic, ParameterChangesTopic
  <2>4. ~ Holds("uint32", payload.timestamp.sec)
    BY <1>7, <2>3 DEF CanEncode
  <2>5. payload.timestamp = _micros_to_foxglove_time(time)
    BY <1>2, <1>3, <1>7, OwnRecords
  <2>6. time \div Second >= 2^HalfBits
    BY <2>4, <2>5, TimeTooLate
  <2> QED BY <1>1, <1>2, <2>1, <2>6 DEF TooLate
<1>8. CASE s = N + 3 /\ ~ CanEncode(CodecOf(s), payload)
  <2>1. PICK change \in ToSet(ulog.changed_parameters) :
            time = change.timestamp /\ payload = ParameterPayload(change)
    BY <1>2, <1>3, <1>8, OwnRecords
  <2>2. s \notin 1 .. N /\ TopicOf(s) = ParameterChangesTopic
    BY <1>1, <1>8 DEF TopicOf
  <2>3. CodecOf(s) = FixedCodec(ParameterChangesTopic)
    BY <2>2 DEF CodecOf
  <2>4. CodecOf(s).class = "ParameterChangedCodec"
    <3>1. ParameterChangesTopic # LogsTopic /\ ParameterChangesTopic # TrajectoryTopic
      BY DEF LogsTopic, ParameterChangesTopic, TrajectoryTopic
    <3>2. FixedCodec(ParameterChangesTopic) = ProtobufCodec("ParameterChangedCodec")
      BY <3>1 DEF FixedCodec
    <3> QED BY <2>3, <3>2 DEF ProtobufCodec
  <2>5. ~ Holds("uint64", time)
    BY <1>8, <2>1, <2>4, ParameterHolds
  <2> QED BY <1>5, <2>5
<1>9. s \in 1 .. N \/ s \in {N + 1, N + 2, N + 4} \/ s = N + 3
  BY <1>1
<1> QED BY <1>4, <1>5, <1>6, <1>7, <1>8, <1>9

LEMMA RaisedForNameOrTime ==
    ASSUME LogInvariant, pc = "raised"
    PROVE  \/ \E d \in ToSet(ulog.data_list) :
                  \/ ~ Builds(_aggregate_fields(d.field_data))
                  \/ \E f \in ToSet(d.field_data) : f.type_str = "char" /\ ~ IsArray(f.name)
           \/ \E s \in Pending : TooLate(NextRecord(s))
<1>1. Logged /\ WhatRaises /\ WrittenOnce /\ N \in Nat
  BY InvariantParts DEF ConverterInvariant
<1>2. 1 .. N \subseteq 1 .. N + 4
  BY <1>1
<1>3. CASE \E s \in 1 .. N : ~ Builds(CodecOf(s).fields)
  <2>1. PICK s \in 1 .. N : ~ Builds(CodecOf(s).fields)
    BY <1>3
  <2>2. CodecOf(s).fields = _aggregate_fields(ulog.data_list[s].field_data)
    BY <1>1, <1>2, TopicCodecs
  <2>3. ulog.data_list[s] \in ToSet(ulog.data_list)
    BY <1>1, DefinitionFacts
  <2> QED BY <2>1, <2>2, <2>3
<1>4. CASE \E s \in 1 .. N + 4 : /\ written[s] < Len(Streams[s])
                                /\ ~ CanWrite(CodecOf(s), Streams[s][written[s] + 1])
  <2>1. PICK s \in 1 .. N + 4 : /\ written[s] < Len(Streams[s])
                               /\ ~ CanWrite(CodecOf(s), Streams[s][written[s] + 1])
    BY <1>4
  <2>2. written[s] \in Nat /\ Len(Streams[s]) \in Nat
    BY <1>1, InvariantParts DEF WrittenOnce
  <2>3. written[s] + 1 \in 1 .. Len(Streams[s])
    BY <2>1, <2>2
  <2>4. s \in Pending /\ NextRecord(s) = Streams[s][written[s] + 1]
    BY <1>1, <2>1, StreamsAre DEF Pending, NextRecord
  <2>5. \/ TooLate(NextRecord(s))
        \/ \E d \in ToSet(ulog.data_list) : \E f \in ToSet(d.field_data) :
               f.type_str = "char" /\ ~ IsArray(f.name)
    BY <1>1, <2>1, <2>3, <2>4, NotWritten
  <2> QED BY <2>4, <2>5
<1> QED BY <1>1, <1>3, <1>4 DEF WhatRaises

\* Beyond a time that is too late for the bits of the file, no value in a record makes
\* the conversion raise, nor does any form that an array or an array of structs can
\* have: only proto fields of one name, or a char by itself.
THEOREM RecordsSeldomRaise == FlightSpec => []RaisesForNamesOrTimes
<1>1. LogInvariant => RaisesForNamesOrTimes
  BY RaisedForNameOrTime DEF RaisesForNamesOrTimes
<1> QED BY <1>1, LogInvariantHolds, PTL

LEMMA CellOfMessage ==
    ASSUME LogInvariant, NEW k \in DOMAIN mcap, mcap[k].record.source.kind = "data",
           NEW f \in ToSet(ulog.data_list[mcap[k].record.source.n].field_data),
           ~ Dropped(f.name, f.type_str)
    PROVE  StoredOnce(f.name, mcap[k].encoded.fields)
<1>1. Logged /\ WhatRaises /\ WrittenOnce /\ N \in Nat /\ k \in 1 .. Len(mcap)
  BY InvariantParts, SequenceFacts DEF ConverterInvariant, WrittenOnce
<1>2. PICK s \in 1 .. N + 4 : \E j \in 1 .. written[s] : mcap[k] = MessageOf(s, j)
  BY <1>1 DEF WrittenOnce
<1>3. PICK j \in 1 .. written[s] : mcap[k] = MessageOf(s, j)
  BY <1>2
<1>4. mcap[k].record = Streams[s][j].record /\ mcap[k].encoded = CodecOf(s)
  BY <1>3 DEF MessageOf
<1>5. j \in 1 .. Len(Streams[s])
  <2>1. written[s] \in Nat /\ Len(Streams[s]) \in Nat /\ written[s] <= Len(Streams[s])
    BY <1>1, InvariantParts DEF WrittenOnce
  <2> QED BY <2>1
<1>6. From(s, mcap[k].record.source)
  BY <1>1, <1>4, <1>5, RecordFacts
<1>7. s \in 1 .. N /\ mcap[k].record.source.n = s
  BY <1>6 DEF From
<1>8. PICK d \in ToSet(ulog.data_list) : d = ulog.data_list[s]
  BY <1>1, <1>7, DefinitionFacts
<1>9. j \in 1 .. Len(d.records) /\ Streams[s][j].payload = d.records[j]
  BY <1>1, <1>5, <1>7, <1>8, DataRecords
<1>10. Flattened(d.field_data) /\ IsRecord(d.records[j], d.field_data)
  BY <1>1, <1>7, <1>8, <1>9, DefinitionFacts
<1>11. CodecOf(s).class = "TopicCodec" /\ CodecOf(s).fields = _aggregate_fields(d.field_data)
  BY <1>1, <1>7, <1>8, TopicCodecs
<1>12. Encodes(_aggregate_fields(d.field_data), d.records[j])
  <2>1. CanWrite(CodecOf(s), Streams[s][j])
    BY <1>1 DEF WhatRaises
  <2> QED BY <1>9, <1>11, <2>1 DEF CanWrite, CanEncode
<1>13. f \in KeptOf(d.field_data)
  BY <1>7, <1>8 DEF KeptOf
<1>14. f.type_str = "char" => IsArray(f.name)
  BY <1>10, <1>12, <1>13, EncodesArrays
<1>15. StoredOnce(f.name, _aggregate_fields(d.field_data))
  BY <1>10, <1>13, <1>14, CellStoredOnce
<1> QED BY <1>4, <1>11, <1>15

\* Whatever arrays, strings and structs a message type has, each cell of a record that
\* is not documented as dropped goes to one place of one field.
THEOREM CellsAreStored == FlightSpec => []EveryCellStored
<1>1. LogInvariant => EveryCellStored
  BY CellOfMessage DEF EveryCellStored
<1> QED BY <1>1, LogInvariantHolds, PTL

-----------------------------------------------------------------------------
(* The numbers of a record *)

LEMMA ModuloShift ==
    ASSUME NEW m \in Nat \ {0}, NEW x \in 0 .. m - 1
    PROVE  (x - m) % m = x % m
OBVIOUS

\* An i64 has the bits of a u64: of what has a smaller type, the value too.
LEMMA SameBits ==
    ASSUME NEW type_str \in UlogType \ {"float", "double", "bool", "char"},
           NEW v \in NumbersOf(type_str)
    PROVE  LET stored == R!ArrowValue(_ULOG_TO_PROTO_TYPE(type_str), v) IN
           /\ v < 2^(WordBits - 1) => stored = v
           /\ stored % 2^WordBits = v % 2^WordBits
<1>1. CASE type_str # "uint64_t"
  <2>1. _ULOG_TO_PROTO_TYPE(type_str) \notin {"uint64", "enum"}
    BY <1>1 DEF UlogType, _ULOG_TO_PROTO_TYPE
  <2>2. R!ArrowValue(_ULOG_TO_PROTO_TYPE(type_str), v) = v
    BY <2>1 DEF R!ArrowValue
  <2> QED BY <2>2
<1>2. CASE type_str = "uint64_t"
  <2>1. R!ArrowValue(_ULOG_TO_PROTO_TYPE(type_str), v) = R!as_i64(v)
    BY <1>2 DEF R!ArrowValue, _ULOG_TO_PROTO_TYPE
  <2>2. PICK m, h : m = 2^WordBits /\ h = 2^(WordBits - 1)
    OBVIOUS
  <2>3. m \in Int
    BY <2>2, WidthAssumption
  <2>4. v \in 0 .. m - 1
    BY <1>2, <2>2 DEF NumbersOf
  <2>5. R!as_i64(v) = IF v >= h THEN v - m ELSE v
    BY <2>2 DEF R!as_i64
  <2>6. m \in Nat \ {0} /\ v \in Int
    BY <2>3, <2>4
  <2>7. (v - m) % m = v % m
    BY <2>4, <2>6, ModuloShift
  <2>8. h \in Int
    <3>1. WordBits - 1 \in Nat
      BY WidthAssumption
    <3> QED BY <2>2, <3>1
  <2>9. v < h => R!as_i64(v) = v
    BY <2>5, <2>6, <2>8
  <2>10. R!as_i64(v) % m = v % m
    BY <2>5, <2>7
  <2> QED BY <2>1, <2>2, <2>9, <2>10
<1> QED BY <1>1, <1>2

\* The columns of a message type: each field has its own.
LEMMA FieldColumns ==
    ASSUME NEW fields, Flattened(fields), Builds(_aggregate_fields(fields))
    PROVE  LET F == _aggregate_fields(fields)
               desc == _file_descriptor(F) IN
           /\ DOMAIN desc = DOMAIN F /\ R!Column(desc) = DOMAIN F
           /\ \A k \in DOMAIN F :
                  /\ desc[k].name = proto_name(F[k])
                  /\ desc[k].proto_type = F[k].proto_type /\ desc[k].is_repeated = F[k].is_repeated
                  /\ \A l \in DOMAIN F : desc[l].name = desc[k].name => l = k
<1>1. PICK F : F = _aggregate_fields(fields)
  OBVIOUS
<1>2. PICK desc : desc = _file_descriptor(F)
  OBVIOUS
<1>3. DOMAIN desc = DOMAIN F
  BY <1>2 DEF _file_descriptor
<1>4. \A k \in DOMAIN F : desc[k] = Declared(proto_name(F[k]), F[k].proto_type, F[k].is_repeated)
  BY <1>2 DEF _file_descriptor
<1>5. ASSUME NEW k \in DOMAIN F
      PROVE  /\ desc[k].name = proto_name(F[k]) /\ desc[k].proto_type = F[k].proto_type
             /\ desc[k].is_repeated = F[k].is_repeated
  <2>1. PICK name, type, items : name = proto_name(F[k]) /\ type = F[k].proto_type
                                 /\ items = F[k].is_repeated
    OBVIOUS
  <2>2. desc[k] = [name |-> name, proto_type |-> type, is_repeated |-> items]
    BY <1>4, <2>1 DEF Declared
  <2>3. desc[k].name = name /\ desc[k].proto_type = type /\ desc[k].is_repeated = items
    BY <2>2
  <2> QED BY <2>1, <2>3
<1>6. ASSUME NEW k \in DOMAIN F PROVE F[k].proto_type # "message"
  <2>1. PICK a \in KeptOf(fields) : FieldFor(F[k], a)
    BY <1>1, FieldIsMade
  <2>2. F[k].proto_type = _ULOG_TO_PROTO_TYPE(a.type_str) /\ a.type_str \in UlogType
    BY <2>1, KeptFacts DEF FieldFor, Shaped, Entry
  <2> QED BY <2>2, ProtoTypes
<1>7. R!Column(desc) = DOMAIN F
  BY <1>3, <1>5, <1>6 DEF R!Column
<1>8. \A k, l \in DOMAIN F : proto_name(F[k]) = proto_name(F[l]) => l = k
  BY <1>1 DEF Builds
<1> QED BY <1>1, <1>2, <1>3, <1>5, <1>7, <1>8

\* What has become of a log whose records are in batches.
LEMMA BatchedLog ==
    ASSUME LogInvariant, reading = "encoded", NEW n \in 1 .. N
    PROVE  LET d == ulog.data_list[n] IN
           /\ Logged /\ d \in ToSet(ulog.data_list) /\ Flattened(d.field_data)
           /\ TableOf(n) = d.name /\ n \in 1 .. N + 4
           /\ CodecOf(n).class = "TopicCodec" /\ CodecOf(n).fields = _aggregate_fields(d.field_data)
           /\ Builds(_aggregate_fields(d.field_data))
           /\ \A k \in 1 .. Len(d.records) :
                  /\ IsRecord(d.records[k], d.field_data)
                  /\ Encodes(_aggregate_fields(d.field_data), d.records[k])
<1>1. Logged /\ WhatRaises /\ WrittenOnce /\ ReaderPhases /\ N \in Nat
  BY InvariantParts DEF ConverterInvariant
<1>2. pc = "finished" /\ n \in 1 .. N + 4
  BY <1>1 DEF ReaderPhases
<1>3. registered = N
  BY <1>1, <1>2 DEF WhatRaises
<1>4. PICK d : d = ulog.data_list[n]
  OBVIOUS
<1>5. /\ d \in ToSet(ulog.data_list) /\ Flattened(d.field_data)
      /\ \A k \in 1 .. Len(d.records) : IsRecord(d.records[k], d.field_data)
  BY <1>1, <1>4, DefinitionFacts
<1>6. CodecOf(n).class = "TopicCodec" /\ CodecOf(n).fields = _aggregate_fields(d.field_data)
  BY <1>1, <1>2, <1>4, TopicCodecs
<1>7. Builds(_aggregate_fields(d.field_data))
  BY <1>1, <1>3, <1>6 DEF WhatRaises
<1>8. ASSUME NEW k \in 1 .. Len(d.records)
      PROVE  Encodes(_aggregate_fields(d.field_data), d.records[k])
  <2>1. Len(Streams[n]) = Len(d.records) /\ Streams[n][k].payload = d.records[k]
    BY <1>1, <1>4, DataRecords
  <2>2. written[n] = Len(Streams[n])
    BY <1>1, <1>2 DEF WrittenOnce
  <2>3. CanWrite(CodecOf(n), Streams[n][k])
    BY <1>1, <1>2, <2>1, <2>2 DEF WhatRaises
  <2> QED BY <1>6, <2>1, <2>3 DEF CanWrite, CanEncode
<1>9. TableOf(n) = d.name
  BY <1>4 DEF TableOf
<1> QED BY <1>1, <1>2, <1>4, <1>5, <1>6, <1>7, <1>8, <1>9

\* The columns of a row that are not standard have what the codec makes of a record.
HasFields(row, F, record) ==
    \A l \in DOMAIN F : proto_name(F[l]) \notin R!StandardColumn =>
        row[proto_name(F[l])] =
            R!FieldValue(_file_descriptor(F)[l], TopicCodec_encode(F, record)[l])

\* The row of a record in the lake: its times and the value of each of its fields.
LEMMA DataRow ==
    ASSUME LogInvariant, reading = "encoded", NEW n \in 1 .. N,
           NEW k \in 1 .. Len(ulog.data_list[n].records)
    PROVE  LET d == ulog.data_list[n]
               F == _aggregate_fields(d.field_data)
               row == RowOf(d.name, DataSource(n), k) IN
           /\ row[<<"offset", "us">>] = R!Micros(TimeOf(d.records[k]) * 1000)
           /\ row[<<"publish", "time">>] = Anchor + R!Micros(TimeOf(d.records[k]) * 1000)
           /\ HasFields(row, F, d.records[k])
<1>1. PICK d : d = ulog.data_list[n]
  OBVIOUS
<1>2. PICK F : F = _aggregate_fields(d.field_data)
  OBVIOUS
<1>3. /\ Logged /\ Flattened(d.field_data) /\ TableOf(n) = d.name /\ n \in 1 .. N + 4
      /\ CodecOf(n).class = "TopicCodec" /\ CodecOf(n).fields = F /\ Builds(F)
  BY <1>1, <1>2, BatchedLog
<1>4. /\ k \in 1 .. Len(Streams[n])
      /\ Streams[n][k].record = [source |-> DataSource(n), row |-> k]
      /\ Streams[n][k].payload = d.records[k] /\ Streams[n][k].time = TimeOf(d.records[k])
  BY <1>1, <1>3, DataRecords
<1>5. PICK b : b = d.name
  OBVIOUS
<1>6. /\ GroupIs(b, n)
      /\ \E i \in DOMAIN groups[b].rows :
             /\ RowIs(groups[b].rows[i], n, k)
             /\ RowOf(b, DataSource(n), k) = R!build_record_batch(groups[b])[i]
  BY <1>3, <1>4, <1>5, RowOfIs
<1>7. PICK i \in DOMAIN groups[b].rows :
          /\ RowIs(groups[b].rows[i], n, k)
          /\ RowOf(b, DataSource(n), k) = R!build_record_batch(groups[b])[i]
  BY <1>6
<1>8. PICK desc : desc = _file_descriptor(F)
  OBVIOUS
<1>9. groups[b].descriptor = desc
  BY <1>3, <1>6, <1>8 DEF GroupIs, descriptor
<1>10. groups[b].rows[i].message = TopicCodec_encode(F, d.records[k])
  BY <1>3, <1>4, <1>7 DEF RowIs, encode
<1>11. PICK message : message = TopicCodec_encode(F, d.records[k])
  OBVIOUS
<1>12. PICK row : row = RowOf(b, DataSource(n), k)
  OBVIOUS
<1>13. /\ \A c \in R!StandardColumn : row[c] = R!StandardValue(c, groups[b].rows[i])
       /\ \A l \in R!Column(desc) :
              /\ desc[l].name \notin R!StandardColumn
              /\ \A m \in R!Column(desc) : desc[m].name = desc[l].name => m = l
              => row[desc[l].name] = R!FieldValue(desc[l], message[l])
  <2>1. LET ds == groups[b].descriptor
            cells == R!build_record_batch(groups[b])[i] IN
        /\ \A c \in R!StandardColumn : cells[c] = R!StandardValue(c, groups[b].rows[i])
        /\ \A l \in R!Column(ds) :
               /\ ds[l].name \notin R!StandardColumn
               /\ \A m \in R!Column(ds) : ds[m].name = ds[l].name => m = l
               => cells[ds[l].name] = R!FieldValue(ds[l], groups[b].rows[i].message[l])
    BY BatchRow
  <2> QED BY <1>7, <1>9, <1>10, <1>11, <1>12, <2>1
<1>14. ASSUME NEW l \in DOMAIN F, proto_name(F[l]) \notin R!StandardColumn
       PROVE  row[proto_name(F[l])] = R!FieldValue(desc[l], message[l])
  <2>1. /\ R!Column(desc) = DOMAIN F /\ desc[l].name = proto_name(F[l])
        /\ \A m \in DOMAIN F : desc[m].name = desc[l].name => m = l
    BY <1>2, <1>3, <1>8, FieldColumns
  <2> QED BY <1>13, <1>14, <2>1
<1>15. PICK r, time : r = groups[b].rows[i] /\ time = TimeOf(d.records[k]) * 1000
  OBVIOUS
<1>16. r.log_time = time /\ r.publish_time = time
  BY <1>4, <1>7, <1>15 DEF RowIs
<1>17. /\ <<"offset", "us">> \in R!StandardColumn /\ <<"publish", "time">> \in R!StandardColumn
  BY DEF R!StandardColumn
<1>18. /\ R!StandardValue(<<"offset", "us">>, r) = R!Micros(time)
       /\ R!StandardValue(<<"publish", "time">>, r) = Anchor + R!Micros(time)
  <2>1. <<"offset", "us">> # <<"publish", "time">>
    OBVIOUS
  <2> QED BY <1>16, <2>1 DEF R!StandardValue
<1>19. /\ row[<<"offset", "us">>] = R!Micros(time)
       /\ row[<<"publish", "time">>] = Anchor + R!Micros(time)
  BY <1>13, <1>15, <1>17, <1>18
<1>20. HasFields(row, F, d.records[k])
  BY <1>8, <1>11, <1>14 DEF HasFields
<1>21. row = RowOf(d.name, DataSource(n), k) /\ time = TimeOf(d.records[k]) * 1000
  BY <1>5, <1>12, <1>15
<1> QED BY <1>1, <1>2, <1>19, <1>20, <1>21

\* Where the value of a cell is.
LEMMA CellValue ==
    ASSUME LogInvariant, reading = "encoded", NEW n \in 1 .. N,
           NEW k \in 1 .. Len(ulog.data_list[n].records),
           NEW f \in ToSet(ulog.data_list[n].field_data), ~ Dropped(f.name, f.type_str)
    PROVE  LET d == ulog.data_list[n]
               F == _aggregate_fields(d.field_data)
               row == RowOf(d.name, DataSource(n), k)
               i == FieldOf(f).outer_len - 1
               j == FieldOf(f).inner_len - 1 IN
           /\ f \in KeptOf(d.field_data) /\ (f.type_str = "char" => IsArray(f.name))
           /\ \E l \in DOMAIN F :
               /\ Covers(F[l], f) /\ FieldFor(F[l], f)
               /\ <<i, j>> \in Places(F[l])
               /\ \A x, y \in Int : CellName(F[l], x, y) = Cells(f, x, y)
               /\ CellName(F[l], i, j) = f.name
               /\ row[ColumnOf(f)] =
                      R!FieldValue(_file_descriptor(F)[l], TopicCodec_encode(F, d.records[k])[l])
<1>1. PICK d : d = ulog.data_list[n]
  OBVIOUS
<1>2. PICK F : F = _aggregate_fields(d.field_data)
  OBVIOUS
<1>3. PICK i, j : i = FieldOf(f).outer_len - 1 /\ j = FieldOf(f).inner_len - 1
  OBVIOUS
<1>4. /\ Logged /\ d \in ToSet(ulog.data_list) /\ Flattened(d.field_data)
      /\ IsRecord(d.records[k], d.field_data) /\ Encodes(F, d.records[k])
  BY <1>1, <1>2, BatchedLog
<1>5. f \in KeptOf(d.field_data)
  BY <1>1 DEF KeptOf
<1>6. f.type_str = "char" => IsArray(f.name)
  BY <1>2, <1>4, <1>5, EncodesArrays
<1>7. PICK l \in DOMAIN F :
          /\ Covers(F[l], f) /\ FieldFor(F[l], f)
          /\ <<i, j>> \in Places(F[l])
          /\ \A x, y \in Int : CellName(F[l], x, y) = Cells(f, x, y)
          /\ CellName(F[l], i, j) = f.name
  BY <1>2, <1>3, <1>4, <1>5, <1>6, PlaceOfCell
<1>8. ColumnOf(f) = proto_name(F[l])
  BY <1>7 DEF ColumnOf, FieldFor, FieldOf, proto_name
<1>9. proto_name(F[l]) \notin R!StandardColumn
  BY <1>1, <1>4, <1>8, ColumnAssumption DEF Logged
<1>10. RowOf(d.name, DataSource(n), k)[proto_name(F[l])] =
           R!FieldValue(_file_descriptor(F)[l], TopicCodec_encode(F, d.records[k])[l])
  <2>1. HasFields(RowOf(d.name, DataSource(n), k), F, d.records[k])
    BY <1>1, <1>2, DataRow
  <2> QED BY <1>9, <2>1 DEF HasFields
<1> QED BY <1>1, <1>2, <1>3, <1>5, <1>6, <1>7, <1>8, <1>10

\* The value of a field in a batch, at the place of a cell of an array or by itself.
StoredAt(F, i, value) == IF F.is_repeated THEN value[i + 1] ELSE value

LEMMA FieldValueAt ==
    ASSUME NEW F, NEW l \in DOMAIN F, NEW record, NEW i \in 0 .. F[l].outer_len - 1,
           F[l].outer_len \in Int, ~ F[l].is_repeated => i = 0
    PROVE  StoredAt(F[l], i, R!FieldValue(_file_descriptor(F)[l], TopicCodec_encode(F, record)[l])) =
               R!ArrowValue(F[l].proto_type, ItemValue(record, F[l], i))
<1>1. PICK g, rep, type : g = F[l] /\ rep = g.is_repeated /\ type = g.proto_type
  OBVIOUS
<1>2. PICK field, value : field = _file_descriptor(F)[l] /\ value = TopicCodec_encode(F, record)[l]
  OBVIOUS
<1>3. field.is_repeated = rep /\ field.proto_type = type
  <2>1. field = Declared(proto_name(g), type, rep)
    BY <1>1, <1>2 DEF _file_descriptor
  <2>2. PICK name : name = proto_name(g)
    OBVIOUS
  <2>3. field = [name |-> name, proto_type |-> type, is_repeated |-> rep]
    BY <2>1, <2>2 DEF Declared
  <2> QED BY <2>3
<1>4. value = IF rep THEN _repeated_values(record, g) ELSE ItemValue(record, g, 0)
  BY <1>1, <1>2 DEF TopicCodec_encode
<1>5. CASE rep
  <2>1. i + 1 \in 1 .. g.outer_len /\ i + 1 - 1 = i
    BY <1>1
  <2>2. value = [x \in 1 .. g.outer_len |-> ItemValue(record, g, x - 1)]
    BY <1>4, <1>5 DEF _repeated_values
  <2>3. value[i + 1] = ItemValue(record, g, i) /\ i + 1 \in DOMAIN value
    BY <2>1, <2>2
  <2>4. R!FieldValue(field, value) = [x \in DOMAIN value |-> R!ArrowValue(type, value[x])]
    BY <1>3, <1>5 DEF R!FieldValue
  <2>5. R!FieldValue(field, value)[i + 1] = R!ArrowValue(type, ItemValue(record, g, i))
    BY <2>3, <2>4
  <2> QED BY <1>1, <1>2, <1>5, <2>5 DEF StoredAt
<1>6. CASE ~ rep
  <2>1. i = 0 /\ value = ItemValue(record, g, 0)
    BY <1>1, <1>4, <1>6
  <2>2. R!FieldValue(field, value) = R!ArrowValue(type, value)
    BY <1>3, <1>6 DEF R!FieldValue
  <2> QED BY <1>1, <1>2, <1>6, <2>1, <2>2 DEF StoredAt
<1> QED BY <1>5, <1>6

\* What is read of a cell is what its codec made of it, and its column of that.
LEMMA StoredIs ==
    ASSUME LogInvariant, reading = "encoded", NEW n \in 1 .. N,
           NEW k \in 1 .. Len(ulog.data_list[n].records),
           NEW f \in ToSet(ulog.data_list[n].field_data), ~ Dropped(f.name, f.type_str)
    PROVE  LET d == ulog.data_list[n]
               F == _aggregate_fields(d.field_data)
               i == FieldOf(f).outer_len - 1
               j == FieldOf(f).inner_len - 1
               type == _ULOG_TO_PROTO_TYPE(f.type_str) IN
           \E l \in DOMAIN F :
               /\ Covers(F[l], f) /\ FieldFor(F[l], f)
               /\ <<i, j>> \in Places(F[l])
               /\ \A x, y \in Int : CellName(F[l], x, y) = Cells(f, x, y)
               /\ CellName(F[l], i, j) = f.name
               /\ Stored(f, RowOf(d.name, DataSource(n), k)) =
                      R!ArrowValue(type, ItemValue(d.records[k], F[l], i))
<1>1. PICK d : d = ulog.data_list[n]
  OBVIOUS
<1>2. PICK F : F = _aggregate_fields(d.field_data)
  OBVIOUS
<1>3. PICK i, j, row : /\ i = FieldOf(f).outer_len - 1 /\ j = FieldOf(f).inner_len - 1
                       /\ row = RowOf(d.name, DataSource(n), k)
  OBVIOUS
<1>4. Flattened(d.field_data) /\ f \in KeptOf(d.field_data)
  BY <1>1, BatchedLog DEF KeptOf
<1>5. PICK l \in DOMAIN F :
          /\ Covers(F[l], f) /\ FieldFor(F[l], f)
          /\ <<i, j>> \in Places(F[l])
          /\ \A x, y \in Int : CellName(F[l], x, y) = Cells(f, x, y)
          /\ CellName(F[l], i, j) = f.name
          /\ row[ColumnOf(f)] =
                 R!FieldValue(_file_descriptor(F)[l], TopicCodec_encode(F, d.records[k])[l])
  BY <1>1, <1>2, <1>3, CellValue
<1>6. Entry(f) /\ Shaped(f)
  BY <1>4, KeptFacts
<1>7. F[l].outer_len \in Int /\ i \in 0 .. F[l].outer_len - 1
  <2>1. PICK a \in KeptOf(d.field_data) : F[l].outer_len = FieldOf(a).outer_len
    BY <1>2, <1>4, FieldIsMade
  <2>2. F[l].outer_len \in Int
    BY <1>4, <2>1, KeptFacts, LengthsPositive
  <2> QED BY <1>5, <2>2 DEF Places
<1>8. F[l].is_repeated = FieldOf(f).is_repeated /\ F[l].proto_type = _ULOG_TO_PROTO_TYPE(f.type_str)
  BY <1>5, <1>6 DEF FieldFor, Shaped
<1>9. ~ F[l].is_repeated => i = 0
  BY <1>3, <1>6, <1>8, LengthsPositive
<1>10. StoredAt(F[l], i, row[ColumnOf(f)]) =
           R!ArrowValue(F[l].proto_type, ItemValue(d.records[k], F[l], i))
  BY <1>5, <1>7, <1>9, FieldValueAt
<1>11. Stored(f, row) = StoredAt(F[l], i, row[ColumnOf(f)])
  <2>1. PICK at, rep : at = Len(FieldOf(f).ulog_base) /\ rep = FieldOf(f).is_repeated
    OBVIOUS
  <2>2. rep => i = f.name[at].idx + 1 - 1 /\ f.name[at].idx \in Int
    <3>1. at \in 1 .. Len(f.name)
      BY <1>6, <2>1 DEF Shaped
    <3>2. f.name[at].idx \in Int
      BY <1>6, <3>1, NameFacts
    <3> QED BY <1>3, <1>6, <2>1, <3>2 DEF Shaped
  <2>3. rep => i + 1 = f.name[at].idx + 1
    BY <2>2
  <2>4. Stored(f, row) = IF rep THEN row[ColumnOf(f)][f.name[at].idx + 1] ELSE row[ColumnOf(f)]
    BY <2>1 DEF Stored, FieldOf
  <2>5. StoredAt(F[l], i, row[ColumnOf(f)]) = IF rep THEN row[ColumnOf(f)][i + 1] ELSE row[ColumnOf(f)]
    BY <1>8, <2>1 DEF StoredAt
  <2> QED BY <2>3, <2>4, <2>5
<1> QED BY <1>1, <1>2, <1>3, <1>5, <1>8, <1>10, <1>11

LEMMA NumberReadable ==
    ASSUME LogInvariant, reading = "encoded", NEW n \in 1 .. N,
           NEW k \in 1 .. Len(ulog.data_list[n].records),
           NEW f \in ToSet(ulog.data_list[n].field_data), ~ Dropped(f.name, f.type_str),
           f.type_str # "char"
    PROVE  LET d == ulog.data_list[n] IN
           SameNumber(f.type_str, Stored(f, RowOf(d.name, DataSource(n), k)), d.records[k][f.name])
<1>1. PICK d, v : d = ulog.data_list[n] /\ v = d.records[k][f.name]
  OBVIOUS
<1>2. PICK i, j, stored : /\ i = FieldOf(f).outer_len - 1 /\ j = FieldOf(f).inner_len - 1
                          /\ stored = Stored(f, RowOf(d.name, DataSource(n), k))
  OBVIOUS
<1>3. PICK F : F = _aggregate_fields(d.field_data)
  OBVIOUS
<1>4. PICK l \in DOMAIN F :
          /\ FieldFor(F[l], f)
          /\ CellName(F[l], i, j) = f.name
          /\ stored = R!ArrowValue(_ULOG_TO_PROTO_TYPE(f.type_str), ItemValue(d.records[k], F[l], i))
  BY <1>1, <1>2, <1>3, StoredIs
<1>5. Flattened(d.field_data) /\ IsRecord(d.records[k], d.field_data) /\ f \in KeptOf(d.field_data)
  BY <1>1, BatchedLog DEF KeptOf
<1>6. Entry(f) /\ Shaped(f) /\ f.type_str \in UlogType
  BY <1>5, KeptFacts DEF Entry
<1>7. j = 0
  BY <1>2, <1>6, LengthsPositive
<1>8. F[l].proto_type = _ULOG_TO_PROTO_TYPE(f.type_str)
  BY <1>4, <1>6 DEF FieldFor, Shaped
<1>9. PICK type : type = _ULOG_TO_PROTO_TYPE(f.type_str)
  OBVIOUS
<1>10. ItemValue(d.records[k], F[l], i) = IF type = "bool" THEN v # 0 ELSE v
  <2>1. type # "string"
    BY <1>6, <1>9, ProtoTypes
  <2> QED BY <1>1, <1>4, <1>7, <1>8, <1>9, <2>1 DEF ItemValue
<1>11. CASE f.type_str = "bool"
  <2>1. type = "bool"
    BY <1>6, <1>9, <1>11, ProtoTypes
  <2>2. R!ArrowValue(type, v # 0) = (v # 0)
    BY <2>1 DEF R!ArrowValue
  <2>3. stored = (v # 0)
    BY <1>4, <1>9, <1>10, <2>1, <2>2
  <2> QED BY <1>1, <1>2, <1>11, <2>3 DEF SameNumber
<1>12. CASE f.type_str \in {"float", "double"}
  <2>1. type \in {"float", "double"}
    BY <1>6, <1>9, <1>12, ProtoTypes
  <2>2. R!ArrowValue(type, v) = v
    BY <2>1 DEF R!ArrowValue
  <2>3. stored = v
    BY <1>4, <1>9, <1>10, <2>1, <2>2
  <2> QED BY <1>1, <1>2, <1>12, <2>3 DEF SameNumber
<1>13. CASE f.type_str \notin {"bool", "float", "double"}
  <2>1. v \in NumbersOf(f.type_str)
    BY <1>1, <1>5, <1>13 DEF IsRecord
  <2>2. stored = R!ArrowValue(type, v)
    <3>1. type # "bool"
      BY <1>6, <1>9, <1>13, ProtoTypes
    <3> QED BY <1>4, <1>9, <1>10, <3>1
  <2>3. v < 2^(WordBits - 1) => stored = v
    BY <1>6, <1>9, <1>13, <2>1, <2>2, SameBits
  <2>4. stored % 2^WordBits = v % 2^WordBits
    BY <1>6, <1>9, <1>13, <2>1, <2>2, SameBits
  <2> QED BY <1>1, <1>2, <1>13, <2>3, <2>4 DEF SameNumber
<1> QED BY <1>11, <1>12, <1>13

LEMMA NumbersOfLog ==
    ASSUME LogInvariant, reading = "encoded", NEW n \in 1 .. N,
           NEW k \in 1 .. Len(ulog.data_list[n].records)
    PROVE  LET d == ulog.data_list[n]
               row == RowOf(d.name, DataSource(n), k) IN
           /\ row[<<"offset", "us">>] = TimeOf(d.records[k])
           /\ row[<<"publish", "time">>] = Anchor + TimeOf(d.records[k])
<1>1. PICK d : d = ulog.data_list[n]
  OBVIOUS
<1>2. PICK time \in Nat : time = TimeOf(d.records[k])
  BY <1>1, LogFacts, InvariantParts DEF Logged, N
<1>3. R!Micros(time * 1000) = time
  BY DEF R!Micros
<1> QED BY <1>1, <1>2, <1>3, DataRow

\* Any number of any record of any log is in the lake, where its name says and next to
\* its time: with the codec that packs it, the numbers of the descriptor's fields, the
\* channel, the reader's descriptors, the sort of the rows and the batch in between.
THEOREM NumbersReachTheLake == FlightSpec => []EveryNumberReadable
<1>1. ASSUME LogInvariant PROVE EveryNumberReadable
  <2>1. SUFFICES ASSUME reading = "encoded", NEW n \in DOMAIN ulog.data_list,
                        NEW k \in DOMAIN ulog.data_list[n].records
                 PROVE  LET d == ulog.data_list[n]
                            row == RowOf(d.name, DataSource(n), k) IN
                        /\ row[<<"offset", "us">>] = TimeOf(d.records[k])
                        /\ row[<<"publish", "time">>] = Anchor + TimeOf(d.records[k])
                        /\ \A f \in ToSet(d.field_data) :
                               f.type_str = "char" \/ Dropped(f.name, f.type_str)
                                   \/ SameNumber(f.type_str, Stored(f, row), d.records[k][f.name])
    BY DEF EveryNumberReadable, DataSource
  <2>2. n \in 1 .. N /\ k \in 1 .. Len(ulog.data_list[n].records)
    BY <1>1, InvariantParts, LogFacts DEF Logged, N
  <2>3. \A f \in ToSet(ulog.data_list[n].field_data) :
            ~ Dropped(f.name, f.type_str) /\ f.type_str # "char" =>
                SameNumber(f.type_str, Stored(f, RowOf(ulog.data_list[n].name, DataSource(n), k)),
                           ulog.data_list[n].records[k][f.name])
    BY <1>1, <2>1, <2>2, NumberReadable
  <2> QED BY <1>1, <2>1, <2>2, <2>3, NumbersOfLog
<1> QED BY <1>1, LogInvariantHolds, PTL

-----------------------------------------------------------------------------
(* The strings of a record *)

\* The place of the first null.
LEMMA FirstNull ==
    ASSUME NEW m \in Nat, NEW bytes, bytes = [x \in 1 .. m |-> bytes[x]]
    PROVE  LET null == SelectInSeq(bytes, LAMBDA c : c = 0) IN
           /\ null = 0 => \A x \in 1 .. m : bytes[x] # 0
           /\ null # 0 => /\ null \in 1 .. m /\ bytes[null] = 0
                          /\ \A x \in 1 .. m : x < null => bytes[x] # 0
<1>1. Len(bytes) = m
  BY FunctionIsSequence
<1>2. PICK I : I = {x \in 1 .. m : bytes[x] = 0}
  OBVIOUS
<1>3. SelectInSeq(bytes, LAMBDA c : c = 0) = IF I # {} THEN Min(I) ELSE 0
  BY <1>1, <1>2 DEF SelectInSeq
<1>4. CASE I = {}
  BY <1>2, <1>3, <1>4
<1>5. CASE I # {}
  <2>1. I \in SUBSET Nat
    BY <1>2
  <2>2. PICK least \in I : \A y \in I : least <= y
    BY <1>5, <2>1, Least
  <2>3. PICK null : null = Min(I)
    OBVIOUS
  <2>4. null \in I /\ \A y \in I : null <= y
    BY <2>2, <2>3 DEF Min
  <2>5. null \in 1 .. m /\ bytes[null] = 0
    BY <1>2, <2>4
  <2>6. \A x \in 1 .. m : x < null => bytes[x] # 0
    BY <1>2, <2>4, <2>5
  <2>7. SelectInSeq(bytes, LAMBDA c : c = 0) = null
    BY <1>3, <1>5, <2>3
  <2>8. null # 0
    BY <2>5
  <2> QED BY <2>5, <2>6, <2>7, <2>8
<1> QED BY <1>4, <1>5

LEMMA SignedBytes ==
    ASSUME NEW v \in -128 .. 127
    PROVE  /\ Byte(v) = 0 <=> v = 0
           /\ v > 0 => Byte(v) = v
<1>1. v % 256 = 0 <=> v = 0
  OBVIOUS
<1>2. v > 0 => v % 256 = v
  OBVIOUS
<1> QED BY <1>1, <1>2 DEF Byte

LeadByte == 194 .. 244

LEMMA LeadBytes ==
    ASSUME NEW v \in -128 .. 127, v \notin LeadChar
    PROVE  Byte(v) \notin LeadByte
<1>1. v >= 0 => v % 256 = v
  OBVIOUS
<1>2. v < 0 => v % 256 = v + 256
  OBVIOUS
<1>3. v \notin -62 .. -12
  BY DEF LeadChar
<1>4. v % 256 \notin 194 .. 244
  BY <1>1, <1>2, <1>3
<1> QED BY <1>4 DEF Byte, LeadByte

\* As long as no byte begins a character of several, each is one by itself.
LEMMA DecodedBytes ==
    ASSUME NEW len \in Nat, NEW bytes, bytes = [x \in 1 .. len |-> bytes[x]],
           NEW y \in 0 .. len, \A x \in 1 .. y : bytes[x] \notin LeadByte
    PROVE  LET s == decode(bytes) IN
           /\ y <= Len(s) /\ Len(s) \in Nat /\ Len(s) <= len
           /\ \A x \in 1 .. y : bytes[x] < 128 => s[x] = bytes[x]
<1>1. PICK S : S = Begins(bytes)
  OBVIOUS
<1>2. S \in SUBSET (1 .. len) /\ DOMAIN bytes = 1 .. len
  BY <1>1 DEF Begins
<1>3. \A x \in 1 .. y : Width(bytes[x]) = 1
  BY DEF Width, LeadByte
<1>4. ASSUME NEW x \in 1 .. y PROVE x \in S
  <2>1. ASSUME NEW q \in 1 .. x - 1 PROVE ~ Continues(bytes, q, x)
    <3>1. q \in 1 .. y /\ ~ x - q < 1
      OBVIOUS
    <3>2. Width(bytes[q]) = 1
      BY <1>3, <3>1
    <3> QED BY <3>1, <3>2 DEF Continues
  <2>2. x \in DOMAIN bytes
    BY <1>2
  <2> QED BY <1>1, <2>1, <2>2 DEF Begins
<1>5. /\ y <= Cardinality(S) /\ Cardinality(S) <= len
      /\ \A x \in 1 .. y : Ascending(S)[x] = x
  <2>1. 1 .. y \subseteq S /\ y \in Nat
    BY <1>4
  <2> QED BY <1>2, <2>1, AscendingBegins
<1>6. IsFiniteSet(S) /\ S \in SUBSET Int
  <2>1. IsFiniteSet(1 .. len)
    BY FS_Interval
  <2> QED BY <1>2, <2>1, FS_Subset
<1>7. Cardinality(S) \in Nat /\ Ascending(S) \in Seq(S) /\ Len(Ascending(S)) = Cardinality(S)
  BY <1>6, AscendingIsOrdered
<1>8. PICK n, begins : n = Cardinality(S) /\ begins = Ascending(S) /\ n \in Nat
  BY <1>7
<1>9. DOMAIN begins = 1 .. n
  BY <1>7, <1>8
<1>10. PICK s : s = decode(bytes)
  OBVIOUS
<1>11. s = [k \in 1 .. n |-> Character(bytes, begins[k])]
  BY <1>1, <1>8, <1>9, <1>10 DEF decode
<1>12. Len(s) = n
  BY <1>8, <1>11
<1>13. ASSUME NEW x \in 1 .. y, bytes[x] < 128
       PROVE  s[x] = bytes[x]
  <2>1. x \in 1 .. n
    BY <1>5, <1>8
  <2>2. s[x] = Character(bytes, x)
    BY <1>5, <1>8, <1>11, <2>1
  <2>3. Width(bytes[x]) = 1
    BY <1>3
  <2>4. ~ x + 1 - 1 > x
    OBVIOUS
  <2>5. ~ x + Width(bytes[x]) - 1 > x
    BY <2>3, <2>4
  <2> QED BY <1>13, <2>2, <2>5 DEF Character
<1> QED BY <1>5, <1>8, <1>10, <1>12, <1>13

\* The characters of an item: those before its first null.
LEMMA StringIs ==
    ASSUME NEW record, NEW g, NEW i, g.inner_len \in Nat,
           \A x \in 1 .. g.inner_len : record[CellName(g, i, x - 1)] \in -128 .. 127,
           NEW y \in 1 .. g.inner_len,
           \A x \in 1 .. y : record[CellName(g, i, x - 1)] \notin LeadChar
    PROVE  LET s == _decode_char_string(record, g, i) IN
           /\ y <= Len(s) <=> \A x \in 1 .. y : record[CellName(g, i, x - 1)] # 0
           /\ y <= Len(s) /\ record[CellName(g, i, y - 1)] > 0
                  => s[y] = record[CellName(g, i, y - 1)]
<1>1. PICK m \in Nat : m = g.inner_len
  OBVIOUS
<1>2. PICK v : v = [x \in 1 .. m |-> record[CellName(g, i, x - 1)]]
  OBVIOUS
<1>3. \A x \in 1 .. m : v[x] = record[CellName(g, i, x - 1)] /\ v[x] \in -128 .. 127
  BY <1>1, <1>2
<1>4. PICK bytes : bytes = [x \in 1 .. m |-> Byte(v[x])]
  OBVIOUS
<1>5. bytes = [x \in 1 .. m |-> Byte(record[CellName(g, i, x - 1)])]
  BY <1>2, <1>4
<1>6. PICK null : null = SelectInSeq(bytes, LAMBDA c : c = 0)
  OBVIOUS
<1>7. \A x \in 1 .. m : bytes[x] = Byte(v[x])
  BY <1>4
<1>8. /\ null = 0 => \A x \in 1 .. m : bytes[x] # 0
      /\ null # 0 => /\ null \in 1 .. m /\ bytes[null] = 0
                     /\ \A x \in 1 .. m : x < null => bytes[x] # 0
  <2>1. bytes = [x \in 1 .. m |-> bytes[x]]
    BY <1>4
  <2> QED BY <1>6, <2>1, FirstNull
<1>9. PICK len : len = IF null = 0 THEN m ELSE null - 1
  OBVIOUS
<1>10. len \in Nat /\ len <= m
  BY <1>8, <1>9
<1>11. PICK s : s = _decode_char_string(record, g, i)
  OBVIOUS
<1>12. PICK before : before = [x \in 1 .. len |-> bytes[x]]
  OBVIOUS
<1>13. s = decode(before)
  BY <1>1, <1>5, <1>6, <1>9, <1>11, <1>12 DEF _decode_char_string
<1>14. \A x \in 1 .. m : bytes[x] = 0 <=> v[x] = 0
  BY <1>3, <1>7, SignedBytes
<1>15. before = [x \in 1 .. len |-> before[x]] /\ \A x \in 1 .. len : before[x] = bytes[x]
  BY <1>12
<1>16. y \in 1 .. m /\ \A x \in 1 .. y : v[x] \notin LeadChar
  BY <1>1, <1>3
<1>17. /\ y <= Len(s) <=> \A x \in 1 .. y : v[x] # 0
       /\ y <= Len(s) /\ v[y] > 0 => s[y] = v[y]
  <2>1. ASSUME y <= len PROVE \A x \in 1 .. y : v[x] # 0
    <3>1. \A x \in 1 .. y : x \in 1 .. m /\ (null # 0 => x < null)
      BY <1>8, <1>9, <2>1
    <3> QED BY <1>8, <1>14, <3>1
  <2>2. ASSUME ~ y <= len PROVE ~ \A x \in 1 .. y : v[x] # 0
    <3>1. null # 0 /\ null <= y
      BY <1>8, <1>9, <1>16, <2>2
    <3>2. null \in 1 .. m /\ null \in 1 .. y
      BY <1>8, <1>16, <3>1
    <3> QED BY <1>8, <1>14, <3>1, <3>2
  <2>3. Len(s) \in Nat /\ Len(s) <= len
    <3>1. \A x \in 1 .. 0 : before[x] \notin LeadByte
      OBVIOUS
    <3>2. 0 \in 0 .. len
      BY <1>10
    <3> QED BY <1>10, <1>13, <1>15, <3>1, <3>2, DecodedBytes
  <2>4. ASSUME y <= len
        PROVE  y <= Len(s) /\ (v[y] > 0 => s[y] = v[y])
    <3>1. y \in 0 .. len
      BY <1>10, <2>4
    <3>2. \A x \in 1 .. y : x \in 1 .. len /\ x \in 1 .. m
      BY <1>10, <2>4
    <3>3. \A x \in 1 .. y : before[x] = Byte(v[x]) /\ v[x] \in -128 .. 127
      BY <1>3, <1>7, <1>15, <3>2
    <3>4. ASSUME NEW x \in 1 .. y PROVE before[x] \notin LeadByte
      <4>1. PICK c : c = v[x]
        OBVIOUS
      <4>2. c \in -128 .. 127 /\ before[x] = Byte(c)
        BY <3>3, <4>1
      <4>3. c \notin LeadChar
        BY <1>16, <4>1
      <4>4. Byte(c) \notin LeadByte
        BY <4>2, <4>3, LeadBytes
      <4> QED BY <4>2, <4>4
    <3>5. /\ y <= Len(decode(before))
          /\ \A x \in 1 .. y : before[x] < 128 => decode(before)[x] = before[x]
      <4>1. \A x \in 1 .. y : before[x] \notin LeadByte
        BY <3>4
      <4>2. before = [x \in 1 .. len |-> before[x]] /\ len \in Nat
        BY <1>10, <1>15
      <4>3. LET t == decode(before) IN
            /\ y <= Len(t) /\ Len(t) \in Nat /\ Len(t) <= len
            /\ \A x \in 1 .. y : before[x] < 128 => t[x] = before[x]
        BY <3>1, <4>1, <4>2, DecodedBytes
      <4> QED BY <4>3
    <3>6. y \in 1 .. y
      OBVIOUS
    <3>7. PICK c \in -128 .. 127 : c = v[y] /\ before[y] = Byte(c)
      BY <3>3, <3>6
    <3>8. c > 0 => before[y] = c /\ c < 128
      BY <3>7, SignedBytes
    <3> QED BY <1>13, <3>5, <3>6, <3>7, <3>8
  <2> QED BY <1>10, <2>1, <2>2, <2>3, <2>4
<1>18. \A x \in 1 .. y : v[x] = record[CellName(g, i, x - 1)]
  BY <1>3, <1>16
<1>19. (\A x \in 1 .. y : v[x] # 0) <=> \A x \in 1 .. y : record[CellName(g, i, x - 1)] # 0
  BY <1>18
<1>20. v[y] = record[CellName(g, i, y - 1)]
  BY <1>3, <1>16
<1> QED BY <1>11, <1>17, <1>19, <1>20

\* Names that differ in the index of their last segment.
LEMMA FrontIs ==
    ASSUME NEW s \in Seq(Segment) \ {<<>>}, NEW t \in Seq(Segment) \ {<<>>}
    PROVE  Front(s) = Front(t) <=>
               Len(s) = Len(t) /\ \A k \in 1 .. Len(s) - 1 : s[k] = t[k]
<1>1. PICK m, n : m = Len(s) /\ n = Len(t)
  OBVIOUS
<1>2. m \in Nat \ {0} /\ n \in Nat \ {0} /\ s \in Seq(Segment) /\ t \in Seq(Segment)
  BY <1>1, EmptySeq
<1>3. Front(s) = [k \in 1 .. m - 1 |-> s[k]] /\ Front(t) = [k \in 1 .. n - 1 |-> t[k]]
  BY <1>1, <1>2 DEF Front
<1>4. ASSUME Front(s) = Front(t) PROVE m = n /\ \A k \in 1 .. m - 1 : s[k] = t[k]
  <2>1. PICK fs, ft : fs = Front(s) /\ ft = Front(t)
    OBVIOUS
  <2>2. PICK a \in Nat, b \in Nat : a = m - 1 /\ b = n - 1
    BY <1>2
  <2>3. Len(fs) = a /\ Len(ft) = b
    BY <1>3, <2>1, <2>2
  <2>4. a = b
    BY <1>4, <2>1, <2>3
  <2>5. m = n
    BY <1>2, <2>2, <2>4
  <2>6. \A k \in 1 .. m - 1 : fs[k] = s[k] /\ ft[k] = t[k]
    BY <1>3, <2>1, <2>5
  <2> QED BY <1>4, <2>1, <2>5, <2>6
<1>5. ASSUME m = n, \A k \in 1 .. m - 1 : s[k] = t[k] PROVE Front(s) = Front(t)
  BY <1>3, <1>5
<1> QED BY <1>1, <1>4, <1>5

\* The characters of a string up to one of them are cells of one item of its field.
LEMMA UpToIs ==
    ASSUME NEW d, Flattened(d.field_data), NEW f \in KeptOf(d.field_data),
           f.type_str = "char", IsArray(f.name)
    PROVE  LET i == FieldOf(f).outer_len - 1
               j == FieldOf(f).inner_len - 1 IN
           /\ j \in Nat /\ Last(f.name).idx = j
           /\ \A g : g \in UpTo(f, d) <=> \E x \in 0 .. j : g = Cells(f, i, x)
<1>1. PICK fields : fields = d.field_data
  OBVIOUS
<1>2. PICK i, j, at, rep : /\ i = FieldOf(f).outer_len - 1 /\ j = FieldOf(f).inner_len - 1
                           /\ at = Len(FieldOf(f).ulog_base) /\ rep = FieldOf(f).is_repeated
  OBVIOUS
<1>3. f \in ToSet(fields) /\ Entry(f) /\ Shaped(f)
  BY <1>1, KeptFacts
<1>4. PICK name : name = f.name
  OBVIOUS
<1>5. PICK len \in Nat : len = Len(name) /\ len >= 1
  BY <1>3, <1>4, NameFacts
<1>6. /\ DOMAIN name = 1 .. len /\ len \in 1 .. len
      /\ \A k \in 1 .. len : name[k] = [id |-> name[k].id, idx |-> name[k].idx] /\ name[k].idx \in Int
      /\ name \in Seq(Segment) \ {<<>>}
  <2>1. len \in 1 .. len
    BY <1>5
  <2> QED BY <1>3, <1>4, <1>5, <2>1, NameFacts DEF Entry
<1>7. Indexed(name, len) /\ ~ (at = len /\ rep)
  BY <1>2, <1>3, <1>4, <1>5 DEF IsArray, Shaped
<1>8. j = name[len].idx /\ j \in Nat
  <2>1. FieldOf(f).inner_len = name[len].idx + 1
    BY <1>3, <1>4, <1>5, <1>7 DEF Shaped
  <2>2. FieldOf(f).inner_len - 1 \in Nat
    BY <1>3, LengthsPositive
  <2> QED BY <1>2, <1>6, <2>1, <2>2
<1>9. Last(f.name).idx = j
  BY <1>4, <1>5, <1>8 DEF Last
<1>10. \A x : Cells(f, i, x) = [k \in 1 .. len |->
                  [id |-> name[k].id, idx |-> IF k = at /\ rep THEN i ELSE IF k = len THEN x ELSE NoIndex]]
  BY <1>2, <1>4, <1>5 DEF Cells
<1>11. Cells(f, i, j) = name
  BY <1>2, <1>3, <1>4, OwnCell
<1>12. ASSUME NEW x
       PROVE  /\ DOMAIN Cells(f, i, x) = 1 .. len
              /\ Cells(f, i, x)[len] = [id |-> name[len].id, idx |-> x]
              /\ \A k \in 1 .. len - 1 : Cells(f, i, x)[k] = name[k]
  <2>1. PICK cx, cj : cx = Cells(f, i, x) /\ cj = Cells(f, i, j)
    OBVIOUS
  <2>2. cx = [k \in 1 .. len |-> [id |-> name[k].id,
                                  idx |-> IF k = at /\ rep THEN i ELSE IF k = len THEN x ELSE NoIndex]]
    BY <1>10, <2>1
  <2>3. cj = [k \in 1 .. len |-> [id |-> name[k].id,
                                  idx |-> IF k = at /\ rep THEN i ELSE IF k = len THEN j ELSE NoIndex]]
    BY <1>10, <2>1
  <2>4. cx[len] = [id |-> name[len].id, idx |-> x]
    BY <1>6, <1>7, <2>2
  <2>5. ASSUME NEW k \in 1 .. len - 1 PROVE cx[k] = cj[k]
    <3>1. k \in 1 .. len /\ k # len
      BY <1>5
    <3> QED BY <2>2, <2>3, <3>1
  <2> QED BY <1>11, <2>1, <2>2, <2>4, <2>5
<1>13. ASSUME NEW x \in 0 .. j
       PROVE  Cells(f, i, x) \in UpTo(f, d)
  <2>1. x \in 0 .. FieldOf(f).inner_len - 1 /\ i \in 0 .. FieldOf(f).outer_len - 1
    <3>1. i \in Nat
      BY <1>2, <1>3, LengthsPositive
    <3> QED BY <1>2, <1>8, <3>1
  <2>2. PICK c \in ToSet(fields) : c.name = Cells(f, i, x)
    BY <1>1, <2>1, CellIsThere DEF SameKey
  <2>3. PICK n : n = c.name
    OBVIOUS
  <2>4. n \in Seq(Segment) \ {<<>>}
    BY <1>1, <2>3 DEF Flattened
  <2>5. DOMAIN n = 1 .. len /\ n[len] = [id |-> name[len].id, idx |-> x]
        /\ \A k \in 1 .. len - 1 : n[k] = name[k]
    BY <1>12, <2>2, <2>3
  <2>6. Len(n) = len
    <3>1. PICK m \in Nat : m = Len(n) /\ DOMAIN n = 1 .. m
      BY <2>4
    <3> QED BY <1>5, <2>5, <3>1
  <2>7. Front(n) = Front(name)
    BY <1>5, <1>6, <2>4, <2>5, <2>6, FrontIs
  <2>8. Last(n).id = Last(name).id /\ Last(n).idx = x
    BY <1>5, <2>5, <2>6 DEF Last
  <2>9. Last(n).idx <= Last(name).idx
    BY <1>4, <1>9, <2>8
  <2> QED BY <1>1, <1>4, <2>2, <2>3, <2>7, <2>8, <2>9 DEF UpTo
<1>14. ASSUME NEW g \in UpTo(f, d)
       PROVE  \E x \in 0 .. j : g = Cells(f, i, x)
  <2>1. /\ g \in {h.name : h \in ToSet(fields)} /\ Front(g) = Front(name)
        /\ Last(g).id = Last(name).id /\ Last(g).idx <= j
    BY <1>1, <1>4, <1>9 DEF UpTo
  <2>2. PICK h \in ToSet(fields) : h.name = g
    BY <2>1
  <2>3. Entry(h) /\ g \in Seq(Segment) \ {<<>>}
    BY <1>1, <2>2 DEF Flattened, Entry
  <2>4. Len(g) = len /\ \A k \in 1 .. len - 1 : g[k] = name[k]
    <3>1. Len(g) = Len(name) /\ \A k \in 1 .. Len(g) - 1 : g[k] = name[k]
      BY <1>6, <2>1, <2>3, FrontIs
    <3> QED BY <1>5, <3>1
  <2>5. /\ DOMAIN g = 1 .. len /\ g = [k \in 1 .. len |-> g[k]]
        /\ g[len] = [id |-> g[len].id, idx |-> g[len].idx] /\ g[len].idx \in Int
        /\ Indexed(g, len) <=> g[len].idx >= 0
    BY <1>6, <2>2, <2>3, <2>4, NameFacts
  <2>6. g[len].id = name[len].id /\ g[len].idx <= j
    BY <1>5, <2>1, <2>4 DEF Last
  <2>7. Ids(h.name) = Ids(f.name)
    <3>1. \A k \in 1 .. len : g[k].id = name[k].id
      <4>1. \A k \in 1 .. len : k = len \/ k \in 1 .. len - 1
        BY <1>5
      <4> QED BY <2>4, <2>6, <4>1
    <3> QED BY <1>4, <1>6, <2>2, <2>5, <3>1 DEF Ids
  <2>8. Indexed(g, len)
    BY <1>1, <1>3, <1>4, <1>6, <1>7, <2>2, <2>7 DEF Flattened
  <2>9. PICK x \in 0 .. j : x = g[len].idx
    BY <1>8, <2>5, <2>6, <2>8
  <2>10. g = Cells(f, i, x)
    <3>1. PICK c : c = Cells(f, i, x)
      OBVIOUS
    <3>2. c = [k \in 1 .. len |-> c[k]]
      BY <1>10, <3>1
    <3>3. c[len] = g[len]
      BY <1>12, <2>5, <2>6, <2>9, <3>1
    <3>4. \A k \in 1 .. len - 1 : c[k] = g[k]
      BY <1>12, <2>4, <3>1
    <3>5. \A k \in 1 .. len : c[k] = g[k]
      <4>1. \A k \in 1 .. len : k = len \/ k \in 1 .. len - 1
        BY <1>5
      <4> QED BY <3>3, <3>4, <4>1
    <3> QED BY <2>5, <3>1, <3>2, <3>5
  <2> QED BY <2>10
<1> QED BY <1>2, <1>8, <1>9, <1>13, <1>14

LEMMA StringReadable ==
    ASSUME LogInvariant, reading = "encoded", NEW n \in 1 .. N,
           NEW k \in 1 .. Len(ulog.data_list[n].records),
           NEW f \in ToSet(ulog.data_list[n].field_data), ~ Dropped(f.name, f.type_str),
           f.type_str = "char"
    PROVE  LET d == ulog.data_list[n]
               string == Stored(f, RowOf(d.name, DataSource(n), k))
               i == Last(f.name).idx + 1
               char == d.records[k][f.name] IN
           (\A g \in UpTo(f, d) : d.records[k][g] \notin LeadChar) =>
           /\ i <= Len(string) <=> \A g \in UpTo(f, d) : d.records[k][g] # 0
           /\ i <= Len(string) /\ char > 0 => string[i] = char
<1>1. PICK d, record : d = ulog.data_list[n] /\ record = d.records[k]
  OBVIOUS
<1>2. PICK i, j, string : /\ i = FieldOf(f).outer_len - 1 /\ j = FieldOf(f).inner_len - 1
                          /\ string = Stored(f, RowOf(d.name, DataSource(n), k))
  OBVIOUS
<1>3. PICK F : F = _aggregate_fields(d.field_data)
  OBVIOUS
<1>4. PICK l \in DOMAIN F :
          /\ Covers(F[l], f) /\ FieldFor(F[l], f)
          /\ <<i, j>> \in Places(F[l])
          /\ \A x, y \in Int : CellName(F[l], x, y) = Cells(f, x, y)
          /\ CellName(F[l], i, j) = f.name
          /\ string = R!ArrowValue(_ULOG_TO_PROTO_TYPE(f.type_str), ItemValue(record, F[l], i))
  BY <1>1, <1>2, <1>3, StoredIs
<1>5. /\ Flattened(d.field_data) /\ IsRecord(record, d.field_data) /\ f \in KeptOf(d.field_data)
      /\ IsArray(f.name)
  BY <1>1, BatchedLog, CellValue DEF KeptOf
<1>6. Entry(f) /\ Shaped(f) /\ f.type_str \in UlogType
  BY <1>5, KeptFacts DEF Entry
<1>7. PICK b \in KeptOf(d.field_data), a \in KeptOf(d.field_data) :
          /\ F[l].inner_len = FieldOf(b).inner_len /\ FieldFor(F[l], a) /\ Made(F[l], a, b)
  BY <1>3, <1>5, FieldIsMade
<1>8. SameKey(FieldOf(f), FieldOf(b)) /\ SameKey(FieldOf(f), FieldOf(f))
  BY <1>4, <1>7 DEF Made, FieldFor, SameKey
<1>9. PICK m : m = F[l].inner_len
  OBVIOUS
<1>10. m \in Nat /\ i \in Nat /\ j \in Nat /\ j + 1 \in 1 .. m
  <2>1. FieldOf(b).inner_len - 1 \in Nat /\ FieldOf(b).inner_len \in Int
    BY <1>5, KeptFacts, LengthsPositive
  <2>2. j \in 0 .. m - 1 /\ i \in Nat
    <3>1. i \in Nat
      BY <1>2, <1>6, LengthsPositive
    <3> QED BY <1>4, <1>9, <3>1 DEF Places
  <2> QED BY <1>7, <1>9, <2>1, <2>2
<1>11. \A x \in 1 .. m : CellName(F[l], i, x - 1) = Cells(f, i, x - 1)
  <2>1. \A x \in 1 .. m : i \in Int /\ x - 1 \in Int
    BY <1>10
  <2> QED BY <1>4, <2>1
<1>12. ASSUME NEW x \in 1 .. m
       PROVE  record[CellName(F[l], i, x - 1)] \in -128 .. 127
  <2>1. x - 1 \in 0 .. FieldOf(b).inner_len - 1 /\ i \in 0 .. FieldOf(f).outer_len - 1
    <3>1. x - 1 \in 0 .. m - 1
      BY <1>10
    <3>2. FieldOf(f).outer_len \in Int
      BY <1>6, LengthsPositive
    <3> QED BY <1>2, <1>7, <1>9, <1>10, <3>1, <3>2
  <2>2. PICK c \in ToSet(d.field_data) : c.name = Cells(f, i, x - 1) /\ c.type_str = f.type_str
    BY <1>5, <1>8, <2>1, CellIsThere
  <2>3. record[c.name] \in NumbersOf("char")
    BY <1>5, <2>2 DEF IsRecord
  <2> QED BY <1>11, <2>2, <2>3 DEF NumbersOf
<1>13. string = _decode_char_string(record, F[l], i)
  <2>1. F[l].proto_type = "string" /\ _ULOG_TO_PROTO_TYPE(f.type_str) = "string"
    BY <1>4, <1>6, ProtoTypes DEF FieldFor, Shaped
  <2> QED BY <1>4, <2>1 DEF ItemValue, R!ArrowValue
<1>14. \A y \in 1 .. m :
           (\A x \in 1 .. y : record[CellName(F[l], i, x - 1)] \notin LeadChar) =>
           /\ y <= Len(string) <=> \A x \in 1 .. y : record[CellName(F[l], i, x - 1)] # 0
           /\ y <= Len(string) /\ record[CellName(F[l], i, y - 1)] > 0
                  => string[y] = record[CellName(F[l], i, y - 1)]
  <2>1. F[l].inner_len \in Nat
        /\ \A x \in 1 .. F[l].inner_len : record[CellName(F[l], i, x - 1)] \in -128 .. 127
    BY <1>9, <1>10, <1>12
  <2>2. ASSUME NEW y \in 1 .. m, \A x \in 1 .. y : record[CellName(F[l], i, x - 1)] \notin LeadChar
        PROVE  LET s == _decode_char_string(record, F[l], i) IN
               /\ y <= Len(s) <=> \A x \in 1 .. y : record[CellName(F[l], i, x - 1)] # 0
               /\ y <= Len(s) /\ record[CellName(F[l], i, y - 1)] > 0
                      => s[y] = record[CellName(F[l], i, y - 1)]
    BY <1>9, <2>1, <2>2, StringIs
  <2> QED BY <1>13, <2>2
<1>15. PICK y : y = j + 1
  OBVIOUS
<1>16. y \in 1 .. m /\ y - 1 = j
  BY <1>10, <1>15
<1>17. CellName(F[l], i, y - 1) = f.name
  BY <1>4, <1>16
<1>18. /\ Last(f.name).idx = j
       /\ \A g : g \in UpTo(f, d) <=> \E x \in 0 .. j : g = Cells(f, i, x)
  BY <1>2, <1>5, UpToIs
<1>19. ASSUME NEW V
       PROVE  (\A x \in 1 .. y : record[CellName(F[l], i, x - 1)] \notin V)
                  <=> \A g \in UpTo(f, d) : record[g] \notin V
  <2>1. \A x \in 1 .. y : CellName(F[l], i, x - 1) = Cells(f, i, x - 1)
    <3>1. \A x \in 1 .. y : x \in 1 .. m
      BY <1>10, <1>16
    <3> QED BY <1>11, <3>1
  <2>2. ASSUME \A x \in 1 .. y : record[CellName(F[l], i, x - 1)] \notin V, NEW g \in UpTo(f, d)
        PROVE  record[g] \notin V
    <3>1. PICK x \in 0 .. j : g = Cells(f, i, x)
      BY <1>18
    <3>2. x + 1 \in 1 .. y /\ x + 1 - 1 = x
      BY <1>10, <1>15
    <3> QED BY <2>1, <2>2, <3>1, <3>2
  <2>3. ASSUME \A g \in UpTo(f, d) : record[g] \notin V, NEW x \in 1 .. y
        PROVE  record[CellName(F[l], i, x - 1)] \notin V
    <3>1. x - 1 \in 0 .. j
      BY <1>10, <1>15
    <3>2. Cells(f, i, x - 1) \in UpTo(f, d)
      BY <1>18, <3>1
    <3> QED BY <2>1, <2>3, <3>2
  <2> QED BY <2>2, <2>3
<1>20. (\A x \in 1 .. y : record[CellName(F[l], i, x - 1)] # 0)
           <=> \A g \in UpTo(f, d) : record[g] # 0
  <2>1. (\A x \in 1 .. y : record[CellName(F[l], i, x - 1)] \notin {0})
            <=> \A g \in UpTo(f, d) : record[g] \notin {0}
    BY <1>19
  <2> QED BY <2>1
<1>21. (\A x \in 1 .. y : record[CellName(F[l], i, x - 1)] \notin LeadChar)
           <=> \A g \in UpTo(f, d) : record[g] \notin LeadChar
  BY <1>19
<1>22. (\A g \in UpTo(f, d) : record[g] \notin LeadChar) =>
       /\ y <= Len(string) <=> \A g \in UpTo(f, d) : record[g] # 0
       /\ y <= Len(string) /\ record[f.name] > 0 => string[y] = record[f.name]
  BY <1>14, <1>16, <1>17, <1>20, <1>21
<1> QED BY <1>1, <1>2, <1>15, <1>18, <1>22

\* The characters of any array of a record are in the lake up to its first null or its
\* first character of several bytes, also those of an array in an array of structs,
\* and however the definition spreads them.
THEOREM StringsReachTheLake == FlightSpec => []EveryStringReadable
<1>1. ASSUME LogInvariant PROVE EveryStringReadable
  <2>1. SUFFICES ASSUME reading = "encoded", NEW n \in DOMAIN ulog.data_list,
                        NEW k \in DOMAIN ulog.data_list[n].records,
                        NEW f \in ToSet(ulog.data_list[n].field_data),
                        f.type_str = "char", ~ Dropped(f.name, f.type_str)
                 PROVE  LET d == ulog.data_list[n]
                            string == Stored(f, RowOf(d.name, DataSource(n), k))
                            i == Last(f.name).idx + 1
                            char == d.records[k][f.name] IN
                        (\A g \in UpTo(f, d) : d.records[k][g] \notin LeadChar) =>
                        /\ i <= Len(string) <=> \A g \in UpTo(f, d) : d.records[k][g] # 0
                        /\ i <= Len(string) /\ char > 0 => string[i] = char
    BY DEF EveryStringReadable, DataSource
  <2>2. n \in 1 .. N /\ k \in 1 .. Len(ulog.data_list[n].records)
    BY <1>1, InvariantParts, LogFacts DEF Logged, N
  <2> QED BY <1>1, <2>1, <2>2, StringReadable
<1> QED BY <1>1, LogInvariantHolds, PTL

-----------------------------------------------------------------------------
(* The view of flights *)

LEMMA QuotientsAgree ==
    ASSUME NEW s \in Nat \ {0}, NEW q \in Int, NEW p \in Int,
           NEW r \in 0 .. s - 1, NEW t \in 0 .. s - 1, q * s + r = p * s + t
    PROVE  p = q
<1>1. (q - p) * s = t - r
  OBVIOUS
<1>2. t - r < s /\ r - t < s
  OBVIOUS
<1>3. CASE q > p
  <2>1. q - p >= 1
    BY <1>3
  <2>2. (q - p) * s >= s
    BY <2>1
  <2> QED BY <1>1, <1>2, <2>2
<1>4. CASE q < p
  <2>1. p - q >= 1
    BY <1>4
  <2>2. (p - q) * s >= s
    BY <2>1
  <2>3. (p - q) * s = r - t
    BY <1>1
  <2> QED BY <1>2, <2>2, <2>3
<1> QED BY <1>3, <1>4

LEMMA QuotientIs ==
    ASSUME NEW s \in Nat \ {0}, NEW q \in Int, NEW r \in 0 .. s - 1, NEW x \in Int, x = q * s + r
    PROVE  x \div s = q /\ x % s = r
<1>1. PICK p \in Int : p = x \div s
  OBVIOUS
<1>2. PICK t \in 0 .. s - 1 : t = x % s
  OBVIOUS
<1>3. x = p * s + t
  BY <1>1, <1>2
<1>4. p = q
  <2>1. q * s + r = p * s + t
    BY <1>3
  <2> QED BY <2>1, QuotientsAgree
<1>5. r = t
  BY <1>3, <1>4
<1> QED BY <1>1, <1>2, <1>4, <1>5

LEMMA Division ==
    ASSUME NEW m \in Nat \ {0}, NEW x \in Int
    PROVE  \E q \in Int, r \in 0 .. m - 1 : q = x \div m /\ r = x % m /\ x = q * m + r
<1>1. PICK q \in Int : q = x \div m
  OBVIOUS
<1>2. PICK r \in 0 .. m - 1 : r = x % m
  OBVIOUS
<1>3. x = q * m + r
  BY <1>1, <1>2
<1> QED BY <1>1, <1>2, <1>3

LEMMA SumOfProducts ==
    ASSUME NEW s \in Int, NEW q \in Int, NEW a \in Int, NEW b \in Int
    PROVE  q * (60 * s) + (a * s + b) = (60 * q + a) * s + b
OBVIOUS

\* The minutes and seconds that are shown are those of a duration below an hour, unless
\* it is exactly a minute.
LEMMA DurationShown ==
    ASSUME NEW us \in Nat, us # 60 * Second, us < 3600 * Second
    PROVE  W!format_duration(us)[1] * 60 + W!format_duration(us)[2] = us \div Second
<1>1. PICK s \in Nat \ {0} : s = Second
  BY ClockAssumption
<1>2. PICK h \in Nat \ {0}, m \in Nat \ {0} : h = 3600 * s /\ m = 60 * s
  <2>1. 3600 * s \in Nat \ {0} /\ 60 * s \in Nat \ {0}
    OBVIOUS
  <2> QED BY <2>1
<1>3. PICK q \in Int, r \in 0 .. m - 1 : q = us \div m /\ r = us % m /\ us = q * m + r
  BY Division
<1>4. PICK a \in Int, b \in 0 .. s - 1 : a = r \div s /\ b = r % s /\ r = a * s + b
  <2>1. r \in Int
    BY <1>2
  <2> QED BY <2>1, Division
<1>5. us \div s = 60 * q + a
  <2>1. PICK u \in Int : u = 60 * q + a
    OBVIOUS
  <2>2. us = q * (60 * s) + (a * s + b)
    BY <1>2, <1>3, <1>4
  <2>3. q * (60 * s) + (a * s + b) = (60 * q + a) * s + b
    <3>1. s \in Int /\ b \in Int
      OBVIOUS
    <3> QED BY <3>1, SumOfProducts
  <2>4. us = u * s + b
    BY <2>1, <2>2, <2>3
  <2>5. us \in Int /\ b \in 0 .. s - 1
    OBVIOUS
  <2>6. us \div s = u
    BY <2>4, <2>5, QuotientIs
  <2> QED BY <2>1, <2>6
<1>6. us % h = us
  <2>1. us \in 0 .. h - 1
    BY <1>1, <1>2
  <2>2. us = 0 * h + us
    OBVIOUS
  <2> QED BY <2>1, <2>2, QuotientIs
<1>7. us < m => q = 0
  <2>1. ASSUME us < m PROVE q = 0
    <3>1. us \in 0 .. m - 1 /\ us = 0 * m + us
      BY <2>1
    <3>2. us \div m = 0
      BY <3>1, QuotientIs
    <3> QED BY <1>3, <3>2
  <2> QED BY <2>1
<1>8. us # m
  BY <1>1, <1>2
<1>9. us > m => (us % h) \div m = q
  BY <1>3, <1>6
<1>10. W!format_duration(us) = <<IF us > m THEN (us % h) \div m ELSE 0, (us % m) \div s>>
  BY <1>1, <1>2 DEF W!format_duration
<1>11. W!format_duration(us)[1] = q /\ W!format_duration(us)[2] = a
  <2>1. (IF us > m THEN (us % h) \div m ELSE 0) = q
    <3>1. us > m \/ us < m
      BY <1>8
    <3> QED BY <1>7, <1>9, <3>1
  <2>2. (us % m) \div s = a
    <3>1. us % m = r
      BY <1>3
    <3> QED BY <1>4, <3>1
  <2> QED BY <1>10, <2>1, <2>2
<1> QED BY <1>1, <1>5, <1>11

\* A finite set of times has a last one.
LEMMA Greatest ==
    ASSUME NEW S \in SUBSET Nat, IsFiniteSet(S), S # {}
    PROVE  \E x \in S : \A y \in S : x >= y
<1>1. PICK s, C : s = Ascending(S) /\ C = Cardinality(S)
  OBVIOUS
<1>2. C \in Nat /\ s \in Seq(S) /\ Len(s) = C
  BY <1>1, AscendingIsOrdered
<1>3. \A x \in S : \E n \in 1 .. C : s[n] = x
  BY <1>1, AscendingIsOrdered
<1>4. \A m, n \in 1 .. C : m < n => s[m] < s[n]
  BY <1>1, AscendingIsOrdered
<1>5. C \in 1 .. C
  <2>1. PICK e \in S : TRUE
    OBVIOUS
  <2>2. PICK n \in 1 .. C : s[n] = e
    BY <1>3
  <2> QED BY <1>2, <2>2
<1>6. s[C] \in S
  BY <1>2, <1>5
<1>7. ASSUME NEW y \in S PROVE s[C] >= y
  <2>1. PICK n \in 1 .. C : s[n] = y
    BY <1>3
  <2>2. n = C \/ n < C
    BY <1>2
  <2>3. n = C \/ s[n] < s[C]
    BY <1>4, <1>5, <2>2
  <2>4. s[n] \in Nat /\ s[C] \in Nat
    BY <1>6, <2>1
  <2> QED BY <2>1, <2>3, <2>4
<1> QED BY <1>6, <1>7

LEMMA Extremes ==
    ASSUME NEW S \in SUBSET Nat, IsFiniteSet(S), S # {}, NEW c \in Int,
           NEW T, \A t : t \in T <=> \E x \in S : t = c + x
    PROVE  /\ Max(S) \in Nat /\ Min(S) \in Nat /\ Max(S) >= Min(S)
           /\ Max(T) - Min(T) = Max(S) - Min(S)
<1>1. PICK m \in S : \A y \in S : m <= y
  BY Least
<1>2. PICK n \in S : \A y \in S : n >= y
  BY Greatest
<1>3. Min(S) = m
  <2>1. Min(S) \in S /\ \A y \in S : Min(S) <= y
    BY <1>1 DEF Min
  <2>2. PICK k \in S : k = Min(S)
    BY <2>1
  <2> QED BY <1>1, <2>1, <2>2
<1>4. Max(S) = n
  <2>1. Max(S) \in S /\ \A y \in S : Max(S) >= y
    BY <1>2 DEF Max
  <2>2. PICK k \in S : k = Max(S)
    BY <2>1
  <2> QED BY <1>2, <2>1, <2>2
<1>5. T \in SUBSET Int /\ c + m \in T /\ c + n \in T
  BY <1>1, <1>2
<1>6. \A t \in T : c + m <= t /\ c + n >= t
  BY <1>1, <1>2
<1>7. Min(T) = c + m
  <2>1. PICK k \in Int : k = c + m
    OBVIOUS
  <2>2. k \in T /\ \A y \in T : k <= y
    BY <1>5, <1>6, <2>1
  <2>3. Min(T) \in T /\ \A y \in T : Min(T) <= y
    BY <2>2 DEF Min
  <2>4. PICK j \in T : j = Min(T)
    BY <2>3
  <2>5. j <= k /\ k <= j /\ j \in Int
    BY <1>5, <2>2, <2>3, <2>4
  <2> QED BY <2>1, <2>4, <2>5
<1>8. Max(T) = c + n
  <2>1. PICK k \in Int : k = c + n
    OBVIOUS
  <2>2. k \in T /\ \A y \in T : k >= y
    BY <1>5, <1>6, <2>1
  <2>3. Max(T) \in T /\ \A y \in T : Max(T) >= y
    BY <2>2 DEF Max
  <2>4. PICK j \in T : j = Max(T)
    BY <2>3
  <2>5. j <= k /\ k <= j /\ j \in Int
    BY <1>5, <2>2, <2>3, <2>4
  <2> QED BY <2>1, <2>4, <2>5
<1>9. n >= m
  BY <1>1, <1>2
<1> QED BY <1>3, <1>4, <1>7, <1>8, <1>9

\* A name of one identifier has its words.
LEMMA FlattenOne ==
    ASSUME NEW s, NEW seqs, seqs = [k \in 1 .. 1 |-> s]
    PROVE  FlattenSeq(seqs) = s
<1> DEFINE flatten(h) == [i \in 1 .. Len(seqs) |-> IF i = 1 THEN seqs[i] ELSE h[i - 1] \o seqs[i]]
           f == CHOOSE h : h = flatten(h)
<1>1. Len(seqs) = 1 /\ seqs[1] = s
  OBVIOUS
<1>2. FlattenSeq(seqs) = f[Len(seqs)]
  BY <1>1 DEF FlattenSeq
<1>3. \E h : h = flatten(h)
  <2>1. PICK h : h = [i \in 1 .. 1 |-> s]
    OBVIOUS
  <2>2. h = flatten(h)
    BY <1>1, <2>1
  <2> QED BY <2>2
<1>4. f = flatten(f)
  BY <1>3
<1> HIDE DEF f
<1>5. f[1] = s
  <2>1. flatten(f)[1] = s
    BY <1>1
  <2> QED BY <1>4, <2>1
<1> QED BY <1>1, <1>2, <1>5

Arming == [name |-> Cell(<<"arming", "state">>), type_str |-> "uint8_t"]

\* arming_state is a column of the table of vehicle_status.
LEMMA ArmingColumn ==
    /\ ~ Dropped(Arming.name, Arming.type_str)
    /\ ColumnOf(Arming) = <<"arming", "state">>
    /\ \A row : Stored(Arming, row) = row[<<"arming", "state">>]
<1>1. PICK id : id = <<"arming", "state">>
  OBVIOUS
<1>2. PICK name : name = Cell(id)
  OBVIOUS
<1>3. name = <<[id |-> id, idx |-> NoIndex]>>
  BY <1>2 DEF Cell
<1>4. Len(name) = 1 /\ name[1] = [id |-> id, idx |-> NoIndex]
  BY <1>3
<1>5. name[1].id = id /\ name[1].idx = NoIndex
  BY <1>4
<1>6. Arming.name = name /\ Arming.type_str = "uint8_t"
  BY <1>1, <1>2 DEF Arming
<1>7. ~ IsStructArray(name) /\ ~ IsArray(name)
  BY <1>4, <1>5 DEF IsStructArray, IsArray, Indexed
<1>8. PICK F : F = UlogField(name, "uint8_t")
  OBVIOUS
<1>9. F.ulog_base = [k \in 1 .. 1 |-> id] /\ F.leaf = NoLeaf /\ ~ F.is_repeated
  <2>1. F.ulog_base = [k \in 1 .. 1 |-> name[k].id] /\ F.leaf = NoLeaf /\ F.is_repeated = FALSE
    BY <1>4, <1>7, <1>8 DEF UlogField
  <2>2. \A k \in 1 .. 1 : name[k].id = id
    BY <1>5
  <2> QED BY <2>1, <2>2
<1>10. FlattenSeq(F.ulog_base) = id
  BY <1>9, FlattenOne
<1>11. proto_name(F) = id
  <2>1. proto_name(F) = id \o <<>>
    BY <1>9, <1>10 DEF proto_name
  <2> QED BY <1>1, <2>1
<1>12. ~ Dropped(name, "uint8_t")
  BY <1>7 DEF Dropped
<1>13. ColumnOf(Arming) = id
  BY <1>6, <1>8, <1>11 DEF ColumnOf
<1>14. \A row : Stored(Arming, row) = row[id]
  BY <1>6, <1>8, <1>9, <1>13 DEF Stored
<1> QED BY <1>1, <1>6, <1>12, <1>13, <1>14

\* A row is logged at the time of its record.
LEMMA DataLogTime ==
    ASSUME LogInvariant, reading = "encoded", NEW n \in 1 .. N,
           NEW k \in 1 .. Len(ulog.data_list[n].records)
    PROVE  LET d == ulog.data_list[n] IN
           RowOf(d.name, DataSource(n), k)[<<"log", "time">>] = Anchor + TimeOf(d.records[k])
<1>1. PICK d : d = ulog.data_list[n]
  OBVIOUS
<1>2. PICK time \in Nat : time = TimeOf(d.records[k])
  BY <1>1, LogFacts, InvariantParts DEF Logged, N
<1>3. Logged /\ TableOf(n) = d.name /\ n \in 1 .. N + 4
  BY <1>1, BatchedLog
<1>4. /\ k \in 1 .. Len(Streams[n])
      /\ Streams[n][k].record = [source |-> DataSource(n), row |-> k]
      /\ Streams[n][k].time = time
  BY <1>1, <1>2, <1>3, DataRecords
<1>5. PICK b : b = d.name
  OBVIOUS
<1>6. \E i \in DOMAIN groups[b].rows :
          /\ RowIs(groups[b].rows[i], n, k)
          /\ RowOf(b, DataSource(n), k) = R!build_record_batch(groups[b])[i]
  BY <1>3, <1>4, <1>5, RowOfIs
<1>7. PICK i \in DOMAIN groups[b].rows :
          /\ RowIs(groups[b].rows[i], n, k)
          /\ RowOf(b, DataSource(n), k) = R!build_record_batch(groups[b])[i]
  BY <1>6
<1>8. PICK r, row : r = groups[b].rows[i] /\ row = RowOf(b, DataSource(n), k)
  OBVIOUS
<1>9. \A c \in R!StandardColumn : row[c] = R!StandardValue(c, r)
  <2>1. \A c \in R!StandardColumn :
            R!build_record_batch(groups[b])[i][c] = R!StandardValue(c, groups[b].rows[i])
    BY BatchRow
  <2> QED BY <1>7, <1>8, <2>1
<1>10. r.log_time = time * 1000
  BY <1>4, <1>7, <1>8 DEF RowIs
<1>11. <<"log", "time">> \in R!StandardColumn
  BY DEF R!StandardColumn
<1>12. R!StandardValue(<<"log", "time">>, r) = Anchor + R!Micros(time * 1000)
  BY <1>10 DEF R!StandardValue
<1>13. R!Micros(time * 1000) = time
  BY DEF R!Micros
<1>14. row[<<"log", "time">>] = Anchor + time
  BY <1>9, <1>11, <1>12, <1>13
<1> QED BY <1>1, <1>2, <1>5, <1>8, <1>14

\* Where the records of vehicle_status are, and what is asked of a row for one.
IsStatus(n, k) ==
    /\ n \in 1 .. N /\ ulog.data_list[n].name = W!VehicleStatus
    /\ k \in 1 .. Len(ulog.data_list[n].records)

StatusRow(row, r) ==
    /\ TimeOf(r) \in Nat
    /\ row[<<"log", "time">>] = Anchor + TimeOf(r)
    /\ row[<<"arming", "state">>] = r[Arming.name]

LEMMA RowOfStatus ==
    ASSUME LogInvariant, reading = "encoded", NEW n, NEW k, IsStatus(n, k)
    PROVE  StatusRow(RowOf(W!VehicleStatus, DataSource(n), k), ulog.data_list[n].records[k])
<1>1. PICK d, r : d = ulog.data_list[n] /\ r = d.records[k]
  OBVIOUS
<1>2. n \in 1 .. N /\ k \in 1 .. Len(d.records) /\ d.name = W!VehicleStatus
  BY <1>1 DEF IsStatus
<1>3. Logged /\ d \in ToSet(ulog.data_list) /\ IsRecord(r, d.field_data)
  BY <1>1, <1>2, BatchedLog
<1>4. PICK row : row = RowOf(d.name, DataSource(n), k)
  OBVIOUS
<1>5. TimeOf(r) \in Nat
  BY <1>1, <1>2, <1>3, LogFacts DEF Logged, N
<1>6. row[<<"log", "time">>] = Anchor + TimeOf(r)
  BY <1>1, <1>2, <1>4, DataLogTime
<1>7. Arming \in ToSet(d.field_data)
  BY <1>2, <1>3, StatusAssumption DEF Arming, Logged
<1>8. PICK v : v = r[Arming.name]
  OBVIOUS
<1>9. Arming.type_str = "uint8_t"
  BY DEF Arming
<1>10. PICK F, i, j : /\ F = _aggregate_fields(d.field_data)
                      /\ i = FieldOf(Arming).outer_len - 1 /\ j = FieldOf(Arming).inner_len - 1
  OBVIOUS
<1>11. PICK l \in DOMAIN F :
           /\ FieldFor(F[l], Arming)
           /\ CellName(F[l], i, j) = Arming.name
           /\ Stored(Arming, row) =
                  R!ArrowValue(_ULOG_TO_PROTO_TYPE(Arming.type_str), ItemValue(r, F[l], i))
  BY <1>1, <1>2, <1>4, <1>7, <1>10, ArmingColumn, StoredIs
<1>12. Flattened(d.field_data) /\ Arming \in KeptOf(d.field_data)
  BY <1>1, <1>2, <1>7, ArmingColumn, BatchedLog DEF KeptOf
<1>13. Entry(Arming) /\ Shaped(Arming)
  BY <1>12, KeptFacts
<1>14. j = 0
  BY <1>9, <1>10, <1>13, LengthsPositive
<1>15. _ULOG_TO_PROTO_TYPE(Arming.type_str) = "uint32"
  BY <1>9 DEF _ULOG_TO_PROTO_TYPE
<1>16. F[l].proto_type = "uint32"
  BY <1>11, <1>13, <1>15 DEF FieldFor, Shaped
<1>17. ItemValue(r, F[l], i) = v
  BY <1>8, <1>11, <1>14, <1>16 DEF ItemValue
<1>18. R!ArrowValue("uint32", v) = v
  BY DEF R!ArrowValue
<1>19. row[<<"arming", "state">>] = v
  BY <1>11, <1>15, <1>17, <1>18, ArmingColumn
<1> QED BY <1>1, <1>2, <1>4, <1>5, <1>6, <1>8, <1>19 DEF StatusRow

\* The rows of the table are those of the records.
LEMMA StatusRows ==
    ASSUME LogInvariant, reading = "encoded", W!VehicleStatus \in DOMAIN batches
    PROVE  /\ IsFiniteSet(W!Statuses)
           /\ \A n, k : IsStatus(n, k) => RowOf(W!VehicleStatus, DataSource(n), k) \in W!Statuses
           /\ \A x \in W!Statuses : \E n, k :
                  IsStatus(n, k) /\ x = RowOf(W!VehicleStatus, DataSource(n), k)
<1>1. PICK b : b = W!VehicleStatus
  OBVIOUS
<1>2. /\ Logged /\ ReaderPhases /\ RowsOfMessages /\ N \in Nat
      /\ \A g \in DOMAIN groups :
             /\ Len(groups[g].rows) \in Nat
             /\ DOMAIN groups[g].rows = 1 .. Len(groups[g].rows)
  BY InvariantParts
<1>3. batches = [g \in DOMAIN groups |-> R!build_record_batch(groups[g])]
  BY <1>2 DEF ReaderPhases
<1>4. b \in DOMAIN groups /\ batches[b] = R!build_record_batch(groups[b])
  BY <1>1, <1>3
<1>5. PICK len \in Nat : len = Len(groups[b].rows) /\ DOMAIN groups[b].rows = 1 .. len
  BY <1>2, <1>4
<1>6. PICK rows : rows = batches[b]
  OBVIOUS
<1>7. DOMAIN rows = 1 .. len
  BY <1>4, <1>5, <1>6 DEF R!build_record_batch
<1>8. W!Statuses = {rows[x] : x \in 1 .. len}
  BY <1>1, <1>6, <1>7 DEF W!Statuses, W!Range
<1>9. IsFiniteSet(W!Statuses)
  <2>1. PICK f : f = [x \in 1 .. len |-> rows[x]]
    OBVIOUS
  <2>2. f \in Surjection(1 .. len, W!Statuses)
    BY <1>8, <2>1 DEF Surjection
  <2>3. IsFiniteSet(1 .. len)
    <3>1. 1 \in Int /\ len \in Int
      OBVIOUS
    <3> QED BY <3>1, FS_Interval
  <2> QED BY <2>2, <2>3, FS_Surjection
<1>10. ASSUME NEW n, NEW k, IsStatus(n, k)
       PROVE  RowOf(b, DataSource(n), k) \in W!Statuses
  <2>1. TableOf(n) = b /\ n \in 1 .. N + 4
    BY <1>1, <1>2, <1>10 DEF IsStatus, TableOf
  <2>2. k \in 1 .. Len(Streams[n]) /\ Streams[n][k].record = [source |-> DataSource(n), row |-> k]
    BY <1>2, <1>10, DataRecords DEF IsStatus
  <2>3. PICK i \in DOMAIN groups[b].rows :
            RowOf(b, DataSource(n), k) = R!build_record_batch(groups[b])[i]
    BY <2>1, <2>2, RowOfIs
  <2> QED BY <1>4, <1>5, <1>6, <1>8, <2>3
<1>11. ASSUME NEW x \in W!Statuses
       PROVE  \E n, k : IsStatus(n, k) /\ x = RowOf(b, DataSource(n), k)
  <2>1. PICK i \in 1 .. len : x = rows[i]
    BY <1>8
  <2>2. PICK s \in 1 .. N + 4 :
            GroupIs(b, s) /\ \E j \in 1 .. Len(Streams[s]) : RowIs(groups[b].rows[i], s, j)
    BY <1>4, <1>5, RowIsOfRecord
  <2>3. PICK j \in 1 .. Len(Streams[s]) : RowIs(groups[b].rows[i], s, j)
    BY <2>2
  <2>4. TableOf(s) = b
    BY <2>2 DEF GroupIs
  <2>5. s \in 1 .. N
    <3>1. b \notin FixedTopic
      BY <1>1 DEF W!VehicleStatus, FixedTopic, LogsTopic, ParameterChangesTopic, TrajectoryTopic
    <3>2. s \notin 1 .. N => TopicOf(s) \in FixedTopic
      BY DEF TopicOf, FixedTopic
    <3> QED BY <2>4, <3>1, <3>2 DEF TableOf
  <2>6. ulog.data_list[s].name = b /\ j \in 1 .. Len(ulog.data_list[s].records)
        /\ Streams[s][j].record = [source |-> DataSource(s), row |-> j]
    BY <1>2, <2>3, <2>4, <2>5, DataRecords DEF TableOf
  <2>7. PICK h \in DOMAIN groups[b].rows :
            /\ RowIs(groups[b].rows[h], s, j)
            /\ RowOf(b, DataSource(s), j) = R!build_record_batch(groups[b])[h]
    BY <2>3, <2>4, <2>6, RowOfIs
  <2>8. h = i
    <3>1. groups[b].rows[h].record = groups[b].rows[i].record
      BY <2>3, <2>7 DEF RowIs
    <3>2. \A y, z \in 1 .. len : groups[b].rows[y].record = groups[b].rows[z].record => y = z
      BY <1>2, <1>4, <1>5 DEF RowsOfMessages
    <3> QED BY <1>5, <2>7, <3>1, <3>2
  <2>9. IsStatus(s, j)
    BY <1>1, <2>5, <2>6 DEF IsStatus
  <2> QED BY <1>4, <1>6, <2>1, <2>7, <2>8, <2>9
<1> QED BY <1>1, <1>9, <1>10, <1>11

LEMMA StatusRecordsAre ==
    ASSUME Logged
    PROVE  /\ \A r \in StatusRecords : \E n, k : IsStatus(n, k) /\ r = ulog.data_list[n].records[k]
           /\ \A n, k : IsStatus(n, k) => ulog.data_list[n].records[k] \in StatusRecords
<1>1. /\ Sequence(ulog.data_list) /\ N \in Nat
      /\ \A n \in 1 .. N : ulog.data_list[n] \in ToSet(ulog.data_list) /\ Sequence(ulog.data_list[n].records)
  BY LogFacts DEF Logged, N
<1>2. ASSUME NEW r \in StatusRecords
      PROVE  \E n, k : IsStatus(n, k) /\ r = ulog.data_list[n].records[k]
  <2>1. PICK d \in ToSet(ulog.data_list) : d.name = W!VehicleStatus /\ r \in ToSet(d.records)
    BY DEF StatusRecords
  <2>2. PICK n \in 1 .. N : ulog.data_list[n] = d
    BY <1>1, <2>1, SequenceFacts DEF N
  <2>3. PICK k \in 1 .. Len(d.records) : d.records[k] = r
    BY <1>1, <2>1, <2>2, SequenceFacts
  <2> QED BY <2>1, <2>2, <2>3 DEF IsStatus
<1>3. ASSUME NEW n, NEW k, IsStatus(n, k)
      PROVE  ulog.data_list[n].records[k] \in StatusRecords
  <2>1. PICK d : d = ulog.data_list[n]
    OBVIOUS
  <2>2. d \in ToSet(ulog.data_list) /\ d.name = W!VehicleStatus
    BY <1>1, <1>3, <2>1 DEF IsStatus
  <2>3. d.records[k] \in ToSet(d.records)
    BY <1>1, <1>3, <2>1, SequenceFacts DEF IsStatus
  <2> QED BY <2>1, <2>2, <2>3 DEF StatusRecords
<1> QED BY <1>2, <1>3

\* The span of rows is told by the times of their records.
LEMMA SpanTells ==
    ASSUME NEW rows, IsFiniteSet(rows), NEW records,
           \A r \in records : \E x \in rows : StatusRow(x, r),
           \A x \in rows : \E r \in records : StatusRow(x, r)
    PROVE  Tells(W!Span(rows), records)
<1>1. PICK S, T : /\ S = {TimeOf(r) : r \in records} /\ T = {x[<<"log", "time">>] : x \in rows}
  OBVIOUS
<1>2. PICK us : us = Max(S) - Min(S)
  OBVIOUS
<1>3. SUFFICES ASSUME records # {}, us # 60 * Second, us < 3600 * Second
               PROVE  W!Span(rows)[1] * 60 + W!Span(rows)[2] = us \div Second
  BY <1>1, <1>2 DEF Tells
<1>4. S # {} /\ rows # {} /\ Anchor \in Int
  BY <1>1, <1>3, ClockAssumption
<1>5. S \in SUBSET Nat
  <2>1. \A r \in records : TimeOf(r) \in Nat
    BY DEF StatusRow
  <2> QED BY <1>1, <2>1
<1>6. \A t : t \in T <=> \E e \in S : t = Anchor + e
  <2>1. ASSUME NEW t \in T PROVE \E e \in S : t = Anchor + e
    <3>1. PICK x \in rows : t = x[<<"log", "time">>]
      BY <1>1
    <3>2. PICK r \in records : StatusRow(x, r)
      OBVIOUS
    <3> QED BY <1>1, <3>1, <3>2 DEF StatusRow
  <2>2. ASSUME NEW e \in S PROVE Anchor + e \in T
    <3>1. PICK r \in records : e = TimeOf(r)
      BY <1>1
    <3>2. PICK x \in rows : StatusRow(x, r)
      OBVIOUS
    <3>3. x[<<"log", "time">>] = Anchor + e
      BY <3>1, <3>2 DEF StatusRow
    <3> QED BY <1>1, <3>3
  <2> QED BY <2>1, <2>2
<1>7. IsFiniteSet(S)
  <2>1. PICK f : f = [x \in rows |-> x[<<"log", "time">>] - Anchor]
    OBVIOUS
  <2>2. ASSUME NEW x \in rows PROVE f[x] \in S
    <3>1. PICK r \in records : StatusRow(x, r)
      OBVIOUS
    <3>2. TimeOf(r) \in S
      BY <1>1
    <3>3. PICK e \in Nat : e = TimeOf(r)
      BY <3>1 DEF StatusRow
    <3>4. x[<<"log", "time">>] = Anchor + e
      BY <3>1, <3>3 DEF StatusRow
    <3>5. f[x] = e
      BY <1>4, <2>1, <3>4
    <3> QED BY <3>2, <3>3, <3>5
  <2>3. ASSUME NEW e \in S PROVE \E x \in rows : f[x] = e
    <3>1. PICK r \in records : e = TimeOf(r)
      BY <1>1
    <3>2. PICK x \in rows : StatusRow(x, r)
      OBVIOUS
    <3>3. x[<<"log", "time">>] = Anchor + e /\ e \in Nat
      BY <3>1, <3>2 DEF StatusRow
    <3> QED BY <1>4, <2>1, <3>3
  <2>4. f \in Surjection(rows, S)
    BY <2>1, <2>2, <2>3 DEF Surjection
  <2> QED BY <2>4, FS_Surjection
<1>8. Max(S) \in Nat /\ Min(S) \in Nat /\ Max(S) >= Min(S) /\ Max(T) - Min(T) = us
  BY <1>2, <1>4, <1>5, <1>6, <1>7, Extremes
<1>9. us \in Nat
  BY <1>2, <1>8
<1>10. W!Max(T) = Max(T) /\ W!Min(T) = Min(T)
  BY DEF W!Max, W!Min, Max, Min
<1>11. W!Span(rows) = W!format_duration(us)
  BY <1>1, <1>4, <1>8, <1>10 DEF W!Span
<1> QED BY <1>3, <1>9, <1>11, DurationShown

LEMMA DurationsTell ==
    ASSUME LogInvariant, reading = "encoded", W!VehicleStatus \in DOMAIN batches
    PROVE  Tells(W!duration, StatusRecords) /\ Tells(W!armed_duration, ArmedRecords)
<1>1. Logged
  BY InvariantParts
<1>2. PICK rows : rows = W!Statuses
  OBVIOUS
<1>3. IsFiniteSet(rows)
  BY <1>2, StatusRows
<1>4. ASSUME NEW r \in StatusRecords PROVE \E x \in rows : StatusRow(x, r)
  <2>1. PICK n, k : IsStatus(n, k) /\ r = ulog.data_list[n].records[k]
    BY <1>1, StatusRecordsAre
  <2>2. RowOf(W!VehicleStatus, DataSource(n), k) \in rows
    BY <1>2, <2>1, StatusRows
  <2>3. StatusRow(RowOf(W!VehicleStatus, DataSource(n), k), r)
    BY <2>1, RowOfStatus
  <2> QED BY <2>2, <2>3
<1>5. ASSUME NEW x \in rows PROVE \E r \in StatusRecords : StatusRow(x, r)
  <2>1. PICK n, k : IsStatus(n, k) /\ x = RowOf(W!VehicleStatus, DataSource(n), k)
    BY <1>2, StatusRows
  <2>2. ulog.data_list[n].records[k] \in StatusRecords
    BY <1>1, <2>1, StatusRecordsAre
  <2>3. StatusRow(x, ulog.data_list[n].records[k])
    BY <2>1, RowOfStatus
  <2> QED BY <2>2, <2>3
<1>6. Tells(W!duration, StatusRecords)
  <2>1. Tells(W!Span(rows), StatusRecords)
    BY <1>3, <1>4, <1>5, SpanTells
  <2> QED BY <1>2, <2>1 DEF W!duration
<1>7. Tells(W!armed_duration, ArmedRecords)
  <2>1. PICK armed : armed = {x \in rows : x[<<"arming", "state">>] = 2}
    OBVIOUS
  <2>2. ArmedRecords = {r \in StatusRecords : r[Arming.name] = 2}
    BY DEF ArmedRecords, Arming
  <2>3. IsFiniteSet(armed)
    BY <1>3, <2>1, FS_Subset
  <2>4. ASSUME NEW r \in ArmedRecords PROVE \E x \in armed : StatusRow(x, r)
    <3>1. r \in StatusRecords /\ r[Arming.name] = 2
      BY <2>2
    <3>2. PICK x \in rows : StatusRow(x, r)
      BY <1>4, <3>1
    <3>3. x[<<"arming", "state">>] = 2
      BY <3>1, <3>2 DEF StatusRow
    <3> QED BY <2>1, <3>2, <3>3
  <2>5. ASSUME NEW x \in armed PROVE \E r \in ArmedRecords : StatusRow(x, r)
    <3>1. x \in rows /\ x[<<"arming", "state">>] = 2
      BY <2>1
    <3>2. PICK r \in StatusRecords : StatusRow(x, r)
      BY <1>5, <3>1
    <3>3. r[Arming.name] = 2
      BY <3>1, <3>2 DEF StatusRow
    <3> QED BY <2>2, <3>2, <3>3
  <2>6. Tells(W!Span(armed), ArmedRecords)
    BY <2>3, <2>4, <2>5, SpanTells
  <2> QED BY <1>2, <2>1, <2>6 DEF W!armed_duration
<1> QED BY <1>6, <1>7

LogSource == [kind |-> "log", n |-> 0]

TaggedSource(tag) == [kind |-> "tagged", n |-> tag]

LogRecord(j) == [source |-> LogSource, row |-> j]

TaggedRecord(p) == [source |-> TaggedSource(p[1]), row |-> p[2]]

\* Of the levels only ERROR is called so in the lake.
LEMMA LevelIsError ==
    ASSUME NEW level
    PROVE  R!ArrowValue("enum", _PX4_TO_FOXGLOVE_LOG_LEVEL(level)) = "ERROR" <=> level = "ERROR"
<1>1. PICK v : v = _PX4_TO_FOXGLOVE_LOG_LEVEL(level)
  OBVIOUS
<1>2. v \in {0, 1, 2, 3, 5} \/ v = 4
  BY <1>1 DEF _PX4_TO_FOXGLOVE_LOG_LEVEL
<1>3. v = 4 <=> level = "ERROR"
  BY <1>1 DEF _PX4_TO_FOXGLOVE_LOG_LEVEL
<1>4. /\ R!LogLevelName[1] = "UNKNOWN" /\ R!LogLevelName[2] = "DEBUG" /\ R!LogLevelName[3] = "INFO"
      /\ R!LogLevelName[4] = "WARNING" /\ R!LogLevelName[5] = "ERROR" /\ R!LogLevelName[6] = "FATAL"
      /\ DOMAIN R!LogLevelName = 1 .. 6
  BY DEF R!LogLevelName
<1>5. R!ArrowValue("enum", v) = R!LogLevelName[v + 1]
  <2>1. v + 1 \in 1 .. 6
    BY <1>2
  <2> QED BY <1>4, <2>1 DEF R!ArrowValue
<1>6. R!LogLevelName[v + 1] = "ERROR" <=> v = 4
  BY <1>2, <1>4
<1> QED BY <1>1, <1>3, <1>5, <1>6

LEMMA OneToOne ==
    ASSUME NEW A, IsFiniteSet(A), NEW B, NEW f \in [A -> B],
           \A x, y \in A : f[x] = f[y] => x = y,
           \A b \in B : \E x \in A : f[x] = b
    PROVE  IsFiniteSet(B) /\ Cardinality(A) = Cardinality(B)
<1>1. f \in Surjection(A, B)
  BY DEF Surjection
<1>2. f \in Injection(A, B)
  BY DEF Injection, IsInjective
<1> QED BY <1>1, <1>2, FS_Surjection

\* The table of logged_messages has a level.
RowLevel(k) == batches[LogsTopic][k][<<"level">>]

LogOnly == \A d \in ToSet(ulog.data_list) : d.name # LogsTopic

\* A row of the table is that of a message, and says if it is an error.
LEMMA MessageRow ==
    ASSUME LogInvariant, reading = "encoded", LogOnly, LogsTopic \in DOMAIN groups,
           NEW k \in DOMAIN groups[LogsTopic].rows
    PROVE  LET record == groups[LogsTopic].rows[k].record IN
           \/ \E j \in DOMAIN ulog.logged_messages :
                  record = LogRecord(j) /\ (RowLevel(k) = "ERROR" <=> j \in LogErrors)
           \/ \E p \in Tagged :
                  record = TaggedRecord(p) /\ (RowLevel(k) = "ERROR" <=> p \in TaggedErrors)
<1>1. Logged /\ N \in Nat /\ k \in 1 .. Len(groups[LogsTopic].rows)
  BY InvariantParts
<1>2. PICK s \in 1 .. N + 4 : GroupIs(LogsTopic, s)
                              /\ \E j \in 1 .. Len(Streams[s]) : RowIs(groups[LogsTopic].rows[k], s, j)
  BY <1>1, RowIsOfRecord
<1>3. PICK j \in 1 .. Len(Streams[s]) : RowIs(groups[LogsTopic].rows[k], s, j)
  BY <1>2
<1>4. s \in {N + 1, N + 2}
  <2>1. TableOf(s) = LogsTopic
    BY <1>2 DEF GroupIs
  <2>2. s \notin 1 .. N
    <3>1. s \in 1 .. N => ulog.data_list[s] \in ToSet(ulog.data_list)
      BY <1>1, LogFacts DEF Logged, N
    <3> QED BY <2>1, <3>1 DEF LogOnly, TableOf
  <2>3. TopicOf(s) = LogsTopic
    BY <2>1, <2>2 DEF TableOf
  <2>4. s # N + 3 /\ s # N + 4
    <3>1. LogsTopic # ParameterChangesTopic /\ LogsTopic # TrajectoryTopic
      BY DEF LogsTopic, ParameterChangesTopic, TrajectoryTopic
    <3>2. /\ s = N + 3 => TopicOf(s) = ParameterChangesTopic
          /\ s = N + 4 => TopicOf(s) = TrajectoryTopic
      BY <1>1, <2>2 DEF TopicOf
    <3> QED BY <2>3, <3>1, <3>2
  <2> QED BY <1>1, <2>2, <2>4
<1>5. PICK record : record = groups[LogsTopic].rows[k].record
  OBVIOUS
<1>6. record = Streams[s][j].record
  BY <1>3, <1>5 DEF RowIs
<1>7. PICK level : level = RowLevel(k)
  OBVIOUS
<1>8. level = R!ArrowValue("enum", Streams[s][j].payload.level)
  BY <1>3, <1>4, <1>7, LogRow DEF RowLevel
<1>9. CASE s = N + 1
  <2>1. /\ Len(Streams[N + 1]) = Len(ulog.logged_messages)
        /\ Streams[N + 1][j].record = [source |-> [kind |-> "log", n |-> 0], row |-> j]
        /\ Streams[N + 1][j].payload.level = _PX4_TO_FOXGLOVE_LOG_LEVEL(ulog.logged_messages[j].level)
    BY <1>1, <1>9, LogRecords
  <2>2. j \in DOMAIN ulog.logged_messages
    <3>1. Sequence(ulog.logged_messages)
      BY <1>1, UlogAssumption DEF Logged
    <3> QED BY <1>9, <2>1, <3>1, SequenceFacts
  <2>3. record = LogRecord(j)
    BY <1>6, <1>9, <2>1 DEF LogRecord, LogSource
  <2>4. level = "ERROR" <=> ulog.logged_messages[j].level = "ERROR"
    BY <1>8, <1>9, <2>1, LevelIsError
  <2>5. level = "ERROR" <=> j \in LogErrors
    BY <2>2, <2>4 DEF LogErrors
  <2> QED BY <1>5, <1>7, <2>2, <2>3, <2>5
<1>10. CASE s = N + 2
  <2>1. PICK tag, row : tag = Streams[N + 2][j].record.source.n /\ row = Streams[N + 2][j].record.row
    OBVIOUS
  <2>2. /\ Streams[N + 2][j].record = [source |-> [kind |-> "tagged", n |-> tag], row |-> row]
        /\ <<tag, row>> \in Tagged
        /\ Streams[N + 2][j].payload.level
               = _PX4_TO_FOXGLOVE_LOG_LEVEL(ulog.logged_messages_tagged[tag][row].level)
    BY <1>1, <1>10, <2>1, LogRecords
  <2>3. record = TaggedRecord(<<tag, row>>)
    BY <1>6, <1>10, <2>2 DEF TaggedRecord, TaggedSource
  <2>4. level = "ERROR" <=> ulog.logged_messages_tagged[tag][row].level = "ERROR"
    BY <1>8, <1>10, <2>2, LevelIsError
  <2>5. level = "ERROR" <=> <<tag, row>> \in TaggedErrors
    BY <2>2, <2>4 DEF TaggedErrors
  <2> QED BY <1>5, <1>7, <2>2, <2>3, <2>5
<1> QED BY <1>4, <1>9, <1>10

\* And every message has its row.
LEMMA MessageHasRow ==
    ASSUME LogInvariant, reading = "encoded"
    PROVE  /\ \A j \in DOMAIN ulog.logged_messages :
                  /\ LogsTopic \in DOMAIN groups
                  /\ \E k \in DOMAIN groups[LogsTopic].rows :
                         groups[LogsTopic].rows[k].record = LogRecord(j)
           /\ \A p \in Tagged :
                  /\ LogsTopic \in DOMAIN groups
                  /\ \E k \in DOMAIN groups[LogsTopic].rows :
                         groups[LogsTopic].rows[k].record = TaggedRecord(p)
<1>1. /\ Logged /\ Sorted /\ N \in Nat /\ N + 1 \in 1 .. N + 4 /\ N + 2 \in 1 .. N + 4
      /\ \A b \in DOMAIN groups : DOMAIN groups[b].rows = 1 .. Len(groups[b].rows)
  BY InvariantParts DEF Sorted
<1>2. TableOf(N + 1) = LogsTopic /\ TableOf(N + 2) = LogsTopic
  BY <1>1, OwnCodecs
<1>3. ASSUME NEW j \in DOMAIN ulog.logged_messages
      PROVE  /\ LogsTopic \in DOMAIN groups
             /\ \E k \in DOMAIN groups[LogsTopic].rows :
                    groups[LogsTopic].rows[k].record = LogRecord(j)
  <2>1. Sequence(ulog.logged_messages)
    BY <1>1, UlogAssumption DEF Logged
  <2>2. j \in 1 .. Len(Streams[N + 1])
    BY <1>1, <2>1, SequenceFacts, LogRecords
  <2>3. Streams[N + 1][j].record = LogRecord(j)
    BY <1>1, <2>2, LogRecords DEF LogRecord, LogSource
  <2>4. /\ TableOf(N + 1) \in DOMAIN groups
        /\ \E i \in 1 .. Len(groups[TableOf(N + 1)].rows) :
               groups[TableOf(N + 1)].rows[i].record = Streams[N + 1][j].record
    BY <1>1, <2>2, RecordHasRow
  <2> QED BY <1>1, <1>2, <2>3, <2>4
<1>4. ASSUME NEW p \in Tagged
      PROVE  /\ LogsTopic \in DOMAIN groups
             /\ \E k \in DOMAIN groups[LogsTopic].rows :
                    groups[LogsTopic].rows[k].record = TaggedRecord(p)
  <2>1. PICK j \in 1 .. Len(Streams[N + 2]) : Streams[N + 2][j].record = TaggedRecord(p)
    BY <1>1, LogRecords DEF TaggedRecord, TaggedSource
  <2>2. /\ TableOf(N + 2) \in DOMAIN groups
        /\ \E i \in 1 .. Len(groups[TableOf(N + 2)].rows) :
               groups[TableOf(N + 2)].rows[i].record = Streams[N + 2][j].record
    BY <1>1, RecordHasRow
  <2> QED BY <1>1, <1>2, <2>1, <2>2
<1> QED BY <1>3, <1>4

LEMMA RecordsOfKind ==
    /\ \A j : LogRecord(j).source.kind = "log" /\ LogRecord(j).row = j
    /\ \A p : /\ TaggedRecord(p).source.kind = "tagged"
              /\ TaggedRecord(p).source.n = p[1] /\ TaggedRecord(p).row = p[2]
<1>1. ASSUME NEW j PROVE LogRecord(j).source.kind = "log" /\ LogRecord(j).row = j
  BY DEF LogRecord, LogSource
<1>2. ASSUME NEW p
      PROVE  /\ TaggedRecord(p).source.kind = "tagged"
             /\ TaggedRecord(p).source.n = p[1] /\ TaggedRecord(p).row = p[2]
  BY DEF TaggedRecord, TaggedSource
<1> QED BY <1>1, <1>2

\* The rows that the view counts are as many as the errors.
LEMMA ErrorsCounted ==
    ASSUME LogInvariant, reading = "encoded", LogOnly, LogsTopic \in DOMAIN groups
    PROVE  Cardinality({k \in DOMAIN groups[LogsTopic].rows : RowLevel(k) = "ERROR"})
               = Cardinality(LogErrors) + Cardinality(TaggedErrors)
<1>1. PICK rows, len : rows = groups[LogsTopic].rows /\ len = Len(rows)
  OBVIOUS
<1>2. /\ DOMAIN rows = 1 .. len /\ len \in Nat /\ Logged
      /\ \A x, y \in 1 .. len : rows[x].record = rows[y].record => x = y
  BY <1>1, InvariantParts DEF RowsOfMessages
<1>3. PICK A, B : /\ A = {k \in 1 .. len : RowLevel(k) = "ERROR" /\ rows[k].record.source.kind = "log"}
                  /\ B = {k \in 1 .. len : RowLevel(k) = "ERROR" /\ rows[k].record.source.kind = "tagged"}
  OBVIOUS
<1>4. \A k \in 1 .. len :
          \/ \E j \in DOMAIN ulog.logged_messages :
                 rows[k].record = LogRecord(j) /\ (RowLevel(k) = "ERROR" <=> j \in LogErrors)
          \/ \E p \in Tagged :
                 rows[k].record = TaggedRecord(p) /\ (RowLevel(k) = "ERROR" <=> p \in TaggedErrors)
  BY <1>1, <1>2, MessageRow
<1>5. {k \in 1 .. len : RowLevel(k) = "ERROR"} = A \cup B /\ A \cap B = {}
  <2>1. \A k \in 1 .. len : rows[k].record.source.kind \in {"log", "tagged"}
    BY <1>4, RecordsOfKind
  <2> QED BY <1>3, <2>1
<1>6. IsFiniteSet(A) /\ IsFiniteSet(B)
  <2>1. 1 \in Int /\ len \in Int
    BY <1>2
  <2>2. IsFiniteSet(1 .. len)
    BY <2>1, FS_Interval
  <2> QED BY <1>3, <2>2, FS_Subset
<1>7. Cardinality(A) = Cardinality(LogErrors)
  <2>1. PICK f : f = [k \in A |-> rows[k].record.row]
    OBVIOUS
  <2>2. ASSUME NEW k \in A
        PROVE  f[k] \in LogErrors /\ rows[k].record = LogRecord(f[k])
    <3>1. k \in 1 .. len /\ RowLevel(k) = "ERROR" /\ rows[k].record.source.kind = "log"
      BY <1>3
    <3>2. PICK j \in DOMAIN ulog.logged_messages : rows[k].record = LogRecord(j) /\ j \in LogErrors
      BY <1>4, <3>1, RecordsOfKind
    <3>3. f[k] = j
      BY <2>1, <3>2, RecordsOfKind
    <3> QED BY <3>2, <3>3
  <2>3. f \in [A -> LogErrors]
    BY <2>1, <2>2
  <2>4. ASSUME NEW x \in A, NEW y \in A, f[x] = f[y] PROVE x = y
    <3>1. rows[x].record = rows[y].record
      BY <2>2, <2>4
    <3> QED BY <1>2, <1>3, <3>1
  <2>5. ASSUME NEW j \in LogErrors PROVE \E k \in A : f[k] = j
    <3>1. j \in DOMAIN ulog.logged_messages
      BY DEF LogErrors
    <3>2. PICK k \in 1 .. len : rows[k].record = LogRecord(j)
      BY <1>1, <1>2, <3>1, MessageHasRow
    <3>3. rows[k].record.source.kind = "log"
      BY <3>2, RecordsOfKind
    <3>4. PICK i \in DOMAIN ulog.logged_messages :
              rows[k].record = LogRecord(i) /\ (RowLevel(k) = "ERROR" <=> i \in LogErrors)
      <4>1. ASSUME NEW p \in Tagged PROVE rows[k].record # TaggedRecord(p)
        <5>1. TaggedRecord(p).source.kind # "log"
          BY RecordsOfKind
        <5> QED BY <3>3, <5>1
      <4> QED BY <1>4, <4>1
    <3>5. i = j
      <4>1. LogRecord(i).row = i /\ LogRecord(j).row = j
        BY RecordsOfKind
      <4> QED BY <3>2, <3>4, <4>1
    <3>6. k \in A
      BY <1>3, <3>3, <3>4, <3>5
    <3> QED BY <2>1, <3>2, <3>6, RecordsOfKind
  <2> QED BY <1>6, <2>3, <2>4, <2>5, OneToOne
<1>8. Cardinality(B) = Cardinality(TaggedErrors)
  <2>1. PICK f : f = [k \in B |-> <<rows[k].record.source.n, rows[k].record.row>>]
    OBVIOUS
  <2>2. \A p \in Tagged : p = <<p[1], p[2]>>
    BY DEF Tagged
  <2>3. ASSUME NEW k \in B
        PROVE  f[k] \in TaggedErrors /\ rows[k].record = TaggedRecord(f[k])
    <3>1. k \in 1 .. len /\ RowLevel(k) = "ERROR" /\ rows[k].record.source.kind = "tagged"
      BY <1>3
    <3>2. PICK p \in Tagged : rows[k].record = TaggedRecord(p) /\ p \in TaggedErrors
      BY <1>4, <3>1, RecordsOfKind
    <3>3. f[k] = <<p[1], p[2]>>
      BY <2>1, <3>2, RecordsOfKind
    <3> QED BY <2>2, <3>2, <3>3
  <2>4. f \in [B -> TaggedErrors]
    BY <2>1, <2>3
  <2>5. ASSUME NEW x \in B, NEW y \in B, f[x] = f[y] PROVE x = y
    <3>1. rows[x].record = rows[y].record
      BY <2>3, <2>5
    <3> QED BY <1>2, <1>3, <3>1
  <2>6. ASSUME NEW p \in TaggedErrors PROVE \E k \in B : f[k] = p
    <3>1. p \in Tagged
      BY DEF TaggedErrors
    <3>2. PICK k \in 1 .. len : rows[k].record = TaggedRecord(p)
      BY <1>1, <1>2, <3>1, MessageHasRow
    <3>3. rows[k].record.source.kind = "tagged"
      BY <3>2, RecordsOfKind
    <3>4. PICK q \in Tagged :
              rows[k].record = TaggedRecord(q) /\ (RowLevel(k) = "ERROR" <=> q \in TaggedErrors)
      BY <1>4, <3>3, RecordsOfKind
    <3>5. p = q
      <4>1. p[1] = q[1] /\ p[2] = q[2]
        BY <3>2, <3>4, RecordsOfKind
      <4> QED BY <2>2, <3>1, <4>1
    <3>6. k \in B
      BY <1>3, <3>3, <3>4, <3>5
    <3>7. f[k] = <<p[1], p[2]>>
      BY <2>1, <3>2, <3>6, RecordsOfKind
    <3> QED BY <2>2, <3>1, <3>6, <3>7
  <2> QED BY <1>6, <2>4, <2>5, <2>6, OneToOne
<1>9. Cardinality(A \cup B) = Cardinality(A) + Cardinality(B)
  <2>1. Cardinality(A \cup B) = Cardinality(A) + Cardinality(B) - Cardinality(A \cap B)
    BY <1>6, FS_Union
  <2>2. Cardinality(A) \in Nat /\ Cardinality(B) \in Nat /\ Cardinality(A \cap B) = 0
    BY <1>5, <1>6, FS_CardinalityType, FS_EmptySet
  <2> QED BY <2>1, <2>2
<1> QED BY <1>1, <1>2, <1>5, <1>7, <1>8, <1>9

LEMMA ErrorCountTells ==
    ASSUME LogInvariant, reading = "encoded", LogOnly
    PROVE  W!error_count = Cardinality(LogErrors) + Cardinality(TaggedErrors)
<1>1. batches = [g \in DOMAIN groups |-> R!build_record_batch(groups[g])]
  BY InvariantParts DEF ReaderPhases
<1>2. W!LoggedMessages = LogsTopic
  BY DEF W!LoggedMessages, LogsTopic
<1>3. CASE LogsTopic \in DOMAIN groups
  <2>1. DOMAIN batches[LogsTopic] = DOMAIN groups[LogsTopic].rows /\ LogsTopic \in DOMAIN batches
    BY <1>1, <1>3 DEF R!build_record_batch
  <2>2. W!error_count = Cardinality({k \in DOMAIN batches[LogsTopic] : RowLevel(k) = "ERROR"})
    <3>1. PICK S : S = {k \in DOMAIN batches[W!LoggedMessages] :
                           batches[W!LoggedMessages][k][<<"level">>] = "ERROR"}
      OBVIOUS
    <3>2. W!Cardinality(S) = Cardinality(S)
      BY DEF W!Cardinality, Cardinality
    <3>3. W!error_count = IF W!LoggedMessages \in DOMAIN batches THEN W!Cardinality(S) ELSE 0
      BY <3>1, Zenon DEF W!error_count
    <3>4. S = {k \in DOMAIN batches[LogsTopic] : RowLevel(k) = "ERROR"}
      BY <1>2, <3>1 DEF RowLevel
    <3> QED BY <1>2, <2>1, <3>2, <3>3, <3>4
  <2> QED BY <1>3, <2>1, <2>2, ErrorsCounted
<1>4. CASE LogsTopic \notin DOMAIN groups
  <2>1. LogErrors = {} /\ TaggedErrors = {}
    BY <1>4, MessageHasRow DEF LogErrors, TaggedErrors
  <2>2. W!error_count = 0
    BY <1>1, <1>2, <1>4 DEF W!error_count
  <2> QED BY <2>1, <2>2, FS_EmptySet
<1> QED BY <1>3, <1>4

\* What the view says of any flight is so: it has as many errors as its log has messages
\* of the level ERROR, and its durations are those of the log, to the second and when
\* they are below an hour and no whole minute.
THEOREM FlightsTellOfTheLog == FlightSpec => []FlightsTellTheLog
<1>1. ASSUME LogInvariant PROVE FlightsTellTheLog
  BY <1>1, ErrorCountTells, DurationsTell DEF FlightsTellTheLog, LogOnly
<1> QED BY <1>1, LogInvariantHolds, PTL
=============================================================================
