----------------------------- MODULE FlightLogMC -----------------------------
(* Small ULogs for FlightLog. *)
EXTENDS FlightLog, TLC

MCDigits == (0 :> "0") @@ (1 :> "1")

MCU8 == ("0" :> 0) @@ ("1" :> 1)

\* The letters of the words.
MCJsonName(name) == FoldLeft(LAMBDA a, b : a \o b, "", name)

-----------------------------------------------------------------------------
(* Message definitions *)

One(id) == [id |-> id, idx |-> NoIndex]

Item(id, i) == [id |-> id, idx |-> i]

Field(name, type_str) == [name |-> name, type_str |-> type_str]

Timestamp == <<Field(<<One(<<"timestamp">>)>>, "uint64_t")>>

Scalar(id, type_str) == <<Field(<<One(id)>>, type_str)>>

ArrayOf(id, len, type_str) ==
    [k \in 1 .. len |-> Field(<<Item(id, k - 1)>>, type_str)]

\* Two structs, each with a number, a name of two characters and an array.
Structs ==
    FlattenSeq([k \in 1 .. 2 |->
        <<Field(<<Item(<<"esc">>, k - 1), One(<<"rpm">>)>>, "int32_t"),
          Field(<<Item(<<"esc">>, k - 1), Item(<<"name">>, 0)>>, "char"),
          Field(<<Item(<<"esc">>, k - 1), Item(<<"name">>, 1)>>, "char"),
          Field(<<Item(<<"esc">>, k - 1), Item(<<"current">>, 0)>>, "float")>>])

SensorFields ==
    Timestamp \o Scalar(<<"x">>, "double") \o Scalar(<<"y">>, "double") \o Scalar(<<"z">>, "double")

\* The same names in another order, so with other numbers.
SwappedFields == Reverse(SensorFields)

\* One of each width, at both ends of its range.
WidthFields ==
    Timestamp \o Scalar(<<"a">>, "int32_t") \o Scalar(<<"b">>, "uint32_t")
              \o Scalar(<<"c">>, "int64_t") \o Scalar(<<"d">>, "uint64_t")
              \o Scalar(<<"e">>, "bool")

StatusFields == Timestamp \o Scalar(<<"arming", "state">>, "uint8_t")

EscFields == Timestamp \o Structs \o ArrayOf(<<"control">>, 2, "float")

NameFields == Timestamp \o ArrayOf(<<"device", "id">>, 2, "char")

\* fix.x and fix_x.
ClashFields ==
    Timestamp \o <<Field(<<One(<<"fix">>), One(<<"x">>)>>, "bool")>>
              \o Scalar(<<"fix", "x">>, "bool")

\* One character, which is no array.
CharFields == Timestamp \o Scalar(<<"mode">>, "char")

-----------------------------------------------------------------------------
(* Logs *)

\* The record of a time whose other cells have a value of their own.
Record(field_data, time, Value(_)) ==
    [c \in {f.name : f \in ToSet(field_data)} |-> IF c = Cell(<<"timestamp">>) THEN time ELSE Value(c)]

Data(name, multi_id, field_data, records) ==
    [name |-> name, multi_id |-> multi_id, field_data |-> field_data, records |-> records]

\* Records of which the first has no number in its cell x.
Records(field_data, times) ==
    [k \in DOMAIN times |-> Record(field_data, times[k],
        LAMBDA c : IF k = 1 /\ c = Cell(<<"x">>) THEN NaN ELSE Len(times) * k + c[1].idx)]

Message(time, level) == [timestamp |-> time, level |-> level, message |-> "text"]

Change(time, int, value) ==
    [timestamp |-> time, name |-> "parameter", int |-> int, value |-> value]

Log(data_list, logged_messages, tagged, changed_parameters) ==
    [data_list |-> data_list, logged_messages |-> logged_messages,
     logged_messages_tagged |-> tagged, changed_parameters |-> changed_parameters]

TopicLog(name, field_data, records) ==
    Log(<<Data(name, 0, field_data, records)>>, <<>>, <<>>, <<>>)

Times == {<<1, 2>>, <<2, 1>>, <<1, 1>>}

\* Instances of one type around one of another type, and all the other streams.
SensorLogs ==
    {Log(<<Data(<<"sensor", "baro">>, 0, SensorFields, Records(SensorFields, a)),
           Data(LocalPosition, 0, SwappedFields, Records(SwappedFields, b)),
           Data(<<"sensor", "baro">>, 1, SensorFields, Records(SensorFields, c))>>,
         <<Message(2, "ERROR")>>,
         <<<<Message(2, "INFO"), Message(1, "ALERT")>>, <<Message(1, "NONE")>>>>,
         <<Change(1, TRUE, 3), Change(1, FALSE, 2)>>) : a, b, c \in Times}

\* A topic whose name ends like an instance of another.
EscLogs ==
    {Log(<<Data(<<"esc">>, 0, EscFields, Records(EscFields, a)),
           Data(<<"esc", "1">>, 0, NameFields, Records(NameFields, b)),
           Data(<<"esc">>, 1, EscFields, Records(EscFields, b))>>, l, <<>>, <<>>) :
         a, b \in Times, l \in {<<>>, <<Message(2, "DEBUG"), Message(1, "WARNING")>>}}

\* Names of two characters out of a null, a letter, a byte that is no UTF-8 and the
\* two of a letter with an accent, and structs with such names.
NameLogs ==
    {TopicLog(<<"name">>, NameFields,
              <<Record(NameFields, 1, LAMBDA c : IF c[1].idx = 0 THEN a ELSE b)>>) :
         a, b \in {0, 65, -1, -61, -87}}
    \cup
    {TopicLog(<<"esc">>, EscFields,
              <<Record(EscFields, 1, LAMBDA c :
                   CASE Len(c) = 1 \/ c[2].id # <<"name">> -> 1
                     [] c[2].idx = 0 -> a
                     [] c[2].idx = 1 -> b)>>) :
         a, b \in {0, 65}}

WidthLogs ==
    {TopicLog(<<"width">>, WidthFields,
              <<Record(WidthFields, 1, LAMBDA c :
                   CASE c[1].id = <<"a">> -> IF top THEN 2^(HalfBits - 1) - 1 ELSE - 2^(HalfBits - 1)
                     [] c[1].id = <<"b">> -> IF top THEN 2^HalfBits - 1 ELSE 0
                     [] c[1].id = <<"c">> -> IF top THEN 2^(WordBits - 1) - 1 ELSE - 2^(WordBits - 1)
                     [] c[1].id = <<"d">> -> IF top THEN d ELSE 0
                     [] c[1].id = <<"e">> -> IF top THEN 1 ELSE 0)>>) :
         top \in BOOLEAN, d \in {2^(WordBits - 1) - 1, 2^(WordBits - 1), 2^WordBits - 1}}

\* Flights around the length of a minute, armed in some of their records.
StatusLogs ==
    {Log(<<Data(W!VehicleStatus, 0, StatusFields,
                <<Record(StatusFields, 1, LAMBDA x : a),
                  Record(StatusFields, 3, LAMBDA x : 2),
                  Record(StatusFields, 1 + long, LAMBDA x : b)>>)>>,
         e, <<<<Message(5, "ERROR"), Message(4, "CRITICAL")>>>>, <<>>) :
         a, b \in {1, 2}, long \in {59, 60, 61},
         e \in {<<>>, <<Message(3, "ERROR"), Message(3, "EMERGENCY")>>}}

\* Two instances, the second of which is on for longer and alone armed.
StatusesLog ==
    Log(<<Data(W!VehicleStatus, 0, StatusFields, <<Record(StatusFields, 2, LAMBDA x : 1)>>),
          Data(W!VehicleStatus, 1, StatusFields,
               <<Record(StatusFields, 1, LAMBDA x : 2), Record(StatusFields, 63, LAMBDA x : 2)>>)>>,
        <<Message(2, "ERROR")>>, <<>>, <<>>)

QuietLog == TopicLog(W!VehicleStatus, StatusFields, <<Record(StatusFields, 1, LAMBDA x : 1)>>)

CharLog == Log(<<Data(<<"mode">>, 0, CharFields, Records(CharFields, <<1, 2>>))>>,
               <<Message(1, "INFO")>>, <<>>, <<>>)

ClashLog == TopicLog(<<"gps">>, ClashFields, Records(ClashFields, <<1>>))

\* A message type with the name of the converter's own topic.
FixedNameLog == Log(<<Data(LogsTopic, 0, SensorFields, Records(SensorFields, <<1>>))>>,
                    <<Message(2, "INFO")>>, <<>>, <<>>)

\* A message type that has the name of a file or a package of the converter's own
\* schemas, before and after the message with that schema.
TakenNameLogs ==
    UNION {{Log(<<Data(<<"parameter", "changed">>, 0, NameFields, Records(NameFields, <<t>>))>>,
                <<>>, <<>>, <<Change(2, TRUE, 3)>>),
            Log(<<Data(<<"foxglove">>, 0, NameFields, Records(NameFields, <<t>>))>>,
                <<Message(2, "INFO")>>, <<>>, <<>>)} : t \in {1, 3}}

\* The last time whose nanoseconds the writer has bits for, and the next one.
LastTime == (2^WordBits - 1) \div 1000

LateLogs ==
    UNION {{TopicLog(<<"name">>, NameFields, Records(NameFields, <<1, LastTime + late>>)),
            Log(<<>>, <<>>, <<>>, <<Change(LastTime + late, FALSE, 2)>>),
            Log(<<>>, <<Message(2^HalfBits * Second - 1 + late, "INFO")>>, <<>>, <<>>),
            Log(<<>>, <<>>, <<<<Message(2^HalfBits * Second - 1 + late, "INFO")>>>>, <<>>),
            TopicLog(LocalPosition, SensorFields,
                     Records(SensorFields, <<1, 2^HalfBits * Second - 1 + late>>))} :
           late \in {0, 1}}

MCUlogs == SensorLogs \cup EscLogs \cup NameLogs \cup WidthLogs \cup StatusLogs
             \cup TakenNameLogs \cup LateLogs
             \cup {StatusesLog, QuietLog, CharLog, ClashLog, FixedNameLog}
=============================================================================
