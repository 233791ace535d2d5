--------------------------- MODULE FlightLogProofs ---------------------------
(***************************************************************************)
(* Theorems about FlightLog.                                               *)
(***************************************************************************)
EXTENDS FlightLog, TLAPS, FiniteSetTheorems

-----------------------------------------------------------------------------
(* Sequences *)

LEMMA FunctionIsSequence ==
    ASSUME NEW n \in Nat, NEW f, f = [k \in 1 .. n |-> f[k]]
    PROVE  Sequence(f) /\ Len(f) = n /\ DOMAIN f = 1 .. n
<1>1. DOMAIN f = 1 .. n
  OBVIOUS
<1>2. f \in [1 .. n -> ToSet(f)]
  BY <1>1 DEF ToSet
<1>3. f \in Seq(ToSet(f)) /\ Len(f) = n
  BY <1>2, SeqDef
<1> QED BY <1>1, <1>3 DEF Sequence

LEMMA SequenceFacts ==
    ASSUME NEW s, Sequence(s)
    PROVE  /\ Len(s) \in Nat /\ DOMAIN s = 1 .. Len(s)
           /\ \A k \in 1 .. Len(s) : s[k] \in ToSet(s)
           /\ \A e \in ToSet(s) : \E k \in 1 .. Len(s) : s[k] = e
           /\ s = [k \in 1 .. Len(s) |-> s[k]]
<1>1. s \in Seq(ToSet(s))
  BY DEF Sequence
<1>2. Len(s) \in Nat /\ DOMAIN s = 1 .. Len(s) /\ s = [k \in 1 .. Len(s) |-> s[k]]
  BY <1>1
<1> QED BY <1>2 DEF ToSet

LEMMA AppendSequence ==
    ASSUME NEW s, Sequence(s), NEW e
    PROVE  LET r == Append(s, e) IN
           /\ Sequence(r) /\ Len(r) = Len(s) + 1 /\ Len(s) \in Nat
           /\ \A k \in 1 .. Len(s) : r[k] = s[k]
           /\ r[Len(s) + 1] = e
<1> DEFINE S == ToSet(s) \cup {e}
           r == Append(s, e)
<1>1. s \in Seq(S)
  BY SeqMonotonic DEF Sequence
<1>2. e \in S
  OBVIOUS
<1> HIDE DEF S
<1>3. r \in Seq(S) /\ Len(r) = Len(s) + 1 /\ Len(s) \in Nat
      /\ (\A k \in 1 .. Len(s) : r[k] = s[k]) /\ r[Len(s) + 1] = e
  BY <1>1, <1>2, AppendProperties
<1>4. Len(r) \in Nat /\ r = [k \in 1 .. Len(r) |-> r[k]]
  <2> HIDE DEF r
  <2> QED BY <1>3
<1>5. Sequence(r)
  BY <1>4, FunctionIsSequence
<1> QED BY <1>3, <1>5

-----------------------------------------------------------------------------
(* The streams of a log *)

N == Len(ulog.data_list)

Logged == ulog \in Ulogs

\* What a stream of the converter's is known by: from its source, the stream.
From(s, source) ==
    \/ s \in 1 .. N /\ source = [kind |-> "data", n |-> s]
    \/ s = N + 1 /\ source.kind = "log"
    \/ s = N + 2 /\ source.kind = "tagged"
    \/ s = N + 3 /\ source.kind = "parameter"
    \/ s = N + 4 /\ source.kind = "trajectory"

TopicOf(s) ==
    IF s \in 1 .. N THEN map_topic_name(ulog.data_list[s])
    ELSE IF s = N + 3 THEN ParameterChangesTopic
    ELSE IF s = N + 4 THEN TrajectoryTopic ELSE LogsTopic

\* Its records have times and rows, no two of them one row, and those of one time
\* and one source are in the order of their rows.
WellOrdered(st) ==
    \A j, k \in 1 .. Len(st) :
        j < k /\ st[j].record.source = st[k].record.source /\ st[j].time = st[k].time
            => st[j].record.row < st[k].record.row

WellFormed(s, st) ==
    /\ Sequence(st)
    /\ \A k \in 1 .. Len(st) :
           /\ st[k].time \in Nat /\ st[k].topic = TopicOf(s)
           /\ st[k].record.row \in Int /\ From(s, st[k].record.source)
           /\ st[k].record = [source |-> st[k].record.source, row |-> st[k].record.row]
    /\ \A j, k \in 1 .. Len(st) : st[j].record = st[k].record => j = k
    /\ WellOrdered(st)

\* What UlogAssumption says of the entries of the lists.
LEMMA LogFacts ==
    ASSUME NEW u \in Ulogs
    PROVE  /\ Sequence(u.data_list) /\ Len(u.data_list) \in Nat
           /\ DOMAIN u.data_list = 1 .. Len(u.data_list)
           /\ \A n \in 1 .. Len(u.data_list) :
                  LET d == u.data_list[n] IN
                  /\ d \in ToSet(u.data_list)
                  /\ d.name \in Seq(STRING) /\ d.name # <<>>
                  /\ \A t \in FixedTopic : d.name # FixedSchema[t]
                  /\ d.multi_id \in DOMAIN Digits
                  /\ Sequence(d.records) /\ Len(d.records) \in Nat
                  /\ DOMAIN d.records = 1 .. Len(d.records)
                  /\ \A k \in 1 .. Len(d.records) : TimeOf(d.records[k]) \in Nat
                  /\ \A m \in 1 .. Len(u.data_list) :
                         d.name = u.data_list[m].name => d.field_data = u.data_list[m].field_data
<1>1. Sequence(u.data_list)
  BY UlogAssumption
<1>2. /\ Len(u.data_list) \in Nat
      /\ DOMAIN u.data_list = 1 .. Len(u.data_list)
      /\ \A n \in 1 .. Len(u.data_list) : u.data_list[n] \in ToSet(u.data_list)
  BY <1>1, SequenceFacts
<1>3. ASSUME NEW d \in ToSet(u.data_list)
      PROVE  /\ d.name \in Seq(STRING) /\ d.name # <<>>
             /\ \A t \in FixedTopic : d.name # FixedSchema[t]
             /\ d.multi_id \in DOMAIN Digits
             /\ Sequence(d.records) /\ Len(d.records) \in Nat
             /\ DOMAIN d.records = 1 .. Len(d.records)
             /\ \A k \in 1 .. Len(d.records) : TimeOf(d.records[k]) \in Nat
  <2>1. /\ d.name \in Seq(STRING) /\ d.name # <<>>
        /\ \A t \in FixedTopic : d.name # FixedSchema[t]
        /\ d.multi_id \in DOMAIN Digits
        /\ Sequence(d.records) /\ \A r \in ToSet(d.records) : TimeOf(r) \in Nat
    BY UlogAssumption
  <2>2. /\ Len(d.records) \in Nat /\ DOMAIN d.records = 1 .. Len(d.records)
        /\ \A k \in 1 .. Len(d.records) : d.records[k] \in ToSet(d.records)
    BY <2>1, SequenceFacts
  <2> QED BY <2>1, <2>2
<1>4. \A d, e \in ToSet(u.data_list) : d.name = e.name => d.field_data = e.field_data
  BY UlogAssumption
<1> QED BY <1>1, <1>2, <1>3, <1>4

\* And of its messages and parameters.
LEMMA MessageFacts ==
    ASSUME NEW u \in Ulogs
    PROVE  /\ Len(u.logged_messages) \in Nat
           /\ DOMAIN u.logged_messages = 1 .. Len(u.logged_messages)
           /\ \A k \in 1 .. Len(u.logged_messages) : u.logged_messages[k].timestamp \in Nat
           /\ Len(u.changed_parameters) \in Nat
           /\ DOMAIN u.changed_parameters = 1 .. Len(u.changed_parameters)
           /\ \A k \in 1 .. Len(u.changed_parameters) : u.changed_parameters[k].timestamp \in Nat
           /\ Len(u.logged_messages_tagged) \in Nat
           /\ DOMAIN u.logged_messages_tagged = 1 .. Len(u.logged_messages_tagged)
           /\ \A tag \in 1 .. Len(u.logged_messages_tagged) :
                  LET logs == u.logged_messages_tagged[tag] IN
                  /\ Len(logs) \in Nat /\ DOMAIN logs = 1 .. Len(logs)
                  /\ \A k \in 1 .. Len(logs) : logs[k].timestamp \in Nat
<1>1. ASSUME NEW logs, Sequence(logs), \A log \in ToSet(logs) : log.timestamp \in Nat
      PROVE  /\ Len(logs) \in Nat /\ DOMAIN logs = 1 .. Len(logs)
             /\ \A k \in 1 .. Len(logs) : logs[k].timestamp \in Nat
  BY <1>1, SequenceFacts
<1>2. /\ Sequence(u.logged_messages)
      /\ \A log \in ToSet(u.logged_messages) : log.timestamp \in Nat
  BY UlogAssumption
<1>3. /\ Sequence(u.changed_parameters)
      /\ \A log \in ToSet(u.changed_parameters) : log.timestamp \in Nat
  BY UlogAssumption
<1>4. /\ Sequence(u.logged_messages_tagged)
      /\ \A logs \in ToSet(u.logged_messages_tagged) :
             Sequence(logs) /\ \A log \in ToSet(logs) : log.timestamp \in Nat
  BY UlogAssumption
<1>5. /\ Len(u.logged_messages_tagged) \in Nat
      /\ DOMAIN u.logged_messages_tagged = 1 .. Len(u.logged_messages_tagged)
      /\ \A tag \in 1 .. Len(u.logged_messages_tagged) :
             u.logged_messages_tagged[tag] \in ToSet(u.logged_messages_tagged)
  BY <1>4, SequenceFacts
<1>6. /\ Len(u.logged_messages) \in Nat
      /\ DOMAIN u.logged_messages = 1 .. Len(u.logged_messages)
      /\ \A k \in 1 .. Len(u.logged_messages) : u.logged_messages[k].timestamp \in Nat
  BY <1>1, <1>2
<1>7. /\ Len(u.changed_parameters) \in Nat
      /\ DOMAIN u.changed_parameters = 1 .. Len(u.changed_parameters)
      /\ \A k \in 1 .. Len(u.changed_parameters) : u.changed_parameters[k].timestamp \in Nat
  BY <1>1, <1>3
<1>8. \A tag \in 1 .. Len(u.logged_messages_tagged) :
         LET logs == u.logged_messages_tagged[tag] IN
         /\ Len(logs) \in Nat /\ DOMAIN logs = 1 .. Len(logs)
         /\ \A k \in 1 .. Len(logs) : logs[k].timestamp \in Nat
  BY <1>1, <1>4, <1>5
<1> QED BY <1>5, <1>6, <1>7, <1>8

LEMMA StreamIs ==
    ASSUME NEW topic, NEW items, NEW source, NEW n \in Nat, DOMAIN items = 1 .. n
    PROVE  LET st == Stream(topic, items, source) IN
           /\ Sequence(st) /\ Len(st) = n
           /\ \A k \in 1 .. n :
                  st[k] = [topic |-> topic, time |-> items[k].time, payload |-> items[k].payload,
                           record |-> [source |-> source, row |-> k]]
<1> DEFINE st == Stream(topic, items, source)
<1>1. st = [k \in 1 .. n |-> st[k]]
  BY DEF Stream
<1>2. Sequence(st) /\ Len(st) = n
  <2> HIDE DEF st
  <2> QED BY <1>1, FunctionIsSequence
<1>3. \A k \in 1 .. n :
          st[k] = [topic |-> topic, time |-> items[k].time, payload |-> items[k].payload,
                   record |-> [source |-> source, row |-> k]]
  BY DEF Stream
<1> QED BY <1>2, <1>3

LEMMA StreamWellFormed ==
    ASSUME NEW s, NEW items, NEW source, NEW n \in Nat, DOMAIN items = 1 .. n,
           \A k \in 1 .. n : items[k].time \in Nat, From(s, source)
    PROVE  WellFormed(s, Stream(TopicOf(s), items, source))
<1> DEFINE st == Stream(TopicOf(s), items, source)
<1>1. /\ Sequence(st) /\ Len(st) = n
      /\ \A k \in 1 .. n :
             st[k] = [topic |-> TopicOf(s), time |-> items[k].time, payload |-> items[k].payload,
                      record |-> [source |-> source, row |-> k]]
  BY StreamIs
<1> HIDE DEF st
<1>2. \A k \in 1 .. n :
          /\ st[k].time = items[k].time /\ st[k].topic = TopicOf(s)
          /\ st[k].record = [source |-> source, row |-> k]
          /\ st[k].record.source = source /\ st[k].record.row = k
  BY <1>1
<1>3. \A k \in 1 .. Len(st) :
           /\ st[k].time \in Nat /\ st[k].topic = TopicOf(s)
           /\ st[k].record.row \in Int /\ From(s, st[k].record.source)
           /\ st[k].record = [source |-> st[k].record.source, row |-> st[k].record.row]
  BY <1>1, <1>2
<1>4. \A j, k \in 1 .. Len(st) : st[j].record = st[k].record => j = k
  <2>1. \A j, k \in 1 .. n : st[j].record = st[k].record => st[j].record.row = st[k].record.row
    OBVIOUS
  <2> QED BY <1>1, <1>2, <2>1
<1>5. WellOrdered(st)
  BY <1>1, <1>2 DEF WellOrdered
<1>6. WellFormed(s, st)
  BY <1>1, <1>3, <1>4, <1>5 DEF WellFormed
<1> QED BY <1>6 DEF st

LEMMA DataStream ==
    ASSUME Logged, NEW n \in 1 .. N
    PROVE  LET d == ulog.data_list[n]
               st == stream_topic_records(n) IN
           /\ WellFormed(n, st) /\ Len(st) = Len(d.records)
           /\ \A k \in 1 .. Len(d.records) :
                  st[k] = [topic |-> map_topic_name(d), time |-> TimeOf(d.records[k]),
                           payload |-> d.records[k],
                           record |-> [source |-> [kind |-> "data", n |-> n], row |-> k]]
<1> DEFINE d == ulog.data_list[n]
           items == [k \in DOMAIN d.records |-> [time |-> TimeOf(d.records[k]), payload |-> d.records[k]]]
           source == [kind |-> "data", n |-> n]
           st == Stream(TopicOf(n), items, source)
<1>1. /\ Len(d.records) \in Nat /\ DOMAIN d.records = 1 .. Len(d.records)
      /\ \A k \in 1 .. Len(d.records) : TimeOf(d.records[k]) \in Nat
  BY LogFacts DEF Logged, N
<1>2. DOMAIN items = 1 .. Len(d.records) /\ \A k \in 1 .. Len(d.records) : items[k].time \in Nat
  BY <1>1
<1>3. From(n, source)
  BY DEF From
<1>4. WellFormed(n, st)
  <2> HIDE DEF items, source
  <2> QED BY <1>1, <1>2, <1>3, StreamWellFormed
<1>5. /\ Sequence(st) /\ Len(st) = Len(d.records)
      /\ \A k \in 1 .. Len(d.records) :
             st[k] = [topic |-> TopicOf(n), time |-> items[k].time, payload |-> items[k].payload,
                      record |-> [source |-> source, row |-> k]]
  <2> HIDE DEF items, source
  <2> QED BY <1>1, <1>2, StreamIs
<1>6. TopicOf(n) = map_topic_name(d)
  BY DEF TopicOf
<1>7. stream_topic_records(n) = st
  BY <1>6 DEF stream_topic_records
<1>8. \A k \in 1 .. Len(d.records) :
          items[k].time = TimeOf(d.records[k]) /\ items[k].payload = d.records[k]
  BY <1>1
<1> HIDE DEF st, items
<1> QED BY <1>4, <1>5, <1>6, <1>7, <1>8

LEMMA LogStream ==
    ASSUME Logged
    PROVE  LET st == stream_logged_messages IN
           /\ WellFormed(N + 1, st) /\ Len(st) = Len(ulog.logged_messages)
           /\ \A k \in 1 .. Len(ulog.logged_messages) :
                  /\ st[k].payload = FormattedRecord(ulog.logged_messages[k], <<>>).payload
                  /\ st[k].record = [source |-> [kind |-> "log", n |-> 0], row |-> k]
<1> DEFINE logs == ulog.logged_messages
           items == [k \in DOMAIN logs |-> FormattedRecord(logs[k], <<>>)]
           source == [kind |-> "log", n |-> 0]
           st == Stream(TopicOf(N + 1), items, source)
<1>0. N \in Nat
  BY LogFacts DEF Logged, N
<1>1. /\ Len(logs) \in Nat /\ DOMAIN logs = 1 .. Len(logs)
      /\ \A k \in 1 .. Len(logs) : logs[k].timestamp \in Nat
  BY MessageFacts DEF Logged
<1>2. DOMAIN items = 1 .. Len(logs) /\ \A k \in 1 .. Len(logs) : items[k].time \in Nat
  BY <1>1 DEF FormattedRecord
<1>3. From(N + 1, source)
  BY <1>0 DEF From
<1>4. WellFormed(N + 1, st)
  <2> HIDE DEF items, source
  <2> QED BY <1>1, <1>2, <1>3, StreamWellFormed
<1>5. /\ Len(st) = Len(logs)
      /\ \A k \in 1 .. Len(logs) :
             st[k] = [topic |-> TopicOf(N + 1), time |-> items[k].time, payload |-> items[k].payload,
                      record |-> [source |-> source, row |-> k]]
  <2> HIDE DEF items, source
  <2> QED BY <1>1, <1>2, StreamIs
<1>6. TopicOf(N + 1) = LogsTopic
  BY <1>0 DEF TopicOf
<1>7. stream_logged_messages = st
  BY <1>6 DEF stream_logged_messages
<1>8. \A k \in 1 .. Len(logs) : items[k] = FormattedRecord(logs[k], <<>>)
  BY <1>1
<1> HIDE DEF st, items
<1>9. ASSUME NEW k \in 1 .. Len(logs)
      PROVE  st[k].payload = items[k].payload /\ st[k].record = [source |-> source, row |-> k]
  <2> HIDE DEF source, logs
  <2>1. st[k] = [topic |-> TopicOf(N + 1), time |-> items[k].time, payload |-> items[k].payload,
                 record |-> [source |-> source, row |-> k]]
    BY <1>5
  <2> QED BY <2>1
<1> QED BY <1>4, <1>5, <1>7, <1>8, <1>9

LEMMA ParameterStream ==
    ASSUME Logged
    PROVE  LET st == stream_parameter_changes IN
           /\ WellFormed(N + 3, st) /\ Len(st) = Len(ulog.changed_parameters)
           /\ \A k \in 1 .. Len(ulog.changed_parameters) :
                  /\ st[k].payload = ParameterPayload(ulog.changed_parameters[k])
                  /\ st[k].record = [source |-> [kind |-> "parameter", n |-> 0], row |-> k]
<1> DEFINE changes == ulog.changed_parameters
           items == [k \in DOMAIN changes |->
                        LET change == changes[k]
                        IN  [time |-> change.timestamp, payload |-> ParameterPayload(change)]]
           source == [kind |-> "parameter", n |-> 0]
           st == Stream(TopicOf(N + 3), items, source)
<1>0. N \in Nat
  BY LogFacts DEF Logged, N
<1>1. /\ Len(changes) \in Nat /\ DOMAIN changes = 1 .. Len(changes)
      /\ \A k \in 1 .. Len(changes) : changes[k].timestamp \in Nat
  BY MessageFacts DEF Logged
<1>2. DOMAIN items = 1 .. Len(changes) /\ \A k \in 1 .. Len(changes) : items[k].time \in Nat
  BY <1>1
<1>3. From(N + 3, source)
  BY <1>0 DEF From
<1>4. WellFormed(N + 3, st)
  <2> HIDE DEF items, source
  <2> QED BY <1>1, <1>2, <1>3, StreamWellFormed
<1>5. /\ Len(st) = Len(changes)
      /\ \A k \in 1 .. Len(changes) :
             st[k] = [topic |-> TopicOf(N + 3), time |-> items[k].time, payload |-> items[k].payload,
                      record |-> [source |-> source, row |-> k]]
  <2> HIDE DEF items, source
  <2> QED BY <1>1, <1>2, StreamIs
<1>6. TopicOf(N + 3) = ParameterChangesTopic
  BY <1>0 DEF TopicOf
<1>7. stream_parameter_changes = st
  BY <1>6 DEF stream_parameter_changes
<1>8. \A k \in 1 .. Len(changes) : items[k].payload = ParameterPayload(changes[k])
  BY <1>1
<1> HIDE DEF st, items
<1>9. ASSUME NEW k \in 1 .. Len(changes)
      PROVE  st[k].payload = items[k].payload /\ st[k].record = [source |-> source, row |-> k]
  <2> HIDE DEF source, changes
  <2>1. st[k] = [topic |-> TopicOf(N + 3), time |-> items[k].time, payload |-> items[k].payload,
                 record |-> [source |-> source, row |-> k]]
    BY <1>5
  <2> QED BY <2>1
<1> QED BY <1>4, <1>5, <1>7, <1>8, <1>9

LEMMA FamilyIsFinite ==
    ASSUME NEW n \in Nat, NEW f, DOMAIN f = 1 .. n, \A k \in 1 .. n : IsFiniteSet(f[k])
    PROVE  IsFiniteSet(UNION {f[k] : k \in 1 .. n})
<1> DEFINE T == {f[k] : k \in 1 .. n}
           g == [k \in 1 .. n |-> f[k]]
<1>1. IsFiniteSet(1 .. n)
  BY FS_Interval
<1>2. g \in Surjection(1 .. n, T)
  BY DEF Surjection
<1>3. IsFiniteSet(T)
  <2> HIDE DEF T, g
  <2> QED BY <1>1, <1>2, FS_Surjection
<1> QED BY <1>3, FS_UNION

LEMMA TaggedIsFinite ==
    ASSUME Logged
    PROVE  /\ IsFiniteSet(Tagged)
           /\ \A p \in Tagged : /\ p = <<p[1], p[2]>> /\ p[1] \in Nat /\ p[2] \in Nat
                                /\ TaggedTime(p) \in Nat
<1> DEFINE logs == ulog.logged_messages_tagged
           M == Len(logs)
           f == [tag \in 1 .. M |-> {tag} \X (1 .. Len(logs[tag]))]
<1>1. /\ M \in Nat /\ DOMAIN logs = 1 .. M
      /\ \A tag \in 1 .. M :
             /\ Len(logs[tag]) \in Nat /\ DOMAIN logs[tag] = 1 .. Len(logs[tag])
             /\ \A k \in 1 .. Len(logs[tag]) : logs[tag][k].timestamp \in Nat
  BY MessageFacts DEF Logged
<1>2. \A tag \in 1 .. M : IsFiniteSet(f[tag])
  <2> SUFFICES ASSUME NEW tag \in 1 .. M PROVE IsFiniteSet({tag} \X (1 .. Len(logs[tag])))
    OBVIOUS
  <2>1. IsFiniteSet({tag})
    BY FS_Singleton
  <2>2. IsFiniteSet(1 .. Len(logs[tag]))
    <3>1. Len(logs[tag]) \in Int
      BY <1>1
    <3> QED BY <3>1, FS_Interval
  <2> QED BY <2>1, <2>2, FS_Product
<1>3. Tagged = UNION {f[tag] : tag \in 1 .. M}
  BY <1>1 DEF Tagged
<1>4. IsFiniteSet(UNION {f[tag] : tag \in 1 .. M})
  <2>1. DOMAIN f = 1 .. M
    OBVIOUS
  <2> HIDE DEF f, M
  <2> QED BY <1>1, <1>2, <2>1, FamilyIsFinite
<1>5. \A p \in Tagged : /\ p = <<p[1], p[2]>> /\ p[1] \in 1 .. M
                        /\ p[2] \in 1 .. Len(logs[p[1]])
  <2> SUFFICES ASSUME NEW p \in Tagged
               PROVE  p = <<p[1], p[2]>> /\ p[1] \in 1 .. M /\ p[2] \in 1 .. Len(logs[p[1]])
    OBVIOUS
  <2>1. PICK tag \in 1 .. M : p \in {tag} \X (1 .. Len(logs[tag]))
    BY <1>3
  <2>2. p = <<p[1], p[2]>> /\ p[1] = tag /\ p[2] \in 1 .. Len(logs[tag])
    BY <2>1
  <2> QED BY <2>2
<1>6. \A p \in Tagged : p[1] \in Nat /\ p[2] \in Nat /\ TaggedTime(p) \in Nat
  BY <1>1, <1>5 DEF TaggedTime
<1> QED BY <1>3, <1>4, <1>5, <1>6

LEMMA TaggedOrder ==
    ASSUME Logged
    PROVE  IsStrictOrder(Tagged, TaggedBefore)
<1> DEFINE Before(p, q) ==
               \/ TaggedTime(p) < TaggedTime(q)
               \/ /\ TaggedTime(p) = TaggedTime(q)
                  /\ p[1] < q[1] \/ (p[1] = q[1] /\ p[2] < q[2])
<1>1. \A p, q \in Tagged : <<p, q>> \in TaggedBefore <=> Before(p, q)
  BY DEF TaggedBefore
<1>2. \A p \in Tagged : /\ p = <<p[1], p[2]>> /\ p[1] \in Nat /\ p[2] \in Nat
                        /\ TaggedTime(p) \in Nat
  BY TaggedIsFinite
<1>3. \A p \in Tagged : ~ Before(p, p)
  BY <1>2
<1>4. \A p, q, r \in Tagged : Before(p, q) /\ Before(q, r) => Before(p, r)
  <2> SUFFICES ASSUME NEW p \in Tagged, NEW q \in Tagged, NEW r \in Tagged,
                      Before(p, q), Before(q, r)
               PROVE  Before(p, r)
    OBVIOUS
  <2>1. /\ TaggedTime(p) \in Nat /\ TaggedTime(q) \in Nat /\ TaggedTime(r) \in Nat
        /\ p[1] \in Nat /\ q[1] \in Nat /\ r[1] \in Nat
        /\ p[2] \in Nat /\ q[2] \in Nat /\ r[2] \in Nat
    BY <1>2
  <2> QED BY <2>1
<1>5. \A p, q \in Tagged : p # q => Before(p, q) \/ Before(q, p)
  <2> SUFFICES ASSUME NEW p \in Tagged, NEW q \in Tagged, ~ Before(p, q), ~ Before(q, p)
               PROVE  p = q
    OBVIOUS
  <2>1. /\ TaggedTime(p) \in Nat /\ TaggedTime(q) \in Nat
        /\ p[1] \in Nat /\ q[1] \in Nat /\ p[2] \in Nat /\ q[2] \in Nat
        /\ p = <<p[1], p[2]>> /\ q = <<q[1], q[2]>>
    BY <1>2
  <2>2. p[1] = q[1] /\ p[2] = q[2]
    BY <2>1
  <2> QED BY <2>1, <2>2
<1> HIDE DEF Before
<1> QED BY <1>1, <1>3, <1>4, <1>5 DEF IsStrictOrder

LEMMA TaggedStream ==
    ASSUME Logged
    PROVE  LET st == stream_logged_messages_tagged IN
           /\ WellFormed(N + 2, st)
           /\ \A k \in 1 .. Len(st) :
                  LET tag == st[k].record.source.n
                      row == st[k].record.row IN
                  /\ st[k].record = [source |-> [kind |-> "tagged", n |-> tag], row |-> row]
                  /\ <<tag, row>> \in Tagged
                  /\ st[k].payload = FormattedRecord(ulog.logged_messages_tagged[tag][row],
                                                     TagName(tag)).payload
           /\ \A p \in Tagged : \E k \in 1 .. Len(st) :
                  st[k].record = [source |-> [kind |-> "tagged", n |-> p[1]], row |-> p[2]]
<1> DEFINE order == InOrder(Tagged, TaggedBefore)
           logs == ulog.logged_messages_tagged
           st == stream_logged_messages_tagged
           C == Cardinality(Tagged)
<1>0. N \in Nat
  BY LogFacts DEF Logged, N
<1>1. /\ C \in Nat /\ order \in Seq(Tagged) /\ Len(order) = C
      /\ \A p \in Tagged : \E k \in 1 .. C : order[k] = p
      /\ \A j, k \in 1 .. C : j < k => <<order[j], order[k]>> \in TaggedBefore
  <2>1. IsFiniteSet(Tagged) /\ IsStrictOrder(Tagged, TaggedBefore)
    BY TaggedIsFinite, TaggedOrder
  <2> QED BY <2>1, InOrderIsOrdered
<1> HIDE DEF order
<1>2. /\ DOMAIN order = 1 .. C
      /\ \A k \in 1 .. C : order[k] \in Tagged
  BY <1>1
<1>3. \A k \in 1 .. C :
          st[k] = [topic |-> LogsTopic, time |-> logs[order[k][1]][order[k][2]].timestamp,
                   payload |-> FormattedRecord(logs[order[k][1]][order[k][2]], TagName(order[k][1])).payload,
                   record |-> [source |-> [kind |-> "tagged", n |-> order[k][1]], row |-> order[k][2]]]
  BY <1>2 DEF stream_logged_messages_tagged, order
<1>4. st = [k \in 1 .. C |-> st[k]]
  BY <1>2 DEF stream_logged_messages_tagged, order
<1> HIDE DEF st
<1>5. Sequence(st) /\ Len(st) = C
  BY <1>1, <1>4, FunctionIsSequence
<1>6. ASSUME NEW k \in 1 .. C
      PROVE  /\ st[k].topic = LogsTopic /\ st[k].time = TaggedTime(order[k])
             /\ st[k].payload = FormattedRecord(logs[order[k][1]][order[k][2]], TagName(order[k][1])).payload
             /\ st[k].record = [source |-> [kind |-> "tagged", n |-> order[k][1]], row |-> order[k][2]]
  <2>1. st[k] = [topic |-> LogsTopic, time |-> logs[order[k][1]][order[k][2]].timestamp,
                   payload |-> FormattedRecord(logs[order[k][1]][order[k][2]], TagName(order[k][1])).payload,
                   record |-> [source |-> [kind |-> "tagged", n |-> order[k][1]], row |-> order[k][2]]]
    BY <1>3
  <2> QED BY <2>1 DEF TaggedTime
<1>6a. ASSUME NEW k \in 1 .. C
       PROVE  /\ st[k].record.row = order[k][2]
              /\ st[k].record.source = [kind |-> "tagged", n |-> order[k][1]]
              /\ st[k].record.source.n = order[k][1] /\ st[k].record.source.kind = "tagged"
  <2>1. st[k].record = [source |-> [kind |-> "tagged", n |-> order[k][1]], row |-> order[k][2]]
    BY <1>6
  <2> QED BY <2>1
<1>6b. \A k \in 1 .. C : st[k].record.row = order[k][2] /\ st[k].record.source.n = order[k][1]
  BY <1>6a
<1>7. \A k \in 1 .. C : /\ order[k] = <<order[k][1], order[k][2]>>
                        /\ order[k][1] \in Nat /\ order[k][2] \in Nat /\ TaggedTime(order[k]) \in Nat
  BY <1>2, TaggedIsFinite
<1>8. TopicOf(N + 2) = LogsTopic
  BY <1>0 DEF TopicOf
<1>9. \A k \in 1 .. C :
           /\ st[k].time \in Nat /\ st[k].topic = TopicOf(N + 2)
           /\ st[k].record.row \in Int /\ From(N + 2, st[k].record.source)
           /\ st[k].record = [source |-> st[k].record.source, row |-> st[k].record.row]
  <2> SUFFICES ASSUME NEW k \in 1 .. C
               PROVE  /\ st[k].time \in Nat /\ st[k].topic = TopicOf(N + 2)
                      /\ st[k].record.row \in Int /\ From(N + 2, st[k].record.source)
                      /\ st[k].record = [source |-> st[k].record.source, row |-> st[k].record.row]
    OBVIOUS
  <2>1. From(N + 2, st[k].record.source)
    BY <1>6a DEF From
  <2>2. st[k].record.row \in Int
    BY <1>7, <1>6b
  <2>3. st[k].time \in Nat /\ st[k].topic = TopicOf(N + 2)
    BY <1>6, <1>7, <1>8
  <2>4. st[k].record = [source |-> st[k].record.source, row |-> st[k].record.row]
    BY <1>6, <1>6a
  <2> QED BY <2>1, <2>2, <2>3, <2>4
<1>10. \A j, k \in 1 .. C : j < k => order[j] # order[k]
  BY <1>1, <1>2, TaggedOrder DEF IsStrictOrder
<1>11. \A j, k \in 1 .. C : st[j].record = st[k].record => j = k
  <2> SUFFICES ASSUME NEW j \in 1 .. C, NEW k \in 1 .. C, st[j].record = st[k].record
               PROVE  j = k
    OBVIOUS
  <2>1. order[j][1] = order[k][1] /\ order[j][2] = order[k][2]
    BY <1>6b
  <2>2. order[j] = order[k]
    BY <1>7, <2>1
  <2> QED BY <1>1, <1>10, <2>2
<1>12. WellOrdered(st)
  <2> SUFFICES ASSUME NEW j \in 1 .. C, NEW k \in 1 .. C, j < k,
                      st[j].record.source = st[k].record.source, st[j].time = st[k].time
               PROVE  st[j].record.row < st[k].record.row
    BY <1>5 DEF WellOrdered
  <2>1. order[j][1] = order[k][1]
    BY <1>6b
  <2>2. <<order[j], order[k]>> \in TaggedBefore /\ TaggedTime(order[j]) = TaggedTime(order[k])
    <3>1. st[j].time = TaggedTime(order[j]) /\ st[k].time = TaggedTime(order[k])
      BY <1>6
    <3> QED BY <1>1, <3>1
  <2>3. order[j][2] < order[k][2]
    <3>1. /\ TaggedTime(order[j]) \in Nat /\ order[j][1] \in Nat
      BY <1>7
    <3> QED BY <2>1, <2>2, <3>1 DEF TaggedBefore
  <2> QED BY <1>6a, <2>3
<1>13. WellFormed(N + 2, st)
  BY <1>5, <1>9, <1>11, <1>12 DEF WellFormed
<1>14. ASSUME NEW k \in 1 .. Len(st)
       PROVE  LET tag == st[k].record.source.n
                  row == st[k].record.row IN
              /\ st[k].record = [source |-> [kind |-> "tagged", n |-> tag], row |-> row]
              /\ <<tag, row>> \in Tagged
              /\ st[k].payload = FormattedRecord(ulog.logged_messages_tagged[tag][row],
                                                 TagName(tag)).payload
  <2>1. k \in 1 .. C
    BY <1>5
  <2>2. st[k].record.source.n = order[k][1] /\ st[k].record.row = order[k][2]
    BY <1>6a, <2>1
  <2>3. <<order[k][1], order[k][2]>> \in Tagged
    BY <1>2, <1>7, <2>1
  <2> QED BY <1>6, <2>1, <2>2, <2>3
<1>15. ASSUME NEW p \in Tagged
       PROVE  \E k \in 1 .. Len(st) :
                  st[k].record = [source |-> [kind |-> "tagged", n |-> p[1]], row |-> p[2]]
  <2>1. PICK k \in 1 .. C : order[k] = p
    BY <1>1
  <2> QED BY <1>5, <1>6, <2>1
<1> QED BY <1>13, <1>14, <1>15 DEF st

LEMMA AscendingIndices ==
    ASSUME NEW s, Len(s) \in Nat, DOMAIN s = 1 .. Len(s), NEW S \in SUBSET DOMAIN s,
           Ascending(S) # <<>>
    PROVE  Ascending(S)[1] \in 1 .. Len(s)
<1>1. IsFiniteSet(S)
  <2>1. IsFiniteSet(1 .. Len(s))
    BY FS_Interval
  <2> QED BY <2>1, FS_Subset
<1>2. S \in SUBSET Int
  OBVIOUS
<1>3. Ascending(S) \in Seq(S)
  BY <1>1, <1>2, AscendingIsOrdered
<1> QED BY <1>3

LEMMA TrajectoryStream ==
    ASSUME Logged
    PROVE  WellFormed(N + 4, stream_trajectory)
<1> DEFINE places == {n \in DOMAIN ulog.data_list :
                         ulog.data_list[n].name = LocalPosition /\ ulog.data_list[n].multi_id = 0}
           records == IF places = {} THEN <<>> ELSE ulog.data_list[Ascending(places)[1]].records
           good == {k \in DOMAIN records : \A c \in {"x", "y", "z"} : records[k][Cell(<<c>>)] # NaN}
           valid == Ascending(good)
           first == TimeOf(records[valid[1]])
           items == <<[time |-> first,
                       payload |-> [points |-> [k \in DOMAIN valid |-> ned_to_enu(Point(records[valid[k]]))],
                                    timestamp |-> _micros_to_foxglove_time(first)]]>>
           source == [kind |-> "trajectory", n |-> 0]
<1>0. N \in Nat
  BY LogFacts DEF Logged, N
<1>1. stream_trajectory = IF valid = <<>> THEN <<>> ELSE Stream(TrajectoryTopic, items, source)
  BY DEF stream_trajectory
<1>2. CASE valid = <<>>
  <2>1. Len(<<>>) = 0 /\ Sequence(<<>>)
    BY EmptySeq DEF Sequence
  <2>2. WellFormed(N + 4, <<>>)
    BY <2>1 DEF WellFormed, WellOrdered
  <2> HIDE DEF valid
  <2> QED BY <1>1, <1>2, <2>2
<1>3. CASE valid # <<>>
  <2>1. /\ Len(records) \in Nat /\ DOMAIN records = 1 .. Len(records)
        /\ \A k \in 1 .. Len(records) : TimeOf(records[k]) \in Nat
    <3>1. CASE places = {}
      BY <3>1
    <3>2. CASE places # {}
      <4>1. places \in SUBSET DOMAIN ulog.data_list
        OBVIOUS
      <4>2. Len(ulog.data_list) \in Nat /\ DOMAIN ulog.data_list = 1 .. Len(ulog.data_list)
        BY LogFacts DEF Logged
      <4>3. Ascending(places) # <<>>
        <5>1. IsFiniteSet(places) /\ places \in SUBSET Int
          <6>1. IsFiniteSet(1 .. Len(ulog.data_list))
            BY <4>2, FS_Interval
          <6> QED BY <4>1, <4>2, <6>1, FS_Subset
        <5> HIDE DEF places
        <5>2. /\ Cardinality(places) \in Nat /\ Len(Ascending(places)) = Cardinality(places)
              /\ \A x \in places : \E n \in 1 .. Cardinality(places) : Ascending(places)[n] = x
          BY <5>1, AscendingIsOrdered
        <5>3. Cardinality(places) # 0
          BY <3>2, <5>2
        <5> QED BY <5>2, <5>3
      <4>4. Ascending(places)[1] \in 1 .. Len(ulog.data_list)
        <5> HIDE DEF places
        <5> QED BY <4>1, <4>2, <4>3, AscendingIndices
      <4> HIDE DEF places
      <4> QED BY <3>2, <4>4, LogFacts DEF Logged
    <3> QED BY <3>1, <3>2
  <2>2. good \in SUBSET DOMAIN records
    OBVIOUS
  <2> HIDE DEF good, records
  <2>3. valid[1] \in 1 .. Len(records)
    BY <1>3, <2>1, <2>2, AscendingIndices
  <2>4. first \in Nat
    BY <2>1, <2>3
  <2> HIDE DEF valid, first
  <2>5. DOMAIN items = 1 .. 1 /\ \A k \in 1 .. 1 : items[k].time \in Nat
    BY <2>4
  <2>6. TopicOf(N + 4) = TrajectoryTopic /\ From(N + 4, source)
    BY <1>0 DEF TopicOf, From
  <2> HIDE DEF items, source
  <2>7. WellFormed(N + 4, Stream(TopicOf(N + 4), items, source))
    BY <2>5, <2>6, StreamWellFormed
  <2> QED BY <1>1, <1>3, <2>6, <2>7
<1> QED BY <1>2, <1>3

\* The streams together: N of data, and four.
THEOREM StreamsAre ==
    ASSUME Logged
    PROVE  /\ N \in Nat /\ DOMAIN Streams = 1 .. N + 4
           /\ \A s \in 1 .. N : Streams[s] = stream_topic_records(s)
           /\ Streams[N + 1] = stream_logged_messages
           /\ Streams[N + 2] = stream_logged_messages_tagged
           /\ Streams[N + 3] = stream_parameter_changes
           /\ Streams[N + 4] = stream_trajectory
           /\ \A s \in 1 .. N + 4 : WellFormed(s, Streams[s])
<1> DEFINE data == [n \in DOMAIN ulog.data_list |-> stream_topic_records(n)]
           a == stream_logged_messages
           b == stream_logged_messages_tagged
           c == stream_parameter_changes
           d == stream_trajectory
           others == <<a, b, c, d>>
           S == ToSet(data) \cup {a, b, c, d}
<1>1. N \in Nat /\ DOMAIN ulog.data_list = 1 .. N
  BY LogFacts DEF Logged, N
<1>2. Sequence(data) /\ Len(data) = N /\ \A s \in 1 .. N : data[s] = stream_topic_records(s)
  <2>1. data = [n \in 1 .. N |-> data[n]]
    BY <1>1
  <2>2. \A s \in 1 .. N : data[s] = stream_topic_records(s)
    BY <1>1
  <2> HIDE DEF data
  <2> QED BY <1>1, <2>1, <2>2, FunctionIsSequence
<1>3. Streams = data \o others
  BY DEF Streams
<1> HIDE DEF data, a, b, c, d
<1>4. data \in Seq(S) /\ others \in Seq(S) /\ Len(others) = 4
  <2>1. data \in Seq(ToSet(data))
    BY <1>2 DEF Sequence
  <2>2. data \in Seq(S)
    BY <2>1, SeqMonotonic
  <2> QED BY <2>2
<1>5. others[1] = a /\ others[2] = b /\ others[3] = c /\ others[4] = d
  OBVIOUS
<1> HIDE DEF others, S
<1>6. /\ Streams \in Seq(S) /\ Len(Streams) = N + 4
      /\ \A i \in 1 .. N + 4 : Streams[i] = IF i <= N THEN data[i] ELSE others[i - N]
  <2>1. /\ data \o others \in Seq(S) /\ Len(data \o others) = Len(data) + Len(others)
        /\ \A i \in 1 .. Len(data) + Len(others) :
               (data \o others)[i] = IF i <= Len(data) THEN data[i] ELSE others[i - Len(data)]
    BY <1>4, ConcatProperties
  <2> QED BY <1>2, <1>3, <1>4, <2>1
<1>7. /\ DOMAIN Streams = 1 .. N + 4
      /\ Streams[N + 1] = a /\ Streams[N + 2] = b /\ Streams[N + 3] = c /\ Streams[N + 4] = d
      /\ \A i \in 1 .. N : Streams[i] = data[i]
  <2>1. /\ N + 1 - N = 1 /\ N + 2 - N = 2 /\ N + 3 - N = 3 /\ N + 4 - N = 4
        /\ N + 1 \in 1 .. N + 4 /\ N + 2 \in 1 .. N + 4 /\ N + 3 \in 1 .. N + 4
        /\ N + 4 \in 1 .. N + 4 /\ ~ (N + 1 <= N) /\ ~ (N + 2 <= N) /\ ~ (N + 3 <= N)
        /\ ~ (N + 4 <= N) /\ \A i \in 1 .. N : i \in 1 .. N + 4 /\ i <= N
    BY <1>1
  <2> HIDE DEF N
  <2> QED BY <1>1, <1>5, <1>6, <2>1
<1>8. ASSUME NEW s \in 1 .. N + 4 PROVE WellFormed(s, Streams[s])
  <2>1. \/ s \in 1 .. N \/ s = N + 1 \/ s = N + 2 \/ s = N + 3 \/ s = N + 4
    BY <1>1
  <2>2. CASE s \in 1 .. N
    BY <1>2, <1>7, <2>2, DataStream
  <2>3. CASE s = N + 1
    BY <1>7, <2>3, LogStream DEF a
  <2>4. CASE s = N + 2
    BY <1>7, <2>4, TaggedStream DEF b
  <2>5. CASE s = N + 3
    BY <1>7, <2>5, ParameterStream DEF c
  <2>6. CASE s = N + 4
    BY <1>7, <2>6, TrajectoryStream DEF d
  <2> QED BY <2>1, <2>2, <2>3, <2>4, <2>5, <2>6
<1> QED BY <1>1, <1>2, <1>7, <1>8 DEF a, b, c, d

-----------------------------------------------------------------------------
(* Names *)

LEMMA AppendFrontLast ==
    ASSUME NEW S, NEW s \in Seq(S), s # <<>>, NEW e \in S
    PROVE  /\ Len(Append(s, e)) > 1
           /\ Last(Append(s, e)) = e
           /\ Front(Append(s, e)) = s
<1> DEFINE r == Append(s, e)
<1>1. r \in Seq(S) /\ Len(r) = Len(s) + 1 /\ r[Len(r)] = e /\ Len(s) \in Nat \ {0}
  OBVIOUS
<1>2. \A k \in 1 .. Len(s) : r[k] = s[k]
  OBVIOUS
<1>3. Front(r) = SubSeq(r, 1, Len(s))
  BY <1>1 DEF Front
<1>4. SubSeq(r, 1, Len(s)) = [k \in 1 .. Len(s) |-> s[k]]
  BY <1>1, <1>2
<1>5. s = [k \in 1 .. Len(s) |-> s[k]]
  OBVIOUS
<1> QED
  BY <1>1, <1>3, <1>4, <1>5 DEF Last

\* What the ingest takes apart (topics.rs) is what the converter put together
\* (map_topic_name in convert.py), whatever the words of the name are: also when
\* the last of them is a number itself.
THEOREM NamesRoundTrip ==
    ASSUME NEW u \in Ulogs, NEW n \in DOMAIN u.data_list
    PROVE  R!parse_topic_name(map_topic_name(u.data_list[n]))
               = <<u.data_list[n].name, u.data_list[n].multi_id>>
<1> DEFINE d == u.data_list[n]
           word == Digits[d.multi_id]
<1>1. d.name \in Seq(STRING) /\ d.name # <<>> /\ d.multi_id \in DOMAIN Digits
  BY LogFacts
<1>2. word \in STRING /\ word \in DOMAIN U8 /\ U8[word] = d.multi_id
  BY <1>1, DigitsAssumption
<1>3. /\ Len(Append(d.name, word)) > 1
      /\ Last(Append(d.name, word)) = word
      /\ Front(Append(d.name, word)) = d.name
  BY <1>1, <1>2, AppendFrontLast
<1> QED
  BY <1>2, <1>3 DEF R!parse_topic_name, map_topic_name, R!Last, R!Front, Last, Front
\* The converter's own topics are no instances.
LEMMA FixedNames ==
    /\ \A t \in FixedTopic : R!parse_topic_name(t) = <<t, 0>>
    /\ \A u \in Ulogs : \A n \in DOMAIN u.data_list : map_topic_name(u.data_list[n]) \notin FixedTopic
<1>1. \A t \in FixedTopic : R!Last(t) \notin DOMAIN U8
  BY DigitsAssumption DEF R!Last, Last
<1>2. ASSUME NEW u \in Ulogs, NEW n \in DOMAIN u.data_list
      PROVE  map_topic_name(u.data_list[n]) \notin FixedTopic
  <2> DEFINE d == u.data_list[n]
             word == Digits[d.multi_id]
  <2>1. d.name \in Seq(STRING) /\ d.name # <<>> /\ d.multi_id \in DOMAIN Digits
    BY LogFacts
  <2>2. word \in STRING /\ word \in DOMAIN U8
    BY <2>1, DigitsAssumption
  <2>3. Last(Append(d.name, word)) = word
    BY <2>1, <2>2, AppendFrontLast
  <2> QED BY <2>2, <2>3, DigitsAssumption DEF map_topic_name
<1> QED BY <1>1, <1>2 DEF R!parse_topic_name

\* The table of the records of a stream, the type of its messages, and the instance.
TableOf(s) ==
    IF s \in 1 .. N THEN ulog.data_list[s].name ELSE TopicOf(s)

SchemaOf(s) ==
    IF s \in 1 .. N THEN ulog.data_list[s].name ELSE FixedSchema[TopicOf(s)]

InstanceOf(s) == IF s \in 1 .. N THEN ulog.data_list[s].multi_id ELSE 0

LEMMA StreamNames ==
    ASSUME Logged, NEW s \in 1 .. N + 4
    PROVE  /\ R!parse_topic_name(TopicOf(s)) = <<TableOf(s), InstanceOf(s)>>
           /\ TopicOf(s) \in FixedTopic <=> s \notin 1 .. N
<1>1. CASE s \in 1 .. N
  <2>1. s \in DOMAIN ulog.data_list
    BY <1>1, LogFacts DEF Logged, N
  <2>2. TopicOf(s) = map_topic_name(ulog.data_list[s])
    BY <1>1 DEF TopicOf
  <2>3. R!parse_topic_name(TopicOf(s)) = <<ulog.data_list[s].name, ulog.data_list[s].multi_id>>
    BY <2>1, <2>2, NamesRoundTrip DEF Logged
  <2>4. TopicOf(s) \notin FixedTopic
    BY <2>1, <2>2, FixedNames DEF Logged
  <2> QED BY <1>1, <2>3, <2>4 DEF TableOf, InstanceOf
<1>2. CASE s \notin 1 .. N
  <2>1. TopicOf(s) \in FixedTopic
    BY <1>2 DEF TopicOf, FixedTopic
  <2> QED BY <1>2, <2>1, FixedNames DEF TableOf, InstanceOf
<1> QED BY <1>1, <1>2
-----------------------------------------------------------------------------
(* The converter *)

CodecOf(s) ==
    IF s \in 1 .. N THEN TopicCodec(_aggregate_fields(ulog.data_list[s].field_data))
    ELSE FixedCodec(TopicOf(s))

ChannelOf(s) == Channel(SchemaOf(s), CodecOf(s), CodecOf(s))

SetOf(s) == schema_bytes(SchemaOf(s), CodecOf(s))

\* The message that record j of stream s becomes.
MessageOf(s, j) ==
    [topic |-> TopicOf(s), schema_name |-> SchemaOf(s), schema_data |-> SetOf(s),
     log_time |-> Streams[s][j].time * 1000, publish_time |-> Streams[s][j].time * 1000,
     sequence |-> 0, data |-> encode(CodecOf(s), Streams[s][j].payload),
     record |-> Streams[s][j].record, encoded |-> CodecOf(s)]

LEMMA SameLog ==
    ASSUME ulog' = ulog
    PROVE  /\ Streams' = Streams /\ N' = N /\ Logged' = Logged
           /\ \A s, j : MessageOf(s, j)' = MessageOf(s, j)
           /\ \A s : /\ ChannelOf(s)' = ChannelOf(s) /\ CodecOf(s)' = CodecOf(s)
                     /\ TopicOf(s)' = TopicOf(s) /\ SchemaOf(s)' = SchemaOf(s)
<1>1. Streams' = Streams
  BY DEF Streams, stream_topic_records, stream_logged_messages, stream_logged_messages_tagged,
         stream_parameter_changes, stream_trajectory, Tagged, TaggedBefore, TaggedTime
<1>2. N' = N /\ Logged' = Logged
  BY DEF N, Logged
<1>3. \A s : TopicOf(s)' = TopicOf(s)
  BY DEF TopicOf, N
<1>4. \A s : CodecOf(s)' = CodecOf(s)
  BY <1>3 DEF CodecOf, N
<1>5. \A s : SchemaOf(s)' = SchemaOf(s)
  BY <1>3 DEF SchemaOf, N
<1>6. \A s : ChannelOf(s)' = ChannelOf(s)
  BY <1>4, <1>5 DEF ChannelOf
<1>7. \A s, j : MessageOf(s, j)' = MessageOf(s, j)
  <2>1. \A s : SetOf(s)' = SetOf(s)
    BY <1>4, <1>5 DEF SetOf
  <2> QED BY <1>1, <1>3, <1>4, <1>5, <2>1 DEF MessageOf
<1> QED BY <1>1, <1>2, <1>3, <1>4, <1>5, <1>6, <1>7
\* A type's codec is the one of its definition; each topic that was registered has
\* the channel of its stream, and all of them have theirs when the writing starts.
ChannelsOfStreams ==
    /\ registered \in 0 .. N
    /\ \A s \in 1 .. N : ulog.data_list[s].name \in DOMAIN codecs =>
           codecs[ulog.data_list[s].name] = CodecOf(s)
    /\ \A s \in 1 .. registered :
           TopicOf(s) \in DOMAIN channels /\ channels[TopicOf(s)] = ChannelOf(s)
    /\ pc \in {"write", "finished"} =>
           \A s \in 1 .. N + 4 : TopicOf(s) \in DOMAIN channels /\ channels[TopicOf(s)] = ChannelOf(s)

\* The messages of the file are those of the records written so far, each once.
WrittenOnce ==
    /\ written \in [1 .. N + 4 -> Nat]
    /\ \A s \in 1 .. N + 4 : written[s] <= Len(Streams[s])
    /\ Sequence(mcap)
    /\ \A k \in 1 .. Len(mcap) : \E s \in 1 .. N + 4 : \E j \in 1 .. written[s] :
           mcap[k] = MessageOf(s, j)
    /\ \A s \in 1 .. N + 4 : \A j \in 1 .. written[s] :
           \E k \in 1 .. Len(mcap) : mcap[k] = MessageOf(s, j)
    /\ \A k, l \in 1 .. Len(mcap) : mcap[k].record = mcap[l].record => k = l
    /\ pc = "register" => \A s \in 1 .. N + 4 : written[s] = 0
    /\ pc = "finished" => \A s \in 1 .. N + 4 : written[s] = Len(Streams[s])

\* Those of one source and time are in the order of their rows.
RowsInFileOrder ==
    \A k, l \in 1 .. Len(mcap) :
        k < l /\ mcap[k].record.source = mcap[l].record.source
              /\ mcap[k].publish_time = mcap[l].publish_time
            => mcap[k].record.row < mcap[l].record.row

\* The codecs of the registered types were built, what was written could be, and
\* what raised could not.
WhatRaises ==
    /\ \A s \in 1 .. registered : Builds(CodecOf(s).fields)
    /\ pc \in {"write", "finished"} => registered = N
    /\ \A s \in 1 .. N + 4 : \A j \in 1 .. written[s] : CanWrite(CodecOf(s), Streams[s][j])
    /\ pc = "raised" =>
           \/ \E s \in 1 .. N : ~ Builds(CodecOf(s).fields)
           \/ \E s \in 1 .. N + 4 :
                  /\ written[s] < Len(Streams[s])
                  /\ ~ CanWrite(CodecOf(s), Streams[s][written[s] + 1])

ConverterInvariant ==
    /\ Logged
    /\ pc \in {"register", "write", "finished", "raised"}
    /\ ChannelsOfStreams
    /\ WrittenOnce
    /\ RowsInFileOrder
    /\ WhatRaises

LEMMA RecordFacts ==
    ASSUME Logged, NEW s \in 1 .. N + 4, NEW j \in 1 .. Len(Streams[s])
    PROVE  /\ Streams[s][j].topic = TopicOf(s) /\ Streams[s][j].time \in Nat
           /\ Streams[s][j].record.row \in Int /\ From(s, Streams[s][j].record.source)
           /\ Streams[s][j].record = [source |-> Streams[s][j].record.source,
                                      row |-> Streams[s][j].record.row]
<1>1. WellFormed(s, Streams[s])
  BY StreamsAre
<1> QED BY <1>1 DEF WellFormed

LEMMA MessageFields ==
    ASSUME NEW s, NEW j
    PROVE  /\ MessageOf(s, j).topic = TopicOf(s) /\ MessageOf(s, j).schema_name = SchemaOf(s)
           /\ MessageOf(s, j).schema_data = SetOf(s)
           /\ MessageOf(s, j).schema_data.fields = descriptor(CodecOf(s))
           /\ MessageOf(s, j).encoded = CodecOf(s)
           /\ MessageOf(s, j).publish_time = Streams[s][j].time * 1000
           /\ MessageOf(s, j).log_time = Streams[s][j].time * 1000
           /\ MessageOf(s, j).data = encode(CodecOf(s), Streams[s][j].payload)
           /\ MessageOf(s, j).record = Streams[s][j].record
BY DEF MessageOf, SetOf, schema_bytes

LEMMA OneStream ==
    ASSUME N \in Nat, NEW s \in 1 .. N + 4, NEW r \in 1 .. N + 4, NEW source, From(s, source), From(r, source)
    PROVE  s = r
<1>1. ASSUME NEW x \in 1 .. N + 4, From(x, source)
      PROVE  /\ source.kind = "data" => x \in 1 .. N /\ source.n = x
             /\ source.kind = "log" => x = N + 1
             /\ source.kind = "tagged" => x = N + 2
             /\ source.kind = "parameter" => x = N + 3
             /\ source.kind = "trajectory" => x = N + 4
             /\ source.kind \in {"data", "log", "tagged", "parameter", "trajectory"}
  BY <1>1 DEF From
<1> QED BY <1>1

LEMMA RecordsDiffer ==
    ASSUME Logged, NEW s \in 1 .. N + 4, NEW j \in 1 .. Len(Streams[s]),
           NEW r \in 1 .. N + 4, NEW i \in 1 .. Len(Streams[r]),
           Streams[s][j].record = Streams[r][i].record
    PROVE  s = r /\ j = i
<1>1. N \in Nat /\ WellFormed(s, Streams[s])
  BY StreamsAre
<1>2. From(s, Streams[s][j].record.source)
  BY RecordFacts
<1>3. From(r, Streams[r][i].record.source)
  BY RecordFacts
<1>4. s = r
  BY <1>1, <1>2, <1>3, OneStream
<1>5. \A k, l \in 1 .. Len(Streams[s]) : Streams[s][k].record = Streams[s][l].record => k = l
  BY <1>1 DEF WellFormed
<1> QED BY <1>4, <1>5

LEMMA ConverterInit ==
    ASSUME Init
    PROVE  ConverterInvariant
<1>1. Logged /\ pc = "register" /\ registered = 0 /\ DOMAIN codecs = {} /\ mcap = <<>>
  BY DEF Init, Logged
<1>2. N \in Nat /\ DOMAIN Streams = 1 .. N + 4 /\ \A s \in 1 .. N + 4 : WellFormed(s, Streams[s])
  BY <1>1, StreamsAre
<1>3. written = [s \in 1 .. N + 4 |-> 0]
  BY <1>2 DEF Init
<1>4. ChannelsOfStreams
  BY <1>1, <1>2 DEF ChannelsOfStreams
<1>5. \A s \in 1 .. N + 4 : Len(Streams[s]) \in Nat
  BY <1>2, SequenceFacts DEF WellFormed
<1>6. Sequence(mcap) /\ Len(mcap) = 0
  BY <1>1, EmptySeq DEF Sequence
<1>7. WrittenOnce
  BY <1>1, <1>2, <1>3, <1>5, <1>6 DEF WrittenOnce
<1>8. RowsInFileOrder /\ WhatRaises
  BY <1>1, <1>3, <1>6 DEF RowsInFileOrder, WhatRaises
<1> QED BY <1>1, <1>4, <1>7, <1>8 DEF ConverterInvariant

LEMMA RegisterTopicStep ==
    ASSUME ConverterInvariant, RegisterTopic
    PROVE  ConverterInvariant'
<1> DEFINE n == registered + 1
<1>1. Logged /\ ChannelsOfStreams /\ WrittenOnce /\ RowsInFileOrder /\ WhatRaises /\ pc = "register"
  BY DEF ConverterInvariant, RegisterTopic
<1>2. N \in Nat
  BY <1>1, StreamsAre
<1>3. /\ UNCHANGED <<ulog, pc, written, mcap>> /\ registered' = n /\ n \in 1 .. N
      /\ codecs' = CodecsWith(ulog.data_list[n])
      /\ channels' = AddChannel(map_topic_name(ulog.data_list[n]),
                                Channel(ulog.data_list[n].name,
                                        CodecsWith(ulog.data_list[n])[ulog.data_list[n].name],
                                        CodecsWith(ulog.data_list[n])[ulog.data_list[n].name]))
  <2>1. registered \in 0 .. N /\ registered < N
    BY <1>1 DEF ChannelsOfStreams, RegisterTopic, N
  <2> QED BY <1>2, <2>1 DEF RegisterTopic, NextTopic
<1>4. ASSUME NEW s \in 1 .. N, ulog.data_list[s].name \in DOMAIN CodecsWith(ulog.data_list[n])
      PROVE  CodecsWith(ulog.data_list[n])[ulog.data_list[s].name] = CodecOf(s)
  <2>1. ulog.data_list[s].name = ulog.data_list[n].name
          => ulog.data_list[s].field_data = ulog.data_list[n].field_data
    BY <1>1, <1>3, LogFacts DEF Logged, N
  <2>2. ulog.data_list[s].name \in DOMAIN codecs =>
            codecs[ulog.data_list[s].name] = CodecOf(s)
    BY <1>1 DEF ChannelsOfStreams
  <2>3. CodecOf(s) = TopicCodec(_aggregate_fields(ulog.data_list[s].field_data))
    BY DEF CodecOf
  <2> QED BY <1>4, <2>1, <2>2, <2>3 DEF CodecsWith
<1>5. ulog.data_list[n].name \in DOMAIN CodecsWith(ulog.data_list[n])
  BY DEF CodecsWith
<1>6. CodecsWith(ulog.data_list[n])[ulog.data_list[n].name] = CodecOf(n)
  BY <1>3, <1>4, <1>5
<1>7. TopicOf(n) = map_topic_name(ulog.data_list[n]) /\ SchemaOf(n) = ulog.data_list[n].name
  BY <1>3 DEF TopicOf, SchemaOf
<1>8. channels' = AddChannel(TopicOf(n), ChannelOf(n))
  BY <1>3, <1>6, <1>7 DEF ChannelOf
\* Two entries of one name and one number have one type.
<1>9. ASSUME NEW s \in 1 .. n
      PROVE  TopicOf(s) \in DOMAIN channels' /\ channels'[TopicOf(s)] = ChannelOf(s)
  <2>1. CASE TopicOf(s) = TopicOf(n)
    <3>1. s \in 1 .. N
      BY <1>2, <1>3
    <3>2. R!parse_topic_name(TopicOf(s)) = <<TableOf(s), InstanceOf(s)>>
      BY <1>1, <1>2, <3>1, StreamNames
    <3>3. R!parse_topic_name(TopicOf(n)) = <<TableOf(n), InstanceOf(n)>>
      BY <1>1, <1>2, <1>3, StreamNames
    <3>4. ulog.data_list[s].name = ulog.data_list[n].name
      BY <1>3, <2>1, <3>1, <3>2, <3>3 DEF TableOf
    <3>5. ulog.data_list[s].field_data = ulog.data_list[n].field_data
      BY <1>1, <1>3, <3>1, <3>4, LogFacts DEF Logged, N
    <3>6. ChannelOf(s) = ChannelOf(n)
      BY <1>3, <3>1, <3>4, <3>5 DEF ChannelOf, SchemaOf, CodecOf
    <3>7. TopicOf(n) \in DOMAIN channels' /\ channels'[TopicOf(n)] = ChannelOf(n)
      <4> HIDE DEF n
      <4> QED BY <1>8 DEF AddChannel
    <3> HIDE DEF n
    <3> QED BY <2>1, <3>6, <3>7
  <2>2. CASE TopicOf(s) # TopicOf(n)
    <3>1. s \in 1 .. registered
      BY <1>1, <1>2, <1>3, <2>2 DEF ChannelsOfStreams
    <3>2. TopicOf(s) \in DOMAIN channels /\ channels[TopicOf(s)] = ChannelOf(s)
      BY <1>1, <3>1 DEF ChannelsOfStreams
    <3> QED BY <1>8, <2>2, <3>2 DEF AddChannel
  <2> QED BY <2>1, <2>2
<1>10. ChannelsOfStreams'
  <2>1. /\ N' = N
        /\ \A s : /\ ChannelOf(s)' = ChannelOf(s) /\ CodecOf(s)' = CodecOf(s)
                  /\ TopicOf(s)' = TopicOf(s)
    BY <1>3, SameLog
  <2>2. \A s \in 1 .. N' : ulog'.data_list[s].name \in DOMAIN codecs' =>
            codecs'[ulog'.data_list[s].name] = CodecOf(s)'
    BY <1>3, <1>4, <2>1
  <2>3. \A s \in 1 .. registered' :
            TopicOf(s)' \in DOMAIN channels' /\ channels'[TopicOf(s)'] = ChannelOf(s)'
    BY <1>3, <1>9, <2>1
  <2>4. registered' \in 0 .. N' /\ pc' \notin {"write", "finished"}
    BY <1>1, <1>2, <1>3, <2>1
  <2> QED BY <2>2, <2>3, <2>4 DEF ChannelsOfStreams
<1>11. WrittenOnce' /\ RowsInFileOrder' /\ WhatRaises' /\ Logged' /\ pc' = pc
  <2>1. /\ N' = N /\ Streams' = Streams /\ Logged' = Logged
        /\ \A s : CodecOf(s)' = CodecOf(s)
        /\ \A s, j : MessageOf(s, j)' = MessageOf(s, j)
    BY <1>3, SameLog
  <2>2. WrittenOnce'
    BY <1>1, <1>3, <2>1 DEF WrittenOnce
  <2>3. RowsInFileOrder'
    BY <1>1, <1>3 DEF RowsInFileOrder
  <2>4. WhatRaises'
    <3>1. Builds(CodecOf(n).fields)
      BY <1>6 DEF RegisterTopic, NextTopic
    <3>2. \A s \in 1 .. n : s \in 1 .. registered \/ s = n
      BY <1>1 DEF ChannelsOfStreams
    <3>3. \A s \in 1 .. n : Builds(CodecOf(s).fields)
      BY <1>1, <3>1, <3>2 DEF WhatRaises
    <3>4. \A s \in 1 .. registered' : Builds(CodecOf(s)'.fields)
      BY <1>3, <2>1, <3>3
    <3>5. pc' = "register"
      BY <1>1, <1>3
    <3>6. \A s \in 1 .. N' + 4 : \A j \in 1 .. written'[s] :
              CanWrite(CodecOf(s)', Streams'[s][j])
      BY <1>1, <1>3, <2>1 DEF WhatRaises
    <3> QED BY <3>4, <3>5, <3>6 DEF WhatRaises
  <2> QED BY <1>1, <1>3, <2>1, <2>2, <2>3, <2>4
<1> QED BY <1>1, <1>10, <1>11 DEF ConverterInvariant

LEMMA RegisterFixedStep ==
    ASSUME ConverterInvariant, RegisterFixed
    PROVE  ConverterInvariant'
<1>1. Logged /\ ChannelsOfStreams /\ WrittenOnce /\ RowsInFileOrder /\ WhatRaises /\ pc = "register"
  BY DEF ConverterInvariant, RegisterFixed
<1>2. N \in Nat
  BY <1>1, StreamsAre
<1>3. /\ UNCHANGED <<ulog, registered, codecs, written, mcap>> /\ pc' = "write"
      /\ registered = N /\ channels' = WithFixed
  BY DEF RegisterFixed, N
<1>4. ASSUME NEW s \in 1 .. N + 4
      PROVE  TopicOf(s) \in DOMAIN channels' /\ channels'[TopicOf(s)] = ChannelOf(s)
  <2>1. CASE s \in 1 .. N
    <3>1. TopicOf(s) \in DOMAIN channels /\ channels[TopicOf(s)] = ChannelOf(s)
      BY <1>1, <1>3, <2>1 DEF ChannelsOfStreams
    <3>2. TopicOf(s) \notin FixedTopic
      BY <1>1, <2>1, StreamNames
    <3> QED BY <1>3, <3>1, <3>2 DEF WithFixed
  <2>2. CASE s \notin 1 .. N
    <3>1. TopicOf(s) \in FixedTopic
      BY <1>1, <2>2, StreamNames
    <3>2. ChannelOf(s) = Channel(FixedSchema[TopicOf(s)], FixedCodec(TopicOf(s)), FixedCodec(TopicOf(s)))
      BY <2>2 DEF ChannelOf, SchemaOf, CodecOf
    <3> QED BY <1>3, <3>1, <3>2 DEF WithFixed
  <2> QED BY <2>1, <2>2
<1>5. /\ N' = N /\ Streams' = Streams /\ Logged' = Logged
      /\ \A s : ChannelOf(s)' = ChannelOf(s) /\ CodecOf(s)' = CodecOf(s) /\ TopicOf(s)' = TopicOf(s)
      /\ \A s, j : MessageOf(s, j)' = MessageOf(s, j)
  BY <1>3, SameLog
<1>6. ChannelsOfStreams'
  <2>1. \A s \in 1 .. N + 4 : TopicOf(s)' \in DOMAIN channels' /\ channels'[TopicOf(s)'] = ChannelOf(s)'
    BY <1>4, <1>5
  <2>2. \A s \in 1 .. registered : TopicOf(s)' \in DOMAIN channels' /\ channels'[TopicOf(s)'] = ChannelOf(s)'
    BY <1>2, <1>3, <2>1
  <2>3. \A s \in 1 .. N : ulog.data_list[s].name \in DOMAIN codecs' =>
            codecs'[ulog.data_list[s].name] = CodecOf(s)'
    BY <1>1, <1>3, <1>5 DEF ChannelsOfStreams
  <2> QED BY <1>2, <1>3, <1>5, <2>1, <2>2, <2>3 DEF ChannelsOfStreams
<1>7. WrittenOnce'
  BY <1>1, <1>3, <1>5 DEF WrittenOnce
<1>8. RowsInFileOrder' /\ WhatRaises'
  BY <1>1, <1>3, <1>5 DEF RowsInFileOrder, WhatRaises
<1> QED BY <1>1, <1>3, <1>5, <1>6, <1>7, <1>8 DEF ConverterInvariant

LEMMA CodecRaisesStep ==
    ASSUME ConverterInvariant, CodecRaises
    PROVE  ConverterInvariant'
<1>0. PICK n : n = registered + 1
  OBVIOUS
<1>1. Logged /\ ChannelsOfStreams /\ WrittenOnce /\ RowsInFileOrder /\ WhatRaises /\ pc = "register"
  BY DEF ConverterInvariant, CodecRaises
<1>2. N \in Nat
  BY <1>1, StreamsAre
<1>3. /\ UNCHANGED <<ulog, registered, codecs, channels, written, mcap>> /\ pc' = "raised"
      /\ n \in 1 .. N
      /\ ~ Builds(CodecsWith(ulog.data_list[n])[ulog.data_list[n].name].fields)
  <2>1. registered \in 0 .. N /\ registered < N
    BY <1>1 DEF ChannelsOfStreams, CodecRaises, N
  <2> QED BY <1>0, <1>2, <2>1 DEF CodecRaises, NextTopic
<1>4. CodecsWith(ulog.data_list[n])[ulog.data_list[n].name] = CodecOf(n)
  <2>1. ulog.data_list[n].name \in DOMAIN codecs => codecs[ulog.data_list[n].name] = CodecOf(n)
    BY <1>1, <1>3 DEF ChannelsOfStreams
  <2>2. CodecOf(n) = TopicCodec(_aggregate_fields(ulog.data_list[n].field_data))
    BY <1>3 DEF CodecOf
  <2> QED BY <2>1, <2>2 DEF CodecsWith
<1>5. /\ N' = N /\ Streams' = Streams /\ Logged' = Logged
      /\ \A s : ChannelOf(s)' = ChannelOf(s) /\ CodecOf(s)' = CodecOf(s) /\ TopicOf(s)' = TopicOf(s)
      /\ \A s, j : MessageOf(s, j)' = MessageOf(s, j)
  BY <1>3, SameLog
<1>6. ChannelsOfStreams'
  BY <1>1, <1>3, <1>5 DEF ChannelsOfStreams
<1>7. WrittenOnce' /\ RowsInFileOrder'
  BY <1>1, <1>3, <1>5 DEF WrittenOnce, RowsInFileOrder
<1>8. WhatRaises'
  <2>1. ~ Builds(CodecOf(n)'.fields) /\ n \in 1 .. N'
    BY <1>3, <1>4, <1>5
  <2>2. \E m \in 1 .. N' : ~ Builds(CodecOf(m)'.fields)
    BY <2>1
  <2> QED BY <1>1, <1>3, <1>5, <2>2 DEF WhatRaises
<1> QED BY <1>1, <1>3, <1>5, <1>6, <1>7, <1>8 DEF ConverterInvariant

LEMMA FinishFileStep ==
    ASSUME ConverterInvariant, FinishFile
    PROVE  ConverterInvariant'
<1>1. Logged /\ ChannelsOfStreams /\ WrittenOnce /\ RowsInFileOrder /\ WhatRaises /\ pc = "write"
  BY DEF ConverterInvariant, FinishFile
<1>2. UNCHANGED <<ulog, registered, codecs, channels, written, mcap>> /\ pc' = "finished" /\ Pending = {}
  BY DEF FinishFile
<1>3. /\ N' = N /\ Streams' = Streams /\ Logged' = Logged
      /\ \A s : ChannelOf(s)' = ChannelOf(s) /\ CodecOf(s)' = CodecOf(s) /\ TopicOf(s)' = TopicOf(s)
      /\ \A s, j : MessageOf(s, j)' = MessageOf(s, j)
  BY <1>2, SameLog
<1>4. \A s \in 1 .. N + 4 : written[s] = Len(Streams[s])
  <2>1. /\ DOMAIN Streams = 1 .. N + 4
        /\ \A s \in 1 .. N + 4 : WellFormed(s, Streams[s])
    BY <1>1, StreamsAre
  <2>2. \A s \in 1 .. N + 4 : Len(Streams[s]) \in Nat
    BY <2>1, SequenceFacts DEF WellFormed
  <2>3. \A s \in 1 .. N + 4 : written[s] \in Nat /\ written[s] <= Len(Streams[s])
    BY <1>1 DEF WrittenOnce
  <2> QED BY <1>2, <2>1, <2>2, <2>3 DEF Pending
<1>5. ChannelsOfStreams'
  BY <1>1, <1>2, <1>3 DEF ChannelsOfStreams
<1>6. WrittenOnce'
  <2>2. \A s \in 1 .. N' + 4 : written'[s] = Len(Streams'[s])
    BY <1>2, <1>3, <1>4
  <2>3. pc' # "register"
    BY <1>2
  <2>4. /\ written' \in [1 .. N' + 4 -> Nat]
        /\ \A s \in 1 .. N' + 4 : written'[s] <= Len(Streams'[s])
        /\ Sequence(mcap')
        /\ \A k, l \in 1 .. Len(mcap') : mcap'[k].record = mcap'[l].record => k = l
    BY <1>1, <1>2, <1>3 DEF WrittenOnce
  <2>5. /\ \A k \in 1 .. Len(mcap') : \E s \in 1 .. N' + 4 : \E j \in 1 .. written'[s] :
               mcap'[k] = MessageOf(s, j)'
        /\ \A s \in 1 .. N' + 4 : \A j \in 1 .. written'[s] :
               \E k \in 1 .. Len(mcap') : mcap'[k] = MessageOf(s, j)'
    <3>1. /\ \A k \in 1 .. Len(mcap) : \E s \in 1 .. N + 4 : \E j \in 1 .. written[s] :
                 mcap[k] = MessageOf(s, j)
          /\ \A s \in 1 .. N + 4 : \A j \in 1 .. written[s] :
                 \E k \in 1 .. Len(mcap) : mcap[k] = MessageOf(s, j)
      BY <1>1 DEF WrittenOnce
    <3> QED BY <1>2, <1>3, <3>1
  <2> QED BY <2>2, <2>3, <2>4, <2>5 DEF WrittenOnce
<1>7. RowsInFileOrder' /\ WhatRaises'
  BY <1>1, <1>2, <1>3 DEF RowsInFileOrder, WhatRaises
<1> QED BY <1>1, <1>2, <1>3, <1>5, <1>6, <1>7 DEF ConverterInvariant

\* What a stream that has the next message is.
LEMMA NextIs ==
    ASSUME ConverterInvariant, pc = "write", NEW s \in DOMAIN Streams, s \in Pending
    PROVE  /\ s \in 1 .. N + 4 /\ N \in Nat /\ DOMAIN Streams = 1 .. N + 4
           /\ written[s] \in Nat /\ Len(Streams[s]) \in Nat
           /\ written[s] + 1 \in 1 .. Len(Streams[s])
           /\ NextRecord(s) = Streams[s][written[s] + 1]
           /\ NextRecord(s).topic = TopicOf(s)
           /\ channels[TopicOf(s)] = ChannelOf(s)
           /\ NextCodec(s) = CodecOf(s)
<1>1. Logged /\ ChannelsOfStreams /\ WrittenOnce
  BY DEF ConverterInvariant
<1>2. N \in Nat /\ DOMAIN Streams = 1 .. N + 4 /\ WellFormed(s, Streams[s])
  BY <1>1, StreamsAre
<1>3. Len(Streams[s]) \in Nat /\ written[s] \in Nat /\ written[s] < Len(Streams[s])
  BY <1>1, <1>2, SequenceFacts DEF WellFormed, WrittenOnce, Pending
<1>4. written[s] + 1 \in 1 .. Len(Streams[s])
  BY <1>3
<1>5. NextRecord(s).topic = TopicOf(s)
  BY <1>1, <1>2, <1>4, RecordFacts DEF NextRecord
<1>6. channels[TopicOf(s)] = ChannelOf(s)
  BY <1>1, <1>2 DEF ChannelsOfStreams
<1>7. NextCodec(s) = CodecOf(s)
  BY <1>5, <1>6 DEF NextCodec, ChannelOf, Channel
<1> QED BY <1>2, <1>3, <1>4, <1>5, <1>6, <1>7 DEF NextRecord

LEMMA EncodeRaisesStep ==
    ASSUME ConverterInvariant, NEW s \in DOMAIN Streams, EncodeRaises(s)
    PROVE  ConverterInvariant'
<1>1. Logged /\ ChannelsOfStreams /\ WrittenOnce /\ RowsInFileOrder /\ WhatRaises /\ pc = "write"
  BY DEF ConverterInvariant, EncodeRaises
<1>2. /\ UNCHANGED <<ulog, registered, codecs, channels, written, mcap>> /\ pc' = "raised"
      /\ s \in Pending /\ ~ CanWrite(NextCodec(s), NextRecord(s))
  BY DEF EncodeRaises
<1>3. /\ N' = N /\ Streams' = Streams /\ Logged' = Logged
      /\ \A r : ChannelOf(r)' = ChannelOf(r) /\ CodecOf(r)' = CodecOf(r) /\ TopicOf(r)' = TopicOf(r)
      /\ \A r, j : MessageOf(r, j)' = MessageOf(r, j)
  BY <1>2, SameLog
<1>4. /\ s \in 1 .. N + 4 /\ written[s] < Len(Streams[s])
      /\ ~ CanWrite(CodecOf(s), Streams[s][written[s] + 1])
  BY <1>1, <1>2, NextIs DEF Pending
<1>5. ChannelsOfStreams'
  BY <1>1, <1>2, <1>3 DEF ChannelsOfStreams
<1>6. WrittenOnce' /\ RowsInFileOrder'
  BY <1>1, <1>2, <1>3 DEF WrittenOnce, RowsInFileOrder
<1>7. WhatRaises'
  BY <1>1, <1>2, <1>3, <1>4 DEF WhatRaises
<1> QED BY <1>1, <1>2, <1>3, <1>5, <1>6, <1>7 DEF ConverterInvariant

\* What WriteMessage(s) writes.
LEMMA WriteIs ==
    ASSUME ConverterInvariant, NEW s \in DOMAIN Streams, WriteMessage(s)
    PROVE  /\ UNCHANGED <<ulog, pc, registered, codecs, channels>> /\ pc = "write"
           /\ s \in Pending /\ TakeEarliest(s)
           /\ CanWrite(CodecOf(s), Streams[s][written[s] + 1])
           /\ mcap' = Append(mcap, MessageOf(s, written[s] + 1))
           /\ written' = [written EXCEPT ![s] = @ + 1]
<1>1. /\ UNCHANGED <<ulog, pc, registered, codecs, channels>> /\ pc = "write"
      /\ s \in Pending /\ TakeEarliest(s)
      /\ CanWrite(NextCodec(s), NextRecord(s))
      /\ written' = [written EXCEPT ![s] = @ + 1]
  BY DEF WriteMessage
<1>2. /\ NextRecord(s) = Streams[s][written[s] + 1]
      /\ NextRecord(s).topic = TopicOf(s)
      /\ channels[TopicOf(s)] = ChannelOf(s)
      /\ NextCodec(s) = CodecOf(s)
  BY <1>1, NextIs
<1>3. ChannelOf(s).schema_name = SchemaOf(s) /\ ChannelOf(s).schema_data = SetOf(s)
  BY DEF ChannelOf, Channel, SetOf
<1>4. mcap' = Append(mcap, MessageOf(s, written[s] + 1))
  BY <1>2, <1>3 DEF WriteMessage, MessageOf
<1> QED BY <1>1, <1>2, <1>4

LEMMA WriteMessageStep ==
    ASSUME ConverterInvariant, NEW s \in DOMAIN Streams, WriteMessage(s)
    PROVE  ConverterInvariant'
<1>0. PICK j : j = written[s] + 1
  OBVIOUS
<1>1. Logged /\ ChannelsOfStreams /\ WrittenOnce /\ RowsInFileOrder /\ WhatRaises
  BY DEF ConverterInvariant
<1>2. /\ UNCHANGED <<ulog, pc, registered, codecs, channels>> /\ pc = "write"
      /\ CanWrite(CodecOf(s), Streams[s][j])
      /\ mcap' = Append(mcap, MessageOf(s, j))
      /\ written' = [written EXCEPT ![s] = j]
      /\ s \in Pending
  BY <1>0, WriteIs
<1>3. /\ s \in 1 .. N + 4 /\ N \in Nat /\ written[s] \in Nat /\ j \in 1 .. Len(Streams[s])
      /\ Len(Streams[s]) \in Nat
  BY <1>0, <1>2, NextIs
<1>4. /\ written \in [1 .. N + 4 -> Nat]
      /\ \A r \in 1 .. N + 4 : written[r] <= Len(Streams[r]) /\ Len(Streams[r]) \in Nat
      /\ Sequence(mcap)
  BY <1>1, StreamsAre, SequenceFacts DEF WrittenOnce, WellFormed
<1>5. /\ N' = N /\ Streams' = Streams /\ Logged' = Logged
      /\ \A r : ChannelOf(r)' = ChannelOf(r) /\ CodecOf(r)' = CodecOf(r) /\ TopicOf(r)' = TopicOf(r)
      /\ \A r, i : MessageOf(r, i)' = MessageOf(r, i)
  BY <1>2, SameLog
<1>6. PICK L \in Nat : L = Len(mcap)
  BY <1>4, SequenceFacts
<1>7. /\ Sequence(mcap') /\ Len(mcap') = L + 1
      /\ \A k \in 1 .. L : mcap'[k] = mcap[k]
      /\ mcap'[L + 1] = MessageOf(s, j)
  BY <1>2, <1>4, <1>6, AppendSequence
<1>8. /\ written' \in [1 .. N + 4 -> Nat] /\ written'[s] = j
      /\ \A r \in 1 .. N + 4 : r # s => written'[r] = written[r]
  BY <1>0, <1>2, <1>3, <1>4
<1>9. \A k \in 1 .. L : \E r \in 1 .. N + 4 : \E i \in 1 .. written[r] : mcap[k] = MessageOf(r, i)
  BY <1>1, <1>6 DEF WrittenOnce
<1>10. \A k \in 1 .. L + 1 : \E r \in 1 .. N + 4 : \E i \in 1 .. written'[r] : mcap'[k] = MessageOf(r, i)
  <2>1. ASSUME NEW k \in 1 .. L
        PROVE  \E r \in 1 .. N + 4 : \E i \in 1 .. written'[r] : mcap'[k] = MessageOf(r, i)
    <3>1. PICK r \in 1 .. N + 4 : \E i \in 1 .. written[r] : mcap[k] = MessageOf(r, i)
      BY <1>9
    <3>2. PICK i \in 1 .. written[r] : mcap[k] = MessageOf(r, i)
      BY <3>1
    <3>3. i \in 1 .. written'[r]
      BY <1>0, <1>3, <1>4, <1>8
    <3> QED BY <1>7, <3>2, <3>3
  <2>2. \E r \in 1 .. N + 4 : \E i \in 1 .. written'[r] : mcap'[L + 1] = MessageOf(r, i)
    <3>1. j \in 1 .. written'[s]
      BY <1>3, <1>8
    <3> QED BY <1>3, <1>7, <3>1
  <2> QED BY <2>1, <2>2
<1>11. ASSUME NEW r \in 1 .. N + 4, NEW i \in 1 .. written'[r]
       PROVE  \E k \in 1 .. L + 1 : mcap'[k] = MessageOf(r, i)
  <2>1. CASE r = s /\ i = j
    BY <1>6, <1>7, <2>1
  <2>2. CASE i \in 1 .. written[r]
    <3>1. PICK k \in 1 .. L : mcap[k] = MessageOf(r, i)
      BY <1>1, <1>6, <2>2 DEF WrittenOnce
    <3> QED BY <1>6, <1>7, <3>1
  <2>3. (r = s /\ i = j) \/ i \in 1 .. written[r]
    BY <1>0, <1>3, <1>4, <1>8
  <2> QED BY <2>1, <2>2, <2>3
\* A message of the file is of another record than the new one, and earlier if of its stream.
<1>12. ASSUME NEW k \in 1 .. L
       PROVE  \E r \in 1 .. N + 4 : \E i \in 1 .. Len(Streams[r]) :
                  mcap[k] = MessageOf(r, i) /\ (r = s => i < j)
  <2>1. PICK r \in 1 .. N + 4 : \E i \in 1 .. written[r] : mcap[k] = MessageOf(r, i)
    BY <1>9
  <2>2. PICK i \in 1 .. written[r] : mcap[k] = MessageOf(r, i)
    BY <2>1
  <2>3. i \in 1 .. Len(Streams[r]) /\ (r = s => i < j)
    BY <1>0, <1>3, <1>4
  <2> QED BY <2>2, <2>3
<1>13. ASSUME NEW k \in 1 .. L PROVE mcap[k].record # MessageOf(s, j).record
  <2>1. PICK r \in 1 .. N + 4 : \E i \in 1 .. Len(Streams[r]) :
                  mcap[k] = MessageOf(r, i) /\ (r = s => i < j)
    BY <1>12
  <2>2. PICK i \in 1 .. Len(Streams[r]) : mcap[k] = MessageOf(r, i) /\ (r = s => i < j)
    BY <2>1
  <2>3. Streams[r][i].record = Streams[s][j].record => r = s /\ i = j
    BY <1>1, <1>3, RecordsDiffer
  <2>4. mcap[k].record = Streams[r][i].record
    BY <2>2, MessageFields
  <2>5. MessageOf(s, j).record = Streams[s][j].record
    BY MessageFields
  <2> QED BY <1>3, <2>2, <2>3, <2>4, <2>5
<1>14. \A k, l \in 1 .. L + 1 : mcap'[k].record = mcap'[l].record => k = l
  <2>1. \A k, l \in 1 .. L : mcap[k].record = mcap[l].record => k = l
    BY <1>1, <1>6 DEF WrittenOnce
  <2>2. \A k \in 1 .. L + 1 : k \in 1 .. L \/ k = L + 1
    OBVIOUS
  <2> QED BY <1>7, <1>13, <2>1, <2>2
<1>15. WrittenOnce'
  <2>1. \A r \in 1 .. N + 4 : written'[r] <= Len(Streams[r])
    BY <1>3, <1>4, <1>8
  <2>2. \A r \in 1 .. N + 4 : \A i \in 1 .. written'[r] : \E k \in 1 .. L + 1 : mcap'[k] = MessageOf(r, i)
    BY <1>11
  <2>3. /\ \A k \in 1 .. Len(mcap') : \E r \in 1 .. N' + 4 : \E i \in 1 .. written'[r] :
               mcap'[k] = MessageOf(r, i)'
        /\ \A r \in 1 .. N' + 4 : \A i \in 1 .. written'[r] :
               \E k \in 1 .. Len(mcap') : mcap'[k] = MessageOf(r, i)'
    BY <1>5, <1>7, <1>10, <2>2
  <2>4. /\ written' \in [1 .. N' + 4 -> Nat]
        /\ \A r \in 1 .. N' + 4 : written'[r] <= Len(Streams'[r])
    BY <1>5, <1>8, <2>1
  <2>5. Sequence(mcap') /\ \A k, l \in 1 .. Len(mcap') : mcap'[k].record = mcap'[l].record => k = l
    BY <1>7, <1>14
  <2>6. pc' = "write"
    BY <1>2
  <2> QED BY <2>3, <2>4, <2>5, <2>6 DEF WrittenOnce
<1>16. RowsInFileOrder'
  <2>1. ASSUME NEW k \in 1 .. L, mcap[k].record.source = MessageOf(s, j).record.source,
               mcap[k].publish_time = MessageOf(s, j).publish_time
        PROVE  mcap[k].record.row < MessageOf(s, j).record.row
    <3>1. PICK r \in 1 .. N + 4 : \E i \in 1 .. Len(Streams[r]) :
                    mcap[k] = MessageOf(r, i) /\ (r = s => i < j)
      BY <1>12
    <3>2. PICK i \in 1 .. Len(Streams[r]) : mcap[k] = MessageOf(r, i) /\ (r = s => i < j)
      BY <3>1
    <3>3. mcap[k].record = Streams[r][i].record /\ mcap[k].publish_time = Streams[r][i].time * 1000
      BY <3>2, MessageFields
    <3>4. /\ MessageOf(s, j).record = Streams[s][j].record
          /\ MessageOf(s, j).publish_time = Streams[s][j].time * 1000
      BY MessageFields
    <3>5. From(r, Streams[r][i].record.source) /\ Streams[r][i].time \in Nat
      BY <1>1, RecordFacts
    <3>6. From(s, Streams[s][j].record.source) /\ Streams[s][j].time \in Nat
      BY <1>1, <1>3, RecordFacts
    <3>7. Streams[r][i].record.source = Streams[s][j].record.source
      BY <2>1, <3>3, <3>4
    <3>8. r = s
      BY <1>3, <3>5, <3>6, <3>7, OneStream
    <3>9. Streams[r][i].time = Streams[s][j].time
      <4>1. \A x, y \in Nat : x * 1000 = y * 1000 => x = y
        OBVIOUS
      <4>2. PICK x \in Nat : x = Streams[r][i].time
        BY <3>5
      <4>3. PICK y \in Nat : y = Streams[s][j].time
        BY <3>6
      <4>4. PICK a : a = mcap[k].publish_time
        OBVIOUS
      <4>5. a = x * 1000
        BY <3>3, <4>2, <4>4
      <4>6. a = y * 1000
        <5>1. a = MessageOf(s, j).publish_time
          BY <2>1, <4>4
        <5> QED BY <3>4, <4>3, <5>1
      <4>7. x * 1000 = y * 1000
        BY <4>5, <4>6
      <4> QED BY <4>1, <4>2, <4>3, <4>7
    <3>10. WellOrdered(Streams[s])
      BY <1>1, <1>3, StreamsAre DEF WellFormed
    <3>11. Streams[s][i].record.row < Streams[s][j].record.row
      BY <1>3, <3>2, <3>7, <3>8, <3>9, <3>10 DEF WellOrdered
    <3> QED BY <3>3, <3>4, <3>8, <3>11
  <2>2. \A k, l \in 1 .. L + 1 : k < l => k \in 1 .. L /\ (l \in 1 .. L \/ l = L + 1)
    OBVIOUS
  <2>3. \A k, l \in 1 .. L :
            k < l /\ mcap[k].record.source = mcap[l].record.source
                  /\ mcap[k].publish_time = mcap[l].publish_time
                => mcap[k].record.row < mcap[l].record.row
    BY <1>1, <1>6 DEF RowsInFileOrder
  <2>4. ASSUME NEW k \in 1 .. L + 1, NEW l \in 1 .. L + 1, k < l,
               mcap'[k].record.source = mcap'[l].record.source,
               mcap'[k].publish_time = mcap'[l].publish_time
        PROVE  mcap'[k].record.row < mcap'[l].record.row
    BY <1>7, <2>1, <2>2, <2>3, <2>4
  <2> QED BY <1>7, <2>4 DEF RowsInFileOrder
<1>17. WhatRaises'
  <2>1. ASSUME NEW r \in 1 .. N + 4, NEW i \in 1 .. written'[r]
        PROVE  CanWrite(CodecOf(r), Streams[r][i])
    <3>1. (r = s /\ i = j) \/ i \in 1 .. written[r]
      BY <1>0, <1>3, <1>4, <1>8
    <3> QED BY <1>1, <1>2, <3>1 DEF WhatRaises
  <2>2. \A r \in 1 .. N' + 4 : \A i \in 1 .. written'[r] : CanWrite(CodecOf(r)', Streams'[r][i])
    BY <1>5, <2>1
  <2>3. \A r \in 1 .. registered' : Builds(CodecOf(r)'.fields)
    BY <1>1, <1>2, <1>5 DEF WhatRaises
  <2>4. pc' = "write" /\ registered' = N'
    BY <1>1, <1>2, <1>5 DEF WhatRaises
  <2> QED BY <2>2, <2>3, <2>4 DEF WhatRaises
<1>18. ChannelsOfStreams'
  BY <1>1, <1>2, <1>5 DEF ChannelsOfStreams
<1> QED BY <1>1, <1>2, <1>5, <1>15, <1>16, <1>17, <1>18 DEF ConverterInvariant

LEMMA ConverterStep ==
    ASSUME ConverterInvariant, [Next]_vars
    PROVE  ConverterInvariant'
<1>1. CASE RegisterTopic
  BY <1>1, RegisterTopicStep
<1>2. CASE RegisterFixed
  BY <1>2, RegisterFixedStep
<1>3. CASE CodecRaises
  BY <1>3, CodecRaisesStep
<1>4. CASE \E s \in DOMAIN Streams : WriteMessage(s) \/ EncodeRaises(s)
  BY <1>4, WriteMessageStep, EncodeRaisesStep
<1>5. CASE FinishFile
  BY <1>5, FinishFileStep
<1>6. CASE UNCHANGED vars
  <2>1. UNCHANGED <<ulog, pc, registered, codecs, channels, written, mcap>>
    BY <1>6 DEF vars
  <2>2. /\ N' = N /\ Streams' = Streams /\ Logged' = Logged
        /\ \A s : ChannelOf(s)' = ChannelOf(s) /\ CodecOf(s)' = CodecOf(s) /\ TopicOf(s)' = TopicOf(s)
        /\ \A s, j : MessageOf(s, j)' = MessageOf(s, j)
    BY <2>1, SameLog
  <2>3. ChannelsOfStreams'
    BY <2>1, <2>2 DEF ChannelsOfStreams, ConverterInvariant
  <2>4. WrittenOnce'
    <3>1. WrittenOnce
      BY DEF ConverterInvariant
    <3>2. /\ N' = N /\ Streams' = Streams /\ \A s, j : MessageOf(s, j)' = MessageOf(s, j)
          /\ UNCHANGED <<pc, written, mcap>>
      BY <2>1, <2>2
    <3>3. /\ \A k \in 1 .. Len(mcap) : \E s \in 1 .. N + 4 : \E j \in 1 .. written[s] :
                 mcap[k] = MessageOf(s, j)
          /\ \A s \in 1 .. N + 4 : \A j \in 1 .. written[s] :
                 \E k \in 1 .. Len(mcap) : mcap[k] = MessageOf(s, j)
      BY <3>1 DEF WrittenOnce
    <3>4. /\ \A k \in 1 .. Len(mcap') : \E s \in 1 .. N' + 4 : \E j \in 1 .. written'[s] :
                 mcap'[k] = MessageOf(s, j)'
          /\ \A s \in 1 .. N' + 4 : \A j \in 1 .. written'[s] :
                 \E k \in 1 .. Len(mcap') : mcap'[k] = MessageOf(s, j)'
      BY <3>2, <3>3
    <3>5. /\ written' \in [1 .. N' + 4 -> Nat]
          /\ \A s \in 1 .. N' + 4 : written'[s] <= Len(Streams'[s])
          /\ Sequence(mcap')
          /\ \A k, l \in 1 .. Len(mcap') : mcap'[k].record = mcap'[l].record => k = l
          /\ pc' = "register" => \A s \in 1 .. N' + 4 : written'[s] = 0
          /\ pc' = "finished" => \A s \in 1 .. N' + 4 : written'[s] = Len(Streams'[s])
      BY <3>1, <3>2 DEF WrittenOnce
    <3> QED BY <3>4, <3>5 DEF WrittenOnce
  <2>5. RowsInFileOrder' /\ WhatRaises'
    BY <2>1, <2>2 DEF RowsInFileOrder, WhatRaises, ConverterInvariant
  <2> QED BY <2>1, <2>2, <2>3, <2>4, <2>5 DEF ConverterInvariant
<1> QED BY <1>1, <1>2, <1>3, <1>4, <1>5, <1>6 DEF Next

\* If the streams are in the order of their times, then the file is, and what was
\* written is no later than what is to be.
Merged ==
    (\A s \in DOMAIN Streams : InTimeOrder(Streams[s])) =>
        /\ \A k, l \in 1 .. Len(mcap) : k < l => mcap[k].publish_time <= mcap[l].publish_time
        /\ \A k \in 1 .. Len(mcap), s \in Pending : mcap[k].publish_time <= NextRecord(s).time * 1000

\* What has been written of the streams, and how much.
Copied == UNION {{s} \X (1 .. written[s]) : s \in DOMAIN Streams}

Counted == IsFiniteSet(Copied) /\ Len(mcap) = Cardinality(Copied)

LEMMA MessageTimes ==
    ASSUME ConverterInvariant, NEW k \in 1 .. Len(mcap)
    PROVE  mcap[k].publish_time \in Nat
<1>1. Logged
  BY DEF ConverterInvariant
<1>2. PICK s \in 1 .. N + 4 : \E j \in 1 .. written[s] : mcap[k] = MessageOf(s, j)
  BY DEF ConverterInvariant, WrittenOnce
<1>3. PICK j \in 1 .. written[s] : mcap[k] = MessageOf(s, j)
  BY <1>2
<1>4. written[s] \in Nat /\ written[s] <= Len(Streams[s]) /\ Len(Streams[s]) \in Nat
  BY <1>1, StreamsAre, SequenceFacts DEF ConverterInvariant, WrittenOnce, WellFormed
<1>5. Streams[s][j].time \in Nat
  <2>1. j \in 1 .. Len(Streams[s])
    BY <1>4
  <2> QED BY <1>1, <2>1, RecordFacts
<1>6. mcap[k].publish_time = Streams[s][j].time * 1000
  BY <1>3, MessageFields
<1>7. \A x \in Nat : x * 1000 \in Nat
  OBVIOUS
<1> QED BY <1>5, <1>6, <1>7

LEMMA MergedStep ==
    ASSUME ConverterInvariant, Merged, NEW s \in DOMAIN Streams, WriteMessage(s)
    PROVE  Merged'
<1>0. PICK j : j = written[s] + 1
  OBVIOUS
<1>1. /\ ulog' = ulog /\ pc = "write" /\ s \in Pending /\ TakeEarliest(s)
      /\ mcap' = Append(mcap, MessageOf(s, j))
      /\ written' = [written EXCEPT ![s] = j]
  BY <1>0, WriteIs
<1>2. /\ s \in 1 .. N + 4 /\ N \in Nat /\ DOMAIN Streams = 1 .. N + 4
      /\ written[s] \in Nat /\ j \in 1 .. Len(Streams[s])
      /\ Len(Streams[s]) \in Nat /\ NextRecord(s) = Streams[s][j]
  BY <1>0, <1>1, NextIs
<1>3. Logged /\ Sequence(mcap) /\ written \in [1 .. N + 4 -> Nat]
  BY DEF ConverterInvariant, WrittenOnce
<1>4. PICK L \in Nat : L = Len(mcap)
  BY <1>3, SequenceFacts
<1>5. /\ Len(mcap') = L + 1
      /\ \A k \in 1 .. L : mcap'[k] = mcap[k]
      /\ mcap'[L + 1] = MessageOf(s, j)
  BY <1>1, <1>3, <1>4, AppendSequence
<1>6. Streams' = Streams
  BY <1>1, SameLog
<1>7. SUFFICES ASSUME \A r \in DOMAIN Streams : InTimeOrder(Streams[r])
               PROVE  /\ \A k, l \in 1 .. L + 1 : k < l => mcap'[k].publish_time <= mcap'[l].publish_time
                      /\ \A k \in 1 .. L + 1, r \in Pending' :
                             mcap'[k].publish_time <= (NextRecord(r).time)' * 1000
  BY <1>5, <1>6 DEF Merged
<1>8. PICK t \in Nat : t = Streams[s][j].time
  BY <1>2, <1>3, RecordFacts
<1>9. MessageOf(s, j).publish_time = t * 1000
  BY <1>8, MessageFields
<1>10. \A k \in 1 .. L : mcap[k].publish_time <= t * 1000
  BY <1>1, <1>2, <1>4, <1>7, <1>8 DEF Merged
<1>11. ASSUME NEW k \in 1 .. L + 1, NEW l \in 1 .. L + 1, k < l
       PROVE  mcap'[k].publish_time <= mcap'[l].publish_time
  <2>1. k \in 1 .. L
    BY <1>11
  <2>2. CASE l \in 1 .. L
    <3>1. mcap[k].publish_time <= mcap[l].publish_time
      BY <1>4, <1>7, <1>11, <2>1, <2>2 DEF Merged
    <3> QED BY <1>5, <2>1, <2>2, <3>1
  <2>3. CASE l = L + 1
    <3>1. mcap'[k] = mcap[k] /\ mcap'[l] = MessageOf(s, j)
      BY <1>5, <2>1, <2>3
    <3> QED BY <1>9, <1>10, <2>1, <3>1
  <2> QED BY <2>2, <2>3
<1>12. ASSUME NEW r \in Pending'
       PROVE  /\ (NextRecord(r).time)' \in Nat /\ t <= (NextRecord(r).time)'
              /\ \A k \in 1 .. L : mcap[k].publish_time <= (NextRecord(r).time)' * 1000
  <2>1. r \in 1 .. N + 4 /\ written'[r] < Len(Streams[r]) /\ written'[r] \in Nat
        /\ (NextRecord(r))' = Streams[r][written'[r] + 1]
    BY <1>1, <1>2, <1>3, <1>6 DEF Pending, NextRecord
  <2>2. WellFormed(r, Streams[r])
    BY <1>3, <2>1, StreamsAre
  <2>3. Len(Streams[r]) \in Nat
    BY <2>2, SequenceFacts DEF WellFormed
  <2>4. written'[r] + 1 \in 1 .. Len(Streams[r])
    BY <2>1, <2>3
  <2>5. PICK u \in Nat : u = (NextRecord(r).time)'
    BY <2>1, <2>2, <2>4 DEF WellFormed
  <2>6. CASE r = s
    <3>1. written'[r] = j
      BY <1>1, <1>2, <1>3, <2>6
    <3>2. u = Streams[s][j + 1].time /\ j + 1 \in 1 .. Len(Streams[s])
      BY <2>1, <2>4, <2>5, <2>6, <3>1
    <3>3. InTimeOrder(Streams[s]) /\ DOMAIN Streams[s] = 1 .. Len(Streams[s])
      BY <1>2, <1>7, <2>2, <2>6, SequenceFacts DEF WellFormed
    <3>4. \A k \in 1 .. Len(Streams[s]) : k > 1 => Streams[s][k - 1].time <= Streams[s][k].time
      BY <3>3 DEF InTimeOrder
    <3>5. j + 1 > 1 /\ j + 1 - 1 = j
      BY <1>2
    <3>6. t <= u
      <4>1. PICK m \in 1 .. Len(Streams[s]) : m = j + 1
        BY <3>2
      <4>2. m > 1 /\ m - 1 = j
        BY <1>2, <4>1
      <4>3. Streams[s][m - 1].time <= Streams[s][m].time
        BY <3>4, <4>2
      <4> QED BY <1>8, <3>2, <4>1, <4>2, <4>3
    <3>7. \A k \in 1 .. L : mcap[k].publish_time <= u * 1000
      <4>1. ASSUME NEW k \in 1 .. L PROVE mcap[k].publish_time <= u * 1000
        <5>1. PICK p \in Nat : p = mcap[k].publish_time
          BY <1>4, MessageTimes
        <5>2. p <= t * 1000
          BY <1>10, <5>1
        <5>3. p <= u * 1000
          BY <3>6, <5>2
        <5> QED BY <5>1, <5>3
      <4> QED BY <4>1
    <3> QED BY <2>5, <3>6, <3>7
  <2>7. CASE r # s
    <3>1. written'[r] = written[r]
      BY <1>1, <1>2, <1>3, <2>1, <2>7
    <3>2. r \in Pending /\ NextRecord(r)' = NextRecord(r)
      BY <1>2, <2>1, <3>1 DEF Pending, NextRecord
    <3>3. NextRecord(s).time <= NextRecord(r).time
      <4>1. \/ NextRecord(s).time < NextRecord(r).time
            \/ NextRecord(s).time = NextRecord(r).time
        BY <1>1, <3>2 DEF TakeEarliest
      <4>2. NextRecord(s).time = t /\ NextRecord(r).time = u
        BY <1>2, <1>8, <2>5, <3>2
      <4>3. t < u \/ t = u
        BY <4>1, <4>2
      <4>4. t <= u
        BY <4>3
      <4> QED BY <4>2, <4>4
    <3>4. \A k \in 1 .. L : mcap[k].publish_time <= NextRecord(r).time * 1000
      BY <1>4, <1>7, <3>2 DEF Merged
    <3> QED BY <1>2, <1>8, <2>5, <3>2, <3>3, <3>4
  <2> QED BY <2>6, <2>7
<1>13. ASSUME NEW k \in 1 .. L + 1, NEW r \in Pending'
       PROVE  mcap'[k].publish_time <= (NextRecord(r).time)' * 1000
  <2>1. PICK u \in Nat : u = (NextRecord(r).time)'
    BY <1>12
  <2>2. t <= u /\ \A i \in 1 .. L : mcap[i].publish_time <= u * 1000
    BY <1>12, <2>1
  <2>3. t * 1000 <= u * 1000
    BY <2>2
  <2>4. CASE k \in 1 .. L
    BY <1>5, <2>1, <2>2, <2>4
  <2>5. CASE k = L + 1
    BY <1>5, <1>9, <2>1, <2>3, <2>5
  <2> QED BY <2>4, <2>5
<1> QED BY <1>11, <1>13

LEMMA CountedStep ==
    ASSUME ConverterInvariant, Counted, NEW s \in DOMAIN Streams, WriteMessage(s)
    PROVE  Counted'
<1>0. PICK j : j = written[s] + 1
  OBVIOUS
<1>1. /\ ulog' = ulog /\ pc = "write" /\ s \in Pending
      /\ mcap' = Append(mcap, MessageOf(s, j))
      /\ written' = [written EXCEPT ![s] = j]
  BY <1>0, WriteIs
<1>2. /\ s \in 1 .. N + 4 /\ DOMAIN Streams = 1 .. N + 4 /\ written[s] \in Nat
  BY <1>1, NextIs
<1>3. Sequence(mcap) /\ written \in [1 .. N + 4 -> Nat]
  BY DEF ConverterInvariant, WrittenOnce
<1>4. Len(mcap') = Len(mcap) + 1 /\ Streams' = Streams
  BY <1>1, <1>3, AppendSequence, SameLog
<1>5. /\ 1 .. written'[s] = (1 .. written[s]) \cup {j} /\ j \notin 1 .. written[s]
      /\ \A r \in DOMAIN Streams : r # s => written'[r] = written[r]
  BY <1>0, <1>1, <1>2, <1>3
<1>6. \A p : p \in Copied <=> \E r \in DOMAIN Streams : p \in {r} \X (1 .. written[r])
  BY DEF Copied
<1>7. \A p : p \in Copied' <=> \E r \in DOMAIN Streams : p \in {r} \X (1 .. written'[r])
  BY <1>4 DEF Copied
<1>8. <<s, j>> \notin Copied
  BY <1>5, <1>6
<1>9. ASSUME NEW p PROVE p \in Copied' <=> p \in Copied \/ p = <<s, j>>
  <2>1. \A r \in DOMAIN Streams : r # s => {r} \X (1 .. written'[r]) = {r} \X (1 .. written[r])
    BY <1>5
  <2>2. p \in {s} \X (1 .. written'[s]) <=> p \in {s} \X (1 .. written[s]) \/ p = <<s, j>>
    BY <1>5
  <2> QED BY <1>6, <1>7, <2>1, <2>2
<1>10. Copied' = Copied \cup {<<s, j>>}
  BY <1>9
<1>11. IsFiniteSet(Copied) /\ Len(mcap) = Cardinality(Copied)
  BY DEF Counted
<1>12. IsFiniteSet(Copied') /\ Cardinality(Copied') = Cardinality(Copied) + 1
  BY <1>8, <1>10, <1>11, FS_AddElement
<1> QED BY <1>4, <1>11, <1>12 DEF Counted

FileInvariant == ConverterInvariant /\ Merged /\ Counted

LEMMA FileInit ==
    ASSUME Init
    PROVE  FileInvariant
<1>1. ConverterInvariant
  BY ConverterInit
<1>2. mcap = <<>> /\ Len(mcap) = 0
  BY DEF Init
<1>3. Merged
  BY <1>2 DEF Merged
<1>4. DOMAIN Streams = 1 .. N + 4
  BY <1>1, StreamsAre DEF ConverterInvariant
<1>5. \A s \in DOMAIN Streams : written[s] = 0
  BY <1>4 DEF Init
<1>6. Copied = {}
  BY <1>5 DEF Copied
<1>7. Counted
  BY <1>2, <1>6, FS_EmptySet DEF Counted
<1> QED BY <1>1, <1>3, <1>7 DEF FileInvariant

LEMMA FileStep ==
    ASSUME FileInvariant, [Next]_vars
    PROVE  FileInvariant'
<1>1. ConverterInvariant'
  BY ConverterStep DEF FileInvariant
<1>2. CASE \E s \in DOMAIN Streams : WriteMessage(s)
  BY <1>1, <1>2, MergedStep, CountedStep DEF FileInvariant
<1>3. CASE UNCHANGED <<ulog, written, mcap>>
  <2>1. Streams' = Streams
    BY <1>3, SameLog
  <2>2. Pending' = Pending /\ \A s : NextRecord(s)' = NextRecord(s)
    BY <1>3, <2>1 DEF Pending, NextRecord
  <2>3. Merged'
    BY <1>3, <2>1, <2>2 DEF FileInvariant, Merged
  <2>4. Counted'
    BY <1>3, <2>1 DEF FileInvariant, Counted, Copied
  <2> QED BY <1>1, <2>3, <2>4 DEF FileInvariant
<1>4. (\E s \in DOMAIN Streams : WriteMessage(s)) \/ UNCHANGED <<ulog, written, mcap>>
  BY DEF Next, vars, RegisterTopic, RegisterFixed, CodecRaises, EncodeRaises, FinishFile
<1> QED BY <1>2, <1>3, <1>4

\* What a message of the file says of the stream it is from.
OfStream(m, s) ==
    /\ m.topic = TopicOf(s) /\ m.schema_name = SchemaOf(s)
    /\ m.schema_data = SetOf(s) /\ m.encoded = CodecOf(s)
    /\ From(s, m.record.source)

LEMMA FileMessage ==
    ASSUME ConverterInvariant, NEW k \in 1 .. Len(mcap)
    PROVE  /\ \E s \in 1 .. N + 4 : OfStream(mcap[k], s)
           /\ mcap[k].record.row \in Int
           /\ mcap[k].record = [source |-> mcap[k].record.source, row |-> mcap[k].record.row]
<1>1. Logged
  BY DEF ConverterInvariant
<1>2. PICK s \in 1 .. N + 4 : \E j \in 1 .. written[s] : mcap[k] = MessageOf(s, j)
  BY DEF ConverterInvariant, WrittenOnce
<1>3. PICK j \in 1 .. written[s] : mcap[k] = MessageOf(s, j)
  BY <1>2
<1>4. j \in 1 .. Len(Streams[s])
  <2>1. written[s] \in Nat /\ written[s] <= Len(Streams[s]) /\ Len(Streams[s]) \in Nat
    BY <1>1, StreamsAre, SequenceFacts DEF ConverterInvariant, WrittenOnce, WellFormed
  <2> QED BY <2>1
<1>5. mcap[k].record = Streams[s][j].record
  BY <1>3, MessageFields
<1>6. /\ Streams[s][j].record.row \in Int /\ From(s, Streams[s][j].record.source)
      /\ Streams[s][j].record = [source |-> Streams[s][j].record.source,
                                 row |-> Streams[s][j].record.row]
  BY <1>1, <1>4, RecordFacts
<1>7. OfStream(mcap[k], s)
  <2>1. /\ mcap[k].topic = TopicOf(s) /\ mcap[k].schema_name = SchemaOf(s)
        /\ mcap[k].schema_data = SetOf(s) /\ mcap[k].encoded = CodecOf(s)
    BY <1>3, MessageFields
  <2> QED BY <1>5, <1>6, <2>1 DEF OfStream
<1> QED BY <1>5, <1>6, <1>7

\* One type has one descriptor, and one topic one type.
LEMMA OneSchema ==
    ASSUME Logged, NEW s \in 1 .. N + 4, NEW r \in 1 .. N + 4
    PROVE  /\ SchemaOf(s) = SchemaOf(r) => SetOf(s) = SetOf(r)
           /\ TopicOf(s) = TopicOf(r) => SchemaOf(s) = SchemaOf(r)
           /\ TableOf(s) = TableOf(r) /\ SchemaOf(s) # SchemaOf(r) =>
                  \E n \in 1 .. N : ulog.data_list[n].name \in FixedTopic
<1>1. \A n \in 1 .. N :
          /\ \A t \in FixedTopic : ulog.data_list[n].name # FixedSchema[t]
          /\ \A m \in 1 .. N : ulog.data_list[n].name = ulog.data_list[m].name
                 => ulog.data_list[n].field_data = ulog.data_list[m].field_data
  BY LogFacts DEF Logged, N
<1>2. \A x \in 1 .. N + 4 : TopicOf(x) \in FixedTopic <=> x \notin 1 .. N
  BY StreamNames
<1>3. \A t, u \in FixedTopic : FixedSchema[t] = FixedSchema[u] => t = u
  BY DEF FixedSchema, FixedTopic, LogsTopic, ParameterChangesTopic, TrajectoryTopic
<1>4. CASE s \in 1 .. N /\ r \in 1 .. N
  <2>1. SchemaOf(s) = TableOf(s) /\ SchemaOf(r) = TableOf(r)
    BY <1>4 DEF SchemaOf, TableOf
  <2>2. SchemaOf(s) = SchemaOf(r) => CodecOf(s) = CodecOf(r)
    BY <1>1, <1>4 DEF SchemaOf, CodecOf
  <2>3. TopicOf(s) = TopicOf(r) => TableOf(s) = TableOf(r)
    BY StreamNames
  <2> QED BY <2>1, <2>2, <2>3 DEF SetOf
<1>5. CASE s \notin 1 .. N /\ r \notin 1 .. N
  <2>1. /\ SchemaOf(s) = FixedSchema[TopicOf(s)] /\ SchemaOf(r) = FixedSchema[TopicOf(r)]
        /\ CodecOf(s) = FixedCodec(TopicOf(s)) /\ CodecOf(r) = FixedCodec(TopicOf(r))
        /\ TableOf(s) = TopicOf(s) /\ TableOf(r) = TopicOf(r)
    BY <1>5 DEF SchemaOf, CodecOf, TableOf
  <2>2. SchemaOf(s) = SchemaOf(r) => TopicOf(s) = TopicOf(r)
    BY <1>2, <1>3, <1>5, <2>1
  <2> QED BY <2>1, <2>2 DEF SetOf
<1>6. ASSUME NEW x \in 1 .. N, NEW y \in 1 .. N + 4, y \notin 1 .. N
      PROVE  /\ SchemaOf(x) # SchemaOf(y) /\ TopicOf(x) # TopicOf(y)
             /\ TableOf(x) = TableOf(y) => ulog.data_list[x].name \in FixedTopic
  <2>1. SchemaOf(x) = ulog.data_list[x].name /\ TableOf(x) = ulog.data_list[x].name
    BY DEF SchemaOf, TableOf
  <2>2. SchemaOf(y) = FixedSchema[TopicOf(y)] /\ TableOf(y) = TopicOf(y)
    BY <1>6 DEF SchemaOf, TableOf
  <2>3. x \in 1 .. N + 4 /\ TopicOf(y) \in FixedTopic /\ TopicOf(x) \notin FixedTopic
    <3>1. N \in Nat
      BY StreamsAre
    <3> QED BY <1>2, <1>6, <3>1
  <2> QED BY <1>1, <2>1, <2>2, <2>3
<1> QED BY <1>4, <1>5, <1>6

\* Of the messages of a file: one of a topic has the schema of its others, and a
\* schema one descriptor, which is the one that the codec declares.
LEMMA FileSchemas ==
    ASSUME ConverterInvariant
    PROVE  /\ \A k, l \in 1 .. Len(mcap) :
                  /\ mcap[k].topic = mcap[l].topic => mcap[k].schema_name = mcap[l].schema_name
                  /\ mcap[k].schema_name = mcap[l].schema_name
                         => mcap[k].schema_data = mcap[l].schema_data
           /\ \A k \in 1 .. Len(mcap) : mcap[k].schema_data.fields = descriptor(mcap[k].encoded)
<1>1. ASSUME NEW k \in 1 .. Len(mcap), NEW l \in 1 .. Len(mcap)
      PROVE  /\ mcap[k].topic = mcap[l].topic => mcap[k].schema_name = mcap[l].schema_name
             /\ mcap[k].schema_name = mcap[l].schema_name
                    => mcap[k].schema_data = mcap[l].schema_data
  <2>1. PICK s \in 1 .. N + 4 : OfStream(mcap[k], s)
    BY FileMessage
  <2>2. PICK r \in 1 .. N + 4 : OfStream(mcap[l], r)
    BY FileMessage
  <2>3. /\ SchemaOf(s) = SchemaOf(r) => SetOf(s) = SetOf(r)
        /\ TopicOf(s) = TopicOf(r) => SchemaOf(s) = SchemaOf(r)
    BY OneSchema DEF ConverterInvariant
  <2> QED BY <2>1, <2>2, <2>3 DEF OfStream
<1>2. ASSUME NEW k \in 1 .. Len(mcap)
      PROVE  mcap[k].schema_data.fields = descriptor(mcap[k].encoded)
  <2>1. PICK s \in 1 .. N + 4 : OfStream(mcap[k], s)
    BY FileMessage
  <2>2. SetOf(s).fields = descriptor(CodecOf(s))
    BY DEF SetOf, schema_bytes
  <2> QED BY <2>1, <2>2 DEF OfStream
<1> QED BY <1>1, <1>2

-----------------------------------------------------------------------------
(* The reader *)

BaseOf(k) == R!parse_topic_name(mcap[k].topic)[1]

\* The row of message k.
RowFor(k) ==
    [log_time |-> mcap[k].log_time, publish_time |-> mcap[k].publish_time,
     sequence |-> mcap[k].sequence, multi_id |-> R!parse_topic_name(mcap[k].topic)[2], message |-> mcap[k].data,
     record |-> mcap[k].record, encoded |-> mcap[k].encoded, decoded |-> mcap[k].schema_data.fields]

\* The pool and the cache have what the messages so far came with: a later message
\* of a topic or of a schema would add the same.
DescriptorsOfMessages ==
    /\ \A n \in DOMAIN pool : \E k \in 1 .. read :
           n = mcap[k].schema_name /\ pool[n] = mcap[k].schema_data
    /\ \A t \in DOMAIN topic_descriptors : \E k \in 1 .. read : t = mcap[k].topic
    /\ \A k \in 1 .. read :
           /\ mcap[k].topic \in DOMAIN topic_descriptors
           /\ topic_descriptors[mcap[k].topic]
                  = [full_name |-> mcap[k].schema_name, fields |-> mcap[k].schema_data.fields]

\* Message k is one that can be in group b.
InGroup(k, b) ==
    /\ BaseOf(k) = b
    /\ groups[b].full_name = mcap[k].schema_name
    /\ groups[b].descriptor = mcap[k].schema_data.fields

\* The rows are those of the messages so far, each in the group of its base topic,
\* once, and a group is of one schema.
RowsOfMessages ==
    /\ \A b \in DOMAIN groups :
           /\ Sequence(groups[b].rows)
           /\ groups[b] = [full_name |-> groups[b].full_name,
                           descriptor |-> groups[b].descriptor, rows |-> groups[b].rows]
           /\ \E k \in 1 .. read : InGroup(k, b)
           /\ \A i \in 1 .. Len(groups[b].rows) : \E k \in 1 .. read :
                  InGroup(k, b) /\ groups[b].rows[i] = RowFor(k)
           /\ \A i, j \in 1 .. Len(groups[b].rows) :
                  groups[b].rows[i].record = groups[b].rows[j].record => i = j
    /\ \A k \in 1 .. read :
           /\ BaseOf(k) \in DOMAIN groups
           /\ \E i \in 1 .. Len(groups[BaseOf(k)].rows) : groups[BaseOf(k)].rows[i] = RowFor(k)

\* Before the sort the rows of one source and time are in order, after it all are.
Ordered(rows) ==
    \A j, k \in 1 .. Len(rows) : j < k =>
        /\ Sorted => rows[j].publish_time <= rows[k].publish_time
        /\ rows[j].record.source = rows[k].record.source
               /\ rows[j].publish_time = rows[k].publish_time
             => rows[j].record.row < rows[k].record.row

\* What the reader may panic at: a group of another schema, and a schema record that
\* the pool does not take next to another one.
Mismatched(k) ==
    BaseOf(k) \in DOMAIN groups /\ groups[BaseOf(k)].full_name # mcap[k].schema_name

Clash(a, b) ==
    /\ a.schema_name # b.schema_name
    /\ \/ a.schema_data.file = b.schema_data.file
       \/ b.schema_name \in a.schema_data.packages
       \/ a.schema_name \in b.schema_data.packages

ReaderPhases ==
    /\ reading \in {"closed", "open", "panicked", "sorted", "encoded"}
    /\ reading # "closed" => pc = "finished"
    /\ read \in 0 .. Len(mcap)
    /\ reading = "closed" => read = 0 /\ DOMAIN pool = {} /\ DOMAIN topic_descriptors = {} /\ DOMAIN groups = {}
    /\ Sorted => read = Len(mcap)
    /\ reading = "panicked" =>
           read < Len(mcap) /\ (Mismatched(read + 1) \/ \E l \in 1 .. read : Clash(mcap[l], mcap[read + 1]))
    /\ batches = IF reading = "encoded" THEN [b \in DOMAIN groups |-> R!build_record_batch(groups[b])]
                 ELSE [b \in {} |-> <<>>]

ReaderInvariant ==
    /\ ReaderPhases
    /\ DescriptorsOfMessages
    /\ RowsOfMessages
    /\ \A b \in DOMAIN groups : Ordered(groups[b].rows)

LEMMA SameFile ==
    ASSUME mcap' = mcap
    PROVE  \A k : BaseOf(k)' = BaseOf(k) /\ RowFor(k)' = RowFor(k)
BY DEF BaseOf, RowFor

LEMMA Descriptors ==
    ASSUME ConverterInvariant, ReaderInvariant, NEW k \in 1 .. Len(mcap), k = read + 1
    PROVE  R!TopicDescriptor(mcap[k]) = [full_name |-> mcap[k].schema_name, fields |-> mcap[k].schema_data.fields]
<1>1. DescriptorsOfMessages /\ read \in 0 .. Len(mcap)
  BY DEF ReaderInvariant, ReaderPhases
<1>2. \A l \in 1 .. read : l \in 1 .. Len(mcap)
  <2>1. Len(mcap) \in Nat
    BY SequenceFacts DEF ConverterInvariant, WrittenOnce
  <2> QED BY <1>1, <2>1
<1>3. CASE mcap[k].topic \in DOMAIN topic_descriptors
  <2>1. PICK l \in 1 .. read : mcap[l].topic = mcap[k].topic
    BY <1>1, <1>3 DEF DescriptorsOfMessages
  <2>2. mcap[l].schema_name = mcap[k].schema_name
    BY <1>2, <2>1, FileSchemas
  <2>3. mcap[l].schema_data = mcap[k].schema_data
    BY <1>2, <2>2, FileSchemas
  <2>4. topic_descriptors[mcap[l].topic] = [full_name |-> mcap[l].schema_name, fields |-> mcap[l].schema_data.fields]
    BY <1>1 DEF DescriptorsOfMessages
  <2>5. R!TopicDescriptor(mcap[k]) = topic_descriptors[mcap[k].topic]
    BY <1>3 DEF R!TopicDescriptor
  <2> QED BY <2>1, <2>2, <2>3, <2>4, <2>5
<1>4. CASE mcap[k].topic \notin DOMAIN topic_descriptors
  <2>1. R!Registered(mcap[k])[mcap[k].schema_name] = mcap[k].schema_data
    <3>1. CASE mcap[k].schema_name \in DOMAIN pool
      <4>1. PICK l \in 1 .. read : mcap[k].schema_name = mcap[l].schema_name
                                   /\ pool[mcap[k].schema_name] = mcap[l].schema_data
        BY <1>1, <3>1 DEF DescriptorsOfMessages
      <4>2. mcap[l].schema_data = mcap[k].schema_data
        BY <1>2, <4>1, FileSchemas
      <4> QED BY <3>1, <4>1, <4>2 DEF R!Registered
    <3>2. CASE mcap[k].schema_name \notin DOMAIN pool
      BY <3>2 DEF R!Registered
    <3> QED BY <3>1, <3>2
  <2> QED BY <1>4, <2>1 DEF R!TopicDescriptor
<1> QED BY <1>3, <1>4

\* What ReadMessage makes of the groups.
LEMMA ReadIs ==
    ASSUME ConverterInvariant, ReaderInvariant, R!ReadMessage, NEW k, k = read + 1
    PROVE  LET b == BaseOf(k)
               old == IF b \in DOMAIN groups THEN groups[b].rows ELSE <<>> IN
           /\ reading = "open" /\ read \in Nat /\ read < Len(mcap) /\ Len(mcap) \in Nat
           /\ k \in 1 .. Len(mcap) /\ read' = k
           /\ UNCHANGED <<mcap, reading, batches>>
           /\ DOMAIN groups' = DOMAIN groups \cup {b}
           /\ \A c \in DOMAIN groups : c # b => groups'[c] = groups[c]
           /\ groups'[b] = [full_name |-> mcap[k].schema_name, descriptor |-> mcap[k].schema_data.fields,
                            rows |-> Append(old, RowFor(k))]
           /\ b \in DOMAIN groups => /\ groups[b].full_name = mcap[k].schema_name
                                     /\ groups[b].descriptor = mcap[k].schema_data.fields
<1> DEFINE m == mcap[k]
           b == BaseOf(k)
           old == IF b \in DOMAIN groups THEN groups[b].rows ELSE <<>>
<1>1. /\ reading = "open" /\ read < Len(mcap) /\ read' = read + 1
      /\ UNCHANGED <<mcap, reading, batches>>
      /\ ~ R!Mismatch(m) /\ R!group_by_base_topic(m)
  BY DEF R!ReadMessage, R!Message
<1>2. read \in Nat /\ Len(mcap) \in Nat /\ \A l \in 1 .. read : l \in 1 .. Len(mcap)
  <2>1. Len(mcap) \in Nat
    BY SequenceFacts DEF ConverterInvariant, WrittenOnce
  <2>2. read \in 0 .. Len(mcap)
    BY DEF ReaderInvariant, ReaderPhases
  <2> QED BY <2>1, <2>2
<1>3. k \in 1 .. Len(mcap)
  BY <1>1, <1>2
<1>4. R!TopicDescriptor(m) = [full_name |-> m.schema_name, fields |-> m.schema_data.fields]
  BY <1>3, Descriptors
<1>5. R!TopicDescriptor(m).full_name = m.schema_name /\ R!TopicDescriptor(m).fields = m.schema_data.fields
  BY <1>4
<1>6. ASSUME b \in DOMAIN groups
      PROVE  groups[b].full_name = m.schema_name /\ groups[b].descriptor = m.schema_data.fields
  <2>1. groups[b].full_name = m.schema_name
    BY <1>1, <1>5, <1>6 DEF R!Mismatch, BaseOf
  <2>2. PICK l \in 1 .. read : InGroup(l, b)
    BY <1>6 DEF ReaderInvariant, RowsOfMessages
  <2>3. mcap[l].schema_name = m.schema_name /\ groups[b].descriptor = mcap[l].schema_data.fields
    BY <2>1, <2>2 DEF InGroup
  <2>4. mcap[l].schema_data = m.schema_data
    BY <1>2, <1>3, <2>3, FileSchemas
  <2> QED BY <2>1, <2>3, <2>4
<1>7. R!GroupWith(b, R!TopicDescriptor(m))
          = [full_name |-> m.schema_name, descriptor |-> m.schema_data.fields, rows |-> old]
  <2>1. CASE b \in DOMAIN groups
    <3>1. groups[b] = [full_name |-> groups[b].full_name, descriptor |-> groups[b].descriptor,
                       rows |-> groups[b].rows]
      BY <2>1 DEF ReaderInvariant, RowsOfMessages
    <3>2. groups[b] = [full_name |-> m.schema_name, descriptor |-> m.schema_data.fields,
                       rows |-> groups[b].rows]
      BY <1>6, <2>1, <3>1
    <3> HIDE DEF m, b
    <3> QED BY <2>1, <3>2 DEF R!GroupWith
  <2>2. CASE b \notin DOMAIN groups
    <3> HIDE DEF m, b
    <3> QED BY <1>5, <2>2 DEF R!GroupWith
  <2> QED BY <2>1, <2>2
<1>8. RowFor(k) = [log_time |-> m.log_time, publish_time |-> m.publish_time, sequence |-> m.sequence,
                   multi_id |-> R!parse_topic_name(m.topic)[2], message |-> m.data,
                   record |-> m.record, encoded |-> m.encoded,
                   decoded |-> R!TopicDescriptor(m).fields]
  BY <1>5 DEF RowFor
<1>9. groups' = [c \in DOMAIN groups \cup {b} |->
                    IF c = b
                    THEN [R!GroupWith(b, R!TopicDescriptor(m)) EXCEPT !.rows = Append(@, RowFor(k))]
                    ELSE groups[c]]
  BY <1>1, <1>8 DEF R!group_by_base_topic, BaseOf
<1>10. groups'[b] = [full_name |-> m.schema_name, descriptor |-> m.schema_data.fields,
                     rows |-> Append(old, RowFor(k))]
  <2>1. groups'[b] = [R!GroupWith(b, R!TopicDescriptor(m)) EXCEPT !.rows = Append(@, RowFor(k))]
    <3> HIDE DEF b, m
    <3> QED BY <1>9
  <2> HIDE DEF b, m, old
  <2>2. groups'[b] = [[full_name |-> m.schema_name, descriptor |-> m.schema_data.fields, rows |-> old]
                          EXCEPT !.rows = Append(@, RowFor(k))]
    BY <1>7, <2>1
  <2>3. ASSUME NEW x, NEW y, NEW z, NEW row
        PROVE  [[full_name |-> x, descriptor |-> y, rows |-> z] EXCEPT !.rows = Append(@, row)]
                   = [full_name |-> x, descriptor |-> y, rows |-> Append(z, row)]
    OBVIOUS
  <2> QED BY <2>2, <2>3
<1>11. DOMAIN groups' = DOMAIN groups \cup {b} /\ \A c \in DOMAIN groups : c # b => groups'[c] = groups[c]
  <2> HIDE DEF b, m
  <2> QED BY <1>9
<1> QED BY <1>1, <1>2, <1>3, <1>6, <1>10, <1>11

LEMMA ReadDescriptors ==
    ASSUME ConverterInvariant, ReaderInvariant, R!ReadMessage
    PROVE  DescriptorsOfMessages'
<1>0. PICK k : k = read + 1
  OBVIOUS
<1>1. /\ read \in Nat /\ k \in 1 .. Len(mcap) /\ read' = k /\ mcap' = mcap
      /\ \A l \in 1 .. read : l \in 1 .. k
  <2>1. read \in Nat /\ k \in 1 .. Len(mcap) /\ read' = k /\ mcap' = mcap
    BY <1>0, ReadIs
  <2> QED BY <1>0, <2>1
<1>2. PICK m : m = mcap[k]
  OBVIOUS
<1>3. R!TopicDescriptor(m) = [full_name |-> m.schema_name, fields |-> m.schema_data.fields]
  BY <1>0, <1>1, <1>2, Descriptors
<1>4. /\ topic_descriptors' = [t \in DOMAIN topic_descriptors \cup {m.topic} |->
                                  IF t = m.topic THEN R!TopicDescriptor(m) ELSE topic_descriptors[t]]
      /\ pool' = IF m.topic \in DOMAIN topic_descriptors THEN pool ELSE R!Registered(m)
  BY <1>0, <1>2 DEF R!ReadMessage, R!Message, R!decode_mcap
<1>5. DescriptorsOfMessages
  BY DEF ReaderInvariant
<1>6. ASSUME NEW n \in DOMAIN pool'
      PROVE  \E l \in 1 .. k : n = mcap[l].schema_name /\ pool'[n] = mcap[l].schema_data
  <2>1. CASE n \in DOMAIN pool /\ pool'[n] = pool[n]
    <3>1. \E l \in 1 .. read : n = mcap[l].schema_name /\ pool[n] = mcap[l].schema_data
      BY <1>5, <2>1 DEF DescriptorsOfMessages
    <3> QED BY <1>1, <2>1, <3>1
  <2>2. CASE n = m.schema_name /\ pool'[n] = m.schema_data
    BY <1>0, <1>1, <1>2, <2>2
  <2>3. (n \in DOMAIN pool /\ pool'[n] = pool[n]) \/ (n = m.schema_name /\ pool'[n] = m.schema_data)
    BY <1>4, <1>6 DEF R!Registered
  <2> QED BY <2>1, <2>2, <2>3
<1>7. ASSUME NEW t \in DOMAIN topic_descriptors'
      PROVE  \E l \in 1 .. k : t = mcap[l].topic
  <2>1. CASE t = m.topic
    BY <1>0, <1>1, <1>2, <2>1
  <2>2. CASE t \in DOMAIN topic_descriptors
    BY <1>1, <1>5, <2>2 DEF DescriptorsOfMessages
  <2> QED BY <1>4, <1>7, <2>1, <2>2
<1>8. ASSUME NEW l \in 1 .. k
      PROVE  /\ mcap[l].topic \in DOMAIN topic_descriptors'
             /\ topic_descriptors'[mcap[l].topic]
                    = [full_name |-> mcap[l].schema_name, fields |-> mcap[l].schema_data.fields]
  <2>1. CASE mcap[l].topic = m.topic
    <3>1. l \in 1 .. Len(mcap)
      BY <1>1
    <3>2. mcap[l].schema_name = m.schema_name
      BY <1>1, <1>2, <2>1, <3>1, FileSchemas
    <3>3. mcap[l].schema_data = m.schema_data
      BY <1>1, <1>2, <3>1, <3>2, FileSchemas
    <3>4. m.topic \in DOMAIN topic_descriptors' /\ topic_descriptors'[m.topic] = R!TopicDescriptor(m)
      BY <1>4
    <3> QED BY <1>3, <2>1, <3>2, <3>3, <3>4
  <2>2. CASE mcap[l].topic # m.topic
    <3>1. l \in 1 .. read
      BY <1>0, <1>1, <1>2, <2>2
    <3>2. /\ mcap[l].topic \in DOMAIN topic_descriptors
          /\ topic_descriptors[mcap[l].topic]
                 = [full_name |-> mcap[l].schema_name, fields |-> mcap[l].schema_data.fields]
      BY <1>5, <3>1 DEF DescriptorsOfMessages
    <3> QED BY <1>4, <2>2, <3>2
  <2> QED BY <2>1, <2>2
<1> QED BY <1>1, <1>6, <1>7, <1>8 DEF DescriptorsOfMessages

LEMMA ReadMessageStep ==
    ASSUME ConverterInvariant, ReaderInvariant, R!ReadMessage, UNCHANGED vars
    PROVE  ReaderInvariant'
<1>0. PICK k, b, old : /\ k = read + 1 /\ b = BaseOf(k)
                       /\ old = IF b \in DOMAIN groups THEN groups[b].rows ELSE <<>>
  OBVIOUS
<1>1. /\ reading = "open" /\ read \in Nat /\ read < Len(mcap) /\ Len(mcap) \in Nat
      /\ k \in 1 .. Len(mcap) /\ read' = k
      /\ UNCHANGED <<mcap, reading, batches>>
  BY <1>0, ReadIs
<1>2. /\ DOMAIN groups' = DOMAIN groups \cup {b}
      /\ \A c \in DOMAIN groups : c # b => groups'[c] = groups[c]
      /\ groups'[b] = [full_name |-> mcap[k].schema_name, descriptor |-> mcap[k].schema_data.fields,
                       rows |-> Append(old, RowFor(k))]
      /\ b \in DOMAIN groups => /\ groups[b].full_name = mcap[k].schema_name
                                /\ groups[b].descriptor = mcap[k].schema_data.fields
  BY <1>0, ReadIs
<1>3. /\ groups'[b].full_name = mcap[k].schema_name /\ groups'[b].descriptor = mcap[k].schema_data.fields
      /\ groups'[b].rows = Append(old, RowFor(k))
  BY <1>2
<1>4. RowsOfMessages /\ ReaderPhases /\ \A c \in DOMAIN groups : Ordered(groups[c].rows)
  BY DEF ReaderInvariant
<1>5. \A l : BaseOf(l)' = BaseOf(l) /\ RowFor(l)' = RowFor(l)
  BY <1>1, SameFile
<1>6. Sequence(old)
  <2>1. Sequence(<<>>)
    BY EmptySeq DEF Sequence
  <2> QED BY <1>0, <1>4, <2>1 DEF RowsOfMessages
<1>7. PICK L \in Nat : L = Len(old)
  BY <1>6, SequenceFacts
<1>8. PICK new : new = Append(old, RowFor(k))
  OBVIOUS
<1>9. /\ Sequence(new) /\ Len(new) = L + 1
      /\ \A i \in 1 .. L : new[i] = old[i]
      /\ new[L + 1] = RowFor(k)
  BY <1>6, <1>7, <1>8, AppendSequence
<1>10. b \notin DOMAIN groups => L = 0
  BY <1>0, <1>7
<1>11. ASSUME NEW i \in 1 .. L
       PROVE  /\ b \in DOMAIN groups
              /\ \E l \in 1 .. read :
                    /\ BaseOf(l) = b /\ old[i] = RowFor(l)
                    /\ mcap[l].schema_name = mcap[k].schema_name
                    /\ mcap[l].schema_data.fields = mcap[k].schema_data.fields
  <2>1. b \in DOMAIN groups
    BY <1>10
  <2>2. old = groups[b].rows
    BY <1>0, <2>1
  <2>3. PICK l \in 1 .. read : InGroup(l, b) /\ groups[b].rows[i] = RowFor(l)
    BY <1>4, <1>7, <2>1, <2>2 DEF RowsOfMessages
  <2> QED BY <1>2, <2>1, <2>2, <2>3 DEF InGroup
<1>12. \A l \in 1 .. read : l \in 1 .. k /\ l \in 1 .. Len(mcap) /\ l < k
  BY <1>0, <1>1
<1>13. \A i \in 1 .. L + 1 : \E l \in 1 .. k :
           /\ BaseOf(l) = b /\ new[i] = RowFor(l)
           /\ mcap[l].schema_name = mcap[k].schema_name
           /\ mcap[l].schema_data.fields = mcap[k].schema_data.fields
  <2>1. ASSUME NEW i \in 1 .. L
        PROVE  \E l \in 1 .. k : /\ BaseOf(l) = b /\ new[i] = RowFor(l)
                                 /\ mcap[l].schema_name = mcap[k].schema_name
                                 /\ mcap[l].schema_data.fields = mcap[k].schema_data.fields
    <3>1. PICK l \in 1 .. read : /\ BaseOf(l) = b /\ old[i] = RowFor(l)
                                /\ mcap[l].schema_name = mcap[k].schema_name
                                /\ mcap[l].schema_data.fields = mcap[k].schema_data.fields
      BY <1>11
    <3> QED BY <1>9, <1>12, <3>1
  <2>2. k \in 1 .. k /\ BaseOf(k) = b /\ new[L + 1] = RowFor(k)
    BY <1>0, <1>1, <1>9
  <2>3. \A i \in 1 .. L + 1 : i \in 1 .. L \/ i = L + 1
    BY <1>7
  <2> QED BY <2>1, <2>2, <2>3
<1>14. \A l : RowFor(l).record = mcap[l].record /\ RowFor(l).publish_time = mcap[l].publish_time
  BY DEF RowFor
<1>15. ASSUME NEW i \in 1 .. L
       PROVE  /\ new[i].record # new[L + 1].record
              /\ new[i].record.source = new[L + 1].record.source
                     /\ new[i].publish_time = new[L + 1].publish_time
                   => new[i].record.row < new[L + 1].record.row
  <2>1. PICK l \in 1 .. read : old[i] = RowFor(l)
    BY <1>11
  <2>2. l \in 1 .. Len(mcap) /\ l < k
    BY <1>12
  <2>3. /\ new[i].record = mcap[l].record /\ new[i].publish_time = mcap[l].publish_time
        /\ new[L + 1].record = mcap[k].record /\ new[L + 1].publish_time = mcap[k].publish_time
    BY <1>9, <1>14, <2>1
  <2>4. mcap[l].record # mcap[k].record
    BY <1>1, <2>2 DEF ConverterInvariant, WrittenOnce
  <2>5. mcap[l].record.source = mcap[k].record.source /\ mcap[l].publish_time = mcap[k].publish_time
            => mcap[l].record.row < mcap[k].record.row
    BY <1>1, <2>2 DEF ConverterInvariant, RowsInFileOrder
  <2> QED BY <2>3, <2>4, <2>5
<1>16. \A i, j \in 1 .. L : new[i].record = new[j].record => i = j
  <2>1. CASE b \in DOMAIN groups
    <3>1. old = groups[b].rows
      BY <1>0, <2>1
    <3>2. \A i, j \in 1 .. Len(groups[b].rows) :
              groups[b].rows[i].record = groups[b].rows[j].record => i = j
      BY <1>4, <2>1 DEF RowsOfMessages
    <3> QED BY <1>7, <1>9, <3>1, <3>2
  <2>2. CASE b \notin DOMAIN groups
    BY <1>10, <2>2
  <2> QED BY <2>1, <2>2
<1>17. \A i, j \in 1 .. L + 1 : new[i].record = new[j].record => i = j
  <2>1. \A i \in 1 .. L + 1 : i \in 1 .. L \/ i = L + 1
    BY <1>7
  <2> QED BY <1>15, <1>16, <2>1
<1>18. ASSUME NEW c \in DOMAIN groups'
       PROVE  /\ Sequence(groups'[c].rows)
              /\ groups'[c] = [full_name |-> groups'[c].full_name,
                               descriptor |-> groups'[c].descriptor, rows |-> groups'[c].rows]
              /\ \E l \in 1 .. k : InGroup(l, c)'
              /\ \A i \in 1 .. Len(groups'[c].rows) : \E l \in 1 .. k :
                     InGroup(l, c)' /\ groups'[c].rows[i] = RowFor(l)
              /\ \A i, j \in 1 .. Len(groups'[c].rows) :
                     groups'[c].rows[i].record = groups'[c].rows[j].record => i = j
  <2>1. CASE c = b
    <3>1. \A l : InGroup(l, b)' <=> /\ BaseOf(l) = b
                                    /\ mcap[k].schema_name = mcap[l].schema_name
                                    /\ mcap[k].schema_data.fields = mcap[l].schema_data.fields
      BY <1>1, <1>3, <1>5 DEF InGroup
    <3>2. groups'[b].rows = new
      BY <1>3, <1>8
    <3>3. groups'[b] = [full_name |-> groups'[b].full_name,
                        descriptor |-> groups'[b].descriptor, rows |-> groups'[b].rows]
      BY <1>2, <1>3
    <3>4. k \in 1 .. k /\ InGroup(k, b)'
      BY <1>0, <1>1, <3>1
    <3>5. \A i \in 1 .. L + 1 : \E l \in 1 .. k : InGroup(l, b)' /\ new[i] = RowFor(l)
      BY <1>13, <3>1
    <3> QED BY <1>9, <1>17, <2>1, <3>2, <3>3, <3>4, <3>5
  <2>2. CASE c # b
    <3>1. c \in DOMAIN groups /\ groups'[c] = groups[c]
      BY <1>2, <1>18, <2>2
    <3>2. \A l : InGroup(l, c)' <=> InGroup(l, c)
      BY <1>1, <1>5, <3>1 DEF InGroup
    <3>3. /\ Sequence(groups[c].rows)
          /\ groups[c] = [full_name |-> groups[c].full_name,
                          descriptor |-> groups[c].descriptor, rows |-> groups[c].rows]
          /\ \A i, j \in 1 .. Len(groups[c].rows) :
                 groups[c].rows[i].record = groups[c].rows[j].record => i = j
      BY <1>4, <3>1 DEF RowsOfMessages
    <3>4. /\ \E l \in 1 .. read : InGroup(l, c)
          /\ \A i \in 1 .. Len(groups[c].rows) : \E l \in 1 .. read :
                 InGroup(l, c) /\ groups[c].rows[i] = RowFor(l)
      BY <1>4, <3>1 DEF RowsOfMessages
    <3>5. /\ \E l \in 1 .. k : InGroup(l, c)'
          /\ \A i \in 1 .. Len(groups[c].rows) : \E l \in 1 .. k :
                 InGroup(l, c)' /\ groups[c].rows[i] = RowFor(l)
      BY <1>12, <3>2, <3>4
    <3> QED BY <3>1, <3>3, <3>5
  <2> QED BY <2>1, <2>2
<1>19. ASSUME NEW l \in 1 .. k
       PROVE  /\ BaseOf(l) \in DOMAIN groups'
              /\ \E i \in 1 .. Len(groups'[BaseOf(l)].rows) : groups'[BaseOf(l)].rows[i] = RowFor(l)
  <2>1. CASE l = k
    <3>1. L + 1 \in 1 .. Len(new) /\ new[L + 1] = RowFor(k)
      BY <1>7, <1>9
    <3> QED BY <1>0, <1>2, <1>3, <1>8, <2>1, <3>1
  <2>2. CASE l \in 1 .. read
    <3>1. /\ BaseOf(l) \in DOMAIN groups
          /\ \E i \in 1 .. Len(groups[BaseOf(l)].rows) : groups[BaseOf(l)].rows[i] = RowFor(l)
      BY <1>4, <2>2 DEF RowsOfMessages
    <3>2. CASE BaseOf(l) = b
      <4>1. PICK i \in 1 .. L : old[i] = RowFor(l)
        BY <1>0, <1>7, <3>1, <3>2
      <4>2. i \in 1 .. Len(new) /\ new[i] = RowFor(l)
        BY <1>7, <1>9, <4>1
      <4> QED BY <1>2, <1>3, <1>8, <3>2, <4>2
    <3>3. CASE BaseOf(l) # b
      BY <1>2, <3>1, <3>3
    <3> QED BY <3>2, <3>3
  <2>3. l = k \/ l \in 1 .. read
    BY <1>0, <1>1
  <2> QED BY <2>1, <2>2, <2>3
<1>20. RowsOfMessages'
  <2>1. ASSUME NEW c \in DOMAIN groups'
        PROVE  /\ Sequence(groups'[c].rows)
               /\ groups'[c] = [full_name |-> groups'[c].full_name,
                                descriptor |-> groups'[c].descriptor, rows |-> groups'[c].rows]
               /\ \E l \in 1 .. read' : InGroup(l, c)'
               /\ \A i, j \in 1 .. Len(groups'[c].rows) :
                     groups'[c].rows[i].record = groups'[c].rows[j].record => i = j
    BY <1>1, <1>18
  <2>2. ASSUME NEW c \in DOMAIN groups', NEW i \in 1 .. Len(groups'[c].rows)
        PROVE  \E l \in 1 .. read' : InGroup(l, c)' /\ groups'[c].rows[i] = RowFor(l)'
    BY <1>1, <1>5, <1>18
  <2>3. ASSUME NEW l \in 1 .. read'
        PROVE  /\ BaseOf(l)' \in DOMAIN groups'
               /\ \E i \in 1 .. Len(groups'[BaseOf(l)'].rows) : groups'[BaseOf(l)'].rows[i] = RowFor(l)'
    BY <1>1, <1>5, <1>19
  <2> QED BY <2>1, <2>2, <2>3 DEF RowsOfMessages
<1>21. ASSUME NEW c \in DOMAIN groups' PROVE Ordered(groups[c].rows)'
  <2>1. ~ Sorted'
    BY <1>1 DEF Sorted
  <2>2. CASE c = b
    <3>1. \A i, j \in 1 .. L : i < j /\ new[i].record.source = new[j].record.source
                                /\ new[i].publish_time = new[j].publish_time
                              => new[i].record.row < new[j].record.row
      <4>1. CASE b \in DOMAIN groups
        <5>1. Ordered(old)
          BY <1>0, <1>4, <4>1
        <5> QED BY <1>7, <1>9, <5>1 DEF Ordered
      <4>2. CASE b \notin DOMAIN groups
        BY <1>10, <4>2
      <4> QED BY <4>1, <4>2
    <3>2. \A i, j \in 1 .. L + 1 : i < j => i \in 1 .. L /\ (j \in 1 .. L \/ j = L + 1)
      BY <1>7
    <3>3. ASSUME NEW i \in 1 .. L + 1, NEW j \in 1 .. L + 1, i < j,
                 new[i].record.source = new[j].record.source,
                 new[i].publish_time = new[j].publish_time
          PROVE  new[i].record.row < new[j].record.row
      BY <1>15, <3>1, <3>2, <3>3
    <3>4. Ordered(new)'
      BY <1>9, <2>1, <3>3 DEF Ordered
    <3> QED BY <1>3, <1>8, <2>2, <3>4
  <2>3. CASE c # b
    <3>1. c \in DOMAIN groups /\ groups'[c].rows = groups[c].rows
      BY <1>2, <1>21, <2>3
    <3>2. Ordered(groups[c].rows)
      BY <1>4, <3>1
    <3> QED BY <2>1, <3>1, <3>2 DEF Ordered
  <2> QED BY <2>2, <2>3
<1>22. ReaderPhases'
  <2>1. pc' = pc
    BY DEF vars
  <2>2. reading' = "open" /\ read' \in 0 .. Len(mcap') /\ ~ Sorted'
    BY <1>1 DEF Sorted
  <2>3. pc' = "finished" /\ batches' = [c \in {} |-> <<>>]
    BY <1>1, <1>4, <2>1 DEF ReaderPhases
  <2> QED BY <2>2, <2>3 DEF ReaderPhases
<1>23. DescriptorsOfMessages'
  BY ReadDescriptors
<1> QED BY <1>20, <1>21, <1>22, <1>23 DEF ReaderInvariant

\* The rows r are those of a sequence with n rows, in the order of their times, and
\* those of one time as they were: number i is the one that was number o[i].
Sorts(o, rows, n, r) ==
    /\ \A i \in 1 .. n : r[i] = rows[o[i]]
    /\ \A x \in 1 .. n : \E i \in 1 .. n : o[i] = x
    /\ \A i, j \in 1 .. n : i < j =>
           \/ rows[o[i]].publish_time < rows[o[j]].publish_time
           \/ rows[o[i]].publish_time = rows[o[j]].publish_time /\ o[i] < o[j]

LEMMA SortIs ==
    ASSUME NEW n \in Nat, NEW rows, Sequence(rows), Len(rows) = n,
           \A i \in 1 .. n : rows[i].publish_time \in Int
    PROVE  /\ Sequence(R!SortByTime(rows)) /\ Len(R!SortByTime(rows)) = n
           /\ \E o \in [1 .. n -> 1 .. n] : Sorts(o, rows, n, R!SortByTime(rows))
<1>0. PICK key : key = [k \in DOMAIN rows |-> rows[k].publish_time]
  OBVIOUS
<1>1. DOMAIN rows = 1 .. n
  BY SequenceFacts
<1>2. key \in Seq(Int) /\ Len(key) = n /\ \A k \in 1 .. n : key[k] = rows[k].publish_time
  <2>1. key \in [1 .. n -> Int]
    BY <1>0, <1>1
  <2>2. key \in Seq(Int) /\ Len(key) = n
    BY <2>1, SeqDef
  <2> QED BY <1>0, <1>1, <2>2
<1>3. PICK o : o = R!StableOrder(key)
  OBVIOUS
<1>4. /\ o \in Seq(1 .. n) /\ Len(o) = n
      /\ \A x \in 1 .. n : \E i \in 1 .. n : o[i] = x
      /\ \A i, j \in 1 .. n : i < j =>
             \/ key[o[i]] < key[o[j]]
             \/ key[o[i]] = key[o[j]] /\ o[i] < o[j]
  <2>1. key \in Seq(Int)
    BY <1>2
  <2>2. /\ R!StableOrder(key) \in Seq(1 .. Len(key)) /\ Len(R!StableOrder(key)) = Len(key)
        /\ \A x \in 1 .. Len(key) : \E i \in 1 .. Len(key) : R!StableOrder(key)[i] = x
        /\ \A i, j \in 1 .. Len(key) : i < j =>
               \/ key[R!StableOrder(key)[i]] < key[R!StableOrder(key)[j]]
               \/ /\ key[R!StableOrder(key)[i]] = key[R!StableOrder(key)[j]]
                  /\ R!StableOrder(key)[i] < R!StableOrder(key)[j]
    BY <2>1, R!StableOrderIsOrdered
  <2>3. Len(key) = n
    BY <1>2
  <2>4. o \in Seq(1 .. n) /\ Len(o) = n
    BY <1>3, <2>2, <2>3
  <2>5. \A x \in 1 .. n : \E i \in 1 .. n : o[i] = x
    BY <1>3, <2>2, <2>3
  <2>6. \A i, j \in 1 .. n : i < j =>
            \/ key[o[i]] < key[o[j]]
            \/ key[o[i]] = key[o[j]] /\ o[i] < o[j]
    BY <1>3, <2>2, <2>3
  <2> QED BY <2>4, <2>5, <2>6
<1>5. o \in [1 .. n -> 1 .. n]
  <2>1. o \in Seq(1 .. n) /\ Len(o) = n
    BY <1>4
  <2> QED BY <2>1
<1>6. ASSUME NEW i \in 1 .. n, NEW j \in 1 .. n, i < j
      PROVE  \/ rows[o[i]].publish_time < rows[o[j]].publish_time
             \/ rows[o[i]].publish_time = rows[o[j]].publish_time /\ o[i] < o[j]
  <2>1. o[i] \in 1 .. n /\ o[j] \in 1 .. n
    BY <1>5
  <2>2. key[o[i]] = rows[o[i]].publish_time /\ key[o[j]] = rows[o[j]].publish_time
    BY <1>2, <2>1
  <2>3. key[o[i]] < key[o[j]] \/ (key[o[i]] = key[o[j]] /\ o[i] < o[j])
    BY <1>4, <1>6
  <2> QED BY <2>2, <2>3
<1>7. PICK r : r = R!SortByTime(rows)
  OBVIOUS
<1>8. r = [k \in 1 .. n |-> rows[o[k]]]
  BY <1>0, <1>1, <1>3, <1>7 DEF R!SortByTime
<1>9. Sequence(r) /\ Len(r) = n
  <2>1. r = [k \in 1 .. n |-> r[k]]
    BY <1>8
  <2> QED BY <2>1, FunctionIsSequence
<1>10. \A i \in 1 .. n : r[i] = rows[o[i]]
  BY <1>8
<1>11. Sorts(o, rows, n, r)
  BY <1>4, <1>6, <1>10 DEF Sorts
<1> QED BY <1>5, <1>7, <1>9, <1>11

\* Of rows: none twice, all with a time, those of one source and time in order, and
\* all in order of time.
Distinct(rows) == \A x, y \in 1 .. Len(rows) : rows[x].record = rows[y].record => x = y

Timed(rows) == \A x \in 1 .. Len(rows) : rows[x].publish_time \in Int

RowsStable(rows) ==
    \A x, y \in 1 .. Len(rows) :
        x < y /\ rows[x].record.source = rows[y].record.source
              /\ rows[x].publish_time = rows[y].publish_time
            => rows[x].record.row < rows[y].record.row

RowsTimely(rows) ==
    \A x, y \in 1 .. Len(rows) : x < y => rows[x].publish_time <= rows[y].publish_time

SameRows(r, rows) ==
    /\ Len(r) = Len(rows)
    /\ \A i \in 1 .. Len(rows) : \E x \in 1 .. Len(rows) : r[i] = rows[x]
    /\ \A x \in 1 .. Len(rows) : \E i \in 1 .. Len(rows) : r[i] = rows[x]

\* Rows that are in order where they are of one source and time are, sorted, in order.
LEMMA SortKeeps ==
    ASSUME NEW rows, Sequence(rows), Timed(rows), Distinct(rows), RowsStable(rows)
    PROVE  LET r == R!SortByTime(rows) IN
           Sequence(r) /\ SameRows(r, rows) /\ Distinct(r) /\ RowsTimely(r) /\ RowsStable(r)
<1>1. PICK r, n : r = R!SortByTime(rows) /\ n = Len(rows)
  OBVIOUS
<1>2. n \in Nat
  BY <1>1, SequenceFacts
<1>3. \A i \in 1 .. n : rows[i].publish_time \in Int
  BY <1>1 DEF Timed
<1>4. Sequence(r) /\ Len(r) = n
  BY <1>1, <1>2, <1>3, SortIs
<1>5. PICK o \in [1 .. n -> 1 .. n] : Sorts(o, rows, n, r)
  BY <1>1, <1>2, <1>3, SortIs
<1>6. \A i \in 1 .. n : o[i] \in 1 .. n /\ r[i] = rows[o[i]]
  BY <1>5 DEF Sorts
<1>7. ASSUME NEW i \in 1 .. n, NEW j \in 1 .. n, i < j
      PROVE  /\ r[i].publish_time <= r[j].publish_time
             /\ r[i].record.source = r[j].record.source /\ r[i].publish_time = r[j].publish_time
                    => r[i].record.row < r[j].record.row
             /\ o[i] # o[j]
  <2>1. PICK x \in 1 .. n, y \in 1 .. n : x = o[i] /\ y = o[j]
    BY <1>6
  <2>2. r[i] = rows[x] /\ r[j] = rows[y]
    BY <1>6, <2>1
  <2>3. \/ rows[x].publish_time < rows[y].publish_time
        \/ rows[x].publish_time = rows[y].publish_time /\ x < y
    BY <1>5, <1>7, <2>1 DEF Sorts
  <2>4. PICK p \in Int, q \in Int : p = rows[x].publish_time /\ q = rows[y].publish_time
    BY <1>3
  <2>5. p < q \/ (p = q /\ x < y)
    BY <2>3, <2>4
  <2>6. p <= q /\ (p = q => x < y) /\ x # y
    BY <2>4, <2>5
  <2>7. x < y /\ rows[x].record.source = rows[y].record.source /\ p = q
            => rows[x].record.row < rows[y].record.row
    BY <1>1, <2>4 DEF RowsStable
  <2>8. r[i].publish_time = p /\ r[j].publish_time = q
    BY <2>2, <2>4
  <2> QED BY <2>1, <2>2, <2>6, <2>7, <2>8
<1>8. Distinct(r)
  <2>1. ASSUME NEW i \in 1 .. n, NEW j \in 1 .. n, r[i].record = r[j].record PROVE i = j
    <3>1. o[i] = o[j]
      BY <1>1, <1>6, <2>1 DEF Distinct
    <3>2. i < j \/ j < i \/ i = j
      BY <1>2
    <3> QED BY <1>7, <3>1, <3>2
  <2> QED BY <1>4, <2>1 DEF Distinct
<1>9. SameRows(r, rows)
  BY <1>1, <1>4, <1>5, <1>6 DEF SameRows, Sorts
<1>10. RowsTimely(r)
  BY <1>4, <1>7 DEF RowsTimely
<1>11. RowsStable(r)
  BY <1>4, <1>7 DEF RowsStable
<1> QED BY <1>1, <1>4, <1>8, <1>9, <1>10, <1>11

LEMMA SortGroupsStep ==
    ASSUME ConverterInvariant, ReaderInvariant, R!SortGroups, UNCHANGED vars
    PROVE  ReaderInvariant'
<1>1. /\ reading = "open" /\ read = Len(mcap) /\ reading' = "sorted"
      /\ groups' = [b \in DOMAIN groups |-> [groups[b] EXCEPT !.rows = R!SortByTime(@)]]
      /\ UNCHANGED <<mcap, read, pool, topic_descriptors, batches>> /\ pc' = pc
  BY DEF R!SortGroups, vars
<1>2. RowsOfMessages /\ ReaderPhases /\ DescriptorsOfMessages
      /\ \A c \in DOMAIN groups : Ordered(groups[c].rows)
  BY DEF ReaderInvariant
<1>3. \A l : BaseOf(l)' = BaseOf(l) /\ RowFor(l)' = RowFor(l)
  BY <1>1, SameFile
<1>4. Len(mcap) \in Nat
  BY SequenceFacts DEF ConverterInvariant, WrittenOnce
<1>5. Sorted' /\ ~ Sorted
  BY <1>1 DEF Sorted
<1>6. DOMAIN groups' = DOMAIN groups
  BY <1>1
<1>7. ASSUME NEW b \in DOMAIN groups
      PROVE  /\ groups'[b] = [full_name |-> groups[b].full_name, descriptor |-> groups[b].descriptor,
                              rows |-> R!SortByTime(groups[b].rows)]
             /\ groups'[b].full_name = groups[b].full_name
             /\ groups'[b].descriptor = groups[b].descriptor
             /\ groups'[b].rows = R!SortByTime(groups[b].rows)
  <2>1. groups'[b] = [groups[b] EXCEPT !.rows = R!SortByTime(@)]
    BY <1>1
  <2>2. groups[b] = [full_name |-> groups[b].full_name,
                     descriptor |-> groups[b].descriptor, rows |-> groups[b].rows]
    BY <1>2 DEF RowsOfMessages
  <2>3. ASSUME NEW g, NEW x, NEW y, NEW z, NEW w, g = [full_name |-> x, descriptor |-> y, rows |-> z]
        PROVE  [g EXCEPT !.rows = w] = [full_name |-> x, descriptor |-> y, rows |-> w]
    BY <2>3
  <2>4. groups'[b] = [full_name |-> groups[b].full_name, descriptor |-> groups[b].descriptor,
                      rows |-> R!SortByTime(groups[b].rows)]
    BY <2>1, <2>2, <2>3
  <2> QED BY <2>4
<1>8. \A l, b : b \in DOMAIN groups => (InGroup(l, b)' <=> InGroup(l, b))
  BY <1>1, <1>3, <1>7 DEF InGroup
<1>9. ASSUME NEW b \in DOMAIN groups, NEW rows, rows = groups[b].rows, NEW r, r = groups'[b].rows
      PROVE  /\ Sequence(r) /\ SameRows(r, rows) /\ Distinct(r) /\ RowsTimely(r) /\ RowsStable(r)
             /\ Len(rows) \in Nat
  <2>1. Sequence(rows)
    BY <1>2, <1>9 DEF RowsOfMessages
  <2>2. ASSUME NEW i \in 1 .. Len(rows) PROVE rows[i].publish_time \in Int
    <3>1. PICK l \in 1 .. read : groups[b].rows[i] = RowFor(l)
      BY <1>2, <1>9 DEF RowsOfMessages
    <3>2. l \in 1 .. Len(mcap)
      BY <1>1, <3>1
    <3>3. RowFor(l).publish_time = mcap[l].publish_time
      BY DEF RowFor
    <3>4. mcap[l].publish_time \in Int
      BY <3>2, MessageTimes
    <3> QED BY <1>9, <3>1, <3>3, <3>4
  <2>3. Timed(rows)
    BY <2>2 DEF Timed
  <2>4. Distinct(rows)
    BY <1>2, <1>9 DEF RowsOfMessages, Distinct
  <2>5. RowsStable(rows)
    <3>1. Ordered(rows)
      BY <1>2, <1>9
    <3> QED BY <3>1 DEF Ordered, RowsStable
  <2>6. r = R!SortByTime(rows)
    BY <1>7, <1>9
  <2> QED BY <2>1, <2>3, <2>4, <2>5, <2>6, SortKeeps, SequenceFacts
<1>10. ASSUME NEW b \in DOMAIN groups
       PROVE  /\ Sequence(groups'[b].rows)
              /\ \A i \in 1 .. Len(groups'[b].rows) : \E l \in 1 .. read :
                     InGroup(l, b)' /\ groups'[b].rows[i] = RowFor(l)
              /\ \A i, j \in 1 .. Len(groups'[b].rows) :
                     groups'[b].rows[i].record = groups'[b].rows[j].record => i = j
              /\ Ordered(groups[b].rows)'
              /\ \A x \in 1 .. Len(groups[b].rows) : \E i \in 1 .. Len(groups'[b].rows) :
                     groups'[b].rows[i] = groups[b].rows[x]
  <2>1. PICK rows, r : rows = groups[b].rows /\ r = groups'[b].rows
    OBVIOUS
  <2>2. Sequence(r) /\ SameRows(r, rows) /\ Distinct(r) /\ RowsTimely(r) /\ RowsStable(r)
    BY <1>9, <2>1
  <2>3. ASSUME NEW i \in 1 .. Len(r)
        PROVE  \E l \in 1 .. read : InGroup(l, b)' /\ r[i] = RowFor(l)
    <3>1. PICK x \in 1 .. Len(rows) : r[i] = rows[x]
      BY <2>2 DEF SameRows
    <3>2. x \in 1 .. Len(groups[b].rows)
      BY <2>1
    <3>3. PICK l \in 1 .. read : InGroup(l, b) /\ groups[b].rows[x] = RowFor(l)
      BY <1>2, <3>2 DEF RowsOfMessages
    <3> QED BY <1>8, <2>1, <3>1, <3>3
  <2>4. Ordered(r)'
    BY <2>2 DEF Ordered, RowsTimely, RowsStable
  <2>5. Ordered(groups[b].rows)'
    BY <2>1, <2>4
  <2>6. \A x \in 1 .. Len(rows) : \E i \in 1 .. Len(r) : r[i] = rows[x]
    BY <2>2 DEF SameRows
  <2>7. \A i, j \in 1 .. Len(r) : r[i].record = r[j].record => i = j
    BY <2>2 DEF Distinct
  <2> QED BY <2>1, <2>2, <2>3, <2>5, <2>6, <2>7
<1>11. RowsOfMessages'
  <2>1. ASSUME NEW c \in DOMAIN groups
        PROVE  /\ Sequence(groups'[c].rows)
               /\ groups'[c] = [full_name |-> groups'[c].full_name,
                                descriptor |-> groups'[c].descriptor, rows |-> groups'[c].rows]
    BY <1>7, <1>10
  <2>2. ASSUME NEW c \in DOMAIN groups PROVE \E l \in 1 .. read : InGroup(l, c)'
    BY <1>2, <1>8 DEF RowsOfMessages
  <2>3. ASSUME NEW l \in 1 .. read
        PROVE  /\ BaseOf(l) \in DOMAIN groups
               /\ \E i \in 1 .. Len(groups'[BaseOf(l)].rows) : groups'[BaseOf(l)].rows[i] = RowFor(l)
    <3>1. BaseOf(l) \in DOMAIN groups
      BY <1>2 DEF RowsOfMessages
    <3>2. PICK x \in 1 .. Len(groups[BaseOf(l)].rows) : groups[BaseOf(l)].rows[x] = RowFor(l)
      BY <1>2 DEF RowsOfMessages
    <3>3. PICK i \in 1 .. Len(groups'[BaseOf(l)].rows) :
              groups'[BaseOf(l)].rows[i] = groups[BaseOf(l)].rows[x]
      BY <1>10, <3>1
    <3> QED BY <3>1, <3>2, <3>3
  <2>4. ASSUME NEW c \in DOMAIN groups'
        PROVE  /\ Sequence(groups'[c].rows)
               /\ groups'[c] = [full_name |-> groups'[c].full_name,
                                descriptor |-> groups'[c].descriptor, rows |-> groups'[c].rows]
               /\ \E l \in 1 .. read' : InGroup(l, c)'
               /\ \A i, j \in 1 .. Len(groups'[c].rows) :
                     groups'[c].rows[i].record = groups'[c].rows[j].record => i = j
    BY <1>1, <1>6, <1>10, <2>1, <2>2
  <2>5. ASSUME NEW c \in DOMAIN groups', NEW i \in 1 .. Len(groups'[c].rows)
        PROVE  \E l \in 1 .. read' : InGroup(l, c)' /\ groups'[c].rows[i] = RowFor(l)'
    <3>1. c \in DOMAIN groups
      BY <1>6
    <3>2. PICK l \in 1 .. read : InGroup(l, c)' /\ groups'[c].rows[i] = RowFor(l)
      BY <1>10, <3>1
    <3> QED BY <1>1, <1>3, <3>2
  <2>6. ASSUME NEW l \in 1 .. read'
        PROVE  /\ BaseOf(l)' \in DOMAIN groups'
               /\ \E i \in 1 .. Len(groups'[BaseOf(l)'].rows) : groups'[BaseOf(l)'].rows[i] = RowFor(l)'
    BY <1>1, <1>3, <1>6, <2>3
  <2> QED BY <2>4, <2>5, <2>6 DEF RowsOfMessages
<1>12. \A c \in DOMAIN groups' : Ordered(groups[c].rows)'
  BY <1>6, <1>10
<1>13. DescriptorsOfMessages'
  BY <1>1, <1>2 DEF DescriptorsOfMessages
<1>14. ReaderPhases'
  <2>1. read' \in 0 .. Len(mcap') /\ read' = Len(mcap')
    BY <1>1, <1>4
  <2>2. pc' = "finished" /\ batches' = [c \in {} |-> <<>>]
    BY <1>1, <1>2 DEF ReaderPhases
  <2> QED BY <1>1, <2>1, <2>2 DEF ReaderPhases
<1> QED BY <1>11, <1>12, <1>13, <1>14 DEF ReaderInvariant

\* The other steps of the reader leave the groups as they are.
LEMMA SameGroups ==
    ASSUME ReaderInvariant, UNCHANGED <<mcap, read, pool, topic_descriptors, groups>>, Sorted' = Sorted
    PROVE  DescriptorsOfMessages' /\ RowsOfMessages' /\ \A b \in DOMAIN groups' : Ordered(groups[b].rows)'
<1>1. RowsOfMessages /\ DescriptorsOfMessages /\ \A c \in DOMAIN groups : Ordered(groups[c].rows)
  BY DEF ReaderInvariant
<1>2. \A l : BaseOf(l)' = BaseOf(l) /\ RowFor(l)' = RowFor(l)
  BY SameFile
<1>3. \A l, b : InGroup(l, b)' <=> InGroup(l, b)
  BY <1>2 DEF InGroup
<1>4. DescriptorsOfMessages'
  BY <1>1 DEF DescriptorsOfMessages
<1>5. RowsOfMessages'
  <2>1. ASSUME NEW c \in DOMAIN groups
        PROVE  /\ Sequence(groups[c].rows)
               /\ groups[c] = [full_name |-> groups[c].full_name,
                               descriptor |-> groups[c].descriptor, rows |-> groups[c].rows]
               /\ \E l \in 1 .. read : InGroup(l, c)
               /\ \A i, j \in 1 .. Len(groups[c].rows) :
                     groups[c].rows[i].record = groups[c].rows[j].record => i = j
    BY <1>1 DEF RowsOfMessages
  <2>2. ASSUME NEW c \in DOMAIN groups, NEW i \in 1 .. Len(groups[c].rows)
        PROVE  \E l \in 1 .. read : InGroup(l, c) /\ groups[c].rows[i] = RowFor(l)
    BY <1>1 DEF RowsOfMessages
  <2>3. ASSUME NEW l \in 1 .. read
        PROVE  /\ BaseOf(l) \in DOMAIN groups
               /\ \E i \in 1 .. Len(groups[BaseOf(l)].rows) : groups[BaseOf(l)].rows[i] = RowFor(l)
    BY <1>1 DEF RowsOfMessages
  <2>4. ASSUME NEW c \in DOMAIN groups'
        PROVE  /\ Sequence(groups'[c].rows)
               /\ groups'[c] = [full_name |-> groups'[c].full_name,
                                descriptor |-> groups'[c].descriptor, rows |-> groups'[c].rows]
               /\ \E l \in 1 .. read' : InGroup(l, c)'
               /\ \A i, j \in 1 .. Len(groups'[c].rows) :
                     groups'[c].rows[i].record = groups'[c].rows[j].record => i = j
    BY <1>3, <2>1
  <2>5. ASSUME NEW c \in DOMAIN groups', NEW i \in 1 .. Len(groups'[c].rows)
        PROVE  \E l \in 1 .. read' : InGroup(l, c)' /\ groups'[c].rows[i] = RowFor(l)'
    BY <1>2, <1>3, <2>2
  <2>6. ASSUME NEW l \in 1 .. read'
        PROVE  /\ BaseOf(l)' \in DOMAIN groups'
               /\ \E i \in 1 .. Len(groups'[BaseOf(l)'].rows) : groups'[BaseOf(l)'].rows[i] = RowFor(l)'
    BY <1>2, <2>3
  <2> QED BY <2>4, <2>5, <2>6 DEF RowsOfMessages
<1>6. \A b \in DOMAIN groups' : Ordered(groups[b].rows)'
  BY <1>1 DEF Ordered
<1> QED BY <1>4, <1>5, <1>6

LEMMA IngestStep ==
    ASSUME ConverterInvariant, ReaderInvariant, Ingest
    PROVE  ReaderInvariant'
<1>1. UNCHANGED vars /\ pc = "finished" /\ pc' = "finished" /\ mcap' = mcap
  BY DEF Ingest, vars
<1>2. ReaderPhases
  BY DEF ReaderInvariant
<1>3. CASE R!Open
  <2>1. /\ reading = "closed" /\ reading' = "open"
        /\ UNCHANGED <<mcap, read, pool, topic_descriptors, groups, batches>>
    BY <1>3 DEF R!Open
  <2>2. Sorted' = Sorted
    BY <2>1 DEF Sorted
  <2>3. ReaderPhases'
    BY <1>1, <1>2, <2>1 DEF ReaderPhases, Sorted
  <2> QED BY <2>1, <2>2, <2>3, SameGroups DEF ReaderInvariant
<1>4. CASE R!ReadMessage
  BY <1>1, <1>4, ReadMessageStep
<1>5. CASE R!MismatchPanics \/ R!RegisterPanics
  <2>1. /\ reading = "open" /\ reading' = "panicked" /\ read < Len(mcap)
        /\ UNCHANGED <<mcap, read, pool, topic_descriptors, groups, batches>>
        /\ R!Mismatch(mcap[read + 1]) \/ (R!IsNew(mcap[read + 1]) /\ R!Refused(mcap[read + 1]))
    BY <1>5 DEF R!MismatchPanics, R!RegisterPanics, R!Message
  <2>2. Sorted' = Sorted
    BY <2>1 DEF Sorted
  <2>3. PICK k : k = read + 1
    OBVIOUS
  <2>4. k \in 1 .. Len(mcap)
    <3>1. Len(mcap) \in Nat /\ read \in 0 .. Len(mcap)
      BY <1>2, SequenceFacts DEF ConverterInvariant, WrittenOnce, ReaderPhases
    <3> QED BY <2>1, <2>3, <3>1
  <2>5. ASSUME R!Mismatch(mcap[k])
        PROVE  Mismatched(k)
    <3>1. R!TopicDescriptor(mcap[k])
              = [full_name |-> mcap[k].schema_name, fields |-> mcap[k].schema_data.fields]
      BY <2>3, <2>4, Descriptors
    <3>2. R!TopicDescriptor(mcap[k]).full_name = mcap[k].schema_name
      BY <3>1
    <3> QED BY <2>5, <3>2 DEF R!Mismatch, BaseOf, Mismatched
  <2>6. ASSUME R!IsNew(mcap[k]), R!Refused(mcap[k])
        PROVE  \E l \in 1 .. read : Clash(mcap[l], mcap[k])
    <3>1. PICK n \in DOMAIN pool : \/ pool[n].file = mcap[k].schema_data.file
                                   \/ mcap[k].schema_name \in pool[n].packages
                                   \/ n \in mcap[k].schema_data.packages
      BY <2>6 DEF R!Refused
    <3>2. mcap[k].schema_name # n
      BY <2>6, <3>1 DEF R!IsNew
    <3>3. PICK l \in 1 .. read : n = mcap[l].schema_name /\ pool[n] = mcap[l].schema_data
      BY <3>1 DEF ReaderInvariant, DescriptorsOfMessages
    <3> QED BY <3>1, <3>2, <3>3 DEF Clash
  <2>7. Mismatched(k) \/ \E l \in 1 .. read : Clash(mcap[l], mcap[k])
    BY <2>1, <2>3, <2>5, <2>6
  <2>8. Mismatched(read + 1)' <=> Mismatched(k)
    BY <2>1, <2>3 DEF Mismatched, BaseOf
  <2>9. Mismatched(read + 1)' \/ \E l \in 1 .. read' : Clash(mcap'[l], mcap'[read' + 1])
    BY <2>1, <2>3, <2>7, <2>8
  <2>10. batches' = [b \in {} |-> <<>>] /\ read' \in 0 .. Len(mcap') /\ ~ Sorted'
    BY <1>2, <2>1 DEF ReaderPhases, Sorted
  <2>11. ReaderPhases'
    <3>1. read' < Len(mcap') /\ reading' = "panicked"
      BY <2>1
    <3> QED BY <1>1, <2>9, <2>10, <3>1 DEF ReaderPhases, Clash
  <2> QED BY <2>1, <2>2, <2>11, SameGroups DEF ReaderInvariant
<1>6. CASE R!SortGroups
  BY <1>1, <1>6, SortGroupsStep
<1>7. CASE R!EncodeBatches
  <2>1. /\ reading = "sorted" /\ reading' = "encoded"
        /\ batches' = [b \in DOMAIN groups |-> R!build_record_batch(groups[b])]
        /\ UNCHANGED <<mcap, read, pool, topic_descriptors, groups>>
    BY <1>7 DEF R!EncodeBatches
  <2>2. Sorted' = Sorted
    BY <2>1 DEF Sorted
  <2>3. batches' = [b \in DOMAIN groups' |-> R!build_record_batch(groups'[b])]
    BY <2>1
  <2>4. read' \in 0 .. Len(mcap') /\ read' = Len(mcap')
    BY <1>2, <2>1 DEF ReaderPhases, Sorted
  <2>5. ReaderPhases'
    BY <1>1, <2>1, <2>3, <2>4 DEF ReaderPhases
  <2> QED BY <2>1, <2>2, <2>5, SameGroups DEF ReaderInvariant
<1> QED BY <1>3, <1>4, <1>5, <1>6, <1>7 DEF Ingest, R!NextReader

\* Nothing is read before the converter has finished, and nothing written after.
LEMMA ConvertStep ==
    ASSUME ConverterInvariant, ConverterInvariant', ReaderInvariant, Next, UNCHANGED readerVars
    PROVE  ReaderInvariant'
<1>1. pc # "finished"
  <2>1. RegisterTopic => pc = "register"
    BY DEF RegisterTopic
  <2>2. RegisterFixed => pc = "register"
    BY DEF RegisterFixed
  <2>3. CodecRaises => pc = "register"
    BY DEF CodecRaises
  <2>4. ASSUME NEW s, WriteMessage(s) \/ EncodeRaises(s) PROVE pc = "write"
    <3>1. WriteMessage(s) => pc = "write"
      BY DEF WriteMessage
    <3>2. EncodeRaises(s) => pc = "write"
      BY DEF EncodeRaises
    <3> QED BY <2>4, <3>1, <3>2
  <2>5. FinishFile => pc = "write"
    BY DEF FinishFile
  <2>6. pc = "register" \/ pc = "write"
    BY <2>1, <2>2, <2>3, <2>4, <2>5 DEF Next
  <2> QED BY <2>6
<1>2. ReaderPhases /\ reading = "closed" /\ ~ Sorted'
  BY <1>1 DEF ReaderInvariant, ReaderPhases, readerVars, Sorted
<1>3. /\ reading' = "closed" /\ read' = 0 /\ batches' = [b \in {} |-> <<>>]
      /\ DOMAIN pool' = {} /\ DOMAIN topic_descriptors' = {} /\ DOMAIN groups' = {}
  BY <1>2 DEF ReaderPhases, readerVars
<1>4. Len(mcap') \in Nat
  BY SequenceFacts DEF ConverterInvariant, WrittenOnce
<1>5. ReaderPhases'
  BY <1>2, <1>3, <1>4 DEF ReaderPhases
<1>6. DescriptorsOfMessages' /\ RowsOfMessages'
  BY <1>3 DEF DescriptorsOfMessages, RowsOfMessages
<1> QED BY <1>3, <1>5, <1>6 DEF ReaderInvariant

LogInvariant == FileInvariant /\ ReaderInvariant

LEMMA LogInit ==
    ASSUME InitLog
    PROVE  LogInvariant
<1>1. FileInvariant
  BY FileInit DEF InitLog
<1>2. /\ reading = "closed" /\ read = 0 /\ batches = [b \in {} |-> <<>>]
      /\ DOMAIN pool = {} /\ DOMAIN topic_descriptors = {} /\ DOMAIN groups = {}
  BY DEF InitLog, R!InitReader
<1>3. Len(mcap) \in Nat
  BY <1>1, SequenceFacts DEF FileInvariant, ConverterInvariant, WrittenOnce
<1>4. ReaderPhases
  BY <1>2, <1>3 DEF ReaderPhases, Sorted
<1>5. DescriptorsOfMessages /\ RowsOfMessages
  BY <1>2 DEF DescriptorsOfMessages, RowsOfMessages
<1> QED BY <1>1, <1>2, <1>4, <1>5 DEF LogInvariant, ReaderInvariant

LEMMA LogStep ==
    ASSUME LogInvariant, [NextLog]_logVars
    PROVE  LogInvariant'
<1>1. FileInvariant /\ ConverterInvariant /\ ReaderInvariant
  BY DEF LogInvariant, FileInvariant
<1>2. CASE Convert
  <2>1. FileInvariant'
    BY <1>1, <1>2, FileStep DEF Convert
  <2> QED BY <1>1, <1>2, <2>1, ConvertStep DEF Convert, LogInvariant, FileInvariant
<1>3. CASE Ingest
  <2>1. FileInvariant'
    BY <1>1, <1>3, FileStep DEF Ingest
  <2> QED BY <1>1, <1>3, <2>1, IngestStep DEF LogInvariant
<1>4. CASE UNCHANGED logVars
  <2>1. UNCHANGED vars /\ UNCHANGED <<reading, read, pool, topic_descriptors, groups, batches>>
        /\ UNCHANGED <<mcap, pc>>
    BY <1>4 DEF logVars, readerVars, vars
  <2>2. FileInvariant'
    BY <1>1, <2>1, FileStep
  <2>3. Sorted' = Sorted
    BY <2>1 DEF Sorted
  <2>4. DescriptorsOfMessages' /\ RowsOfMessages' /\ \A b \in DOMAIN groups' : Ordered(groups[b].rows)'
    BY <1>1, <2>1, <2>3, SameGroups
  <2>5. ReaderPhases'
    BY <1>1, <2>1, <2>3 DEF ReaderInvariant, ReaderPhases, BaseOf, Mismatched, Clash
  <2> QED BY <2>2, <2>4, <2>5 DEF LogInvariant, ReaderInvariant
<1> QED BY <1>2, <1>3, <1>4 DEF NextLog

\* The inductive invariant holds of every behaviour.
THEOREM LogInvariantHolds == FlightSpec => []LogInvariant
<1>1. InitLog => LogInvariant
  BY LogInit
<1>2. LogInvariant /\ [NextLog]_logVars => LogInvariant'
  BY LogStep
<1> QED BY <1>1, <1>2, PTL DEF FlightSpec

-----------------------------------------------------------------------------
(* What follows from it *)

LEMMA TypesFollow ==
    ASSUME LogInvariant
    PROVE  TypeOK
<1>1. ConverterInvariant /\ Counted /\ ReaderPhases /\ DescriptorsOfMessages
  BY DEF LogInvariant, FileInvariant, ReaderInvariant
<1>2. Logged /\ ChannelsOfStreams /\ WrittenOnce /\ pc \in {"register", "write", "finished", "raised"}
  BY <1>1 DEF ConverterInvariant
<1>3. DOMAIN Streams = 1 .. N + 4
  BY <1>2, StreamsAre
<1>4. ulog \in Ulogs /\ registered \in 0 .. Len(ulog.data_list) /\ written \in [DOMAIN Streams -> Nat]
  BY <1>2, <1>3 DEF Logged, ChannelsOfStreams, WrittenOnce, N
<1>5. Len(mcap) = Cardinality(UNION {{s} \X (1 .. written[s]) : s \in DOMAIN Streams})
  BY <1>1 DEF Counted, Copied
<1>6. ASSUME pc = "write", NEW s \in Pending PROVE NextRecord(s).topic \in DOMAIN channels
  <2>1. s \in DOMAIN Streams
    BY <1>6 DEF Pending
  <2>2. NextRecord(s).topic = TopicOf(s) /\ s \in 1 .. N + 4
    BY <1>1, <1>6, <2>1, NextIs
  <2> QED BY <1>2, <1>6, <2>2 DEF ChannelsOfStreams
<1>7. DOMAIN topic_descriptors = {mcap[k].topic : k \in 1 .. read}
  BY <1>1 DEF DescriptorsOfMessages
<1>8. DOMAIN pool \subseteq {mcap[k].schema_name : k \in 1 .. read}
  BY <1>1 DEF DescriptorsOfMessages
<1>9. /\ reading \in {"closed", "open", "panicked", "sorted", "encoded"}
      /\ read \in 0 .. Len(mcap)
      /\ DOMAIN batches = IF reading = "encoded" THEN DOMAIN groups ELSE {}
  BY <1>1 DEF ReaderPhases
<1> QED BY <1>2, <1>4, <1>5, <1>6, <1>7, <1>8, <1>9 DEF TypeOK

\* The types of the variables of a log's way to the rows of its tables; a channel
\* is there for every record when the writing starts; and the messages of the file
\* are as many as the records written (convert.py and mcap_reader.rs).
THEOREM Typed == FlightSpec => []TypeOK
BY LogInvariantHolds, TypesFollow, PTL

\* If pyulog has each stream in the order of its times, heapq.merge writes the
\* .mcap in the order of publish_time (convert.py).
THEOREM OrderKept == FlightSpec => []OrderedIfStreamsAre
<1>1. LogInvariant => OrderedIfStreamsAre
  <2>1. SUFFICES ASSUME LogInvariant, \A s \in DOMAIN Streams : InTimeOrder(Streams[s]),
                        NEW k \in DOMAIN mcap, k > 1
                 PROVE  mcap[k - 1].publish_time <= mcap[k].publish_time
    BY DEF OrderedIfStreamsAre
  <2>2. Merged /\ Sequence(mcap)
    BY <2>1 DEF LogInvariant, FileInvariant, ConverterInvariant, WrittenOnce
  <2>3. DOMAIN mcap = 1 .. Len(mcap) /\ Len(mcap) \in Nat
    BY <2>2, SequenceFacts
  <2>4. k - 1 \in 1 .. Len(mcap) /\ k \in 1 .. Len(mcap) /\ k - 1 < k
    BY <2>1, <2>3
  <2> QED BY <2>1, <2>2, <2>4 DEF Merged
<1> QED BY <1>1, LogInvariantHolds, PTL

\* A row of a group was decoded with the descriptor of the codec that encoded it,
\* and the group has no other (mcap_reader.rs, topics.rs): the pool's answer by
\* name and the cache's by topic are never those of another message type.
THEOREM DecodingIsFaithful == FlightSpec => []DecodedAsEncoded
<1>1. LogInvariant => DecodedAsEncoded
  <2>1. SUFFICES ASSUME LogInvariant, NEW g \in DOMAIN groups, NEW k \in DOMAIN groups[g].rows
                 PROVE  /\ groups[g].rows[k].decoded = descriptor(groups[g].rows[k].encoded)
                        /\ groups[g].descriptor = groups[g].rows[k].decoded
    BY DEF DecodedAsEncoded
  <2>2. ConverterInvariant /\ RowsOfMessages /\ read \in 0 .. Len(mcap)
    BY <2>1 DEF LogInvariant, FileInvariant, ReaderInvariant, ReaderPhases
  <2>3. k \in 1 .. Len(groups[g].rows)
    <3>1. Sequence(groups[g].rows)
      BY <2>2 DEF RowsOfMessages
    <3> QED BY <3>1, SequenceFacts
  <2>4. PICK l \in 1 .. read : InGroup(l, g) /\ groups[g].rows[k] = RowFor(l)
    BY <2>2, <2>3 DEF RowsOfMessages
  <2>5. l \in 1 .. Len(mcap)
    <3>1. Len(mcap) \in Nat
      BY <2>2, SequenceFacts DEF ConverterInvariant, WrittenOnce
    <3> QED BY <2>2, <2>4, <3>1
  <2>6. RowFor(l).decoded = mcap[l].schema_data.fields /\ RowFor(l).encoded = mcap[l].encoded
    BY DEF RowFor
  <2>7. mcap[l].schema_data.fields = descriptor(mcap[l].encoded)
    BY <2>2, <2>5, FileSchemas
  <2>8. groups[g].descriptor = mcap[l].schema_data.fields
    BY <2>4 DEF InGroup
  <2> QED BY <2>4, <2>6, <2>7, <2>8
<1> QED BY <1>1, LogInvariantHolds, PTL

\* After commit_topic_group's sort the rows of a table are in the order of their
\* publish_time, and those of one source that have one time are in the order in
\* which the source had them.
THEOREM RowsAreInOrder == FlightSpec => []RowsInOrder
<1>1. LogInvariant => RowsInOrder
  <2>1. SUFFICES ASSUME LogInvariant, Sorted, NEW g \in DOMAIN groups,
                        NEW k \in 1 .. Len(groups[g].rows), NEW j \in 1 .. Len(groups[g].rows), j < k
                 PROVE  /\ groups[g].rows[j].publish_time <= groups[g].rows[k].publish_time
                        /\ (groups[g].rows[j].publish_time = groups[g].rows[k].publish_time
                               /\ groups[g].rows[j].record.source = groups[g].rows[k].record.source)
                           => groups[g].rows[j].record.row < groups[g].rows[k].record.row
    BY DEF RowsInOrder
  <2>2. Ordered(groups[g].rows)
    BY <2>1 DEF LogInvariant, ReaderInvariant
  <2> QED BY <2>1, <2>2 DEF Ordered
<1> QED BY <1>1, LogInvariantHolds, PTL

-----------------------------------------------------------------------------
(* The records of a log and the rows of its tables *)

\* Row r is that of record j of stream s.
RowIs(r, s, j) ==
    /\ r.log_time = Streams[s][j].time * 1000 /\ r.publish_time = Streams[s][j].time * 1000
    /\ r.multi_id = InstanceOf(s)
    /\ r.message = encode(CodecOf(s), Streams[s][j].payload)
    /\ r.record = Streams[s][j].record

\* Group b is the one for the records of stream s.
GroupIs(b, s) ==
    b = TableOf(s) /\ groups[b].full_name = SchemaOf(s) /\ groups[b].descriptor = descriptor(CodecOf(s))

LEMMA InvariantParts ==
    ASSUME LogInvariant
    PROVE  /\ ConverterInvariant /\ ReaderPhases /\ DescriptorsOfMessages /\ RowsOfMessages
           /\ Logged /\ WrittenOnce
           /\ N \in Nat /\ Len(mcap) \in Nat /\ read \in 0 .. Len(mcap)
           /\ \A k \in 1 .. read : k \in 1 .. Len(mcap)
           /\ \A s \in 1 .. N + 4 : Len(Streams[s]) \in Nat
           /\ \A b \in DOMAIN groups :
                  /\ Sequence(groups[b].rows) /\ Len(groups[b].rows) \in Nat
                  /\ DOMAIN groups[b].rows = 1 .. Len(groups[b].rows)
<1>1. /\ ConverterInvariant /\ ReaderPhases /\ DescriptorsOfMessages /\ RowsOfMessages
      /\ Logged /\ WrittenOnce
  BY DEF LogInvariant, FileInvariant, ReaderInvariant, ConverterInvariant
<1>2. N \in Nat /\ \A s \in 1 .. N + 4 : WellFormed(s, Streams[s])
  BY <1>1, StreamsAre
<1>3. \A s \in 1 .. N + 4 : Len(Streams[s]) \in Nat
  BY <1>2, SequenceFacts DEF WellFormed
<1>4. Len(mcap) \in Nat
  BY <1>1, SequenceFacts DEF WrittenOnce
<1>5. read \in 0 .. Len(mcap)
  BY <1>1 DEF ReaderPhases
<1>6. \A k \in 1 .. read : k \in 1 .. Len(mcap)
  BY <1>4, <1>5
<1>7. \A b \in DOMAIN groups : Sequence(groups[b].rows)
  BY <1>1 DEF RowsOfMessages
<1>8. \A b \in DOMAIN groups :
          Len(groups[b].rows) \in Nat /\ DOMAIN groups[b].rows = 1 .. Len(groups[b].rows)
  BY <1>7, SequenceFacts
<1> QED BY <1>1, <1>2, <1>3, <1>4, <1>5, <1>6, <1>7, <1>8

\* The message of a file is that of a record, and its row too.
LEMMA MessageIsOfRecord ==
    ASSUME LogInvariant, NEW k \in 1 .. Len(mcap)
    PROVE  \E s \in 1 .. N + 4 : \E j \in 1 .. Len(Streams[s]) :
               /\ BaseOf(k) = TableOf(s) /\ RowIs(RowFor(k), s, j)
               /\ mcap[k].schema_name = SchemaOf(s) /\ mcap[k].schema_data.fields = descriptor(CodecOf(s))
<1>1. Logged /\ WrittenOnce /\ N \in Nat /\ \A s \in 1 .. N + 4 : Len(Streams[s]) \in Nat
  BY InvariantParts
<1>2. PICK s \in 1 .. N + 4 : \E j \in 1 .. written[s] : mcap[k] = MessageOf(s, j)
  BY <1>1 DEF WrittenOnce
<1>3. PICK j \in 1 .. written[s] : mcap[k] = MessageOf(s, j)
  BY <1>2
<1>4. j \in 1 .. Len(Streams[s])
  <2>1. written[s] \in Nat /\ written[s] <= Len(Streams[s])
    BY <1>1 DEF WrittenOnce
  <2> QED BY <1>1, <2>1
<1>5. R!parse_topic_name(mcap[k].topic) = <<TableOf(s), InstanceOf(s)>>
  BY <1>1, <1>3, MessageFields, StreamNames
<1>6. BaseOf(k) = TableOf(s) /\ RowFor(k).multi_id = InstanceOf(s)
  BY <1>5 DEF BaseOf, RowFor
<1>7. /\ mcap[k].schema_name = SchemaOf(s) /\ mcap[k].schema_data.fields = descriptor(CodecOf(s))
      /\ mcap[k].publish_time = Streams[s][j].time * 1000
      /\ mcap[k].log_time = Streams[s][j].time * 1000
      /\ mcap[k].data = encode(CodecOf(s), Streams[s][j].payload)
      /\ mcap[k].record = Streams[s][j].record
  BY <1>3, MessageFields
<1>8. /\ RowFor(k).publish_time = mcap[k].publish_time /\ RowFor(k).log_time = mcap[k].log_time
      /\ RowFor(k).message = mcap[k].data /\ RowFor(k).record = mcap[k].record
  BY DEF RowFor
<1>9. RowIs(RowFor(k), s, j)
  BY <1>6, <1>7, <1>8 DEF RowIs
<1> QED BY <1>4, <1>6, <1>7, <1>9

\* So a row of a group is that of a record of a stream for which the group is.
LEMMA RowIsOfRecord ==
    ASSUME LogInvariant, NEW b \in DOMAIN groups, NEW i \in 1 .. Len(groups[b].rows)
    PROVE  \E s \in 1 .. N + 4 : GroupIs(b, s) /\ \E j \in 1 .. Len(Streams[s]) : RowIs(groups[b].rows[i], s, j)
<1>1. RowsOfMessages /\ \A k \in 1 .. read : k \in 1 .. Len(mcap)
  BY InvariantParts
<1>2. PICK k \in 1 .. read : InGroup(k, b) /\ groups[b].rows[i] = RowFor(k)
  BY <1>1 DEF RowsOfMessages
<1>3. PICK s \in 1 .. N + 4 : \E j \in 1 .. Len(Streams[s]) :
          /\ BaseOf(k) = TableOf(s) /\ RowIs(RowFor(k), s, j)
          /\ mcap[k].schema_name = SchemaOf(s) /\ mcap[k].schema_data.fields = descriptor(CodecOf(s))
  BY <1>1, MessageIsOfRecord
<1>4. GroupIs(b, s)
  BY <1>2, <1>3 DEF InGroup, GroupIs
<1> QED BY <1>2, <1>3, <1>4

\* And when all has been read, each record has its row.
LEMMA RecordHasRow ==
    ASSUME LogInvariant, Sorted, NEW s \in 1 .. N + 4, NEW j \in 1 .. Len(Streams[s])
    PROVE  /\ TableOf(s) \in DOMAIN groups
           /\ \E i \in 1 .. Len(groups[TableOf(s)].rows) :
                  groups[TableOf(s)].rows[i].record = Streams[s][j].record
<1>1. /\ Logged /\ WrittenOnce /\ ReaderPhases /\ RowsOfMessages
      /\ N \in Nat /\ \A x \in 1 .. N + 4 : Len(Streams[x]) \in Nat
  BY InvariantParts
<1>2. pc = "finished" /\ read = Len(mcap)
  BY <1>1 DEF ReaderPhases, Sorted
<1>3. written[s] = Len(Streams[s])
  BY <1>1, <1>2 DEF WrittenOnce
<1>4. PICK k \in 1 .. Len(mcap) : mcap[k] = MessageOf(s, j)
  BY <1>1, <1>3 DEF WrittenOnce
<1>5. BaseOf(k) = TableOf(s)
  BY <1>1, <1>4, MessageFields, StreamNames DEF BaseOf
<1>6. BaseOf(k) \in DOMAIN groups
      /\ \E i \in 1 .. Len(groups[BaseOf(k)].rows) : groups[BaseOf(k)].rows[i] = RowFor(k)
  BY <1>1, <1>2, <1>4 DEF RowsOfMessages
<1>7. RowFor(k).record = Streams[s][j].record
  BY <1>4, MessageFields DEF RowFor
<1> QED BY <1>5, <1>6, <1>7

DataSource(n) == [kind |-> "data", n |-> n]

LEMMA DataRecords ==
    ASSUME Logged, NEW n \in 1 .. N
    PROVE  LET records == ulog.data_list[n].records IN
           /\ Len(records) \in Nat /\ Len(Streams[n]) = Len(records)
           /\ \A i \in 1 .. Len(records) :
                  /\ Streams[n][i].record = [source |-> DataSource(n), row |-> i]
                  /\ Streams[n][i].payload = records[i]
                  /\ Streams[n][i].time = TimeOf(records[i])
<1>1. Len(ulog.data_list[n].records) \in Nat
  BY LogFacts DEF Logged, N
<1>2. Streams[n] = stream_topic_records(n)
  BY StreamsAre
<1>3. Len(stream_topic_records(n)) = Len(ulog.data_list[n].records)
  BY DataStream
<1>4. \A i \in 1 .. Len(ulog.data_list[n].records) :
          stream_topic_records(n)[i]
              = [topic |-> map_topic_name(ulog.data_list[n]), time |-> TimeOf(ulog.data_list[n].records[i]),
                 payload |-> ulog.data_list[n].records[i],
                 record |-> [source |-> [kind |-> "data", n |-> n], row |-> i]]
  BY DataStream
<1>5. ASSUME NEW i \in 1 .. Len(ulog.data_list[n].records)
      PROVE  /\ stream_topic_records(n)[i].record = [source |-> DataSource(n), row |-> i]
             /\ stream_topic_records(n)[i].payload = ulog.data_list[n].records[i]
             /\ stream_topic_records(n)[i].time = TimeOf(ulog.data_list[n].records[i])
  <2>1. stream_topic_records(n)[i]
            = [topic |-> map_topic_name(ulog.data_list[n]), time |-> TimeOf(ulog.data_list[n].records[i]),
               payload |-> ulog.data_list[n].records[i],
               record |-> [source |-> DataSource(n), row |-> i]]
    BY <1>4 DEF DataSource
  <2> QED BY <2>1
<1> QED BY <1>1, <1>2, <1>3, <1>5

\* A row with the source of an entry of data_list is that of one of its records.
LEMMA RowsOfEntry ==
    ASSUME LogInvariant, NEW n \in 1 .. N, NEW b \in DOMAIN groups, NEW k \in RowsOf(n, b)
    PROVE  /\ k \in 1 .. Len(groups[b].rows) /\ b = ulog.data_list[n].name
           /\ groups[b].rows[k].multi_id = ulog.data_list[n].multi_id
           /\ \E j \in 1 .. Len(ulog.data_list[n].records) :
                  groups[b].rows[k].record = [source |-> DataSource(n), row |-> j]
<1>1. Logged /\ N \in Nat /\ n \in 1 .. N + 4
  BY InvariantParts
<1>2. k \in 1 .. Len(groups[b].rows) /\ groups[b].rows[k].record.source = DataSource(n)
  BY InvariantParts DEF RowsOf, DataSource
<1>3. PICK s \in 1 .. N + 4 : GroupIs(b, s) /\ \E j \in 1 .. Len(Streams[s]) : RowIs(groups[b].rows[k], s, j)
  BY <1>2, RowIsOfRecord
<1>4. PICK j \in 1 .. Len(Streams[s]) : RowIs(groups[b].rows[k], s, j)
  BY <1>3
<1>5. groups[b].rows[k].record = Streams[s][j].record
  BY <1>4 DEF RowIs
<1>6. From(s, Streams[s][j].record.source)
  BY <1>1, RecordFacts
<1>7. From(n, DataSource(n))
  BY DEF From, DataSource
<1>8. s = n
  <2>1. From(s, DataSource(n))
    BY <1>2, <1>5, <1>6
  <2> QED BY <1>1, <1>7, <2>1, OneStream
<1>9. b = ulog.data_list[n].name /\ groups[b].rows[k].multi_id = ulog.data_list[n].multi_id
  BY <1>3, <1>4, <1>8 DEF GroupIs, RowIs, TableOf, InstanceOf
<1>10. /\ Len(Streams[n]) = Len(ulog.data_list[n].records)
       /\ \A i \in 1 .. Len(ulog.data_list[n].records) :
              Streams[n][i].record = [source |-> DataSource(n), row |-> i]
  BY <1>1, DataRecords
<1> QED BY <1>2, <1>5, <1>8, <1>9, <1>10

LEMMA EntryInItsTable ==
    ASSUME LogInvariant, Sorted, NEW n \in 1 .. N
    PROVE  InItsTable(n)
<1> DEFINE d == ulog.data_list[n]
           m == Len(d.records)
           S == RowsOf(n, d.name)
           rows == groups[d.name].rows
           f == [k \in S |-> rows[k].record.row]
<1>1. Logged /\ N \in Nat /\ n \in 1 .. N + 4
  BY InvariantParts
<1>2. /\ Sequence(d.records) /\ m \in Nat
      /\ Len(Streams[n]) = m
      /\ \A i \in 1 .. m : Streams[n][i].record = [source |-> DataSource(n), row |-> i]
  <2>1. Sequence(d.records) /\ m \in Nat
    BY <1>1, LogFacts DEF Logged, N
  <2> QED BY <1>1, <2>1, DataRecords
<1>3. SUFFICES ASSUME d.records # <<>>
               PROVE  /\ d.name \in DOMAIN groups
                      /\ Cardinality(S) = m
                      /\ \A k \in S : rows[k].multi_id = d.multi_id
                      /\ \A g \in DOMAIN groups \ {d.name} : RowsOf(n, g) = {}
  BY DEF InItsTable
<1>4. m # 0
  BY <1>2, <1>3, EmptySeq DEF Sequence
<1>5. TableOf(n) = d.name
  BY DEF TableOf
<1>6. d.name \in DOMAIN groups
  BY <1>1, <1>2, <1>4, <1>5, RecordHasRow
<1>7. \A k \in S : /\ k \in 1 .. Len(rows) /\ rows[k].multi_id = d.multi_id
                   /\ \E j \in 1 .. m : rows[k].record = [source |-> DataSource(n), row |-> j]
  BY <1>6, RowsOfEntry
<1>8. \A g \in DOMAIN groups \ {d.name} : RowsOf(n, g) = {}
  BY RowsOfEntry
<1>9. \A x, y \in 1 .. Len(rows) : rows[x].record = rows[y].record => x = y
  BY <1>6, InvariantParts DEF RowsOfMessages
<1>10. \A j \in 1 .. m : \E i \in S : rows[i].record = [source |-> DataSource(n), row |-> j]
  <2>1. SUFFICES ASSUME NEW j \in 1 .. m
                 PROVE  \E i \in S : rows[i].record = [source |-> DataSource(n), row |-> j]
    OBVIOUS
  <2>2. PICK i \in 1 .. Len(rows) : rows[i].record = Streams[n][j].record
    <3>1. j \in 1 .. Len(Streams[n])
      BY <1>2
    <3> QED BY <1>1, <1>5, <3>1, RecordHasRow
  <2>3. rows[i].record = [source |-> DataSource(n), row |-> j]
    BY <1>2, <2>2
  <2>4. i \in DOMAIN rows
    BY <1>6, <2>2, InvariantParts
  <2>5. rows[i].record.source = DataSource(n)
    BY <2>3
  <2>6. i \in S
    BY <2>4, <2>5 DEF RowsOf, DataSource
  <2> QED BY <2>3, <2>6
<1> HIDE DEF S, rows, m
<1>11. \A k \in S : \E j \in 1 .. m : f[k] = j /\ rows[k].record = [source |-> DataSource(n), row |-> j]
  BY <1>7
<1>12. f \in Injection(S, 1 .. m)
  <2>1. f \in [S -> 1 .. m]
    BY <1>11
  <2>2. ASSUME NEW x \in S, NEW y \in S, f[x] = f[y] PROVE x = y
    <3>1. PICK j \in 1 .. m : f[x] = j /\ rows[x].record = [source |-> DataSource(n), row |-> j]
      BY <1>11
    <3>2. PICK i \in 1 .. m : f[y] = i /\ rows[y].record = [source |-> DataSource(n), row |-> i]
      BY <1>11
    <3>3. rows[x].record = rows[y].record
      BY <2>2, <3>1, <3>2
    <3> QED BY <1>7, <1>9, <3>3
  <2> QED BY <2>1, <2>2 DEF Injection, IsInjective
<1>13. f \in Surjection(S, 1 .. m)
  <2>1. ASSUME NEW j \in 1 .. m PROVE \E k \in S : f[k] = j
    <3>1. PICK k \in S : rows[k].record = [source |-> DataSource(n), row |-> j]
      BY <1>10
    <3>2. PICK i \in 1 .. m : f[k] = i /\ rows[k].record = [source |-> DataSource(n), row |-> i]
      BY <1>11
    <3>3. rows[k].record.row = j /\ rows[k].record.row = i
      BY <3>1, <3>2
    <3> QED BY <3>2, <3>3
  <2> QED BY <1>12, <2>1 DEF Surjection, Injection
<1>14. IsFiniteSet(1 .. m) /\ Cardinality(1 .. m) = m
  <2>1. 0 \in Int /\ 1 \in Int /\ m \in Int
    BY <1>2
  <2>2. IsFiniteSet(1 .. m) /\ Cardinality(1 .. m) = IF 1 > m THEN 0 ELSE m - 1 + 1
    BY <2>1, FS_Interval
  <2> QED BY <1>2, <2>2
<1>15. Cardinality(S) = m
  BY <1>12, <1>13, <1>14, FS_Injection
<1> QED BY <1>6, <1>7, <1>8, <1>15

\* Two schema records that the pool does not take are of a type of the log's and of
\* one of the converter's own.
LEMMA ClashIsOfName ==
    ASSUME Logged, N \in Nat, NEW s \in 1 .. N + 4, NEW r \in 1 .. N + 4, SchemaOf(s) # SchemaOf(r),
           \/ SetOf(s).file = SetOf(r).file
           \/ SchemaOf(r) \in SetOf(s).packages
           \/ SchemaOf(s) \in SetOf(r).packages
    PROVE  \E n \in 1 .. N : ulog.data_list[n].name \in TakenName
<1>1. ASSUME NEW x \in 1 .. N
      PROVE  /\ SetOf(x).file = SchemaOf(x) /\ SetOf(x).packages = {}
             /\ SchemaOf(x) = ulog.data_list[x].name
  <2>1. CodecOf(x).class = "TopicCodec"
    BY DEF CodecOf, TopicCodec
  <2> QED BY <2>1 DEF SetOf, schema_bytes, SchemaOf
<1>2. ASSUME NEW x \in 1 .. N + 4, x \notin 1 .. N
      PROVE  /\ TopicOf(x) \in FixedTopic /\ SchemaOf(x) = FixedSchema[TopicOf(x)]
             /\ SetOf(x) = schema_bytes(FixedSchema[TopicOf(x)], FixedCodec(TopicOf(x)))
  <2>1. TopicOf(x) \in FixedTopic
    BY <1>2, StreamNames
  <2> QED BY <1>2, <2>1 DEF SetOf, SchemaOf, CodecOf
<1>3. \A t \in FixedTopic :
          LET set == schema_bytes(FixedSchema[t], FixedCodec(t))
          IN  set.file \in TakenName /\ set.packages \subseteq TakenName
  BY DEF TakenName
<1>4. \A t, u \in FixedTopic : t # u =>
          LET set(v) == schema_bytes(FixedSchema[v], FixedCodec(v))
          IN  set(t).file # set(u).file /\ FixedSchema[t] \notin set(u).packages
  BY DEF FixedTopic, LogsTopic, ParameterChangesTopic, TrajectoryTopic, FixedSchema, FixedCodec,
         ProtobufCodec, schema_bytes, FoxglovePackage
<1>5. ~ (s \in 1 .. N /\ r \in 1 .. N)
  BY <1>1
<1>6. s \in 1 .. N \/ r \in 1 .. N
  <2>1. SUFFICES ASSUME s \notin 1 .. N, r \notin 1 .. N PROVE FALSE
    OBVIOUS
  <2>2. TopicOf(s) # TopicOf(r)
    BY <1>2, <2>1
  <2> QED BY <1>2, <1>4, <2>1, <2>2
<1>7. CASE s \in 1 .. N
  <2>1. r \notin 1 .. N
    BY <1>5, <1>7
  <2>2. SchemaOf(s) = SetOf(r).file \/ SchemaOf(s) \in SetOf(r).packages
    BY <1>1, <1>7
  <2> QED BY <1>1, <1>2, <1>3, <1>7, <2>1, <2>2
<1>8. CASE r \in 1 .. N
  <2>1. s \notin 1 .. N
    BY <1>5, <1>8
  <2>2. SchemaOf(r) = SetOf(s).file \/ SchemaOf(r) \in SetOf(s).packages
    BY <1>1, <1>8
  <2> QED BY <1>1, <1>2, <1>3, <1>8, <2>1, <2>2
<1> QED BY <1>6, <1>7, <1>8

\* The reader ends only at a file with a type that has the name of a topic, or of a
\* file or a package of a schema, of the converter's own.
LEMMA PanicIsOfName ==
    ASSUME LogInvariant, reading = "panicked"
    PROVE  \E d \in ToSet(ulog.data_list) : d.name \in FixedTopic \cup TakenName
<1>1. /\ ConverterInvariant /\ Logged /\ ReaderPhases /\ RowsOfMessages /\ N \in Nat
      /\ Len(mcap) \in Nat /\ read \in 0 .. Len(mcap) /\ \A l \in 1 .. read : l \in 1 .. Len(mcap)
  BY InvariantParts
<1>2. PICK k : k = read + 1
  OBVIOUS
<1>3. /\ k \in 1 .. Len(mcap)
      /\ Mismatched(k) \/ \E l \in 1 .. read : Clash(mcap[l], mcap[k])
  BY <1>1, <1>2 DEF ReaderPhases
<1>4. PICK r \in 1 .. N + 4 : OfStream(mcap[k], r)
  BY <1>1, <1>3, FileMessage
<1>5. ASSUME Mismatched(k) PROVE \E n \in 1 .. N : ulog.data_list[n].name \in FixedTopic
  <2>1. BaseOf(k) \in DOMAIN groups /\ groups[BaseOf(k)].full_name # mcap[k].schema_name
    BY <1>5 DEF Mismatched
  <2>2. PICK l \in 1 .. read : InGroup(l, BaseOf(k))
    BY <1>1, <2>1 DEF RowsOfMessages
  <2>3. BaseOf(l) = BaseOf(k) /\ mcap[l].schema_name # mcap[k].schema_name
    BY <2>1, <2>2 DEF InGroup
  <2>4. PICK s \in 1 .. N + 4 : BaseOf(l) = TableOf(s) /\ mcap[l].schema_name = SchemaOf(s)
    BY <1>1, MessageIsOfRecord
  <2>5. PICK t \in 1 .. N + 4 : BaseOf(k) = TableOf(t) /\ mcap[k].schema_name = SchemaOf(t)
    BY <1>3, MessageIsOfRecord
  <2> QED BY <1>1, <2>3, <2>4, <2>5, OneSchema
<1>6. ASSUME NEW l \in 1 .. read, Clash(mcap[l], mcap[k])
      PROVE  \E n \in 1 .. N : ulog.data_list[n].name \in TakenName
  <2>1. PICK s \in 1 .. N + 4 : OfStream(mcap[l], s)
    BY <1>1, FileMessage
  <2>2. /\ SchemaOf(s) # SchemaOf(r)
        /\ \/ SetOf(s).file = SetOf(r).file
           \/ SchemaOf(r) \in SetOf(s).packages
           \/ SchemaOf(s) \in SetOf(r).packages
    BY <1>4, <1>6, <2>1 DEF Clash, OfStream
  <2> QED BY <1>1, <2>2, ClashIsOfName
<1>7. PICK n \in 1 .. N : ulog.data_list[n].name \in FixedTopic \cup TakenName
  BY <1>3, <1>5, <1>6
<1>8. ulog.data_list[n] \in ToSet(ulog.data_list)
  BY <1>1, LogFacts DEF Logged, N
<1> QED BY <1>7, <1>8

\* The records of a topic are the rows of the table that is named like it, each of
\* them once and with the instance's number, and no rows of another; and only a type
\* with a name that the converter's own topics and schemas have can end the reading
\* (convert.py, topics.rs, mcap_reader.rs).
THEOREM RecordsReachTheirTables == FlightSpec => []EveryRecordInItsTable
<1>1. LogInvariant => EveryRecordInItsTable
  <2>1. ASSUME LogInvariant PROVE DOMAIN ulog.data_list = 1 .. N
    BY <2>1, InvariantParts, LogFacts DEF Logged, N
  <2> QED BY <2>1, EntryInItsTable, PanicIsOfName DEF EveryRecordInItsTable
<1> QED BY <1>1, LogInvariantHolds, PTL
=============================================================================
