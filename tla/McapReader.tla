----------------------------- MODULE McapReader -----------------------------
(***************************************************************************)
(* mcap_reader.rs and topics.rs of ingest-core: the messages of one .mcap, *)
(* decoded with the descriptors of its schemas and grouped by base topic,  *)
(* the sort that commit_topic_group begins with, and the record batches.   *)
(***************************************************************************)
EXTENDS ArrowEncode, Ordering

CONSTANT
    U8      \* the words that parse as a number from 0 to 255, with the number

VARIABLES
    mcap,               \* the messages
    reading,            \* where the reader is
    read,               \* messages read
    pool,               \* the descriptor pool: schema name -> schema record
    topic_descriptors,  \* topic -> schema name and descriptor
    groups,             \* base topic -> schema name of the group's descriptor, rows
    batches             \* base topic -> the rows of its record batch

InitReader ==
    /\ reading = "closed" /\ read = 0
    /\ pool = [n \in {} |-> <<>>]
    /\ topic_descriptors = [t \in {} |-> <<>>]
    /\ groups = [b \in {} |-> <<>>]
    /\ batches = [b \in {} |-> <<>>]

\* rsplit_once('_') and parse::<u8>().  The mistake splits at the first
\* underscore.
split_once(topic) ==
    IF Len(topic) > 1 /\ topic[2] \in DOMAIN U8
    THEN <<SubSeq(topic, 1, 1), U8[topic[2]]>> ELSE <<topic, 0>>

parse_topic_name(topic) ==
    IF Len(topic) > 1 /\ Last(topic) \in DOMAIN U8
    THEN <<Front(topic), U8[Last(topic)]>>
    ELSE <<topic, 0>>

Message == mcap[read + 1]

\* Only the name is looked up in the pool, and only for a topic's first message.
IsNew(m) == m.topic \notin DOMAIN topic_descriptors /\ m.schema_name \notin DOMAIN pool

\* register_file_descriptor_set: the pool has the files by their names, and one space
\* of names for messages and packages.  What it has not taken in, lookup_message
\* does not find: either way the reader panics.
Refused(m) ==
    \E n \in DOMAIN pool :
        \/ pool[n].file = m.schema_data.file
        \/ m.schema_name \in pool[n].packages
        \/ n \in m.schema_data.packages

Registered(m) ==
    [n \in DOMAIN pool \cup {m.schema_name} |->
        IF n \in DOMAIN pool THEN pool[n] ELSE m.schema_data]

TopicDescriptor(m) ==
    IF m.topic \in DOMAIN topic_descriptors
    THEN topic_descriptors[m.topic]
    ELSE [full_name |-> m.schema_name, fields |-> Registered(m)[m.schema_name].fields]

decode_mcap(m) ==
    /\ topic_descriptors' = [t \in DOMAIN topic_descriptors \cup {m.topic} |->
                                IF t = m.topic THEN TopicDescriptor(m) ELSE topic_descriptors[t]]
    /\ pool' = IF m.topic \in DOMAIN topic_descriptors THEN pool ELSE Registered(m)

\* A group has the descriptor of its first message.
Mismatch(m) ==
    LET base == parse_topic_name(m.topic)[1]
    IN  base \in DOMAIN groups /\ groups[base].full_name # TopicDescriptor(m).full_name

GroupWith(base, descriptor) ==
    IF base \in DOMAIN groups THEN groups[base]
    ELSE [full_name |-> descriptor.full_name, descriptor |-> descriptor.fields, rows |-> <<>>]

group_by_base_topic(m) ==
    LET base == parse_topic_name(m.topic)[1]
        row  == [log_time |-> m.log_time, publish_time |-> m.publish_time, sequence |-> m.sequence,
                 multi_id |-> parse_topic_name(m.topic)[2], message |-> m.data,
                 record |-> m.record, encoded |-> m.encoded,
                 decoded |-> TopicDescriptor(m).fields]
    IN  groups' = [b \in DOMAIN groups \cup {base} |->
                      IF b = base
                      THEN LET g == GroupWith(base, TopicDescriptor(m))
                           IN  [g EXCEPT !.rows = Append(@, row)]
                      ELSE groups[b]]

Open ==
    /\ reading = "closed"
    /\ reading' = "open"
    /\ UNCHANGED <<mcap, read, pool, topic_descriptors, groups, batches>>

ReadMessage ==
    /\ reading = "open" /\ read < Len(mcap)
    /\ ~ (IsNew(Message) /\ Refused(Message)) /\ ~ Mismatch(Message)
    /\ decode_mcap(Message)
    /\ group_by_base_topic(Message)
    /\ read' = read + 1
    /\ UNCHANGED <<mcap, reading, batches>>

RegisterPanics ==
    /\ reading = "open" /\ read < Len(mcap)
    /\ IsNew(Message) /\ Refused(Message)
    /\ reading' = "panicked"
    /\ UNCHANGED <<mcap, read, pool, topic_descriptors, groups, batches>>

MismatchPanics ==
    /\ reading = "open" /\ read < Len(mcap)
    /\ ~ (IsNew(Message) /\ Refused(Message)) /\ Mismatch(Message)
    /\ reading' = "panicked"
    /\ UNCHANGED <<mcap, read, pool, topic_descriptors, groups, batches>>

\* commit_topic_group sorts the rows of a group by publish_time; sort_by_key is
\* stable.  The mistake takes them as the file has them.
InFileOrder(rows) == rows

SortByTime(rows) ==
    LET order == StableOrder([k \in DOMAIN rows |-> rows[k].publish_time])
    IN  [k \in DOMAIN rows |-> rows[order[k]]]

SortGroups ==
    /\ reading = "open" /\ read = Len(mcap)
    /\ groups' = [b \in DOMAIN groups |-> [groups[b] EXCEPT !.rows = SortByTime(@)]]
    /\ reading' = "sorted"
    /\ UNCHANGED <<mcap, read, pool, topic_descriptors, batches>>

EncodeBatches ==
    /\ reading = "sorted"
    /\ batches' = [b \in DOMAIN groups |-> build_record_batch(groups[b])]
    /\ reading' = "encoded"
    /\ UNCHANGED <<mcap, read, pool, topic_descriptors, groups>>

NextReader ==
    Open \/ ReadMessage \/ RegisterPanics \/ MismatchPanics \/ SortGroups \/ EncodeBatches
=============================================================================
