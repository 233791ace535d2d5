# mcap-lake: models and proofs

TLA+ models of the mcap-lake pipeline, the TLC configurations that check them
on small instances, and TLAPS proofs of what matters most for every instance.
Every module stands for code of this repository; comments and this file name it
by path. `PROJECT.json` maps each definition to the lines it was translated
from.

    tlc -workers 2 -config IngestOne.cfg IngestMC.tla     # one run
    tlapm IngestProofs.tla                                # the proofs of one module

The proofs are in `IngestProofs`, `IngestSchemaProofs`, `Ordering`,
`BatchConvertProofs`, `DownloadProofs`, `PipelineProofs`, `FlightLogProofs` and
`FlightValueProofs`.

## The system

    PX4 review server --(data/download_logs.py)--> data/raw/*.ulg
      --(minio-init: mc mirror)--> bucket ulog
      --(ulog_conversion)--> bucket mcap
      --(mcap_ingest)--> Iceberg catalog + bucket warehouse --> DuckDB

The components share no memory and no messages, only files, objects and the
catalog. Each is a batch process that can be killed anywhere and is simply run
again, over whatever its predecessors left behind.

| Component | State it keeps | Operations | What is hard | What makes it correct |
|---|---|---|---|---|
| Downloader, `data/download_logs.py` | the files of data/raw | list, filter, choose, download with retries | streams that fail half way, rate limits, re-runs over a durable cache, filters applied one after the other | nothing whole is downloaded again; the choice is the newest; every run ends; what is skipped is there |
| Seeding and recipes, `docker-compose.yml`, `justfile` | the volume with the buckets, the catalog's database | mirror, batch, wipe-all, reset-lake | recipes of several commands that stop half way or overlap a job; jobs started whether or not the one before succeeded | no stale derived object; catalog and warehouse agree; a batch that succeeds brings in what was cached |
| Batch converter, `ulog_conversion/src/main.py`, `storage.py`, `convert_object` | bucket mcap | list, skip, download, convert, upload | overlapping runs, one bad file, re-runs | each .mcap was made from the .ulg of its name; each .ulg gets one |
| Conversion of one log, `convert.py` | none between logs | merge the record streams, write channels | order of the merged streams | messages in time order, each on its own channel |
| Schema generation, `proto_gen.py` | none | aggregate fields, encode | nested and array fields | every value gets back out |
| MCAP reader and grouping, `mcap_reader.rs`, `topics.rs` | descriptor pool, per log | decode, strip the instance number, group | caches keyed by topic and by schema name | a row is decoded with its own descriptor |
| Column names and types, `arrow_schema.rs` | none | type of a field, name of its column | type conflicts between firmware versions | a value lands where a reader looks for it |
| Record batches, `arrow_encode.rs` | none | project a group onto a table | evolved tables, narrow types | no present field is lost |
| Batch ingest, `ingest-batch/src/main.rs`, `iceberg_commit.rs` | catalog, warehouse | list, decode, create or evolve the table, write a data file, commit it | several remote calls per group with a crash or another run between any two; the random order of a HashMap | each log's rows exactly once, whole, never gone |
| DuckDB session, `warehouse/lake_init.sql` | none | read-only views | they are all that most readers see | errors and times are those of the log |

`PROJECT.json` lists the hazards one by one, each at its line, with the
properties that cover it.

## Modules

| Module | Stands for |
|---|---|
| `ArrowSchema` | `arrow_schema.rs` and the projection in `build_record_batch`: pure functions on column names and types |
| `IcebergCommit` | `ingest-batch/src/main.rs` and `iceberg_commit.rs` against catalog and warehouse, and `just reset-lake` |
| `IngestProperties` | the correctness of `IcebergCommit` |
| `Lake` | what the lake promises, with no word on how |
| `IngestMC` | instances of the above for TLC |
| `IngestProofs` | theorems: types, commits, histories |
| `IngestSchemaProofs` | theorems: schemas, data files and what a reader finds in them, runs that report success, the refinement of `Lake` |
| `Ordering` | a finite set as the sequence in a given order, a stable sort, and the theorems on them |
| `DownloadLogs`, `DownloadMC` | `data/download_logs.py` and an instance |
| `DownloadProofs` | theorems |
| `BatchConvert`, `BatchMC` | the batch converter, the mirror that feeds it, `just wipe-all`, and instances |
| `BatchConvertProofs` | theorems |
| `ProtoGen` | `proto_gen.py`: the proto fields of a message type and the cells each reads, as pure functions |
| `UlogConvert` | `convert_ulog_to_mcap`: channels, codecs, the merged streams of one log |
| `McapReader` | `mcap_reader.rs` and `topics.rs`: the descriptor pool and the groups of one .mcap |
| `ArrowEncode` | `arrow_encode.rs`: the values of a record batch, as pure functions |
| `Warehouse` | `lake_init.sql`: the view `flights` of one flight |
| `FlightLog`, `FlightLogMC` | the five composed, one log from ULog to table rows and the view; instances |
| `FlightLogProofs` | theorems: the path of a record |
| `FlightValueProofs` | theorems: what the rows and the view say |
| `Pipeline`, `PipelineMC` | `just batch`, which composes `BatchConvert` and `IcebergCommit`, with the other recipes beside it; instances |
| `PipelineProofs` | theorems, from those on the two jobs |

### IcebergCommit

One record `task[i]` per ingest process holds its program counter, the objects
it listed and has yet to take, the object, groups and topic in hand, the
columns of the table as it last saw them, and the data file it wrote. The
actions are one catalog call or object write each, in the order of
`commit_topic_group`: `NamespaceExists`, `CreateNamespace`, `TableExists`,
`LoadTable` or `CreateTable`, `SchemaIsCurrent` or `EvolveSchema`,
`WriteDataFile`, `CommitAppend`. Between two of them anything else may happen:
another process's step, a `Crash`, the operator's reset. The columns to add are
computed from the table that was loaded and applied to the table as it is at
the commit, as the code does.

Every error of these calls reaches an `expect()`, so all of them are one
action, `CatalogRefuses`, that ends the process. A commit whose reply is lost is
a `CommitAppend` followed by a `Crash`.

External, modelled from how the code uses it: a transaction's commit reloads
the table and publishes its change in one atomic step; `add_column` refuses an
existing name; `fast_append` refuses a data file whose path the table
references. The path is the log date and the mcap_id, and the log date is the
beginning of the mcap_id, so the mcap_id is all of it. The table's own metadata
is kept in the warehouse bucket: a table the catalog knows after its warehouse
was emptied is "broken" and does not load.

A table's columns are a function from name to type, without their order. A data
file is the mcap it was written from and, for each column, whether its cells
come from the code itself, from a field, or are null; values are left out. So are the
size and the statistics of the file, which `iceberg_commit.rs:129-133` hands to the
append: after a run that wrote a referenced file again and was refused, the manifest
has those of the file before, and a reader that trusts its length could fail on it.
What `RewritePreservesValues` and `ImplementsLake` say of such a file is about its
rows. A sibling column is a field and a suffix, so that no field of a log is literally
called `x__as_i64`.

### DownloadLogs

One process, started again and again with any of a set of arguments over the
cache the earlier runs left. A cached file is absent, partial (from the moment
it is opened) or whole (once the stream has ended). The server's answers are
those the code tells apart, in any order. The choice of logs is modelled as
positions in the listing, so that the ties the code leaves to the order of the
database are settled as it settles them.

### BatchConvert

`task[c]` is one run of the converter, its listing taken at the start. An .mcap
is the content of the .ulg it was made from. `Raises` says on which content
`convert_ulog_to_mcap` raises. A temporary directory keeps an unfinished .mcap
out of the bucket, so `Upload` is one step. Around it: `Cache`, the downloader
writing; `Mirror`, which leaves existing objects alone; `WipeAll`, which removes
the containers and both buckets but not the cache.

### UlogConvert, McapReader and FlightLog

The path of one log. `UlogConvert` goes through `data_list`, making one codec
per message type and one channel per instance (`RegisterTopic`), adds the
converter's own channels (`RegisterFixed`) and writes the merged streams record
by record (`WriteMessage`), as long as each can be encoded and its nanoseconds fit
the 64 bits of the writer (`CanWrite`). The tagged messages, which the code sorts by tag and
merges, are one stream in the order that gives: by time, then tag, then place.
`CodecRaises` and `EncodeRaises` are the exceptions that end the conversion. A
message of the .mcap is its topic, its schema record, its times and the values of
its fields by number, and, for the properties only, the record it came from and the
codec that encoded it. `McapReader` reads the
messages in the order of the file, through the pool of descriptors by schema
name and their cache by topic, splits the topic's name, groups, sorts, and
builds the record batches. What the pool does not take in ends the reading
(`RegisterPanics`): it knows files by their names and has one space of names for
messages and packages, so a message type named like `parameter_changed`, whose file
is that of the converter's `ParameterChanged`, or like a package of Foxglove's schemas
does not go with them (`schema_bytes`, `Refused`). The assertion on the descriptors of
a group is `MismatchPanics`. `FlightLog` lets the reader see finished files only, since
nothing else is uploaded.

A topic's name is the sequence of its words between underscores, so that
`esc_1`, instance 0, and `esc`, instance 1, can be told apart or not; the name
of a cell is the sequence of its segments between periods, so that the two
regexes of `proto_gen.py` are conditions on segments. A record is a function
from these names to values. `ProtoGen` has what each codec makes of one:
`encode` yields the values by field number or raises (`Encodes`: a name that is
not there, a number out of the range of its field, a byte that is none), strings
are put together from signed bytes, cut at the first null and decoded as UTF-8 with
one replacement for each sequence that is none (`decode`). The seconds of a logged
message and of the trajectory have 32 bits. `ArrowEncode` turns the values into
columns, with the bits of a uint64 kept by `as i64`, next to the eight standard ones. `Warehouse` is
what `curated.flights` makes of the rows. The properties then compare the
two ends: each number, string, parameter and tag of the ULog with the row of
the lake.

External: `pyulog` gives the streams of a log as they are in the file, in any
order of time; the descriptor pool of protobuf refuses two fields of one name,
and assignment a number that does not fit; the one of the reader, a second file of one
name and a second use of the name of a message or package; the wire is taken to give back by
number what was put in, and a field that is not set as its default. Floats are
opaque values that are kept, or no number. What pyulog makes of a message
definition and of a record is stated in `UlogAssumption` (`Flattened`, `IsRecord`):
the items of an array are all there and of one type, and a record has a cell for
each name of its type, with a number of the type; positions have their x, y and z, and
an integer parameter is an int64. A char is any byte and a time any natural number.

### Pipeline

`batch.pc` is the command of `just batch` that is running: seeding, converter,
ingest. The two jobs are the actions of `BatchConvert` and `IcebergCommit`, whose
`bucket` is the mcap bucket of the former. An object of `IcebergCommit` is here a
key with the content of the .ulg that its .mcap was made from, so every row of
the lake can be traced to a .ulg without a history variable; the mcap_id is the
key. Beside it, at any moment: downloads, the mirror (infra-up starts minio-init
again), the two halves of reset-lake, and wipe-all, which removes the containers
first and then one volume after the other, so that interrupting it leaves either
of them. `disturbed` and `cached` are kept for the property `WholeBatch` only. The
instances are of the modules with the theorems about the two jobs, which extend the
models and add nothing to them: a lemma on a job can then be cited for the job in
the pipeline.

External: an attached `docker compose up` returns when its job ends, whatever the
job returned, and `--no-deps` makes compose ignore the `depends_on` of the service.

## Runs

| Run | Instance | Shows |
|---|---|---|
| `IngestOne` | 1 ingester, 3 logs (one undecodable), 2 topics | the type invariant, no dangling reference, `CommitInvariant` (what the proof uses), tables only grow, and the refinement `ImplementsLake` |
| `IngestTwo` | 2 ingesters, 3 logs, 1 topic whose field types drift | at most once, well-formed schemas, every field readable where readers look, rewrites harmless, success means everything was committed |
| `IngestRerun` (violation) | 1 ingester, 2 logs, no reset | see Findings |
| `IngestClash` (violation) | 1 ingester, 2 logs | see Findings |
| `Downloads` | 5 logs, 4 sets of arguments | whole files stay, the newest logs are chosen, runs end |
| `DownloadsPartial` (violation) | the same | see Findings |
| `Batch` | 2 converter runs, 2 logs, one of which raises when partial | each .mcap matches its .ulg, passed keys are converted, everything reached is converted in the end |
| `BatchEvery` (violation) | 1 converter, the first log raises when partial | see Findings |
| `Pipeline` | 2 logs, one of which cannot be converted when partial; 1 topic | the lake never holds rows of another file than the bucket's, nothing changes under a running ingest, a batch that reports success is complete, and what survives a reset or a wipe that overlaps an ingest |
| `PipelineRecovery` | 3 logs whose types drift, the last of which is never converted; fair | every log before it is in the lake in the end, and again after every reset |
| `Flight` | 121 logs of up to 3 topics and 3 records each, with all orders and ties of their times, both ends of each integer type, all strings of two characters over a null, a letter, a byte that is no UTF-8 and the two bytes of an accented letter, flights of a minute less a second to a minute and a second, a flight with two vehicle_status instances, types named like a file or a package of the converter's schemas, and the last times that can be written and the first that cannot | records reach the table and instance of their topic, in order, decoded as encoded, every cell stored and readable with its value; the file is as ordered as its streams; of what a record holds only its time can cost its log; the view tells what the log says |
| `FlightChar` (violation) | the same | see Findings |

Bounds. Nothing is truncated by a state constraint: the sets of logs, topics
and processes are finite, a history never holds more files than there are logs,
and crashes, re-runs and resets are unbounded. Three logs are what the schema
needs to drift twice (a column, its sibling, and a third type), with a list
whose element type changes and a list that becomes a scalar. Two processes are
enough for every race between a check and the act it guards, which involve one
other writer. In `Downloads` the limits (3 attempts, a warning above 2 files)
are small enough to be reached; the code's are 5 and 50. In `Flight` two records
per stream are enough to be in order, out of order or tied, within and between
streams; the widths of integers are scaled down (`HalfBits` and `WordBits`, 4 and 17
for 32 and 64: 17 leaves times of up to 131 microseconds once they are in nanoseconds,
two minutes of the scaled second) and so is the second (`Second`, 1 for 1000000 microseconds), since
only the ends of a range and the two sides of a minute matter, and TLC's integers
are no wider than 32 bits; two structs with two characters each are what widening a field in both
dimensions takes; the third topic separates two instances of one type. The logs
also hold what stops them: two fields of one proto name, a lone char, a time too late,
and a type named like one of the converter's topics, like a file of its schemas or like
a package, before and after the message it clashes with. In `Pipeline` two logs, of which one can
fail, give every way in which conversion and ingest get out of step, and a partial
and a whole content are what it takes for an .mcap to be stale; its recovery run
has a third log for a drift between two that are ingested, and holds the contents
fixed. Conversion and reading may stop, so
deadlock is not checked there. Symmetry is used only
for the ingesters of `IngestTwo`, which has no liveness property.

Overlapping ingests. Compose names its container, so it runs one ingest at a
time; `main.rs` defaults to a catalog on localhost, for running the binary
outside of it. `IngestTwo` covers both at once. `ExclusiveReset = TRUE` says that
the operator does not reset while an ingest runs; `Pipeline` drops it.

Fairness. A process that is not disturbed goes on: weak fairness of its step.
The batch is started again and again (an operator, or a scheduler), and in
`RecoverySpec` of `Pipeline` the operator resets the lake when an ingest has
panicked; kills, crashes, wipes, interrupted or needless resets, and batches
begun in the middle of a reset happen finitely often, for nothing progresses if
every run is disturbed. `BatchSpec` is the same for the converter alone.
In `DownloadLogs` every request and every wait of the code has a bound, and the
operator answers the question the code asks.

## What is proved

For every value of the constants: any number of logs, keys, topics, processes and
runs, any message definitions, any listing of the server. Each theorem is a
property that a run checks on an instance.

**The ingest** (`IngestProofs`, `IngestSchemaProofs`).

- `TypeCorrect`: `Spec => []TypeOK`. `TypeOK` is inductive by itself.
- `IngestedAtMostOnce`: `Spec => []AtMostOnce`, with resets at any moment.
  `CommitAppend`'s guard is not enough: what is appended is the file in hand, and
  the guard is about the mcap in hand, so the proof carries `AppendsOwnFile`.
- `HistoryOnlyGrows`: `Spec => TablesOnlyGrow`, with `AbsentIsEmpty` for the tables
  that come to life.
- `CommitCorrect`, `NothingDangles`: `ExclusiveReset => (Spec => []CommitInvariant)`.
  An ingester about to append has its object in the warehouse
  (`WrittenBeforeAppend`), because a reset between its halves excludes running
  ingesters and has emptied the catalog (`ResetAlone`).
- `SchemasWellFormed`, `FieldsWritten`, `RewritesPreserve`. Their invariant is
  `SchemaInvariant`: what an ingester knows of a table's columns is part of them
  until its commit, although others evolve the table meanwhile (`KnowsColumns`);
  before it writes, what it knows has a column for each of its fields
  (`EvolvedBeforeWrite`); every committed file, the file in hand and every object
  have their cells by the columns of the table as it is now (`FilesFit`,
  `ObjectsFit`). The heart of it is a lemma on `ArrowSchema`: columns added later
  do not change the column that a field has found.
- `FinishedRunsCommitted`. The invariant is `CommittedSoFar`: what is off the list
  has been committed, but for the groups of the mcap in hand that are to come.
- `IngestImplementsLake`: `Spec => L!Spec`. Under `SchemaInvariant` and
  `CommitInvariant` the rows that a query returns are the entries of the logs in
  the tables' histories, so `CommitAppend` is `Lake`'s `Ingest`, `DropCatalog` its
  `Reset`, and every other step stutters.

**The converter** (`BatchConvertProofs`, `Ordering`): `ConverterTypes`,
`McapsMatch`, `PassedKeys`, from one `ConvertInvariant`. A run that is alive finds
in the bucket whatever it has listed (`ListedStays`), and what it has downloaded is
what the bucket still holds (`LocalIsCurrent`), since the mirror replaces nothing
and a wipe kills the runs first. That a listing has each object once is
`InOrderIsOrdered`, which is about finite sets; hence `UlogIsFinite`.

**The downloader** (`DownloadProofs`): `DownloadTypes`, `RunsChooseNewest` (whatever
the filters, the limit and the modes, the run goes through the newest logs that
match, per vehicle where that is asked for), `WholeFilesStay`.

**The pipeline** (`PipelineProofs`): `PipelineTypes`, `RowsAreCurrent`,
`ListedStaysThere`, `BatchIsWhole`, `OncePerLog`, `PipelineTablesGrow`, from
`PipelineInvariant`. A step of the pipeline is a step or a stutter of each job
(`ConverterStep`, `LakeStep`) unless it is one half of a wipe, so the lemmas on the
jobs carry over; the ones on the ingest that are used here do without
`ExclusiveReset`. For `RowsMatchUlog`, what a running ingest has listed or in hand
is in the mcap bucket (`ListedIsThere`, `InHandIsThere`), which matches the ulog
bucket (`McapMatchesUlog`), and a wipe that empties the buckets breaks the tables.
For `WholeBatch`, the converter has the logs of the batch on its list
(`ConverterListsBatch`), a run that is done has gone past all of it (`DonePastAll`,
`PassedKeysAreConverted`), so the ingest lists their mcaps (`IngestListsBatch`) and
`CommittedSoFar` does the rest.

**One log** (`FlightLogProofs`, `FlightValueProofs`): every invariant of `Flight`,
for any log. The invariant is `LogInvariant`, the conjunction of

- `ConverterInvariant`: a channel that is there has its stream's codec and schema
  (`ChannelsOfStreams`), each record written is one message with what its stream
  says and no message is another's (`WrittenOnce`, `RowsInFileOrder`), and what has
  been registered and written raised nothing (`WhatRaises`);
- `Merged`: if the streams are in order, so is the file, and no record still to come
  is earlier than one written, without which the first part is not inductive;
- `Counted`: the file is as long as the records written are many;
- `ReaderInvariant`: the pool and its cache by topic hold for each name what the
  messages read carry (`DescriptorsOfMessages`; a schema name determines the fields
  in channels, file and pool, since no type is named like a schema of the
  converter's own), the groups have one row for each of these messages
  (`RowsOfMessages`), in order within a source before the sort and altogether after.

What a stream is, is `StreamsAre`; that its names survive the ingest,
`NamesRoundTrip`: `parse_topic_name` takes from a channel's name what
`map_topic_name` put in, also where the name ends in a number of its own. (It holds
because the converter numbers every instance, the first included.) From these:
`Typed`, `OrderKept`, `DecodingIsFaithful`, `RowsAreInOrder` (with
`StableOrderIsOrdered`) and `RecordsReachTheirTables`, which also says that the
reader panics for the name of a message type only: one of the converter's topics, or
one that the files and packages of its schemas take (`TakenName`).

The values are one chain, from the cell of a record to the column of a row.

- `FieldsAggregated`, on `_aggregate_fields`: of any list of names it makes one field
  per key, which covers each cell of that key. It is proved over the steps of the
  recursive function, by the least step that fails (`Least`); the step is
  `AggregateStep`, and `Agree` says that cells of one key agree in all that is not
  a length.
- `PlaceOfCell`: a kept cell is at one place of its field, and the name that `encode`
  looks for there is its own; `CellsDiffer`: no other place of any field has it.
  Hence `CellsAreStored`. That each place has a cell at all (`RecordEncodes`) uses
  that the items of an array are all there, twice for a struct of strings; hence
  `RecordsSeldomRaise`: what is left are the names of a type and the time of the
  record that is to be written next (`TimeTooLate`), for which the converter's own
  streams, too, are gone through (`FormattedTime`, `TrajectoryTime`,
  `ParameterHolds`).
- `BatchRow`, `DataRow`, `CellValue`, `StoredIs`: the row of a record has for the
  cell's column what the codec made of the cell. Each integer type fits its proto
  type, and `as i64` keeps the bits (`SameBits`); hence `NumbersReachTheLake`. The
  characters of a place are cut at its first null (`FirstNull`, `StringIs`), and
  the cells before it are those that `UpTo` names. Up to a place that no byte with a
  width of several is at or before, each byte begins a character of its own
  (`DecodedBytes`, `AscendingBegins`), which bytes after it cannot change; hence
  `StringsReachTheLake`. What a sequence of several bytes decodes to is in the
  model and in the run, which compares places before it only.
- `ParametersReachTheLake` and `TagsReachTheLake`, for the converter's own codecs.
- `FlightsTellOfTheLog`: the rows that `error_count` counts are one to one with the
  errors (`ErrorsCounted`); the rows of vehicle_status are those of its records
  (`StatusRows`), so that their span is the records' (`Extremes`), and below an hour
  the two remainders of `format_duration` add up to the seconds (`DurationShown`).

Statements that had to be corrected on the way: `EveryStringReadable` was about
every indexed `char`, also those documented as dropped. `FlightsTellTheLog` took the
first instance of vehicle_status for all of them, and every row of logged_messages
for one of a message, although a ULog may have a topic of that name; `StatusesLog`
of `FlightLogMC` has two instances. Four more were too strong for the code, because the
models had no failure there: a clash in the reader's pool, times that do not fit, four
of the standard columns and characters of several bytes.

What the theorems assume. The ASSUMEs of the models, which the runs evaluate: the
constants have their types, no two keys have one place in a listing, a log is once
in the database's listing, the standard names are field names. For one log: a ULog
has the form in which pyulog yields it, with topics' names that are not empty and
not those of the converter's schemas (which `proto_gen.py:43` rules out), positions
with x, y and z, and integer parameters of 64 bits (`UlogAssumption`); no two fields of
a type differ in underscores only, which proto3 forbids for the sake of JSON
(`JsonAssumption`); an instance's number is
written in digits that read back as that number (`DigitsAssumption`); the narrower
integers are narrower (`WidthAssumption`); no cell is named like one of the eight standard
columns, which is the subject of `IngestClash` (`ColumnAssumption`); a vehicle_status has the
arming_state that `lake_init.sql` names (`StatusAssumption`); a second is a positive
number of ticks (`ClockAssumption`).
`PipelineAssumption` implies those of the two jobs, which is proved. Two hypotheses
are stated in the theorems that need them. `ExclusiveReset`: `just reset-lake` is
not run while an ingest is; nothing in the code keeps the operator from it, and
without it `NoDanglingReference` and the properties of `SchemaInvariant` are false (a
run that finds its table dropped and created anew knows columns it has no more).
`DistinctNames`: no two logs have one mcap_id, which is the object's key, so this
says that a key's content does not change between two ingests; `Pipeline`, where
it does, only uses theorems without it.

Only model-checked: liveness (`RunEnds`, `EveryReachedUlogIsConverted`,
`EveryReachedLogIsIngested`), which the prover cannot do, and the disagreements
under Findings. Every invariant and every property of steps that a passing run
checks is also the statement of a theorem.

## Findings

- A batch run over a bucket with an ingested log panics there and never reaches
  the logs after it (`IngestRerun`), where `main.rs:1` says that every MCAP is
  committed. `just reset-lake` is the way out (`PipelineRecovery`).
- A field with a standard column's name and a compatible type is dropped
  silently once its table exists (`IngestClash`), against `arrow_encode.rs:7`;
  if it comes first, creating the table panics.
- A file whose stream failed counts as downloaded (`DownloadsPartial`), against
  the summary of `download_logs.py:350`.
- One object that cannot be converted stops the batch at the same place in every
  run (`BatchEvery`), against `ulog_conversion/src/main.py:71`.
- A `char` field whose name has no index is declared a string whose characters
  `encode` then looks for under indexed names: the log does not convert
  (`FlightChar`), against `proto_gen.py:99`.

Seen while modelling, without a run of their own:

- `convert.py:197` stamps the trajectory with its first valid point;
  `proto_gen.py:428` says the log's start.
- `format_duration` (`lake_init.sql:24`) shows 0s for exactly one minute and leaves
  out the hours; `error_counts` (`lake_init.sql:32`) counts `ERROR` and not the
  `FATAL` that PX4's levels above it become. `FlightsTellTheLog` is stated around
  these.
- A log with a message type called `parameter_changed` (and a parameter change), or
  `foxglove` or `google` (and a logged message or a track), converts and then panics
  the ingest at `mcap_reader.rs:33`, where `proto_gen.py:43` sees no risk of a collision.
- One timestamp beyond 2^64 nanoseconds, or beyond 2^32 seconds in a logged message or
  at the start of the track, costs the whole log (`convert.py:315-318`).
- A flight of which only some topics were committed, because the ingest stopped
  between them, is shown with 0 errors (`lake_init.sql:59`).

## Plan

If the code changes, the properties come first, then the runs, then the proofs:
`FlightLogProofs` depends on the converter and the reader through `LogInvariant`
only, and `FlightValueProofs` on the codecs through `FieldsAggregated`,
`PlaceOfCell` and `StoredIs`. Worth adding: the evolved tables of `ArrowSchema` in
`FlightLog`, whose batches are so far for tables that the log itself created, and
the remaining views, should they keep more than minima and maxima.

## Not modelled

The other views of `lake_init.sql` are minima and maxima of stored columns and
keep no state. Docker, MinIO and the catalog are third-party services, present
as what the code relies on. Statistics, log output, metadata records, Parquet
settings and the layout assets are data that no property is about, and so are
the order and field ids of a table's columns. The build and test recipes leave
nothing behind that another part reads.
