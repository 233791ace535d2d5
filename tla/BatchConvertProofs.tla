------------------------- MODULE BatchConvertProofs -------------------------
(***************************************************************************)
(* Theorems about the batch converter, for any number of overlapping runs, *)
(* any keys and any content on which the conversion raises.                *)
(***************************************************************************)
EXTENDS BatchConvert

\* A run lists each object of the bucket, in order.
LEMMA Listing ==
    ASSUME UlogIsFinite
    PROVE  /\ list_ulg_keys \in Seq(Key)
           /\ \A j \in DOMAIN list_ulg_keys : ulog[list_ulg_keys[j]] # "absent"
           /\ \A k \in Objects(ulog) : \E j \in DOMAIN list_ulg_keys : list_ulg_keys[j] = k
<1> DEFINE S == Objects(ulog)
<1>1. IsStrictOrder(S, Listed)
  <2>1. S \subseteq Key /\ \A k \in Key : Place[k] \in Nat
    BY ConvertAssumption DEF Objects
  <2>2. \A x, y \in S : <<x, y>> \in Listed <=> Place[x] < Place[y]
    BY <2>1 DEF Listed
  <2>3. \A x, y \in S : x # y => Place[x] # Place[y]
    BY <2>1, ConvertAssumption
  <2> HIDE DEF S
  <2> QED BY <2>1, <2>2, <2>3 DEF IsStrictOrder
<1>2. /\ list_ulg_keys \in Seq(S) /\ Len(list_ulg_keys) = Cardinality(S)
      /\ \A k \in S : \E j \in 1 .. Cardinality(S) : list_ulg_keys[j] = k
  BY <1>1, InOrderIsOrdered DEF UlogIsFinite, list_ulg_keys
<1>3. S \subseteq Key /\ \A k \in S : ulog[k] # "absent"
  BY DEF Objects
<1> HIDE DEF S
<1>4. DOMAIN list_ulg_keys = 1 .. Cardinality(S)
  BY <1>2
<1>5. \A k \in Objects(ulog) : k \in S
  BY DEF S
<1> QED BY <1>2, <1>3, <1>4, <1>5

\* The key that a run is at.
LEMMA AtKey ==
    ASSUME TypeOK, NEW c \in Converter, task[c].i \in DOMAIN task[c].source_keys
    PROVE  At(c) \in Key
BY DEF TypeOK, IsTask, At

LEMMA RunningType ==
    ASSUME TypeOK, NEW c \in Converter, NEW pc, Running(c, pc)
    PROVE  task[c].pc = pc /\ task[c].i \in DOMAIN task[c].source_keys /\ At(c) \in Key
BY DEF TypeOK, IsTask, Running, At

-----------------------------------------------------------------------------
(* What the steps make of the run that takes them *)

LEMMA GotoStep ==
    ASSUME TypeOK, NEW c \in Converter, NEW pc, Goto(c, pc)
    PROVE  /\ DOMAIN task' = Converter
           /\ \A d \in Converter : d # c => task'[d] = task[d]
           /\ DOMAIN task'[c] = DOMAIN task[c] /\ task'[c].pc = pc
           /\ task'[c].source_keys = task[c].source_keys /\ task'[c].i = task[c].i
           /\ task'[c].local_ulg = task[c].local_ulg
           /\ task'[c].overwrite = task[c].overwrite
BY DEF TypeOK, IsTask, Goto

LEMMA NextKeyStep ==
    ASSUME TypeOK, NEW c \in Converter, NextKey(c)
    PROVE  /\ DOMAIN task' = Converter
           /\ \A d \in Converter : d # c => task'[d] = task[d]
           /\ DOMAIN task'[c] = DOMAIN task[c] /\ task'[c].pc = "exists"
           /\ task'[c].source_keys = task[c].source_keys /\ task'[c].i = task[c].i + 1
           /\ task'[c].local_ulg = task[c].local_ulg
           /\ task'[c].overwrite = task[c].overwrite
BY DEF TypeOK, IsTask, NextKey

LEMMA DownloadStep ==
    ASSUME TypeOK, NEW c \in Converter, Download(c)
    PROVE  /\ DOMAIN task' = Converter
           /\ \A d \in Converter : d # c => task'[d] = task[d]
           /\ DOMAIN task'[c] = DOMAIN task[c] /\ task'[c].pc = "convert"
           /\ task'[c].source_keys = task[c].source_keys /\ task'[c].i = task[c].i
           /\ task'[c].local_ulg = ulog[At(c)]
           /\ task'[c].overwrite = task[c].overwrite
BY DEF TypeOK, IsTask, Download

LEMMA StartStep ==
    ASSUME TypeOK, NEW c \in Converter, Start(c)
    PROVE  /\ DOMAIN task' = Converter
           /\ \A d \in Converter : d # c => task'[d] = task[d]
           /\ DOMAIN task'[c] = {"pc", "source_keys", "i", "local_ulg", "overwrite"}
           /\ task'[c].pc = "exists"
           /\ task'[c].source_keys = list_ulg_keys /\ task'[c].i = 1
           /\ task'[c].local_ulg = "absent" /\ task'[c].overwrite \in BOOLEAN
BY DEF TypeOK, Start

\* A wipe kills all runs; everything else of them stays.
LEMMA WipeStep ==
    ASSUME TypeOK, WipeAll, NEW c \in Converter
    PROVE  /\ DOMAIN task' = Converter
           /\ DOMAIN task'[c] = DOMAIN task[c] /\ task'[c].pc = "killed"
           /\ task'[c].source_keys = task[c].source_keys /\ task'[c].i = task[c].i
           /\ task'[c].local_ulg = task[c].local_ulg
           /\ task'[c].overwrite = task[c].overwrite
BY DEF TypeOK, IsTask, WipeAll

-----------------------------------------------------------------------------
(* The invariant is preserved *)

LEMMA TypeOKStep ==
    ASSUME TypeOK, UlogIsFinite, ListedStays, [Next]_vars
    PROVE  TypeOK'
<1>1. ASSUME NEW c \in Converter, Start(c) PROVE TypeOK'
  <2>1. IsTask(task'[c])
    BY <1>1, StartStep, Listing DEF IsTask, Content, Ended
  <2> QED BY <1>1, <2>1, StartStep DEF Start, TypeOK
<1>2. ASSUME NEW c \in Converter, NEW pc \in Ended \cup {"exists", "download", "convert", "upload"},
             Goto(c, pc), UNCHANGED <<raw, ulog, mcap>>,
             pc \in {"download", "convert", "upload"} => task[c].i \in DOMAIN task[c].source_keys,
             pc \in {"convert", "upload"} => task[c].pc \in {"convert", "upload"}
      PROVE  TypeOK'
  <2>1. IsTask(task[c])
    BY DEF TypeOK
  <2>2. IsTask(task'[c])
    BY <1>2, <2>1, GotoStep DEF IsTask
  <2> QED BY <1>2, <2>2, GotoStep DEF TypeOK
<1>3. ASSUME NEW c \in Converter, NextKey(c), task[c].i \in DOMAIN task[c].source_keys,
             UNCHANGED <<raw, ulog>>, mcap' \in [Key -> Content]
      PROVE  TypeOK'
  <2>1. IsTask(task[c])
    BY DEF TypeOK
  <2>2. IsTask(task'[c])
    BY <1>3, <2>1, NextKeyStep DEF IsTask
  <2> QED BY <1>3, <2>2, NextKeyStep DEF TypeOK
<1>4. ASSUME NEW c \in Converter, Download(c) PROVE TypeOK'
  <2>1. /\ IsTask(task[c]) /\ task[c].pc = "download"
        /\ task[c].i \in DOMAIN task[c].source_keys /\ At(c) \in Key
    BY <1>4, RunningType DEF TypeOK, Download
  <2>2. ulog[At(c)] \in Content /\ ulog[At(c)] # "absent"
    BY <2>1 DEF TypeOK, ListedStays, At, Ended
  <2>3. IsTask(task'[c])
    BY <1>4, <2>1, <2>2, DownloadStep DEF IsTask
  <2> QED BY <1>4, <2>3, DownloadStep DEF Download, TypeOK
<1>5. ASSUME NEW c \in Converter, Upload(c) PROVE TypeOK'
  <2>1. /\ task[c].i \in DOMAIN task[c].source_keys /\ At(c) \in Key
        /\ task[c].local_ulg \in Content
    BY <1>5, RunningType DEF Upload, TypeOK, IsTask
  <2> QED BY <1>3, <1>5, <2>1 DEF Upload, TypeOK
<1>6. ASSUME NEW c \in Converter, Skip(c) \/ Take(c) \/ Convert(c) \/ ConvertRaises(c)
      PROVE  TypeOK'
  <2>1. task[c].i \in DOMAIN task[c].source_keys
    BY <1>6, RunningType DEF Skip, Take, Convert, ConvertRaises
  <2>2. CASE Skip(c)
    BY <1>3, <2>1, <2>2 DEF Skip, TypeOK
  <2>3. CASE Take(c)
    BY <1>2, <2>1, <2>3 DEF Take
  <2>4. CASE Convert(c)
    BY <1>2, <2>1, <2>4 DEF Convert, Running
  <2>5. CASE ConvertRaises(c)
    BY <1>2, <2>5 DEF ConvertRaises, Ended
  <2> QED BY <1>6, <2>2, <2>3, <2>4, <2>5
<1>7. ASSUME NEW c \in Converter, Finish(c) \/ Kill(c) PROVE TypeOK'
  BY <1>2, <1>7 DEF Finish, Kill, Ended
<1>8. ASSUME NEW k \in Key, Cache(k) \/ Mirror(k) PROVE TypeOK'
  BY <1>8 DEF Cache, Mirror, TypeOK, Content
<1>9. CASE WipeAll
  <2>1. ASSUME NEW c \in Converter PROVE IsTask(task'[c])
    <3>1. IsTask(task[c])
      BY DEF TypeOK
    <3> QED BY <1>9, <3>1, WipeStep DEF IsTask, Ended
  <2> QED BY <1>9, <2>1 DEF WipeAll, TypeOK, Content
<1>10. CASE UNCHANGED vars
  BY <1>10 DEF vars, TypeOK
<1> QED BY <1>1, <1>4, <1>5, <1>6, <1>7, <1>8, <1>9, <1>10 DEF Next, Step

\* The ulog bucket changes by a mirrored file or a wipe.
LEMMA UlogStep ==
    ASSUME [Next]_vars
    PROVE  ulog' = ulog \/ WipeAll \/ \E k \in Key : Mirror(k)
BY DEF Next, vars, Start, Step, Skip, Take, Download, Convert, ConvertRaises, Upload, Finish,
   Kill, Cache

LEMMA UlogIsFiniteStep ==
    ASSUME TypeOK, UlogIsFinite, [Next]_vars
    PROVE  UlogIsFinite'
<1> DEFINE S == Objects(ulog)
<1>1. Objects(ulog)' = {k \in Key : ulog'[k] # "absent"}
  BY DEF Objects
<1>2. CASE ulog' = ulog
  BY <1>2 DEF UlogIsFinite, Objects
<1>3. CASE WipeAll
  <2>1. {k \in Key : ulog'[k] # "absent"} = {}
    BY <1>3 DEF WipeAll
  <2> QED BY <1>1, <2>1, FS_EmptySet DEF UlogIsFinite
<1>4. ASSUME NEW k \in Key, Mirror(k) PROVE UlogIsFinite'
  <2>1. {j \in Key : ulog'[j] # "absent"} \subseteq S \cup {k}
    BY <1>4 DEF Mirror, TypeOK, Objects
  <2>2. IsFiniteSet(S \cup {k})
    BY FS_AddElement DEF UlogIsFinite
  <2> QED BY <1>1, <2>1, <2>2, FS_Subset DEF UlogIsFinite
<1> QED BY <1>2, <1>3, <1>4, UlogStep

\* A run that is alive after a step, and lives on from the step before or begins.
LEMMA TaskStep ==
    ASSUME TypeOK, [Next]_vars, NEW c \in Converter
    PROVE  \/ task'[c] = task[c]
           \/ Start(c) \/ Skip(c) \/ Take(c) \/ Download(c) \/ Convert(c) \/ ConvertRaises(c)
           \/ Upload(c) \/ Finish(c) \/ Kill(c)
           \/ WipeAll
<1>1. ASSUME NEW d \in Converter, d # c, Start(d) PROVE task'[c] = task[c]
  BY <1>1, StartStep
<1>2. ASSUME NEW d \in Converter, d # c, Skip(d) \/ Upload(d) PROVE task'[c] = task[c]
  BY <1>2, NextKeyStep DEF Skip, Upload
<1>3. ASSUME NEW d \in Converter, d # c, Download(d) PROVE task'[c] = task[c]
  BY <1>3, DownloadStep
<1>4. ASSUME NEW d \in Converter, d # c,
             Take(d) \/ Convert(d) \/ ConvertRaises(d) \/ Finish(d) \/ Kill(d)
      PROVE  task'[c] = task[c]
  BY <1>4, GotoStep DEF Take, Convert, ConvertRaises, Finish, Kill
<1>5. ASSUME NEW k \in Key, Cache(k) \/ Mirror(k) PROVE task'[c] = task[c]
  BY <1>5 DEF Cache, Mirror
<1>6. CASE UNCHANGED vars
  BY <1>6 DEF vars
<1> QED BY <1>1, <1>2, <1>3, <1>4, <1>5, <1>6 DEF Next, Step

\* A run that a step leaves alive keeps the object of each key it has listed: unless it
\* has just listed them, it was alive before with the same keys, and nothing was wiped.
LEMMA AliveStep ==
    ASSUME TypeOK, [Next]_vars, NEW c \in Converter, task'[c].pc \notin Ended, ~ Start(c)
    PROVE  /\ task[c].pc \notin Ended /\ ~ WipeAll
           /\ task'[c].source_keys = task[c].source_keys
<1> DEFINE Lived == task[c].pc \notin Ended /\ task'[c].source_keys = task[c].source_keys
<1>1. Skip(c) \/ Upload(c) => Lived
  BY NextKeyStep DEF Skip, Upload, Running, Ended
<1>2. Take(c) \/ Convert(c) => Lived
  BY GotoStep DEF Take, Convert, Running, Ended
<1>3. Download(c) => Lived
  BY DownloadStep DEF Download, Running, Ended
<1>4. ~ ConvertRaises(c) /\ ~ Finish(c) /\ ~ Kill(c)
  BY GotoStep DEF ConvertRaises, Finish, Kill, Ended
<1>5. ~ WipeAll
  BY WipeStep DEF Ended
<1>6. task'[c] = task[c] => Lived
  OBVIOUS
<1> QED BY <1>1, <1>2, <1>3, <1>4, <1>5, <1>6, TaskStep

\* The objects of the ulog bucket change by a wipe alone.
LEMMA UlogStays ==
    ASSUME TypeOK, [Next]_vars, ~ WipeAll, NEW k \in Key, ulog[k] # "absent"
    PROVE  ulog'[k] = ulog[k]
<1>1. ASSUME NEW j \in Key, Mirror(j) PROVE ulog'[k] = ulog[k]
  BY <1>1 DEF Mirror, TypeOK
<1> QED BY <1>1, UlogStep

LEMMA ListedStaysStep ==
    ASSUME TypeOK, UlogIsFinite, ListedStays, [Next]_vars
    PROVE  ListedStays'
<1> SUFFICES ASSUME NEW c \in Converter, task'[c].pc \notin Ended,
                    NEW j \in DOMAIN task'[c].source_keys
             PROVE  ulog'[task'[c].source_keys[j]] # "absent"
  BY DEF ListedStays
<1>1. CASE Start(c)
  BY <1>1, StartStep, Listing DEF Start
<1>2. CASE ~ Start(c)
  <2> DEFINE k == task[c].source_keys[j]
  <2>1. /\ task[c].pc \notin Ended /\ ~ WipeAll
        /\ task'[c].source_keys = task[c].source_keys
    BY <1>2, AliveStep
  <2>2. k \in Key /\ ulog[k] # "absent"
    BY <2>1 DEF TypeOK, IsTask, ListedStays
  <2> QED BY <2>1, <2>2, UlogStays
<1> QED BY <1>1, <1>2

LEMMA LocalIsCurrentStep ==
    ASSUME TypeOK, ListedStays, LocalIsCurrent, [Next]_vars
    PROVE  LocalIsCurrent'
<1> SUFFICES ASSUME NEW c \in Converter, task'[c].pc \in {"convert", "upload"}
             PROVE  task'[c].local_ulg = ulog'[task'[c].source_keys[task'[c].i]]
  BY DEF LocalIsCurrent, At
<1>1. task'[c].pc \notin Ended /\ task'[c].pc # "exists"
  BY DEF Ended
<1>2. ~ Start(c) /\ ~ Skip(c) /\ ~ Upload(c)
  BY <1>1, StartStep, NextKeyStep DEF Skip, Upload
<1>3. ~ WipeAll /\ ~ ConvertRaises(c) /\ ~ Finish(c) /\ ~ Kill(c) /\ ~ Take(c)
  <2>1. ~ WipeAll
    BY <1>1, <1>2, AliveStep
  <2>2. ~ ConvertRaises(c) /\ ~ Finish(c) /\ ~ Kill(c)
    BY <1>1, GotoStep DEF ConvertRaises, Finish, Kill, Ended
  <2>3. ~ Take(c)
    <3>1. Take(c) => Goto(c, "download")
      BY DEF Take
    <3>2. Goto(c, "download") => task'[c].pc = "download"
      BY GotoStep
    <3> QED BY <3>1, <3>2
  <2> QED BY <2>1, <2>2, <2>3
<1>4. CASE Download(c)
  BY <1>4, DownloadStep DEF Download, At
<1>5. ASSUME task[c].pc \in {"convert", "upload"}, task'[c].local_ulg = task[c].local_ulg,
             task'[c].source_keys = task[c].source_keys, task'[c].i = task[c].i
      PROVE  task'[c].local_ulg = ulog'[task'[c].source_keys[task'[c].i]]
  <2>1. At(c) \in Key /\ ulog[At(c)] # "absent" /\ task[c].local_ulg = ulog[At(c)]
    BY <1>5, AtKey DEF TypeOK, IsTask, ListedStays, LocalIsCurrent, At, Ended
  <2>2. ulog'[At(c)] = ulog[At(c)]
    BY <1>3, <2>1, UlogStays
  <2> QED BY <1>5, <2>1, <2>2 DEF At
<1>6. CASE Convert(c)
  BY <1>5, <1>6, GotoStep DEF Convert, Running
<1>7. CASE task'[c] = task[c]
  BY <1>5, <1>7
<1> QED BY <1>2, <1>3, <1>4, <1>6, <1>7, TaskStep

\* The mcap bucket changes by an upload or a wipe.
LEMMA McapStep ==
    ASSUME [Next]_vars
    PROVE  mcap' = mcap \/ WipeAll \/ \E c \in Converter : Upload(c)
BY DEF Next, vars, Start, Step, Skip, Take, Download, Convert, ConvertRaises, Finish,
   Kill, Cache, Mirror

LEMMA UploadStep ==
    ASSUME TypeOK, LocalIsCurrent, NEW c \in Converter, Upload(c)
    PROVE  /\ At(c) \in Key /\ ulog' = ulog /\ ulog[At(c)] # "absent"
           /\ mcap' = [mcap EXCEPT ![At(c)] = ulog[At(c)]]
<1>1. At(c) \in Key /\ task[c].pc = "upload"
  BY RunningType DEF Upload
<1>2. task[c].local_ulg = ulog[At(c)] /\ task[c].local_ulg # "absent"
  BY <1>1 DEF TypeOK, IsTask, LocalIsCurrent
<1> QED BY <1>1, <1>2 DEF Upload

LEMMA McapMatchesUlogStep ==
    ASSUME TypeOK, LocalIsCurrent, McapMatchesUlog, [Next]_vars
    PROVE  McapMatchesUlog'
<1> SUFFICES ASSUME NEW k \in Key, mcap'[k] # "absent"
             PROVE  mcap'[k] = ulog'[k]
  BY DEF McapMatchesUlog, Objects
<1>1. CASE WipeAll
  BY <1>1 DEF WipeAll
<1>2. ASSUME NEW c \in Converter, Upload(c) PROVE mcap'[k] = ulog'[k]
  BY <1>2, UploadStep DEF McapMatchesUlog, Objects, TypeOK
<1>3. CASE mcap' = mcap /\ ~ WipeAll
  BY <1>3, UlogStays DEF McapMatchesUlog, Objects
<1> QED BY <1>1, <1>2, <1>3, McapStep

\* An .mcap that is there stays there, but for a wipe.
LEMMA McapStays ==
    ASSUME TypeOK, LocalIsCurrent, [Next]_vars, ~ WipeAll, NEW k \in Key, mcap[k] # "absent"
    PROVE  mcap'[k] # "absent"
<1>1. ASSUME NEW c \in Converter, Upload(c) PROVE mcap'[k] # "absent"
  BY <1>1, UploadStep DEF TypeOK
<1> QED BY <1>1, McapStep

LEMMA PassedKeysAreConvertedStep ==
    ASSUME TypeOK, LocalIsCurrent, PassedKeysAreConverted, [Next]_vars
    PROVE  PassedKeysAreConverted'
<1> SUFFICES ASSUME NEW c \in Converter, task'[c].pc # "killed",
                    NEW j \in 1 .. task'[c].i - 1
             PROVE  mcap'[task'[c].source_keys[j]] # "absent"
  BY DEF PassedKeysAreConverted
<1>1. ~ WipeAll /\ ~ Kill(c) /\ ~ Start(c)
  BY WipeStep, GotoStep, StartStep DEF Kill
<1>2. /\ IsTask(task[c]) /\ task[c].i \in Nat
      /\ \A n \in DOMAIN task[c].source_keys : task[c].source_keys[n] \in Key
  BY DEF TypeOK, IsTask
<1>3. ASSUME task[c].pc # "killed", task'[c].source_keys = task[c].source_keys,
             j \in 1 .. task[c].i - 1
      PROVE  mcap'[task'[c].source_keys[j]] # "absent"
  <2>1. mcap[task[c].source_keys[j]] # "absent" /\ j \in DOMAIN task[c].source_keys
    BY <1>2, <1>3 DEF PassedKeysAreConverted, IsTask
  <2> QED BY <1>1, <1>2, <1>3, <2>1, McapStays
<1>4. CASE Skip(c) \/ Upload(c)
  <2>0. NextKey(c) /\ (Running(c, "exists") \/ Running(c, "upload"))
    BY <1>4 DEF Skip, Upload
  <2>1. /\ task'[c].source_keys = task[c].source_keys /\ task'[c].i = task[c].i + 1
        /\ task[c].pc # "killed" /\ At(c) \in Key
    BY <2>0, NextKeyStep, RunningType
  <2>2. CASE j = task[c].i
    <3>1. mcap'[At(c)] # "absent"
      <4>1. CASE Skip(c)
        BY <4>1, <2>1, <1>1, McapStays DEF Skip, exists
      <4>2. CASE Upload(c)
        BY <4>2, UploadStep DEF TypeOK
      <4> QED BY <1>4, <4>1, <4>2
    <3> QED BY <2>1, <2>2, <3>1 DEF At
  <2>3. CASE j # task[c].i
    BY <1>2, <1>3, <2>1, <2>3
  <2> QED BY <2>2, <2>3
<1>5. CASE Take(c) \/ Convert(c) \/ ConvertRaises(c) \/ Finish(c)
  BY <1>3, <1>5, GotoStep DEF Take, Convert, ConvertRaises, Finish, Running
<1>6. CASE Download(c)
  BY <1>3, <1>6, DownloadStep DEF Download, Running
<1>7. CASE task'[c] = task[c]
  BY <1>3, <1>7
<1> QED BY <1>1, <1>4, <1>5, <1>6, <1>7, TaskStep

-----------------------------------------------------------------------------
(* The theorems *)

LEMMA ConvertInvariantStep == ConvertInvariant /\ [Next]_vars => ConvertInvariant'
BY TypeOKStep, UlogIsFiniteStep, ListedStaysStep, LocalIsCurrentStep, McapMatchesUlogStep,
   PassedKeysAreConvertedStep DEF ConvertInvariant

LEMMA ConvertInvariantInit == Init => ConvertInvariant
<1> SUFFICES ASSUME Init PROVE ConvertInvariant
  OBVIOUS
<1>1. Objects(ulog) = {} /\ Objects(mcap) = {}
  BY DEF Init, Objects
<1>2. TypeOK
  <2>1. \A c \in Converter : task[c] = [pc |-> "off", source_keys |-> <<>>, i |-> 1,
                                       local_ulg |-> "absent", overwrite |-> FALSE]
    BY DEF Init
  <2>2. <<>> \in Seq(Key) /\ 1 \in 1 .. Len(<<>>) + 1
    OBVIOUS
  <2>3. IsTask([pc |-> "off", source_keys |-> <<>>, i |-> 1,
                local_ulg |-> "absent", overwrite |-> FALSE])
    BY <2>2 DEF IsTask, Content, Ended
  <2> QED BY <2>1, <2>3 DEF Init, TypeOK, Content
<1>3. UlogIsFinite /\ McapMatchesUlog
  BY <1>1, FS_EmptySet DEF UlogIsFinite, McapMatchesUlog
<1>4. ListedStays /\ LocalIsCurrent /\ PassedKeysAreConverted
  BY DEF Init, ListedStays, LocalIsCurrent, PassedKeysAreConverted, Ended
<1> QED BY <1>2, <1>3, <1>4 DEF ConvertInvariant

LEMMA ConvertInvariantHolds == Spec => []ConvertInvariant
BY ConvertInvariantInit, ConvertInvariantStep, PTL DEF Spec

\* A run that is at a key has listed it, and one that converts has a file.
THEOREM ConverterTypes == Spec => []TypeOK
<1>1. ConvertInvariant => TypeOK
  BY DEF ConvertInvariant
<1> QED BY <1>1, ConvertInvariantHolds, PTL

\* What is in the mcap bucket was made from what the ulog bucket has under its name,
\* however many runs overlap and whatever fills and empties the buckets.
THEOREM McapsMatch == Spec => []McapMatchesUlog
<1>1. ConvertInvariant => McapMatchesUlog
  BY DEF ConvertInvariant
<1> QED BY <1>1, ConvertInvariantHolds, PTL

\* A run that ends with "done" has left no key of its listing without an .mcap.
THEOREM PassedKeys == Spec => []PassedKeysAreConverted
<1>1. ConvertInvariant => PassedKeysAreConverted
  BY DEF ConvertInvariant
<1> QED BY <1>1, ConvertInvariantHolds, PTL
=============================================================================
