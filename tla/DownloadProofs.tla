--------------------------- MODULE DownloadProofs ---------------------------
(***************************************************************************)
(* Theorems about the log downloader, for any database, any arguments and  *)
(* any answers of the server.                                              *)
(***************************************************************************)
EXTENDS DownloadLogs

-----------------------------------------------------------------------------
(* The choice of logs *)

LEMMA ListingType ==
    /\ Len(Listing) \in Nat /\ DOMAIN Listing = 1 .. Len(Listing)
    /\ \A k \in DOMAIN Listing : Listing[k] \in Log /\ LogDate[Listing[k]] \in Int
    /\ \A k, l \in DOMAIN Listing : Listing[k] = Listing[l] => k = l
BY DownloadAssumption DEF IsInjective

\* The selected entries, from the newest to the oldest, are a sequence of positions.
LEMMA NewestFirstIsOrdered ==
    /\ Cardinality(Selected) \in Nat
    /\ NewestFirst \in Seq(Selected) /\ Len(NewestFirst) = Cardinality(Selected)
    /\ \A k \in Selected : \E n \in 1 .. Cardinality(Selected) : NewestFirst[n] = k
    /\ \A m, n \in 1 .. Cardinality(Selected) :
           m < n => <<NewestFirst[m], NewestFirst[n]>> \in Newest
<1> DEFINE S == Selected
<1>1. S \subseteq DOMAIN Listing
  BY DEF Selected, Matching
<1>2. IsFiniteSet(S)
  <2>1. IsFiniteSet(DOMAIN Listing)
    BY ListingType, FS_Interval
  <2> QED BY <1>1, <2>1, FS_Subset
<1>3. IsStrictOrder(S, Newest)
  <2>1. \A x, y \in S : <<x, y>> \in Newest <=>
            Newer(x, y) \/ (~ Newer(y, x) /\ x < y)
    BY DEF Newest
  <2>2. \A x \in S : x \in Int /\ LogDate[Listing[x]] \in Int
    BY <1>1, ListingType
  <2> HIDE DEF S
  <2> QED BY <2>1, <2>2 DEF IsStrictOrder, Newer
<1> HIDE DEF S
<1>4. /\ Cardinality(S) \in Nat
      /\ NewestFirst \in Seq(S) /\ Len(NewestFirst) = Cardinality(S)
      /\ \A k \in S : \E n \in 1 .. Cardinality(S) : NewestFirst[n] = k
      /\ \A m, n \in 1 .. Cardinality(S) :
             m < n => <<NewestFirst[m], NewestFirst[n]>> \in Newest
  BY <1>2, <1>3, InOrderIsOrdered DEF NewestFirst, S
<1> QED BY <1>4 DEF S

LEMMA ChosenType ==
    ASSUME args \in Arguments
    PROVE  /\ n_en \in Nat /\ n_en <= Cardinality(Selected)
           /\ Chosen \in Seq(Log) /\ Len(Chosen) = n_en
           /\ \A n \in 1 .. n_en : /\ NewestFirst[n] \in Selected
                                   /\ Chosen[n] = Listing[NewestFirst[n]]
<1>1. args.max_num \in Int
  BY DownloadAssumption DEF get_arguments
<1>2. n_en \in Nat /\ n_en <= Cardinality(Selected)
  BY <1>1, NewestFirstIsOrdered DEF n_en
<1>3. \A n \in 1 .. n_en : NewestFirst[n] \in Selected
  BY <1>2, NewestFirstIsOrdered
<1>4. \A k \in Selected : Listing[k] \in Log
  BY ListingType DEF Selected, Matching
<1>5. \A n \in 1 .. n_en : Chosen[n] = Listing[NewestFirst[n]] /\ Chosen[n] \in Log
  BY <1>3, <1>4 DEF Chosen
<1>6. Chosen \in Seq(Log) /\ Len(Chosen) = n_en
  <2>1. Chosen = [n \in 1 .. n_en |-> Chosen[n]]
    BY DEF Chosen
  <2> QED BY <1>2, <1>5, <2>1
<1> QED BY <1>2, <1>3, <1>5, <1>6

-----------------------------------------------------------------------------
(* Type correctness *)

LEMMA TypeOKStep ==
    ASSUME TypeOK, FetchesFirst, [Next]_vars
    PROVE  TypeOK' /\ FetchesFirst'
<1> USE DEF TypeOK, FetchesFirst, Ended, FileState
<1>1. CASE Begin
  BY <1>1, DownloadAssumption DEF Begin
<1>2. CASE FetchFails \/ PrintEntries \/ Confirm("y") \/ Confirm("n") \/ Request \/ Abort
           \/ StreamFails \/ Finish \/ Kill
  BY <1>2 DEF FetchFails, PrintEntries, Confirm, Request, Abort, StreamFails, Finish, Kill
<1>3. CASE Fetch
  <2>1. entries' \in Seq(Log) /\ i = 1
    BY <1>3, ChosenType DEF Fetch
  <2> QED BY <1>3, <2>1 DEF Fetch, CachedIds
<1>4. CASE Skip
  BY <1>4, DownloadAssumption DEF Skip, NextEntry
<1>5. CASE NoAnswer
  BY <1>5, DownloadAssumption DEF NoAnswer, NextEntry
<1>6. CASE Retry
  BY <1>6, DownloadAssumption DEF Retry
<1>7. CASE Open
  BY <1>7 DEF Open
<1>8. CASE StreamEnds
  BY <1>8, DownloadAssumption DEF StreamEnds, NextEntry
<1>9. CASE UNCHANGED vars
  BY <1>9 DEF vars
<1> QED BY <1>1, <1>2, <1>3, <1>4, <1>5, <1>6, <1>7, <1>8, <1>9 DEF Next, Run

LEMMA TypeOKInit == Init => TypeOK /\ FetchesFirst
BY DownloadAssumption DEF Init, TypeOK, FetchesFirst, Ended, FileState

LEMMA TypesHold == Spec => [](TypeOK /\ FetchesFirst)
<1>1. TypeOK /\ FetchesFirst /\ [Next]_vars => TypeOK' /\ FetchesFirst'
  BY TypeOKStep
<1> QED BY <1>1, TypeOKInit, PTL DEF Spec

\* A run that requests or streams has an entry in hand and counts its requests.
THEOREM DownloadTypes == Spec => []TypeOK
BY TypesHold, PTL

-----------------------------------------------------------------------------
(* What a run chooses *)

\* The choice depends on the arguments alone.
LEMMA ChosenStays ==
    ASSUME args' = args
    PROVE  Chosen' = Chosen
BY DEF Chosen, NewestFirst, Newest, n_en, Selected, LatestOfVehicle, Matching, SameVehicle, Newer,
   InOrder, Below

LEMMA EntriesAreChosenStep ==
    ASSUME EntriesAreChosen, [Next]_vars
    PROVE  EntriesAreChosen'
<1> USE DEF Underway, Ended
<1>1. CASE Begin
  BY <1>1 DEF Begin, EntriesAreChosen
<1>2. CASE Fetch
  BY <1>2, ChosenStays DEF Fetch, EntriesAreChosen
<1>3. CASE args' = args /\ entries' = entries /\ (pc' \in Underway => pc \in Underway)
  BY <1>3, ChosenStays DEF EntriesAreChosen
<1>4. CASE FetchFails \/ PrintEntries \/ Confirm("y") \/ Confirm("n") \/ Skip \/ Request \/ Retry
           \/ NoAnswer \/ Abort \/ Open \/ StreamEnds \/ StreamFails \/ Finish \/ Kill
           \/ UNCHANGED vars
  BY <1>3, <1>4 DEF FetchFails, PrintEntries, Confirm, Skip, Request, Retry, NoAnswer, Abort,
     Open, StreamEnds, StreamFails, Finish, Kill, NextEntry, vars
<1> QED BY <1>1, <1>2, <1>4 DEF Next, Run

\* Of two logs chosen the earlier is the newer one, or as new.
LEMMA ChosenOrder ==
    ASSUME args \in Arguments, NEW k \in 1 .. n_en, NEW l \in 1 .. n_en, k < l
    PROVE  Chosen[k] # Chosen[l] /\ LogDate[Chosen[k]] >= LogDate[Chosen[l]]
<1> DEFINE a == NewestFirst[k]
           b == NewestFirst[l]
<1>1. a \in Selected /\ b \in Selected /\ Chosen[k] = Listing[a] /\ Chosen[l] = Listing[b]
  BY ChosenType
<1>2. <<a, b>> \in Newest
  BY ChosenType, NewestFirstIsOrdered
<1>3. a \in DOMAIN Listing /\ b \in DOMAIN Listing
  BY <1>1 DEF Selected, Matching
<1> HIDE DEF a, b
<1>4. Newer(a, b) \/ (~ Newer(b, a) /\ a < b)
  BY <1>2 DEF Newest
<1> QED BY <1>1, <1>3, <1>4, ListingType DEF Newer

\* A position that is selected and not chosen comes after those that are.
LEMMA ChosenFirst ==
    ASSUME args \in Arguments, NEW a \in Selected, NEW l \in 1 .. n_en,
           LogDate[Listing[a]] > LogDate[Chosen[l]]
    PROVE  \E k \in 1 .. n_en : Chosen[k] = Listing[a]
<1>1. PICK k \in 1 .. Cardinality(Selected) : NewestFirst[k] = a
  BY NewestFirstIsOrdered
<1> DEFINE b == NewestFirst[l]
<1>2. b \in Selected /\ Chosen[l] = Listing[b]
  BY ChosenType
<1>3. a \in DOMAIN Listing /\ b \in DOMAIN Listing
  BY <1>2 DEF Selected, Matching
<1>4. Newer(a, b)
  BY <1>2 DEF Newer
<1>5. ~ l < k
  <2>1. l < k => <<b, a>> \in Newest
    BY <1>1, ChosenType, NewestFirstIsOrdered
  <2>2. <<b, a>> \notin Newest
    <3> HIDE DEF b
    <3> QED BY <1>3, <1>4, ListingType DEF Newest, Newer
  <2> QED BY <2>1, <2>2
<1>6. k \in 1 .. n_en
  BY <1>5, ChosenType
<1> QED BY <1>1, <1>6, ChosenType

\* The whole of ChoosesNewest, about the choice itself.
LEMMA ChoiceIsNewest ==
    ASSUME TypeOK, EntriesAreChosen
    PROVE  ChoosesNewest
<1> SUFFICES ASSUME pc \in Underway PROVE ChoosesNewest
  BY DEF ChoosesNewest
<1> DEFINE listed == {Listing[k] : k \in Matching}
           chosen == Range(entries)
<1>1. /\ args \in Arguments /\ entries = Chosen
      /\ DOMAIN entries = 1 .. n_en /\ n_en \in Nat
  BY ChosenType DEF TypeOK, EntriesAreChosen
<1>2. \A k, l \in DOMAIN entries :
        k < l => entries[k] # entries[l] /\ LogDate[entries[k]] >= LogDate[entries[l]]
  BY <1>1, ChosenOrder
<1>3. ASSUME NEW m \in chosen
      PROVE  \E l \in 1 .. n_en : Chosen[l] = m /\ NewestFirst[l] \in Selected
                                  /\ m = Listing[NewestFirst[l]]
  BY <1>1, ChosenType DEF Range
<1>4. ASSUME NEW l \in (listed \cap args.late_match) \ chosen, NEW m \in chosen,
             LogDate[l] > LogDate[m]
      PROVE  /\ args.latest_per_vehicle
             /\ \/ Vehicle[l] = NoVehicle
                \/ \E n \in listed \ {l} : Vehicle[n] = Vehicle[l] /\ LogDate[n] >= LogDate[l]
  <2>1. PICK a \in Matching : l = Listing[a]
    OBVIOUS
  <2>2. PICK y \in 1 .. n_en : Chosen[y] = m
    BY <1>3
  <2>3. a \notin Selected
    BY <1>1, <1>4, <2>1, <2>2, ChosenFirst DEF Range
  <2>4. args.latest_per_vehicle /\ ~ LatestOfVehicle(a)
    BY <2>1, <2>3 DEF Selected
  <2>5. CASE Vehicle[l] # NoVehicle
    <3>1. PICK b \in Matching : SameVehicle(a, b) /\ (Newer(b, a) \/ (b < a /\ ~ Newer(a, b)))
      BY <2>1, <2>4, <2>5 DEF LatestOfVehicle
    <3>2. a \in DOMAIN Listing /\ b \in DOMAIN Listing
      BY DEF Matching
    <3>3. Listing[b] # l /\ LogDate[Listing[b]] >= LogDate[l]
      BY <2>1, <3>1, <3>2, ListingType DEF Newer
    <3>4. Vehicle[Listing[b]] = Vehicle[l] /\ Listing[b] \in listed \ {l}
      BY <2>1, <3>1, <3>3 DEF SameVehicle
    <3> QED BY <2>4, <3>3, <3>4
  <2> QED BY <2>4, <2>5
<1>5. ASSUME args.latest_per_vehicle, NEW l \in listed, NEW m \in chosen,
             l # m, Vehicle[l] = Vehicle[m]
      PROVE  l \notin chosen /\ LogDate[l] <= LogDate[m]
  <2>1. PICK a \in Matching : l = Listing[a]
    OBVIOUS
  <2>2. PICK b \in Selected : m = Listing[b]
    BY <1>3
  <2>3. b \in Matching /\ LatestOfVehicle(b) /\ a # b
    BY <1>5, <2>1, <2>2 DEF Selected
  <2>4. a \in DOMAIN Listing /\ b \in DOMAIN Listing
    BY <2>3 DEF Matching
  <2>5. SameVehicle(b, a) /\ SameVehicle(a, b)
    BY <1>5, <2>1, <2>2 DEF SameVehicle
  <2>6. ~ Newer(a, b) /\ (a < b => Newer(b, a))
    BY <2>3, <2>5 DEF LatestOfVehicle
  <2>7. ASSUME l \in chosen PROVE FALSE
    <3>1. PICK c \in Selected : l = Listing[c]
      BY <1>3, <2>7
    <3>2. c = a
      BY <2>1, <2>4, <3>1, ListingType DEF Selected, Matching
    <3>3. ~ Newer(b, a) /\ (b < a => Newer(a, b))
      BY <1>5, <2>3, <2>5, <3>1, <3>2 DEF LatestOfVehicle, Selected
    <3> QED BY <2>3, <2>4, <2>6, <3>3, ListingType
  <2>8. LogDate[l] <= LogDate[m]
    BY <2>1, <2>2, <2>4, <2>6, ListingType DEF Newer
  <2> QED BY <2>7, <2>8
<1> HIDE DEF listed, chosen
<1>6. /\ \A k, l \in DOMAIN entries :
             k < l => entries[k] # entries[l] /\ LogDate[entries[k]] >= LogDate[entries[l]]
      /\ \A l \in (listed \cap args.late_match) \ chosen, m \in chosen :
             LogDate[l] > LogDate[m] =>
                 /\ args.latest_per_vehicle
                 /\ \/ Vehicle[l] = NoVehicle
                    \/ \E n \in listed \ {l} : Vehicle[n] = Vehicle[l] /\ LogDate[n] >= LogDate[l]
      /\ args.latest_per_vehicle => \A l \in listed, m \in chosen :
             l # m /\ Vehicle[l] = Vehicle[m] => l \notin chosen /\ LogDate[l] <= LogDate[m]
  BY <1>2, <1>4, <1>5
<1> QED BY <1>6 DEF ChoosesNewest, listed, chosen

\* A run goes through the newest of the logs that match, whatever the database
\* holds and whichever filters, limits and modes are asked for.
THEOREM RunsChooseNewest == Spec => []ChoosesNewest
<1>1. Init => EntriesAreChosen
  BY DEF Init, EntriesAreChosen, Underway
<1>2. EntriesAreChosen /\ [Next]_vars => EntriesAreChosen'
  BY EntriesAreChosenStep
<1>3. TypeOK /\ EntriesAreChosen => ChoosesNewest
  BY ChoiceIsNewest
<1> QED BY <1>1, <1>2, <1>3, TypesHold, PTL DEF Spec

-----------------------------------------------------------------------------
(* What a run leaves alone *)

LEMMA WholeIsKnownStep ==
    ASSUME TypeOK, WholeIsKnown, RequestsUnknown, [Next]_vars
    PROVE  WholeIsKnown' /\ RequestsUnknown'
<1> USE DEF TypeOK, WholeIsKnown, RequestsUnknown, Underway, Ended, FileState
<1>1. CASE Begin
  BY <1>1 DEF Begin
<1>2. CASE FetchFails \/ PrintEntries \/ Confirm("y") \/ Confirm("n") \/ Abort
           \/ StreamFails \/ Finish \/ Kill
  BY <1>2 DEF FetchFails, PrintEntries, Confirm, Abort, StreamFails, Finish, Kill
<1>3. CASE Fetch
  BY <1>3 DEF Fetch, CachedIds
<1>4. CASE Skip
  BY <1>4 DEF Skip, NextEntry
<1>5. CASE NoAnswer
  BY <1>5 DEF NoAnswer, NextEntry
<1>6. CASE Request \/ Retry
  BY <1>6 DEF Request, Retry
<1>7. CASE Open
  BY <1>7 DEF Open
<1>8. CASE StreamEnds
  BY <1>8 DEF StreamEnds, NextEntry
<1>9. CASE UNCHANGED vars
  BY <1>9 DEF vars
<1> QED BY <1>1, <1>2, <1>3, <1>4, <1>5, <1>6, <1>7, <1>8, <1>9 DEF Next, Run

\* Without --overwrite no run opens the file of a log that is whole.
THEOREM WholeFilesStay == Spec => WholeStaysWhole
<1> DEFINE Kept == ~ args.overwrite => \A l \in Log : cache[l] = "whole" => cache'[l] = "whole"
<1>1. Init => WholeIsKnown /\ RequestsUnknown /\ EntriesAreChosen
  BY DEF Init, WholeIsKnown, RequestsUnknown, EntriesAreChosen, Underway
<1>2. TypeOK /\ WholeIsKnown /\ RequestsUnknown /\ [Next]_vars => WholeIsKnown' /\ RequestsUnknown'
  BY WholeIsKnownStep
<1>3. EntriesAreChosen /\ [Next]_vars => EntriesAreChosen'
  BY EntriesAreChosenStep
<1>4. TypeOK /\ EntriesAreChosen /\ WholeIsKnown /\ RequestsUnknown /\ [Next]_vars => [Kept]_cache
  <2> SUFFICES ASSUME TypeOK, EntriesAreChosen, WholeIsKnown, RequestsUnknown, [Next]_vars,
                      ~ args.overwrite, NEW l \in Log, cache[l] = "whole", cache'[l] # "whole"
               PROVE  FALSE
    OBVIOUS
  <2>1. CASE Open
    <3>1. l = entries[i] /\ pc = "request" /\ i \in 1 .. Len(entries)
      BY <2>1 DEF Open, TypeOK
    <3>2. PICK j \in 1 .. i - 1 : entries[j] = l
      BY <3>1 DEF WholeIsKnown, RequestsUnknown, Underway
    <3>3. ChoosesNewest
      BY ChoiceIsNewest
    <3> QED BY <3>1, <3>2, <3>3 DEF ChoosesNewest, Underway, TypeOK
  <2>2. CASE StreamEnds
    BY <2>2 DEF StreamEnds, TypeOK
  <2>3. CASE cache' = cache
    BY <2>3
  <2>4. Open \/ StreamEnds \/ cache' = cache
    BY DEF Next, Run, vars, Begin, FetchFails, PrintEntries, Fetch, Confirm, Skip, Request, Retry,
       NoAnswer, Abort, StreamFails, Finish, Kill
  <2> QED BY <2>1, <2>2, <2>3, <2>4
<1> QED BY <1>1, <1>2, <1>3, <1>4, TypesHold, PTL DEF Spec, WholeStaysWhole
=============================================================================
