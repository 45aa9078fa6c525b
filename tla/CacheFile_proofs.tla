--------------------------- MODULE CacheFile_proofs ---------------------------
(* What holds of the on-disk cache for any processes, keys and stamps: the    *)
(* index stays one-to-one whatever happens, and a load returns what it asked  *)
(* for as long as calls do not overlap and no save is cut in two.             *)
EXTENDS CacheFile, TLAPS

\* The index a save has read is one-to-one.
CallsAreOneToOne ==
  \A p \in Process : call[p].at = "name" =>
     \A d, e \in call[p].overloads : d.key = e.key <=> d.number = e.number

Inv == TypeOK /\ IndexIsOneToOne /\ CallsAreOneToOne

\* The kinds of calls, told apart by their "at".
LEMMA CallKinds ==
  ASSUME TypeOK, NEW p \in Process
  PROVE  /\ call[p] \in Calls
         /\ call[p] = Idle \/ call[p].at # "idle"
         /\ call[p].at = "name" => call[p].key \in Key /\ call[p].overloads \in SUBSET Entry
         /\ call[p].at \in {"data", "load"} => call[p].key \in Key /\ call[p].number \in Number
BY DEF TypeOK, Calls, Idle

LEMMA GotoEffect ==
  ASSUME TypeOK, NEW p \in Process, NEW c, Goto(p, c)
  PROVE  /\ call'[p] = c
         /\ \A q \in Process \ {p} : call'[q] = call[q]
         /\ c \in Calls => call' \in [Process -> Calls]
BY DEF TypeOK, Goto

LEMMA IndexType ==
  ASSUME TypeOK, NEW p \in Process
  PROVE  Index(p) \in SUBSET Entry
BY DEF TypeOK, Index

\* Once a run is no longer clean it stays so.
LEMMA CleanStep ==
  ASSUME TypeOK, [Next]_vars
  PROVE  clean' \in BOOLEAN /\ (clean' => clean)
<1>1. clean \in BOOLEAN
  BY DEF TypeOK
<1>2. \/ UNCHANGED clean
      \/ \E p \in Process : Begins(p) \/ Ends(p)
  BY DEF Next, Call, vars, Edit, Import, Save, NameKnown, NameNew, SaveData,
         SaveFails, Load, LoadData, Flush, Crash
<1>3. ASSUME NEW p \in Process, Begins(p) \/ Ends(p)
      PROVE  clean' \in BOOLEAN /\ (clean' => clean)
  <2> DEFINE B == \A q \in Process : call[q] = Idle
             E == call[p].at # "data"
  <2>1. clean' = (clean /\ B) \/ clean' = (clean /\ E)
    BY <1>3 DEF Begins, Ends
  <2> HIDE DEF B, E
  <2> QED
    BY <2>1, Zenon
<1> QED
  BY <1>1, <1>2, <1>3

\* Any step of the cache preserves the type and both one-to-one properties.
LEMMA Invariance ==
  ASSUME Inv, [Next]_vars
  PROVE  Inv'
<1> USE DEF Inv
<1>0. clean' \in BOOLEAN
  BY CleanStep
<1> USE <1>0
<1> CASE UNCHANGED vars
  BY DEF vars, TypeOK, IndexIsOneToOne, CallsAreOneToOne
<1>1. CASE Edit
  BY <1>1 DEF Edit, TypeOK, IndexIsOneToOne, CallsAreOneToOne
<1>2. ASSUME NEW p \in Process, Import(p) PROVE Inv'
  BY <1>2 DEF Import, TypeOK, IndexIsOneToOne, CallsAreOneToOne
<1>3. ASSUME NEW p \in Process, NEW k \in Key, Save(p, k) PROVE Inv'
  <2> DEFINE c == [at |-> "name", key |-> k, overloads |-> Index(p)]
  <2>1. c \in Calls
    BY IndexType DEF Calls
  <2>2. Goto(p, c) /\ UNCHANGED <<index, data, source, stamp>>
    BY <1>3 DEF Save
  <2>3. c.overloads = Index(p)
    OBVIOUS
  <2>4. \A d, e \in Index(p) : d.key = e.key <=> d.number = e.number
    BY DEF Index, IndexIsOneToOne
  <2> HIDE DEF c
  <2> QED
    BY <2>1, <2>2, <2>3, <2>4, GotoEffect DEF TypeOK, IndexIsOneToOne, CallsAreOneToOne
<1>4. ASSUME NEW p \in Process, NEW k \in Key, Load(p, k) PROVE Inv'
  <2> PICK e \in Index(p) : Goto(p, [at |-> "load", key |-> k, number |-> e.number])
    BY <1>4 DEF Load
  <2> DEFINE c == [at |-> "load", key |-> k, number |-> e.number]
  <2>1. c \in Calls /\ c.at = "load"
    BY IndexType DEF Calls, Entry
  <2>2. Goto(p, c) /\ UNCHANGED <<index, data, source, stamp>>
    BY <1>4 DEF Load
  <2> HIDE DEF c
  <2> QED
    BY <2>1, <2>2, GotoEffect DEF TypeOK, IndexIsOneToOne, CallsAreOneToOne
<1>5. ASSUME NEW p \in Process, NameKnown(p) PROVE Inv'
  <2> PICK e \in call[p].overloads : Goto(p, [at |-> "data", key |-> e.key, number |-> e.number])
    BY <1>5 DEF NameKnown
  <2> DEFINE c == [at |-> "data", key |-> e.key, number |-> e.number]
  <2>1. c \in Calls /\ c.at = "data"
    BY <1>5, CallKinds DEF NameKnown, Calls, Entry
  <2>2. Goto(p, c) /\ UNCHANGED <<index, data, source, stamp>>
    BY <1>5 DEF NameKnown
  <2> HIDE DEF c
  <2> QED
    BY <2>1, <2>2, GotoEffect DEF TypeOK, IndexIsOneToOne, CallsAreOneToOne
<1>6. ASSUME NEW p \in Process, NameNew(p) PROVE Inv'
  <2> PICK n \in Number :
        /\ Available(call[p].overloads, n)
        /\ SaveIndex(p, call[p].overloads \cup {[key |-> call[p].key, number |-> n]})
        /\ Goto(p, [at |-> "data", key |-> call[p].key, number |-> n])
    BY <1>6 DEF NameNew
  <2> DEFINE c == [at |-> "data", key |-> call[p].key, number |-> n]
             new == [key |-> call[p].key, number |-> n]
             ov == call[p].overloads \cup {new}
  <2>1. call[p].at = "name" /\ \A e \in call[p].overloads : e.key # call[p].key
    BY <1>6 DEF NameNew
  <2>2. c \in Calls /\ c.at = "data" /\ new \in Entry /\ ov \in SUBSET Entry
    BY <2>1, CallKinds DEF Calls, Entry
  <2>3. /\ Goto(p, c) /\ UNCHANGED <<data, source, stamp>>
        /\ index' = [stamp |-> stamp[p], overloads |-> ov]
    BY <1>6 DEF NameNew, SaveIndex
  <2>4. \A e \in call[p].overloads : e.number # n
    BY DEF Available
  <2>5. \A d, e \in ov : d.key = e.key <=> d.number = e.number
    BY <2>1, <2>4 DEF CallsAreOneToOne
  <2>6. index'.overloads = ov /\ index' \in [stamp : Stamp, overloads : SUBSET Entry]
    BY <2>2, <2>3 DEF TypeOK
  <2> HIDE DEF c, ov
  <2> QED
    BY <2>2, <2>3, <2>5, <2>6, GotoEffect DEF TypeOK, IndexIsOneToOne, CallsAreOneToOne
<1>7. ASSUME NEW p \in Process, SaveData(p) PROVE Inv'
  <2>1. [key |-> call[p].key, stamp |-> stamp[p]] \in Code
    BY <1>7, CallKinds DEF SaveData, TypeOK, Code
  <2>2. data' \in [Number -> Code \cup {NoData}]
    BY <1>7, <2>1 DEF SaveData, TypeOK
  <2>3. Idle \in Calls /\ Idle.at = "idle"
    BY DEF Calls, Idle
  <2> QED
    BY <1>7, <2>2, <2>3, GotoEffect DEF SaveData, TypeOK, IndexIsOneToOne, CallsAreOneToOne
<1>8. ASSUME NEW p \in Process, LoadData(p) \/ SaveFails(p) PROVE Inv'
  <2>1. Idle \in Calls /\ Idle.at = "idle"
    BY DEF Calls, Idle
  <2> QED
    BY <1>8, <2>1, GotoEffect DEF LoadData, SaveFails, TypeOK, IndexIsOneToOne, CallsAreOneToOne
<1>9. ASSUME NEW p \in Process, Flush(p) PROVE Inv'
  BY <1>9 DEF Flush, SaveIndex, TypeOK, IndexIsOneToOne, CallsAreOneToOne
<1>10. ASSUME NEW p \in Process, Crash(p) PROVE Inv'
  <2>1. Idle \in Calls /\ Idle.at = "idle"
    BY DEF Calls, Idle
  <2> QED
    BY <1>10, <2>1, GotoEffect DEF Crash, TypeOK, IndexIsOneToOne, CallsAreOneToOne
<1> QED
  BY <1>1, <1>2, <1>3, <1>4, <1>5, <1>6, <1>7, <1>8, <1>9, <1>10 DEF Next, Call

\* The first state satisfies the invariant.
LEMMA InitInv == ASSUME Init PROVE Inv
BY ConstantsAssumption DEF Init, Inv, TypeOK, IndexIsOneToOne, CallsAreOneToOne, Idle, Calls

\* Every variable keeps its type, at any moment of any run of the cache.
THEOREM Typing == Spec => []TypeOK
<1>1. Inv /\ [Next]_vars => Inv'
  BY Invariance
<1> QED
  BY <1>1, InitInv, PTL DEF Spec, Inv

\* The index of the cache is one-to-one, whatever processes save, load, flush,
\* fail and die at the same time (IndexDataCacheFile.save).
THEOREM IndexAlwaysOneToOne == Spec => []IndexIsOneToOne
<1>1. Inv /\ [Next]_vars => Inv'
  BY Invariance
<1> QED
  BY <1>1, InitInv, PTL DEF Spec, Inv

-----------------------------------------------------------------------------
(* Clean runs.                                                               *)

\* At most one process is in a call.
OneCall ==
  \A p, q \in Process : p # q => call[p] = Idle \/ call[q] = Idle

\* The index that a save has read is the index there is.
NameSeesIndex ==
  \A p \in Process : call[p].at = "name" => call[p].overloads = Index(p)

\* A data file is read or written for a key that the index leads to it.
FileIsIndexed ==
  \A p \in Process : call[p].at \in {"data", "load"} =>
     /\ index.stamp = stamp[p]
     /\ \E e \in index.overloads : e.key = call[p].key /\ e.number = call[p].number

\* The file an entry leads to is about to be written or holds what it should.
EntriesAreWritten ==
  \A e \in index.overloads :
     \/ \E p \in Process : call[p].at = "data" /\ call[p].number = e.number
     \/ data[e.number] = [key |-> e.key, stamp |-> index.stamp]

Tidy == OneCall /\ NameSeesIndex /\ FileIsIndexed /\ EntriesAreWritten

CleanInv == Inv /\ (clean => Tidy)

\* Between two calls, the strengthened invariant is about the index alone.
LEMMA CleanImplies ==
  ASSUME CleanInv
  PROVE  CleanLoads /\ CleanIndexLeadsToCode
<1>1. CleanIndexLeadsToCode
  BY DEF CleanInv, Tidy, EntriesAreWritten, CleanIndexLeadsToCode, Idle
<1>2. ASSUME clean, NEW p \in Process, call[p].at = "load"
      PROVE  data[call[p].number] = [key |-> call[p].key, stamp |-> stamp[p]]
  <2> USE <1>2 DEF CleanInv, Tidy
  <2>1. PICK e \in index.overloads : e.key = call[p].key /\ e.number = call[p].number
    BY DEF FileIsIndexed
  <2>2. \A q \in Process : call[q].at # "data"
    BY DEF OneCall, Idle
  <2> QED
    BY <2>1, <2>2 DEF EntriesAreWritten, FileIsIndexed
<1> QED
  BY <1>1, <1>2 DEF CleanLoads, LoadsWhatItAskedFor

\* What a step of one process, while the others are idle, leaves to check.
LEMMA OthersIdle ==
  ASSUME Inv, NEW p \in Process, \A q \in Process \ {p} : call[q] = Idle,
         NEW c, Goto(p, c), UNCHANGED stamp,
         c.at = "name" => c.overloads = Index(p)',
         c.at \in {"data", "load"} =>
            /\ index'.stamp = stamp[p]
            /\ \E e \in index'.overloads : e.key = c.key /\ e.number = c.number,
         \A e \in index'.overloads :
            \/ c.at = "data" /\ c.number = e.number
            \/ data'[e.number] = [key |-> e.key, stamp |-> index'.stamp]
  PROVE  Tidy'
<1>1. call'[p] = c /\ \A q \in Process \ {p} : call'[q] = Idle
  BY GotoEffect DEF Inv
<1>2. Idle.at = "idle"
  BY DEF Idle
<1>3. OneCall'
  BY <1>1 DEF OneCall
<1>4. NameSeesIndex'
  BY <1>1, <1>2 DEF NameSeesIndex
<1>5. FileIsIndexed'
  BY <1>1, <1>2 DEF FileIsIndexed
<1>6. EntriesAreWritten'
  BY <1>1, <1>2 DEF EntriesAreWritten
<1> QED
  BY <1>3, <1>4, <1>5, <1>6 DEF Tidy

\* A step that leaves the run clean preserves the strengthened invariant.
LEMMA CleanInvariance ==
  ASSUME CleanInv, [Next]_vars
  PROVE  CleanInv'
<1> USE DEF CleanInv, Tidy
<1>0. Inv'
  BY Invariance
<1> SUFFICES ASSUME clean' PROVE Tidy'
  BY <1>0
<1>a. clean /\ Tidy
  BY CleanStep DEF Inv
<1>b. Idle.at = "idle"
  BY DEF Idle
<1>1. CASE UNCHANGED vars
  BY <1>1, <1>a DEF vars, OneCall, NameSeesIndex, Index, FileIsIndexed, EntriesAreWritten
<1>2. CASE Edit
  BY <1>2, <1>a DEF Edit, OneCall, NameSeesIndex, Index, FileIsIndexed, EntriesAreWritten
<1>3. ASSUME NEW p \in Process, Import(p) PROVE Tidy'
  <2>1. /\ UNCHANGED <<index, data, call>> /\ call[p] = Idle
        /\ \A q \in Process \ {p} : stamp'[q] = stamp[q]
    BY <1>3 DEF Import, Inv, TypeOK
  <2> QED
    BY <2>1, <1>a, <1>b DEF OneCall, NameSeesIndex, Index, FileIsIndexed, EntriesAreWritten
<1>4. ASSUME NEW p \in Process, Call(p) \/ SaveFails(p) PROVE Tidy'
  <2>0. \A q \in Process \ {p} : call[q] = Idle
    <3>1. CASE call[p] # Idle
      BY <3>1, <1>a DEF OneCall
    <3>2. CASE Begins(p)
      BY <3>2 DEF Begins
    <3> QED
      BY <1>4, <1>b, <3>1, <3>2 DEF Call, SaveFails, Save, Load, Flush, NameKnown, NameNew,
                                   SaveData, LoadData
  <2>2. \A e \in index.overloads :
           call[p].at # "data" =>
             data[e.number] = [key |-> e.key, stamp |-> index.stamp]
    BY <2>0, <1>a, <1>b DEF EntriesAreWritten
  <2>3. CASE SaveFails(p)
    <3>1. call[p].at # "data" /\ Goto(p, Idle) /\ UNCHANGED <<index, data, source, stamp>>
      BY <2>3 DEF SaveFails, Ends
    <3> QED
      BY <1>b, <2>0, <2>2, <3>1, OthersIdle
  <2>4. ASSUME NEW k \in Key, Save(p, k) PROVE Tidy'
    <3> DEFINE c == [at |-> "name", key |-> k, overloads |-> Index(p)]
    <3>1. Goto(p, c) /\ UNCHANGED <<index, data, source, stamp>> /\ call[p].at = "idle"
      BY <2>4, <1>b DEF Save
    <3>2. c.at = "name" /\ c.overloads = Index(p)'
      BY <3>1 DEF Index
    <3> HIDE DEF c
    <3> QED
      BY <2>0, <2>2, <3>1, <3>2, OthersIdle
  <2>5. ASSUME NEW k \in Key, Load(p, k) PROVE Tidy'
    <3> PICK e \in Index(p) : e.key = k /\ Goto(p, [at |-> "load", key |-> k, number |-> e.number])
      BY <2>5 DEF Load
    <3> DEFINE c == [at |-> "load", key |-> k, number |-> e.number]
    <3>1. Goto(p, c) /\ UNCHANGED <<index, data, source, stamp>> /\ call[p].at = "idle"
      BY <2>5, <1>b DEF Load
    <3>2. c.at = "load" /\ c.key = e.key /\ c.number = e.number
      OBVIOUS
    <3>3. index.stamp = stamp[p] /\ e \in index.overloads
      BY DEF Index
    <3> HIDE DEF c
    <3> QED
      BY <2>0, <2>2, <3>1, <3>2, <3>3, OthersIdle
  <2>6. CASE NameKnown(p)
    <3> PICK e \in call[p].overloads :
          /\ e.key = call[p].key
          /\ Goto(p, [at |-> "data", key |-> e.key, number |-> e.number])
      BY <2>6 DEF NameKnown
    <3> DEFINE c == [at |-> "data", key |-> e.key, number |-> e.number]
    <3>1. Goto(p, c) /\ UNCHANGED <<index, data, source, stamp>> /\ call[p].at = "name"
      BY <2>6 DEF NameKnown
    <3>2. c.at = "data" /\ c.key = e.key /\ c.number = e.number
      OBVIOUS
    <3>3. index.stamp = stamp[p] /\ e \in index.overloads
      BY <3>1, <1>a DEF NameSeesIndex, Index
    <3> HIDE DEF c
    <3> QED
      BY <2>0, <2>2, <3>1, <3>2, <3>3, OthersIdle
  <2>7. CASE NameNew(p)
    <3> PICK n \in Number :
          /\ Available(call[p].overloads, n)
          /\ SaveIndex(p, call[p].overloads \cup {[key |-> call[p].key, number |-> n]})
          /\ Goto(p, [at |-> "data", key |-> call[p].key, number |-> n])
      BY <2>7 DEF NameNew
    <3> DEFINE c == [at |-> "data", key |-> call[p].key, number |-> n]
               new == [key |-> call[p].key, number |-> n]
               ov == Index(p) \cup {new}
    <3>1. /\ call[p].at = "name"
          /\ Goto(p, c) /\ UNCHANGED <<data, source, stamp>>
          /\ index' = [stamp |-> stamp[p], overloads |-> ov]
      BY <2>7, <1>a DEF NameNew, SaveIndex, NameSeesIndex
    <3>2. c.at = "data" /\ c.number = n /\ c.key = new.key /\ new.number = n
      OBVIOUS
    <3>3. index'.stamp = stamp[p] /\ index'.overloads = ov /\ new \in ov
      BY <3>1
    <3>4. \A e \in Index(p) : data[e.number] = [key |-> e.key, stamp |-> stamp[p]]
      BY <2>2, <3>1 DEF Index
    <3>5. \A e \in ov : e \in Index(p) \/ e = new
      OBVIOUS
    <3> HIDE DEF c, new, ov
    <3> QED
      BY <2>0, <3>1, <3>2, <3>3, <3>4, <3>5, OthersIdle
  <2>8. CASE SaveData(p)
    <3>1. call[p].at = "data" /\ Goto(p, Idle) /\ UNCHANGED <<index, source, stamp>>
      BY <2>8 DEF SaveData
    <3>2. PICK d \in index.overloads : d.key = call[p].key /\ d.number = call[p].number
      BY <3>1, <1>a DEF FileIsIndexed
    <3>3. index.stamp = stamp[p]
      BY <3>1, <1>a DEF FileIsIndexed
    <3>4. ASSUME NEW e \in index.overloads
          PROVE  data'[e.number] = [key |-> e.key, stamp |-> index.stamp]
      <4>1. e.number \in Number /\ data \in [Number -> Code \cup {NoData}]
        BY DEF Inv, TypeOK, Entry
      <4>2. CASE e.number = call[p].number
        <5>1. e.key = d.key
          BY <3>2, <4>2 DEF Inv, IndexIsOneToOne
        <5> QED
          BY <2>8, <3>2, <3>3, <4>1, <4>2, <5>1 DEF SaveData
      <4>3. CASE e.number # call[p].number
        <5>1. data[e.number] = [key |-> e.key, stamp |-> index.stamp]
          BY <1>a, <1>b, <2>0, <4>3 DEF EntriesAreWritten
        <5> QED
          BY <2>8, <4>1, <4>3, <5>1 DEF SaveData
      <4> QED
        BY <4>2, <4>3
    <3> QED
      BY <1>b, <2>0, <3>1, <3>4, OthersIdle
  <2>9. CASE LoadData(p)
    <3>1. call[p].at = "load" /\ Goto(p, Idle) /\ UNCHANGED <<index, data, source, stamp>>
      BY <2>9 DEF LoadData
    <3> QED
      BY <1>b, <2>0, <2>2, <3>1, OthersIdle
  <2>10. CASE Flush(p)
    <3>1. index'.overloads = {} /\ UNCHANGED <<data, source, stamp, call>> /\ call[p] = Idle
      BY <2>10 DEF Flush, SaveIndex
    <3> QED
      BY <1>b, <2>0, <3>1 DEF OneCall, NameSeesIndex, FileIsIndexed, EntriesAreWritten
  <2> QED
    BY <1>4, <2>3, <2>4, <2>5, <2>6, <2>7, <2>8, <2>9, <2>10 DEF Call
<1>5. ASSUME NEW p \in Process, Crash(p) PROVE Tidy'
  <2>1. /\ call[p] # Idle /\ call[p].at # "data" /\ UNCHANGED <<index, data>>
        /\ \A q \in Process \ {p} : stamp'[q] = stamp[q]
        /\ Goto(p, Idle)
    BY <1>5 DEF Crash, Ends, Inv, TypeOK
  <2>2. call'[p] = Idle /\ \A q \in Process \ {p} : call'[q] = Idle /\ call[q] = Idle
    BY <2>1, <1>a, GotoEffect DEF Inv, OneCall
  <2> QED
    BY <2>1, <2>2, <1>a, <1>b DEF OneCall, NameSeesIndex, FileIsIndexed, EntriesAreWritten
<1> QED
  BY <1>1, <1>2, <1>3, <1>4, <1>5 DEF Next

LEMMA InitCleanInv == ASSUME Init PROVE CleanInv
BY InitInv DEF Init, CleanInv, Tidy, OneCall, NameSeesIndex, FileIsIndexed,
               EntriesAreWritten, Idle

\* A load returns the code of its key, compiled from the source that the
\* process runs, or nothing, as long as calls never overlapped and no save was
\* cut between its index and its data (IndexDataCacheFile.load).
THEOREM CleanRunsLoadWhatTheyAskFor == Spec => []CleanLoads
<1>1. CleanInv /\ [Next]_vars => CleanInv'
  BY CleanInvariance
<1>2. CleanInv => CleanLoads
  BY CleanImplies
<1> QED
  BY <1>1, <1>2, InitCleanInv, PTL DEF Spec

\* On the same condition every entry of the index can be loaded between calls
\* (IndexDataCacheFile.save).
THEOREM CleanRunsKeepTheIndex == Spec => []CleanIndexLeadsToCode
<1>1. CleanInv /\ [Next]_vars => CleanInv'
  BY CleanInvariance
<1>2. CleanInv => CleanIndexLeadsToCode
  BY CleanImplies
<1> QED
  BY <1>1, <1>2, InitCleanInv, PTL DEF Spec
=============================================================================
