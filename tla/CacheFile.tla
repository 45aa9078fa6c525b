------------------------------ MODULE CacheFile ------------------------------
(***************************************************************************)
(* The on-disk cache of one function: IndexDataCacheFile of                *)
(* core/caching.py, one index file and numbered data files shared by every *)
(* process that runs the function.  Each file is replaced as a whole       *)
(* (_open_for_write writes a temporary file and renames it), so a step     *)
(* reads or replaces one file.                                             *)
(***************************************************************************)
EXTENDS Integers, FiniteSets

CONSTANTS Process,   \* processes using the cache
          Key,       \* index keys: signature, target, code hash, ...
          Stamp,     \* source stamps: time and size of the source file
          NoData     \* a data file that does not exist

ASSUME ConstantsAssumption == IsFiniteSet(Key) /\ Stamp # {}

\* An index maps at most Cardinality(Key) keys, so no number above is used.
Number == 1..Cardinality(Key)

\* What a data file holds: the code compiled for a key, by a process that read
\* the source with that stamp.
Code == [key : Key, stamp : Stamp]

\* The overloads of an index are a set of pairs.
Entry == [key : Key, number : Number]

VARIABLES index,   \* the index file
          data,    \* the data files
          source,  \* the stamp of the source file now
          stamp,   \* _source_stamp of each process
          call,    \* the call each process is in, with its local variables
          clean    \* history: calls never overlapped, and no save was cut
                   \* between its index and its data

vars == <<index, data, source, stamp, call, clean>>

Idle == [at |-> "idle"]

\* A missing index behaves as an empty one.
Init == /\ source \in Stamp
        /\ index = [stamp |-> source, overloads |-> {}]
        /\ data = [n \in Number |-> NoData]
        /\ stamp = [p \in Process |-> source]
        /\ call = [p \in Process |-> Idle]
        /\ clean = TRUE

Goto(p, c) == call' = [call EXCEPT ![p] = c]

\* A call begins, or is cut short.
Begins(p) == clean' = (clean /\ \A q \in Process : call[q] = Idle)

Ends(p) == clean' = (clean /\ call[p].at # "data")

\* The source file is edited, or put back as it was.
Edit == /\ source' \in Stamp \ {source}
        /\ UNCHANGED <<index, data, stamp, call, clean>>

\* The process imports the function anew: Cache.__init__ takes the stamp.
Import(p) == /\ call[p] = Idle
             /\ stamp' = [stamp EXCEPT ![p] = source]
             /\ UNCHANGED <<index, data, source, call, clean>>

\* Variant: the stamp of the index is not compared.
IndexAnyStamp(p) == index.overloads

\* _load_index: an index of another version of the source counts as empty.
Index(p) == IF index.stamp = stamp[p] THEN index.overloads ELSE {}

\* Variants: the index is saved without a stamp, or with the one it had.
SaveIndexBare(p, ov) == index' = [overloads |-> ov]

SaveIndexStale(p, ov) == index' = [stamp |-> index.stamp, overloads |-> ov]

SaveIndex(p, ov) == index' = [stamp |-> stamp[p], overloads |-> ov]

\* save(key, data) reads the index.
Save(p, k) == /\ call[p] = Idle
              /\ Goto(p, [at |-> "name", key |-> k, overloads |-> Index(p)])
              /\ Begins(p)
              /\ UNCHANGED <<index, data, source, stamp>>

\* overloads[key]: the data file of a known key will be overwritten.
NameKnown(p) == /\ call[p].at = "name"
                /\ \E e \in call[p].overloads :
                      /\ e.key = call[p].key
                      /\ Goto(p, [at |-> "data", key |-> e.key, number |-> e.number])
                /\ UNCHANGED <<index, data, source, stamp, clean>>

\* Variant: the first number is taken as free.
AvailableFirst(ov, n) == n = 1

\* itertools.count(1): the first number that the index does not use.
Available(ov, n) == /\ \A e \in ov : e.number # n
                    /\ \A m \in 1..(n - 1) : \E e \in ov : e.number = m

\* A new key gets a file of its own, and the index is saved first.
NameNew(p) == /\ call[p].at = "name"
              /\ \A e \in call[p].overloads : e.key # call[p].key
              /\ \E n \in Number :
                    /\ Available(call[p].overloads, n)
                    /\ SaveIndex(p, call[p].overloads \cup {[key |-> call[p].key, number |-> n]})
                    /\ Goto(p, [at |-> "data", key |-> call[p].key, number |-> n])
              /\ UNCHANGED <<data, source, stamp, clean>>

\* _save_data, and save() returns.
SaveData(p) == /\ call[p].at = "data"
               /\ data' = [data EXCEPT ![call[p].number] =
                             [key |-> call[p].key, stamp |-> stamp[p]]]
               /\ Goto(p, Idle)
               /\ UNCHANGED <<index, source, stamp, clean>>

\* A file cannot be written: the temporary file is removed and the error leaves
\* save().
SaveFails(p) == /\ call[p].at \in {"name", "data"}
                /\ Goto(p, Idle)
                /\ Ends(p)
                /\ UNCHANGED <<index, data, source, stamp>>

\* load(key) reads the index; a key it does not have loads nothing.
Load(p, k) == /\ call[p] = Idle
              /\ \E e \in Index(p) :
                    /\ e.key = k
                    /\ Goto(p, [at |-> "load", key |-> k, number |-> e.number])
              /\ Begins(p)
              /\ UNCHANGED <<index, data, source, stamp>>

\* _load_data returns what the file holds, nothing if there is no file.
LoadData(p) == /\ call[p].at = "load"
               /\ Goto(p, Idle)
               /\ UNCHANGED <<index, data, source, stamp, clean>>

\* flush(): an empty index; the data files stay.
Flush(p) == /\ call[p] = Idle
            /\ SaveIndex(p, {})
            /\ Begins(p)
            /\ UNCHANGED <<data, source, stamp, call>>

\* The process dies in the middle of a call, and is started again.
Crash(p) == /\ call[p] # Idle
            /\ Goto(p, Idle)
            /\ Ends(p)
            /\ stamp' = [stamp EXCEPT ![p] = source]
            /\ UNCHANGED <<index, data, source>>

Call(p) == \/ \E k \in Key : Save(p, k) \/ Load(p, k)
           \/ NameKnown(p) \/ NameNew(p) \/ SaveData(p) \/ LoadData(p) \/ Flush(p)

Next == Edit \/ \E p \in Process : Import(p) \/ Call(p) \/ SaveFails(p) \/ Crash(p)

\* Any number of processes, at any time, that may fail or die.
Spec == Init /\ [][Next]_vars

-----------------------------------------------------------------------------

\* A call in progress.
Calls == {Idle}
         \cup [at : {"name"}, key : Key, overloads : SUBSET Entry]
         \cup [at : {"data", "load"}, key : Key, number : Number]

TypeOK == /\ index \in [stamp : Stamp, overloads : SUBSET Entry]
          /\ data \in [Number -> Code \cup {NoData}]
          /\ source \in Stamp
          /\ stamp \in [Process -> Stamp]
          /\ call \in [Process -> Calls]
          /\ clean \in BOOLEAN

\* However many processes save, load, flush, fail and die at the same time,
\* the index is a partial function and no two keys share a data file (save).
IndexIsOneToOne ==
  \A d, e \in index.overloads : d.key = e.key <=> d.number = e.number

\* A load returns the code of the key it was asked for, compiled from the
\* source that the process runs, or nothing: "Check caching works from
\* multiple processes at once" (tests/cudapy/test_caching.py), and "Stale data
\* files will be eventually overwritten" rather than loaded (_load_index).
LoadsWhatItAskedFor ==
  \A p \in Process :
     call[p].at = "load" =>
       data[call[p].number] \in {NoData, [key |-> call[p].key, stamp |-> stamp[p]]}

\* The same, as long as calls never overlapped and no save was cut between its
\* index and its data, whatever else failed, died, was edited or flushed
\* (_load_index, load).
CleanLoads == clean => LoadsWhatItAskedFor

\* On the same condition, when no call is in progress, each entry of the index
\* leads to the data file that was written for it: what the index promises can
\* be loaded (save).
CleanIndexLeadsToCode ==
  clean /\ (\A p \in Process : call[p] = Idle)
     => \A e \in index.overloads :
           data[e.number] = [key |-> e.key, stamp |-> index.stamp]
=============================================================================
