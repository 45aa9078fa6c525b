----------------------------- MODULE Reduction -----------------------------
(***************************************************************************)
(* kernels/reduction.py: cuda.reduce.  Reduce.__call__ starts up to three  *)
(* launches of one kernel on one stream: full blocks over the bulk of the  *)
(* array, one partial block over the rest, and one block that combines the *)
(* partial results in place.  Within a block the threads run in any order  *)
(* between two barriers; an interval in which a thread touches no shared   *)
(* cell is skipped, since the thread arrives at the next barrier by itself.*)
(* The blocks of a grid share nothing but the array of partial results and *)
(* run here one after another, in any order.                               *)
(*                                                                         *)
(* A value is the bag of what has been folded into it: element i of the    *)
(* array is the bag of i + 1, the initial value the bag of 0, and memory   *)
(* that nobody wrote the bag of -1.  This is the free commutative monoid,  *)
(* so a bag that is right is right for every associative and commutative   *)
(* reduce_op.                                                              *)
(***************************************************************************)
EXTENDS Integers, FiniteSets, Bags, FiniteSetsExt, Folds

CONSTANTS
    Log,        \* a warp has 2^Log lanes; the code's _WARPSIZE is 2^5
    MaxBlocks,  \* blocks in a grid at most; the code's 2 * _WARPSIZE
    Sizes       \* the array sizes explored

ASSUME GeometryAssumption ==
    /\ Log \in Nat \ {0}
    /\ MaxBlocks \in Nat \ {0}
    /\ Sizes \subseteq Nat

WarpSize == 2^Log

NumWarps == 4

BlockSize == NumWarps * WarpSize

\* What the provers do not know of powers of two.
ASSUME PowerAssumption ==
    2^0 = 1 /\ \A n \in 0 .. Log - 1 : 2^(n + 1) = 2 * 2^n

\* There are fewer partial results than threads in a block (the code: 65 at
\* most, and 128), so the last launch is one block that is not full.
ASSUME PartialsAssumption == MaxBlocks + 1 < BlockSize

VARIABLES
    size,      \* arr.size
    launch,    \* the launch that is running, "start" or "done"
    left,      \* blocks of the running launch that have not begun
    block,     \* blockIdx.x of the running block
    at,        \* thread of the block -> the next stage with work for it
    sm,        \* sm_partials: warp and lane -> value
    partials,  \* the array of partial results
    result     \* what the call returned, a bag of nothing before it did

reduceVars == <<size, launch, left, block, at, sm, partials, result>>

Unit(i) == SetToBag({i})

InitValue == Unit(0)

Unwritten == Unit(-1)

\* The bag of first and of the values that a function has.
BagFold(first, values) ==
    FoldSet(LAMBDA i, bag : bag (+) values[i], first, DOMAIN values)

-----------------------------------------------------------------------------
(* Reduce.__call__: the shapes of the three launches.                      *)

SizeFull == (size \div BlockSize) * BlockSize

SizePartial == size - SizeFull

FullBlocks ==
    LET chunks == size \div BlockSize
    IN  IF chunks < MaxBlocks THEN chunks ELSE MaxBlocks

PartialsSize == FullBlocks + (IF SizePartial > 0 THEN 1 ELSE 0)

GridDim == IF launch = "full" THEN FullBlocks ELSE 1

BlockDim ==
    CASE launch = "full" -> BlockSize
      [] launch = "partial" -> SizePartial
      [] launch = "finish" -> PartialsSize
      [] OTHER -> 0

\* partials[full_blockct:] is what the partial block sees as its array.
OutBase == IF launch = "partial" THEN FullBlocks ELSE 0

\* Only the full blocks fold in the initial value.
UseInitWhenFull == launch = "full"

UseInit ==
    \/ launch = "full"
    \/ launch = "partial" /\ FullBlocks = 0

\* arr[i] of the running launch; the last launch reads the partial results.
Arr(i) ==
    CASE launch = "full" -> Unit(i + 1)
      [] launch = "partial" -> Unit(SizeFull + i + 1)
      [] OTHER -> partials[i]

Thread == 0 .. BlockDim - 1

Warp(t) == t \div WarpSize

Lane(t) == t % WarpSize

\* gpu_reduce_block_strided picks the algorithm by the size of the block.
IsFullBlock == BlockDim = BlockSize

\* device_reduce_partial_block: "fully populated warps".
FullyPopulated(t) == IsFullBlock \/ (Warp(t) + 1) * WarpSize < BlockDim

-----------------------------------------------------------------------------
(* The stages of a block: store the value (partial block only), seed the   *)
(* warp's row and halve it Log times, combine the warps in pairs (full     *)
(* block only), total.                                                     *)

Store == 0
Seed == 1
Pairs == Log + 2
Total == Log + 3
Out == Log + 4

Width(k) == 2^(Log + 1 - k)

Works(t, k) ==
    CASE k = Store -> ~IsFullBlock
      [] k = Seed -> FullyPopulated(t) \/ Lane(t) = 0
      [] k \in 2 .. Log + 1 -> FullyPopulated(t) /\ Lane(t) < Width(k)
      [] k = Pairs -> IsFullBlock /\ t < 2
      [] k = Total -> t = 0
      [] OTHER -> TRUE

NextWork(t, k) == Min({j \in k .. Out : Works(t, j)})

\* The warps are combined after a syncwarp only.
AwaitsInWarp(t, k, u) == k = Seed \/ Warp(u) = Warp(t)

\* syncthreads stands before Seed, before Pairs and, in a partial block,
\* before Total; the others are syncwarp.
Awaits(t, k, u) ==
    \/ k \in {Seed, Pairs}
    \/ k = Total /\ ~IsFullBlock
    \/ Warp(u) = Warp(t)

\* No thread that the barrier waits for has work left before it.
Ready(t) ==
    /\ at[t] < Out
    /\ \A u \in DOMAIN at : at[u] < at[t] => ~Awaits(t, at[t], u)

\* The block-strided loop of device_reduce_full_block, or arr[tid]; no thread
\* writes the array while another may still read it.
Value(t) ==
    IF IsFullBlock
    THEN LET start == t + BlockSize * block
             step == BlockSize * GridDim
         IN  BagFold(Arr(start),
                     [n \in 1 .. (SizeFull - 1 - start) \div step |-> Arr(start + n * step)])
    ELSE Arr(t)

Row(w, lanes) == {<<w, l>> : l \in lanes}

\* Lane 0 of a partly populated warp folds the row by itself.
Populated(w) == 0 .. BlockDim - w * WarpSize - 1

ActiveWarps == (BlockDim + WarpSize - 1) \div WarpSize

\* The cells of sm_partials that thread t reads, and those it writes, at its
\* stage.
Reads(t) ==
    LET k == at[t]
    IN  CASE k \in 2 .. Log + 1 -> Row(Warp(t), {Lane(t), Lane(t) + Width(k)})
          [] k = Seed /\ ~FullyPopulated(t) -> Row(Warp(t), Populated(Warp(t)))
          [] k = Pairs -> {<<t, 0>>, <<t + 2, 0>>}
          [] k = Total /\ IsFullBlock -> {<<0, 0>>, <<1, 0>>}
          [] k = Total /\ ~IsFullBlock -> {<<w, 0>> : w \in 0 .. ActiveWarps - 1}
          [] OTHER -> {}

Own(t) == IF at[t] = Pairs THEN <<t, 0>> ELSE <<Warp(t), Lane(t)>>

Writes(t) == IF at[t] = Total THEN {} ELSE {Own(t)}

\* What the thread computes: its own value, or the fold of what it reads.
Computed(t) ==
    IF Reads(t) = {} THEN Value(t) ELSE BagFold(EmptyBag, [c \in Reads(t) |-> sm[c]])

-----------------------------------------------------------------------------
Cell == (0 .. NumWarps - 1) \X (0 .. WarpSize - 1)

ReduceInit ==
    /\ size \in Sizes
    /\ launch = "start"
    /\ left = {}
    /\ block = 0
    /\ at = <<>>
    /\ sm = <<>>
    /\ partials = [i \in 0 .. PartialsSize - 1 |-> Unwritten]
    /\ result = EmptyBag

\* One thread runs from one barrier to the next.
Step(t) ==
    /\ Ready(t)
    /\ at' = [at EXCEPT ![t] = NextWork(t, at[t] + 1)]
    /\ \/ /\ at[t] # Total
          /\ sm' = [sm EXCEPT ![Own(t)] = Computed(t)]
          /\ UNCHANGED partials
       \/ /\ at[t] = Total
          /\ partials' =
                [partials EXCEPT ![OutBase + block] =
                    IF UseInit /\ block = 0
                    THEN Computed(t) (+) InitValue
                    ELSE Computed(t)]
          /\ UNCHANGED sm
    /\ UNCHANGED <<size, launch, left, block, result>>

BlockEnds == \A t \in DOMAIN at : at[t] = Out

\* The next block of the grid begins, with shared memory nobody has written.
BeginBlock ==
    /\ launch \notin {"start", "done"}
    /\ BlockEnds
    /\ \E b \in left :
          /\ block' = b
          /\ left' = left \ {b}
    /\ at' = [t \in Thread |-> NextWork(t, Store)]
    /\ sm' = [c \in Cell |-> Unwritten]
    /\ UNCHANGED <<size, launch, partials, result>>

\* The launches in the order of __call__, and which of them have work.
Order == <<"start", "full", "partial", "finish", "done">>

HasWork(l) ==
    CASE l = "full" -> SizeFull > 0
      [] l = "partial" -> SizePartial > 0
      [] l = "finish" -> PartialsSize > 1
      [] OTHER -> TRUE

NextLaunch ==
    LET now == CHOOSE i \in DOMAIN Order : Order[i] = launch
    IN  Order[Min({i \in now + 1 .. 5 : HasWork(Order[i])})]

\* A kernel of the stream starts when the one before it has ended.
Launch ==
    /\ launch # "done"
    /\ left = {} /\ BlockEnds
    /\ NextLaunch # "done"
    /\ launch' = NextLaunch
    /\ left' = 0 .. (IF NextLaunch = "full" THEN FullBlocks ELSE 1) - 1
    /\ block' = 0
    /\ at' = <<>>
    /\ sm' = <<>>
    /\ UNCHANGED <<size, partials, result>>

\* An empty array is answered with the initial value.
Return ==
    /\ launch # "done"
    /\ left = {} /\ BlockEnds
    /\ NextLaunch = "done"
    /\ launch' = "done"
    /\ result' = IF size = 0 THEN InitValue ELSE partials[0]
    /\ at' = <<>>
    /\ sm' = <<>>
    /\ UNCHANGED <<size, left, block, partials>>

ReduceNext ==
    \/ \E t \in DOMAIN at : Step(t)
    \/ BeginBlock
    \/ Launch
    \/ Return
    \/ launch = "done" /\ UNCHANGED reduceVars

ReduceSpec == ReduceInit /\ [][ReduceNext]_reduceVars

-----------------------------------------------------------------------------
(* Properties.                                                             *)

\* In every order the threads and the blocks may run in, the call returns
\* each element of the array once and the initial value once: over the three
\* launches, the strided loop, the halving of the warps' rows, the pairing of
\* the warps and the partial results that the last launch folds in place.
Exact ==
    launch = "done" => result = SetToBag(0 .. size)

\* Two threads that may both run never touch one cell of shared memory, one
\* of them writing it: every barrier the halving and the pairing need is
\* there, so the order of two reads and writes never shows in the result.
RaceFree ==
    LET ready == {t \in DOMAIN at : Ready(t)}
    IN  \A t \in ready : \A c \in Writes(t) : \A u \in ready \ {t} :
           c \notin Reads(u) \cup Writes(u)
=============================================================================
