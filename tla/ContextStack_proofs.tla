------------------------- MODULE ContextStack_proofs -------------------------
(***************************************************************************)
(* What holds of the runtime's lock, devices and contexts, of with-blocks  *)
(* and of the contexts each thread has attached and cached, for any number *)
(* of threads, devices and contexts of other libraries and blocks nested   *)
(* to any depth.                                                           *)
(***************************************************************************)
EXTENDS ContextStack, SequenceTheorems, TLAPS

(***************************************************************************)
(* Front and Last, which are defined by SubSeq and Len.                    *)
(***************************************************************************)
LEMMA FrontLast ==
  ASSUME NEW S, NEW s \in Seq(S), s # <<>>
  PROVE  /\ Last(s) \in S
         /\ Front(s) \in Seq(S)
         /\ DOMAIN Front(s) = 1..(Len(s) - 1) /\ DOMAIN s = 1..Len(s)
         /\ Len(s) \in DOMAIN s
         /\ \A i \in DOMAIN Front(s) : i \in DOMAIN s /\ Front(s)[i] = s[i]
<1>1. Len(s) \in Nat \ {0}
  BY EmptySeq
<1> DEFINE n == Len(s) - 1
<1>2. /\ n \in Int /\ 1 \in Int /\ \A i \in 1..n : s[i] \in S
      /\ n - 1 + 1 = n /\ (IF 1 <= n THEN n - 1 + 1 ELSE 0) = n
  <2>1. n \in Nat
    BY <1>1
  <2>2. \A i \in 1..n : i \in 1..Len(s)
    BY <1>1
  <2>3. \A i \in 1..n : s[i] \in S
    BY <2>2, ElementOfSeq
  <2> HIDE DEF n
  <2> QED BY <2>1, <2>3
<1>3. /\ SubSeq(s, 1, n) \in Seq(S)
      /\ Len(SubSeq(s, 1, n)) = n
      /\ \A i \in 1..n : SubSeq(s, 1, n)[i] = s[1 + i - 1]
  <2> HIDE DEF n
  <2> QED BY <1>2, SubSeqProperties
<1>4. \A i \in 1..n : SubSeq(s, 1, n)[i] = s[i]
  BY <1>1, <1>3
<1> QED BY <1>1, <1>3, <1>4 DEF Front, Last

(***************************************************************************)
(* Types: what a call, a block and the tables of devices are made of.      *)
(***************************************************************************)
Maybe == Handle \cup {NoContext}

Ops == {"none", "api", "get", "select", "gpu", "exit"}

Points == {"idle", "lock", "list", "device", "construct", "primary", "create", "use",
           "prepare", "pop"}

Calls == [at : Points, op : Ops, dev : Device, caches : BOOLEAN, seen : Seq(Nat)]

\* A block of "with gpus[n]" has a device; an API function may have found none.
Blocks ==
  {b \in [kind : {"api", "gpu", "third"}, dev : Maybe, base : Int, caches : BOOLEAN,
          clean : BOOLEAN] :
     b.kind = "gpu" => b.dev \in Device}

\* While a call makes the device list it has not found them all.
Partial ==
  \A t \in Thread :
    IF call[t].at \in {"device", "construct"}
    THEN Len(call[t].seen) < Count
    ELSE call[t].seen = <<>>

Typed ==
  /\ stack \in [Thread -> Seq(Maybe)]
  /\ attached \in [Thread -> Maybe]
  /\ cached \in [Thread -> Maybe]
  /\ blocks \in [Thread -> Seq(Blocks)]
  /\ call \in [Thread -> Calls]
  /\ lock \in Thread \cup {NoThread}
  /\ objects \in [Device -> Nat]
  /\ lst \in Seq(Nat)
  /\ primary \in [Device -> Maybe]
  /\ made \in [Device -> Nat]
  /\ Partial

LEMMA ZeroDevice == 0 \in Device
  BY ConstantsAssumption DEF Device

LEMMA IdleType == Idle \in Calls
  BY ZeroDevice DEF Idle, Call, Calls, Points, Ops

LEMMA OwnerType == \A h \in Handle : Owner(h) \in Device
  BY ConstantsAssumption DEF Handle, Owner

LEMMA TopType ==
  ASSUME NEW s \in Seq(Maybe)
  PROVE  Top(s) \in Maybe
  BY FrontLast DEF Top, Maybe

LEMMA ActiveType ==
  ASSUME Typed, NEW t \in Thread
  PROVE  Active(t) \in Maybe
<1>1. cached[t] \in Maybe /\ stack[t] \in Seq(Maybe)
  BY DEF Typed
<1> QED BY <1>1, TopType DEF Active

\* Marking blocks as not clean changes nothing else of them.
LEMMA UncleanEffect ==
  ASSUME Typed, NEW t \in Thread, NEW kinds, Unclean(t, kinds)
  PROVE  /\ blocks' \in [Thread -> Seq(Blocks)]
         /\ \A u \in Thread :
              /\ DOMAIN blocks'[u] = DOMAIN blocks[u]
              /\ \A i \in DOMAIN blocks[u] : /\ blocks'[u][i].kind = blocks[u][i].kind
                                             /\ blocks'[u][i].dev = blocks[u][i].dev
<1> DEFINE b == blocks[t]
           new == Marked(b, kinds)
<1>1. blocks \in [Thread -> Seq(Blocks)] /\ b \in Seq(Blocks)
  BY DEF Typed
<1>2. Len(b) \in Nat /\ DOMAIN b = 1..Len(b) /\ \A i \in DOMAIN b : b[i] \in Blocks
  BY <1>1
<1>3. \A i \in DOMAIN b : /\ new[i] \in Blocks
                          /\ new[i].kind = b[i].kind /\ new[i].dev = b[i].dev
  BY <1>2 DEF Blocks, Marked
<1>4. new \in [1..Len(b) -> Blocks]
  BY <1>2, <1>3 DEF Marked
<1>5. new \in Seq(Blocks)
  BY <1>2, <1>4, SeqDef
<1>6. blocks' = [blocks EXCEPT ![t] = new]
  BY DEF Unclean
<1>7. \A u \in Thread : blocks'[u] = IF u = t THEN new ELSE blocks[u]
  BY <1>1, <1>6
<1>8. DOMAIN new = DOMAIN b
  BY DEF Marked
<1> HIDE DEF new
<1>9. blocks' \in [Thread -> Seq(Blocks)]
  BY <1>1, <1>5, <1>6
<1>10. ASSUME NEW u \in Thread
       PROVE  /\ DOMAIN blocks'[u] = DOMAIN blocks[u]
              /\ \A i \in DOMAIN blocks[u] : /\ blocks'[u][i].kind = blocks[u][i].kind
                                             /\ blocks'[u][i].dev = blocks[u][i].dev
  <2>1. CASE u = t
    BY <2>1, <1>3, <1>7, <1>8
  <2>2. CASE u # t
    BY <2>2, <1>7
  <2> QED BY <2>1, <2>2
<1> QED BY <1>9, <1>10

LEMMA GotoEffect ==
  ASSUME Typed, NEW t \in Thread, NEW l \in Points, Goto(t, l)
  PROVE  /\ call' \in [Thread -> Calls]
         /\ call'[t].at = l /\ call'[t].op = call[t].op /\ call'[t].dev = call[t].dev
         /\ call'[t].seen = call[t].seen
         /\ \A u \in Thread \ {t} : call'[u] = call[u]
  BY DEF Typed, Goto, Calls

LEMMA RaiseEffect ==
  ASSUME Typed, NEW t \in Thread, Raise(t)
  PROVE  /\ call' \in [Thread -> Calls]
         /\ call'[t] = Idle
         /\ \A u \in Thread \ {t} : call'[u] = call[u]
         /\ lock' = IF lock = t THEN NoThread ELSE lock
         /\ cached' \in [Thread -> Maybe]
<1>1. call' = [call EXCEPT ![t] = Idle] /\ call \in [Thread -> Calls]
  BY DEF Raise, Typed
<1>2. cached' \in [Thread -> Maybe]
  BY DEF Raise, Typed, Maybe
<1> QED BY <1>1, <1>2, IdleType DEF Raise

\* A context of the device, or another, goes on a thread's stack, or off it.
LEMMA PushType ==
  ASSUME Typed, NEW t \in Thread, NEW h \in Maybe
  PROVE  [stack EXCEPT ![t] = Append(@, h)] \in [Thread -> Seq(Maybe)]
  BY AppendProperties DEF Typed

LEMMA PopType ==
  ASSUME Typed, NEW t \in Thread, stack[t] # <<>>
  PROVE  [stack EXCEPT ![t] = Front(@)] \in [Thread -> Seq(Maybe)]
<1>1. stack \in [Thread -> Seq(Maybe)]
  BY DEF Typed
<1>2. Front(stack[t]) \in Seq(Maybe)
  BY <1>1, FrontLast
<1> QED BY <1>1, <1>2

\* Entering a block adds it to the thread's blocks, leaving takes the last away.
LEMMA EnterEffect ==
  ASSUME Typed, NEW t \in Thread, NEW b \in Blocks, Enter(t, b)
  PROVE  /\ blocks' \in [Thread -> Seq(Blocks)]
         /\ \A u \in Thread : \A i \in DOMAIN blocks'[u] :
              \/ i \in DOMAIN blocks[u] /\ blocks'[u][i] = blocks[u][i]
              \/ u = t /\ blocks'[u][i] = b
<1> DEFINE s == blocks[t]
<1>1. blocks \in [Thread -> Seq(Blocks)] /\ s \in Seq(Blocks)
  BY DEF Typed
<1>2. blocks' = [blocks EXCEPT ![t] = Append(s, b)]
  BY DEF Enter
<1>3. /\ Append(s, b) \in Seq(Blocks) /\ Len(s) \in Nat
      /\ DOMAIN s = 1..Len(s) /\ DOMAIN Append(s, b) = 1..(Len(s) + 1)
      /\ Append(s, b)[Len(s) + 1] = b
      /\ \A i \in 1..Len(s) : Append(s, b)[i] = s[i]
  BY <1>1, AppendProperties
<1>4. \A u \in Thread : blocks'[u] = IF u = t THEN Append(s, b) ELSE blocks[u]
  BY <1>1, <1>2
<1>5. blocks' \in [Thread -> Seq(Blocks)]
  BY <1>1, <1>2, <1>3
<1>6. \A i \in 1..(Len(s) + 1) : i \in 1..Len(s) \/ i = Len(s) + 1
  BY <1>3
<1>7. \A i \in DOMAIN Append(s, b) :
        \/ i \in DOMAIN s /\ Append(s, b)[i] = s[i]
        \/ Append(s, b)[i] = b
  BY <1>3, <1>6
<1> QED BY <1>4, <1>5, <1>7

LEMMA LeaveEffect ==
  ASSUME Typed, NEW t \in Thread, blocks[t] # <<>>, Leave(t)
  PROVE  /\ blocks' \in [Thread -> Seq(Blocks)]
         /\ \A u \in Thread : \A i \in DOMAIN blocks'[u] :
              i \in DOMAIN blocks[u] /\ blocks'[u][i] = blocks[u][i]
         /\ \A u \in Thread \ {t} : blocks'[u] = blocks[u]
<1> DEFINE s == blocks[t]
<1>1. blocks \in [Thread -> Seq(Blocks)] /\ s \in Seq(Blocks) /\ s # <<>>
  BY DEF Typed
<1>2. blocks' = [blocks EXCEPT ![t] = Front(s)]
  BY DEF Leave
<1>3. /\ Front(s) \in Seq(Blocks)
      /\ \A i \in DOMAIN Front(s) : i \in DOMAIN s /\ Front(s)[i] = s[i]
  BY <1>1, FrontLast
<1>4. \A u \in Thread : blocks'[u] = IF u = t THEN Front(s) ELSE blocks[u]
  BY <1>1, <1>2
<1>5. blocks' \in [Thread -> Seq(Blocks)]
  BY <1>1, <1>2, <1>3
<1> QED BY <1>3, <1>4, <1>5

(***************************************************************************)
(* Types are kept by every action.                                         *)
(***************************************************************************)
LEMMA ListedPoint == \A t \in Thread : Listed(t) \in Points
  BY DEF Listed, Points

LEMMA GotPrimaryPoint ==
  ASSUME Typed, NEW t \in Thread, GotPrimary(t)
  PROVE  /\ call' \in [Thread -> Calls]
         /\ call'[t].at = IF call[t].op = "exit" THEN "pop" ELSE "use"
         /\ call'[t].op = call[t].op /\ call'[t].dev = call[t].dev
         /\ call'[t].seen = call[t].seen
         /\ \A u \in Thread \ {t} : call'[u] = call[u]
<1> DEFINE l == IF call[t].op = "exit" THEN "pop" ELSE "use"
<1>1. l \in Points /\ Goto(t, l)
  BY DEF GotPrimary, Points
<1> HIDE DEF l
<1>2. QED BY <1>1, GotoEffect DEF l

\* The device that a call without a number is for.
LEMMA LockedEffect ==
  ASSUME Typed, NEW t \in Thread, Locked(t)
  PROVE  /\ call' \in [Thread -> Calls]
         /\ call'[t].at = "list" /\ call'[t].op = call[t].op
         /\ call'[t].seen = call[t].seen
         /\ \A u \in Thread \ {t} : call'[u] = call[u]
<1> DEFINE d == IF call[t].op \in {"api", "get"}
                THEN IF Active(t) = NoContext THEN 0 ELSE Owner(Active(t))
                ELSE call[t].dev
<1>1. call[t].dev \in Device /\ 0 \in Device
  BY ZeroDevice DEF Typed, Calls
<1>2. Active(t) # NoContext => Owner(Active(t)) \in Device
  BY ActiveType, OwnerType DEF Maybe
<1>3. d \in Device
  BY <1>1, <1>2
<1>4. call' = [call EXCEPT ![t].at = "list", ![t].dev = d]
  BY DEF Locked
<1> HIDE DEF d
<1>5. call \in [Thread -> Calls]
  BY DEF Typed
<1>6. [call[t] EXCEPT !.at = "list", !.dev = d] \in Calls
  BY <1>3, <1>5 DEF Calls, Points
<1> QED BY <1>3, <1>4, <1>5, <1>6 DEF Calls

\* What finding one more Device object does to the call and the list.
LEMMA FoundEffect ==
  ASSUME Typed, NEW t \in Thread, NEW object \in Nat, Found(t, object)
  PROVE  LET seen == Append(call[t].seen, object)
             done == Len(seen) = Count
         IN  /\ call' \in [Thread -> Calls]
             /\ lst' \in Seq(Nat)
             /\ lst' = IF done THEN seen ELSE lst
             /\ call'[t].at = IF done THEN Listed(t) ELSE "device"
             /\ call'[t].op = call[t].op /\ call'[t].dev = call[t].dev
             /\ call'[t].seen = IF done THEN <<>> ELSE seen
             /\ \A u \in Thread \ {t} : call'[u] = call[u]
<1> DEFINE seen == Append(call[t].seen, object)
           done == Len(seen) = Count
           l    == IF done THEN Listed(t) ELSE "device"
           s    == IF done THEN <<>> ELSE seen
<1>1. call \in [Thread -> Calls] /\ call[t].seen \in Seq(Nat) /\ lst \in Seq(Nat)
  BY DEF Typed, Calls
<1>2. seen \in Seq(Nat) /\ s \in Seq(Nat)
  BY <1>1, AppendProperties
<1>3. l \in Points
  BY ListedPoint DEF Points
<1>4. call' = [call EXCEPT ![t].at = l, ![t].seen = s] /\ lst' = IF done THEN seen ELSE lst
  BY DEF Found
<1> HIDE DEF seen, l, s, done
<1>5. /\ call' \in [Thread -> Calls]
      /\ call'[t].at = l /\ call'[t].seen = s
      /\ call'[t].op = call[t].op /\ call'[t].dev = call[t].dev
      /\ \A u \in Thread \ {t} : call'[u] = call[u]
  BY <1>1, <1>2, <1>3, <1>4 DEF Calls
<1> QED BY <1>1, <1>2, <1>4, <1>5 DEF seen, l, s, done

\* A new call, and what the moves of a call mean for the list it makes.
LEMMA BeginEffect ==
  ASSUME Typed, NEW t \in Thread, NEW l \in {"lock", "list", "primary"},
         NEW op \in Ops, NEW d \in Device, NEW c \in BOOLEAN,
         call' = [call EXCEPT ![t] = Call(l, op, d, c)]
  PROVE  /\ call' \in [Thread -> Calls]
         /\ call'[t].at = l /\ call'[t].op = op /\ call'[t].dev = d
         /\ call'[t].seen = <<>>
         /\ \A u \in Thread \ {t} : call'[u] = call[u]
<1>1. Call(l, op, d, c) \in Calls
  BY DEF Call, Calls, Points
<1>2. call \in [Thread -> Calls]
  BY DEF Typed
<1>3. call'[t] = Call(l, op, d, c)
  BY <1>2
<1> QED BY <1>1, <1>2, <1>3 DEF Call

LEMMA OffListPartial ==
  ASSUME Typed, NEW t \in Thread, call'[t].seen = <<>>,
         call'[t].at \notin {"device", "construct"},
         \A u \in Thread \ {t} : call'[u] = call[u]
  PROVE  Partial'
  BY DEF Typed, Partial

LEMMA BlockType ==
  ASSUME NEW k \in {"api", "gpu", "third"}, NEW d \in Maybe, NEW b \in Int, NEW c \in BOOLEAN,
         k = "gpu" => d \in Device
  PROVE  Block(k, d, b, c) \in Blocks
  BY DEF Block, Blocks

LEMMA StackHeight ==
  ASSUME Typed, NEW t \in Thread
  PROVE  Len(stack[t]) \in Int /\ Len(stack[t]) - 1 \in Int
<1>1. Len(stack[t]) \in Nat
  BY LenProperties DEF Typed
<1> QED BY <1>1

LEMMA TypeAsk ==
  ASSUME Typed, NEW t \in Thread, Ask(t)
  PROVE  Typed'
<1> USE DEF threadVars, deviceVars
<1>1. CASE BeginApi(t)
  <2> DEFINE caches == cached[t] = NoContext /\ stack[t] # <<>>
  <2>1. cached' \in [Thread -> Maybe]
    <3>1. Top(stack[t]) \in Maybe
      BY TopType DEF Typed
    <3> QED BY <1>1, <3>1 DEF BeginApi, Typed
  <2>2. /\ blocks' \in [Thread -> Seq(Blocks)] /\ call' \in [Thread -> Calls]
        /\ Partial'
    <3>1. CASE Enter(t, Block("api", attached[t], Len(stack[t]), caches)) /\ UNCHANGED call
      <4>1. Block("api", attached[t], Len(stack[t]), caches) \in Blocks
        BY StackHeight, BlockType DEF Typed
      <4> QED BY <3>1, <4>1, EnterEffect DEF Typed, Partial
    <3>2. CASE call' = [call EXCEPT ![t] = Call("lock", "api", 0, caches)] /\ UNCHANGED blocks
      <4> HIDE DEF caches
      <4>1. caches \in BOOLEAN
        BY DEF caches
      <4>2. "api" \in Ops
        BY DEF Ops
      <4>3. /\ call' \in [Thread -> Calls] /\ call'[t].at = "lock" /\ call'[t].seen = <<>>
            /\ \A u \in Thread \ {t} : call'[u] = call[u]
        BY <3>2, <4>1, <4>2, ZeroDevice, BeginEffect
      <4> QED BY <3>2, <4>3, OffListPartial DEF Typed
    <3> QED BY <1>1, <3>1, <3>2 DEF BeginApi
  <2> QED BY <1>1, <2>1, <2>2 DEF BeginApi, Typed
<1>2. CASE EndApi(t)
  <2>1. blocks[t] # <<>> /\ Leave(t)
    BY <1>2 DEF EndApi, Innermost
  <2>2. blocks' \in [Thread -> Seq(Blocks)]
    BY <2>1, LeaveEffect
  <2>3. Last(blocks[t]) \in Blocks
    BY <2>1, FrontLast DEF Typed
  <2>4. attached' \in [Thread -> Maybe] /\ cached' \in [Thread -> Maybe]
    BY <1>2, <2>3 DEF EndApi, Typed, Blocks, Maybe
  <2> QED BY <1>2, <2>2, <2>4 DEF EndApi, Typed, Partial
<1>3. CASE GetContext(t)
  <2>1. "get" \in Ops
    BY DEF Ops
  <2>2. /\ call' \in [Thread -> Calls] /\ call'[t].at = "lock" /\ call'[t].seen = <<>>
        /\ \A u \in Thread \ {t} : call'[u] = call[u]
    BY <1>3, <2>1, ZeroDevice, BeginEffect DEF GetContext
  <2> QED BY <1>3, <2>2, OffListPartial DEF GetContext, Typed
<1>4. ASSUME NEW d \in Device, SelectDevice(t, d)
      PROVE  Typed'
  <2>1. "select" \in Ops
    BY DEF Ops
  <2>2. /\ call' \in [Thread -> Calls] /\ call'[t].at = "lock" /\ call'[t].seen = <<>>
        /\ \A u \in Thread \ {t} : call'[u] = call[u]
    BY <1>4, <2>1, BeginEffect DEF SelectDevice
  <2> QED BY <1>4, <2>2, OffListPartial DEF SelectDevice, Typed
<1>5. ASSUME NEW d \in Device, BeginGpu(t, d)
      PROVE  Typed'
  <2>1. "gpu" \in Ops
    BY DEF Ops
  <2>2. /\ call' \in [Thread -> Calls] /\ call'[t].at = "list" /\ call'[t].seen = <<>>
        /\ \A u \in Thread \ {t} : call'[u] = call[u]
    BY <1>5, <2>1, BeginEffect DEF BeginGpu
  <2> QED BY <1>5, <2>2, OffListPartial DEF BeginGpu, Typed
<1>6. CASE EndGpu(t)
  <2>1. blocks[t] # <<>> /\ Last(blocks[t]).kind = "gpu"
    BY <1>6 DEF EndGpu, Innermost
  <2>2. Last(blocks[t]).dev \in Device
    <3>1. Last(blocks[t]) \in Blocks
      BY <2>1, FrontLast DEF Typed
    <3> QED BY <2>1, <3>1 DEF Blocks
  <2>3. "exit" \in Ops
    BY DEF Ops
  <2>4. /\ call' \in [Thread -> Calls] /\ call'[t].at = "primary" /\ call'[t].seen = <<>>
        /\ \A u \in Thread \ {t} : call'[u] = call[u]
    BY <1>6, <2>2, <2>3, BeginEffect DEF EndGpu
  <2> QED BY <1>6, <2>4, OffListPartial DEF EndGpu, Typed
<1>7. ASSUME NEW h \in Handle, ThirdPush(t, h)
      PROVE  Typed'
  <2>1. h \in Maybe
    BY DEF Maybe
  <2>2. Block("third", h, Len(stack[t]), FALSE) \in Blocks
    BY <2>1, StackHeight, BlockType
  <2>3. blocks' \in [Thread -> Seq(Blocks)]
    BY <1>7, <2>2, EnterEffect DEF ThirdPush
  <2>4. stack' \in [Thread -> Seq(Maybe)]
    BY <1>7, <2>1, PushType DEF ThirdPush
  <2> QED BY <1>7, <2>3, <2>4 DEF ThirdPush, Typed, Partial
<1>8. CASE ThirdPop(t)
  <2>1. blocks[t] # <<>> /\ Leave(t)
    BY <1>8 DEF ThirdPop, Innermost
  <2>2. blocks' \in [Thread -> Seq(Blocks)]
    BY <2>1, LeaveEffect
  <2>3. stack' \in [Thread -> Seq(Maybe)]
    BY <1>8, PopType DEF ThirdPop, Typed
  <2> QED BY <1>8, <2>2, <2>3 DEF ThirdPop, Typed, Partial
<1>9. CASE Reset(t)
  <2>1. blocks' \in [Thread -> Seq(Blocks)]
    BY <1>9, UncleanEffect DEF Reset, Disturb
  <2>2. stack' \in [Thread -> Seq(Maybe)]
    BY <1>9, EmptySeq DEF Reset, Typed
  <2> QED BY <1>9, <2>1, <2>2 DEF Reset, Typed, Partial
<1> QED BY <1>1, <1>2, <1>3, <1>4, <1>5, <1>6, <1>7, <1>8, <1>9 DEF Ask

\* Going on to a point outside the making of the list, from such a point.
LEMMA GotoPartial ==
  ASSUME Typed, NEW t \in Thread, NEW l \in Points, Goto(t, l),
         call[t].at \notin {"device", "construct"}, l \notin {"device", "construct"}
  PROVE  call' \in [Thread -> Calls] /\ Partial'
<1>1. /\ call' \in [Thread -> Calls]
      /\ call'[t].at = l /\ call'[t].seen = call[t].seen
      /\ \A u \in Thread \ {t} : call'[u] = call[u]
  BY GotoEffect
<1>2. call[t].seen = <<>>
  BY DEF Typed, Partial
<1> QED BY <1>1, <1>2, OffListPartial

LEMMA RaisePartial ==
  ASSUME Typed, NEW t \in Thread, Raise(t)
  PROVE  /\ call' \in [Thread -> Calls] /\ cached' \in [Thread -> Maybe]
         /\ lock' \in Thread \cup {NoThread}
         /\ Partial'
<1>1. /\ call' \in [Thread -> Calls] /\ call'[t] = Idle
      /\ \A u \in Thread \ {t} : call'[u] = call[u]
      /\ lock' = IF lock = t THEN NoThread ELSE lock
      /\ cached' \in [Thread -> Maybe]
  BY RaiseEffect
<1>2. Idle.seen = <<>> /\ Idle.at = "idle"
  BY DEF Idle, Call
<1>3. Partial'
  BY <1>1, <1>2, OffListPartial
<1> QED BY <1>1, <1>3 DEF Typed

LEMMA FoundPartial ==
  ASSUME Typed, NEW t \in Thread, NEW object \in Nat, Found(t, object),
         call[t].at \in {"device", "construct"}
  PROVE  call' \in [Thread -> Calls] /\ lst' \in Seq(Nat) /\ Partial'
<1> DEFINE seen == Append(call[t].seen, object)
           done == Len(seen) = Count
<1>1. /\ call' \in [Thread -> Calls] /\ lst' \in Seq(Nat)
      /\ call'[t].at = IF done THEN Listed(t) ELSE "device"
      /\ call'[t].seen = IF done THEN <<>> ELSE seen
      /\ \A u \in Thread \ {t} : call'[u] = call[u]
  BY FoundEffect
<1>2. call[t].seen \in Seq(Nat) /\ Len(call[t].seen) < Count
  BY DEF Typed, Calls, Partial
<1>3. Len(seen) = Len(call[t].seen) + 1 /\ Len(call[t].seen) \in Nat
  BY <1>2, AppendProperties, LenProperties
<1>4. Count \in Nat
  BY ConstantsAssumption
<1>5. done \/ Len(seen) < Count
  BY <1>2, <1>3, <1>4
<1>6. Listed(t) \notin {"device", "construct"}
  BY DEF Listed
<1> HIDE DEF seen, done
<1>7. CASE done
  BY <1>1, <1>6, <1>7, OffListPartial
<1>8. CASE ~done
  BY <1>1, <1>5, <1>8 DEF Typed, Partial
<1> QED BY <1>1, <1>7, <1>8

\* The device that is looked for next.
LEMMA NextDevice ==
  ASSUME Typed, NEW t \in Thread, call[t].at \in {"device", "construct"}
  PROVE  /\ Len(call[t].seen) \in Device
         /\ objects[Len(call[t].seen)] \in Nat
<1>1. call[t].seen \in Seq(Nat) /\ Len(call[t].seen) < Count
  BY DEF Typed, Calls, Partial
<1>2. Len(call[t].seen) \in Nat /\ Count \in Nat
  BY <1>1, LenProperties, ConstantsAssumption
<1>3. Len(call[t].seen) \in Device
  BY <1>1, <1>2 DEF Device
<1> QED BY <1>3 DEF Typed

LEMMA TypeProceed ==
  ASSUME Typed, NEW t \in Thread, Proceed(t),
         call[t].at = "pop" => blocks[t] # <<>>
  PROVE  Typed'
<1> USE DEF threadVars, deviceVars
<1>0. call[t].dev \in Device /\ primary[call[t].dev] \in Maybe
  BY DEF Typed, Calls
<1>1. CASE TakeLock(t)
  <2>1. /\ call' \in [Thread -> Calls] /\ call'[t].at = "list" /\ call'[t].seen = call[t].seen
        /\ \A u \in Thread \ {t} : call'[u] = call[u]
    BY <1>1, LockedEffect DEF TakeLock
  <2>2. call[t].seen = <<>>
    BY <1>1 DEF TakeLock, Typed, Partial
  <2> QED BY <1>1, <2>1, <2>2, OffListPartial DEF TakeLock, Typed
<1>2. CASE LookUpList(t)
  <2>1. CASE lst # NoList
    <3>1. Listed(t) \in Points /\ Listed(t) \notin {"device", "construct"}
      BY DEF Listed, Points
    <3> QED BY <1>2, <2>1, <3>1, GotoPartial DEF LookUpList, Typed
  <2>2. CASE lst = NoList
    <3>1. "device" \in Points
      BY DEF Points
    <3>2. /\ call' \in [Thread -> Calls]
          /\ call'[t].at = "device" /\ call'[t].seen = call[t].seen
          /\ \A u \in Thread \ {t} : call'[u] = call[u]
      BY <1>2, <2>2, <3>1, GotoEffect DEF LookUpList
    <3>3. call[t].seen = <<>>
      BY <1>2 DEF LookUpList, Typed, Partial
    <3>4. Len(<<>>) < Count
      BY ConstantsAssumption
    <3> QED BY <1>2, <3>2, <3>3, <3>4 DEF LookUpList, Typed, Partial
  <2> QED BY <2>1, <2>2
<1>3. CASE LookUpDevice(t)
  <2>1. CASE Goto(t, "construct") /\ UNCHANGED lst
    <3>1. "construct" \in Points
      BY DEF Points
    <3>2. /\ call' \in [Thread -> Calls]
          /\ call'[t].at = "construct" /\ call'[t].seen = call[t].seen
          /\ \A u \in Thread \ {t} : call'[u] = call[u]
      BY <2>1, <3>1, GotoEffect
    <3> QED BY <1>3, <2>1, <3>2 DEF LookUpDevice, Typed, Partial
  <2>2. CASE Found(t, objects[Len(call[t].seen)])
    <3>1. call' \in [Thread -> Calls] /\ lst' \in Seq(Nat) /\ Partial'
      BY <1>3, <2>2, NextDevice, FoundPartial DEF LookUpDevice
    <3> QED BY <1>3, <3>1 DEF LookUpDevice, Typed
  <2> QED BY <1>3, <2>1, <2>2 DEF LookUpDevice
<1>4. CASE StoreDevice(t)
  <2> DEFINE n == Len(call[t].seen)
  <2>1. CASE objects' = [objects EXCEPT ![n] = 1] /\ Found(t, 1) /\ UNCHANGED <<cached, lock>>
    <3>1. call' \in [Thread -> Calls] /\ lst' \in Seq(Nat) /\ Partial'
      BY <1>4, <2>1, FoundPartial DEF StoreDevice
    <3>2. objects' \in [Device -> Nat]
      BY <2>1 DEF Typed
    <3> QED BY <1>4, <2>1, <3>1, <3>2 DEF StoreDevice, Typed
  <2>2. CASE Raise(t) /\ UNCHANGED <<objects, lst>>
    BY <1>4, <2>2, RaisePartial DEF StoreDevice, Typed
  <2> QED BY <1>4, <2>1, <2>2 DEF StoreDevice
<1>5. CASE LookUpPrimary(t)
  <2>1. CASE primary[call[t].dev] # NoContext
    <3>1. /\ call' \in [Thread -> Calls] /\ call'[t].at \notin {"device", "construct"}
          /\ call'[t].seen = call[t].seen
          /\ \A u \in Thread \ {t} : call'[u] = call[u]
      BY <1>5, <2>1, GotPrimaryPoint DEF LookUpPrimary
    <3>2. call[t].seen = <<>>
      BY <1>5 DEF LookUpPrimary, Typed, Partial
    <3> QED BY <1>5, <3>1, <3>2, OffListPartial DEF LookUpPrimary, Typed
  <2>2. CASE primary[call[t].dev] = NoContext
    <3>1. "create" \in Points
      BY DEF Points
    <3> QED BY <1>5, <2>2, <3>1, GotoPartial DEF LookUpPrimary, Typed
  <2> QED BY <2>1, <2>2
<1>6. CASE Create(t)
  <2>1. /\ call' \in [Thread -> Calls] /\ call'[t].at \notin {"device", "construct"}
        /\ call'[t].seen = call[t].seen
        /\ \A u \in Thread \ {t} : call'[u] = call[u]
    BY <1>6, GotPrimaryPoint DEF Create
  <2>2. call[t].seen = <<>>
    BY <1>6 DEF Create, Typed, Partial
  <2>3. PICK h \in Current(t, call[t].dev) : KeepContext(call[t].dev, h)
    BY <1>6 DEF Create
  <2>4. h \in Maybe
    BY <1>0, TopType DEF Current, Typed, Maybe, Handle
  <2>5. primary' \in [Device -> Maybe] /\ made' \in [Device -> Nat]
    <3>1. primary \in [Device -> Maybe] /\ made \in [Device -> Nat]
      BY DEF Typed
    <3>2. made[call[t].dev] + 1 \in Nat
      BY <1>0, <3>1
    <3> QED BY <2>3, <2>4, <3>1, <3>2 DEF KeepContext
  <2> QED BY <1>6, <2>1, <2>2, <2>5, OffListPartial DEF Create, Typed
<1>7. CASE CreateFails(t)
  <2>1. stack' \in [Thread -> Seq(Maybe)] /\ blocks' \in [Thread -> Seq(Blocks)]
    <3>1. CASE UNCHANGED <<stack, blocks>>
      BY <3>1 DEF Typed
    <3>2. CASE stack' = [stack EXCEPT ![t] = Append(@, call[t].dev)] /\ Spill(t)
      <4>1. call[t].dev \in Maybe
        BY <1>0 DEF Maybe, Handle
      <4> QED BY <3>2, <4>1, PushType, UncleanEffect DEF Spill
    <3> QED BY <1>7, <3>1, <3>2 DEF CreateFails
  <2> QED BY <1>7, <2>1, RaisePartial DEF CreateFails, Typed
<1>8. CASE Adopt(t)
  <2>1. CASE Goto(t, "prepare") /\ UNCHANGED <<cached, lock>>
    <3>1. "prepare" \in Points
      BY DEF Points
    <3> QED BY <1>8, <2>1, <3>1, GotoPartial DEF Adopt, Typed
  <2>2. CASE Raise(t)
    BY <1>8, <2>2, RaisePartial DEF Adopt, Typed
  <2> QED BY <1>8, <2>1, <2>2 DEF Adopt
<1>9. CASE Push(t)
  <2>1. CASE /\ stack' = [stack EXCEPT ![t] = Append(@, primary[call[t].dev])]
             /\ Goto(t, "prepare")
             /\ UNCHANGED <<cached, lock>>
    <3>1. "prepare" \in Points
      BY DEF Points
    <3>2. stack' \in [Thread -> Seq(Maybe)]
      BY <1>0, <2>1, PushType
    <3> QED BY <1>9, <2>1, <3>1, <3>2, GotoPartial DEF Push, Typed
  <2>2. CASE Raise(t) /\ UNCHANGED stack
    BY <1>9, <2>2, RaisePartial DEF Push, Typed
  <2> QED BY <1>9, <2>1, <2>2 DEF Push
<1>10. CASE Prepare(t)
  <2>1. /\ call' \in [Thread -> Calls] /\ Partial'
    <3>1. /\ call' \in [Thread -> Calls] /\ call'[t] = Idle
          /\ \A u \in Thread \ {t} : call'[u] = call[u]
      BY <1>10, IdleType DEF Prepare, Typed
    <3>2. Idle.seen = <<>> /\ Idle.at = "idle"
      BY DEF Idle, Call
    <3> QED BY <3>1, <3>2, OffListPartial
  <2>2. attached' \in [Thread -> Maybe] /\ blocks' \in [Thread -> Seq(Blocks)]
    <3>1. CASE /\ attached' = [attached EXCEPT ![t] = call[t].dev]
               /\ Enter(t, Block("api", NoContext, Len(stack[t]), call[t].caches))
      <4>1. NoContext \in Maybe /\ call[t].dev \in Maybe /\ call[t].caches \in BOOLEAN
        BY <1>0 DEF Maybe, Handle, Typed, Calls
      <4>2. Block("api", NoContext, Len(stack[t]), call[t].caches) \in Blocks
        BY <4>1, StackHeight, BlockType
      <4> QED BY <3>1, <4>1, <4>2, EnterEffect DEF Typed
    <3>2. CASE Enter(t, Block("gpu", call[t].dev, Len(stack[t]) - 1, FALSE)) /\ UNCHANGED attached
      <4>1. call[t].dev \in Maybe
        BY <1>0 DEF Maybe, Handle
      <4>2. Block("gpu", call[t].dev, Len(stack[t]) - 1, FALSE) \in Blocks
        BY <1>0, <4>1, StackHeight, BlockType
      <4> QED BY <3>2, <4>2, EnterEffect DEF Typed
    <3>3. CASE Disturb(t) /\ UNCHANGED attached
      BY <3>3, UncleanEffect DEF Disturb, Typed
    <3> QED BY <1>10, <3>1, <3>2, <3>3 DEF Prepare
  <2> QED BY <1>10, <2>1, <2>2 DEF Prepare, Typed
<1>11. CASE PrepareFails(t)
  <2>1. blocks' \in [Thread -> Seq(Blocks)]
    BY <1>11, UncleanEffect DEF PrepareFails, Spill
  <2> QED BY <1>11, <2>1, RaisePartial DEF PrepareFails, Typed
<1>12. CASE Pop(t)
  <2>1. /\ call' \in [Thread -> Calls] /\ Partial'
    <3>1. /\ call' \in [Thread -> Calls] /\ call'[t] = Idle
          /\ \A u \in Thread \ {t} : call'[u] = call[u]
      BY <1>12, IdleType DEF Pop, Typed
    <3>2. Idle.seen = <<>> /\ Idle.at = "idle"
      BY DEF Idle, Call
    <3> QED BY <3>1, <3>2, OffListPartial
  <2>2. blocks' \in [Thread -> Seq(Blocks)]
    BY <1>12, LeaveEffect DEF Pop
  <2>3. stack' \in [Thread -> Seq(Maybe)]
    BY <1>12, PopType DEF Pop, Typed
  <2> QED BY <1>12, <2>1, <2>2, <2>3 DEF Pop, Typed
<1> QED BY <1>1, <1>2, <1>3, <1>4, <1>5, <1>6, <1>7, <1>8, <1>9, <1>10, <1>11, <1>12
        DEF Proceed

LEMMA TypeResetAll ==
  ASSUME Typed, ResetAll
  PROVE  Typed'
<1>1. PICK n \in 0..Count :
        LET gone == {d \in Device : d < n}
        IN  /\ primary' = [d \in Device |-> IF d \in gone THEN NoContext ELSE primary[d]]
            /\ made' = [d \in Device |-> IF d \in gone THEN 0 ELSE made[d]]
  BY DEF ResetAll
<1>2. primary' \in [Device -> Maybe] /\ made' \in [Device -> Nat]
  BY <1>1 DEF Typed, Maybe
<1>3. stack' \in [Thread -> Seq(Maybe)]
  BY EmptySeq DEF ResetAll, Typed
<1> QED BY <1>2, <1>3 DEF ResetAll, Typed, Partial

(***************************************************************************)
(* Who holds the lock: a thread in the middle of a call, but not one that  *)
(* makes the device list for a with-statement, nor one that leaves such a  *)
(* block; that one only looks up a Context which is there.                 *)
(***************************************************************************)
Holding ==
  \A t \in Thread :
    /\ call[t].op = "exit" => call[t].at \in {"primary", "pop"}
    /\ call[t].at = "pop" => call[t].op = "exit"
    /\ call[t].at \in {"primary", "create", "use", "prepare"} /\ call[t].op # "exit" => lock = t
    /\ call[t].at \in {"list", "device", "construct"} /\ call[t].op # "gpu" => lock = t
    /\ lock = t => call[t].at \notin {"idle", "lock", "pop"} /\ call[t].op # "exit"

(***************************************************************************)
(* What calls and with-blocks know of a device's Context, and how many     *)
(* were made.                                                              *)
(***************************************************************************)
Counted == \A d \in Device : made[d] = IF primary[d] = NoContext THEN 0 ELSE 1

Known ==
  \A t \in Thread :
    /\ call[t].at = "create" => primary[call[t].dev] = NoContext
    /\ call[t].at \in {"use", "prepare"} \/ call[t].op = "exit"
         => primary[call[t].dev] # NoContext
    /\ call[t].op = "exit" => blocks[t] # <<>>

Entered ==
  \A t \in Thread : \A i \in DOMAIN blocks[t] :
    blocks[t][i].kind = "gpu" => primary[blocks[t][i].dev] # NoContext

IInv == Typed /\ Holding /\ Counted /\ Known /\ Entered

\* Only threads in a call change the tables of devices, and the tables are
\* all that a thread which is not in the step knows.
LEMMA OthersKnown ==
  ASSUME IInv, NEW t \in Thread, UNCHANGED primary,
         \A u \in Thread \ {t} : call'[u] = call[u] /\ blocks'[u] = blocks[u],
         call'[t].at \notin {"create", "use", "prepare"}, call'[t].op # "exit"
  PROVE  Known'
  BY DEF IInv, Known

LEMMA OthersHolding ==
  ASSUME IInv, NEW t \in Thread,
         \A u \in Thread \ {t} : call'[u] = call[u],
         lock' = lock \/ (lock = t /\ lock' = NoThread) \/ (lock = NoThread /\ lock' = t),
         /\ call'[t].op = "exit" => call'[t].at \in {"primary", "pop"}
         /\ call'[t].at = "pop" => call'[t].op = "exit"
         /\ call'[t].at \in {"primary", "create", "use", "prepare"} /\ call'[t].op # "exit"
              => lock' = t
         /\ call'[t].at \in {"list", "device", "construct"} /\ call'[t].op # "gpu" => lock' = t
         /\ lock' = t => call'[t].at \notin {"idle", "lock", "pop"} /\ call'[t].op # "exit"
  PROVE  Holding'
<1>1. NoThread \notin Thread
  BY ConstantsAssumption
<1>2. ASSUME NEW u \in Thread, u # t
      PROVE  call'[u] = call[u] /\ (lock' = u <=> lock = u)
  BY <1>1, <1>2
<1> QED BY <1>2 DEF IInv, Holding

LEMMA EnteredEnter ==
  ASSUME IInv, NEW t \in Thread, NEW b \in Blocks, Enter(t, b), UNCHANGED primary,
         b.kind = "gpu" => primary[b.dev] # NoContext
  PROVE  Entered'
<1>1. \A u \in Thread : \A i \in DOMAIN blocks'[u] :
        \/ i \in DOMAIN blocks[u] /\ blocks'[u][i] = blocks[u][i]
        \/ u = t /\ blocks'[u][i] = b
  BY EnterEffect DEF IInv
<1> QED BY <1>1 DEF IInv, Entered

LEMMA EnteredLeave ==
  ASSUME IInv, NEW t \in Thread, blocks[t] # <<>>, Leave(t), UNCHANGED primary
  PROVE  Entered'
<1>1. \A u \in Thread : \A i \in DOMAIN blocks'[u] :
        i \in DOMAIN blocks[u] /\ blocks'[u][i] = blocks[u][i]
  BY LeaveEffect DEF IInv
<1> QED BY <1>1 DEF IInv, Entered

LEMMA EnteredUnclean ==
  ASSUME IInv, NEW t \in Thread, NEW kinds, Unclean(t, kinds), UNCHANGED primary
  PROVE  Entered'
<1>1. \A u \in Thread :
        /\ DOMAIN blocks'[u] = DOMAIN blocks[u]
        /\ \A i \in DOMAIN blocks[u] : /\ blocks'[u][i].kind = blocks[u][i].kind
                                       /\ blocks'[u][i].dev = blocks[u][i].dev
  BY UncleanEffect DEF IInv
<1> QED BY <1>1 DEF IInv, Entered

\* The blocks of other threads stay as they are.
LEMMA OtherBlocks ==
  ASSUME Typed, NEW t \in Thread,
         \/ UNCHANGED blocks
         \/ \E b : Enter(t, b)
         \/ Leave(t)
         \/ \E kinds : Unclean(t, kinds)
  PROVE  \A u \in Thread \ {t} : blocks'[u] = blocks[u]
  BY DEF Typed, Enter, Leave, Unclean

\* A step after which the thread is in no call, or where it was.
LEMMA RestStep ==
  ASSUME IInv, NEW t \in Thread, call[t] = Idle, UNCHANGED <<call, lock, primary, made>>,
         \/ UNCHANGED blocks
         \/ \E b : Enter(t, b)
         \/ Leave(t)
         \/ \E kinds : Unclean(t, kinds)
  PROVE  Holding' /\ Counted' /\ Known'
<1>1. Idle.op = "none" /\ Idle.at = "idle"
  BY DEF Idle, Call
<1>2. \A u \in Thread \ {t} : call'[u] = call[u] /\ blocks'[u] = blocks[u]
  BY OtherBlocks DEF IInv
<1>3. Known'
  BY <1>1, <1>2, OthersKnown
<1> QED BY <1>3 DEF IInv, Holding, Counted

\* The step that begins a call.
LEMMA BeginStep ==
  ASSUME IInv, NEW t \in Thread, call[t] = Idle, UNCHANGED <<blocks, lock, primary, made>>,
         NEW l \in {"lock", "list", "primary"}, NEW op \in Ops, NEW d \in Device,
         NEW c \in BOOLEAN,
         call' = [call EXCEPT ![t] = Call(l, op, d, c)],
         \/ l = "lock" /\ op # "exit"
         \/ l = "list" /\ op = "gpu"
         \/ l = "primary" /\ op = "exit" /\ primary[d] # NoContext /\ blocks[t] # <<>>
  PROVE  Holding' /\ Counted' /\ Known' /\ Entered'
<1>1. Idle.op = "none" /\ Idle.at = "idle"
  BY DEF Idle, Call
<1>2. /\ call'[t].at = l /\ call'[t].op = op /\ call'[t].dev = d
      /\ \A u \in Thread \ {t} : call'[u] = call[u]
  <2>1. Call(l, op, d, c) = [at |-> l, op |-> op, dev |-> d, caches |-> c, seen |-> <<>>]
    BY DEF Call
  <2>2. call \in [Thread -> Calls]
    BY DEF IInv, Typed
  <2> QED BY <2>1, <2>2
<1>3. lock # t
  BY <1>1 DEF IInv, Holding
<1>4. Holding'
  BY <1>2, <1>3, OthersHolding
<1>5. Known'
  BY <1>2 DEF IInv, Known
<1> QED BY <1>4, <1>5 DEF IInv, Counted, Entered

LEMMA HoldAsk ==
  ASSUME IInv, NEW t \in Thread, Ask(t)
  PROVE  Holding' /\ Counted' /\ Known' /\ Entered'
<1> USE DEF threadVars, deviceVars
<1>1. CASE BeginApi(t)
  <2> DEFINE caches == cached[t] = NoContext /\ stack[t] # <<>>
  <2>1. call[t] = Idle
    BY <1>1 DEF BeginApi, Free
  <2>2. CASE Enter(t, Block("api", attached[t], Len(stack[t]), caches)) /\ UNCHANGED call
    <3>1. Block("api", attached[t], Len(stack[t]), caches) \in Blocks
      BY StackHeight, BlockType DEF Typed, IInv
    <3>2. Block("api", attached[t], Len(stack[t]), caches).kind = "api"
      BY DEF Block
    <3>3. Entered'
      BY <1>1, <2>2, <3>1, <3>2, EnteredEnter DEF BeginApi
    <3> QED BY <1>1, <2>1, <2>2, <3>3, RestStep DEF BeginApi
  <2>3. CASE call' = [call EXCEPT ![t] = Call("lock", "api", 0, caches)] /\ UNCHANGED blocks
    <3> HIDE DEF caches
    <3>1. caches \in BOOLEAN
      BY DEF caches
    <3>2. "api" \in Ops /\ "api" # "exit"
      BY DEF Ops
    <3> QED BY <1>1, <2>1, <2>3, <3>1, <3>2, ZeroDevice, BeginStep DEF BeginApi
  <2> QED BY <1>1, <2>2, <2>3 DEF BeginApi
<1>2. CASE EndApi(t)
  <2>1. blocks[t] # <<>> /\ Leave(t) /\ call[t] = Idle
    BY <1>2 DEF EndApi, Innermost
  <2>2. Entered'
    BY <1>2, <2>1, EnteredLeave DEF EndApi
  <2> QED BY <1>2, <2>1, <2>2, RestStep DEF EndApi
<1>3. CASE GetContext(t)
  <2>1. "get" \in Ops /\ "get" # "exit"
    BY DEF Ops
  <2> QED BY <1>3, <2>1, ZeroDevice, BeginStep DEF GetContext, Free
<1>4. ASSUME NEW d \in Device, SelectDevice(t, d)
      PROVE  Holding' /\ Counted' /\ Known' /\ Entered'
  <2>1. "select" \in Ops /\ "select" # "exit"
    BY DEF Ops
  <2> QED BY <1>4, <2>1, BeginStep DEF SelectDevice, Free
<1>5. ASSUME NEW d \in Device, BeginGpu(t, d)
      PROVE  Holding' /\ Counted' /\ Known' /\ Entered'
  <2>1. "gpu" \in Ops
    BY DEF Ops
  <2> QED BY <1>5, <2>1, BeginStep DEF BeginGpu, Free
<1>6. CASE EndGpu(t)
  <2>1. blocks[t] # <<>> /\ Last(blocks[t]).kind = "gpu"
    BY <1>6 DEF EndGpu, Innermost
  <2>2. Last(blocks[t]) \in Blocks /\ Len(blocks[t]) \in DOMAIN blocks[t]
    BY <2>1, FrontLast DEF IInv, Typed
  <2>3. Last(blocks[t]).dev \in Device
    BY <2>1, <2>2 DEF Blocks
  <2>4. primary[Last(blocks[t]).dev] # NoContext
    BY <2>1, <2>2 DEF IInv, Entered, Last
  <2>5. "exit" \in Ops
    BY DEF Ops
  <2> QED BY <1>6, <2>1, <2>3, <2>4, <2>5, BeginStep DEF EndGpu
<1>7. ASSUME NEW h \in Handle, ThirdPush(t, h)
      PROVE  Holding' /\ Counted' /\ Known' /\ Entered'
  <2>1. h \in Maybe
    BY DEF Maybe
  <2>2. Block("third", h, Len(stack[t]), FALSE) \in Blocks
    BY <2>1, StackHeight, BlockType DEF IInv
  <2>3. Block("third", h, Len(stack[t]), FALSE).kind = "third"
    BY DEF Block
  <2>4. Entered'
    BY <1>7, <2>2, <2>3, EnteredEnter DEF ThirdPush
  <2> QED BY <1>7, <2>4, RestStep DEF ThirdPush, Free
<1>8. CASE ThirdPop(t)
  <2>1. blocks[t] # <<>> /\ Leave(t) /\ call[t] = Idle
    BY <1>8 DEF ThirdPop, Innermost
  <2>2. Entered'
    BY <1>8, <2>1, EnteredLeave DEF ThirdPop
  <2> QED BY <1>8, <2>1, <2>2, RestStep DEF ThirdPop
<1>9. CASE Reset(t)
  <2>1. Unclean(t, {"gpu", "third"})
    BY <1>9 DEF Reset, Disturb
  <2>2. Entered'
    BY <1>9, <2>1, EnteredUnclean DEF Reset
  <2> QED BY <1>9, <2>1, <2>2, RestStep DEF Reset
<1> QED BY <1>1, <1>2, <1>3, <1>4, <1>5, <1>6, <1>7, <1>8, <1>9 DEF Ask

\* The call of a thread raises, whatever that leaves in its blocks.
LEMMA RaiseStep ==
  ASSUME IInv, NEW t \in Thread, Raise(t), UNCHANGED <<primary, made>>,
         \/ UNCHANGED blocks
         \/ Spill(t)
  PROVE  Holding' /\ Counted' /\ Known' /\ Entered'
<1>1. /\ call'[t] = Idle
      /\ \A u \in Thread \ {t} : call'[u] = call[u]
      /\ lock' = IF lock = t THEN NoThread ELSE lock
  BY RaiseEffect DEF IInv
<1>2. Idle.op = "none" /\ Idle.at = "idle"
  BY DEF Idle, Call
<1>3. lock' # t
  BY <1>1, ConstantsAssumption
<1>4. Holding'
  BY <1>1, <1>2, <1>3, OthersHolding
<1>5. \A u \in Thread \ {t} : blocks'[u] = blocks[u]
  BY OtherBlocks DEF IInv, Spill
<1>6. Known'
  BY <1>1, <1>2, <1>5, OthersKnown
<1>7. Entered'
  BY EnteredUnclean DEF IInv, Entered, Spill
<1> QED BY <1>4, <1>6, <1>7 DEF IInv, Counted

\* A step of a call from one point to the next which changes neither Contexts
\* nor blocks.
LEMMA MoveStep ==
  ASSUME IInv, NEW t \in Thread, UNCHANGED <<blocks, primary, made>>,
         \A u \in Thread \ {t} : call'[u] = call[u],
         call'[t].op = call[t].op, call'[t].dev = call[t].dev,
         lock' = lock \/ (lock = NoThread /\ lock' = t),
         call'[t].at \in {"create"} => primary[call[t].dev] = NoContext,
         call'[t].at \in {"use", "prepare"} => primary[call[t].dev] # NoContext,
         /\ call'[t].op = "exit" => call'[t].at \in {"primary", "pop"}
         /\ call'[t].at = "pop" => call'[t].op = "exit"
         /\ call'[t].at \in {"primary", "create", "use", "prepare"} /\ call'[t].op # "exit"
              => lock' = t
         /\ call'[t].at \in {"list", "device", "construct"} /\ call'[t].op # "gpu" => lock' = t
         /\ lock' = t => call'[t].at \notin {"idle", "lock", "pop"} /\ call'[t].op # "exit"
  PROVE  Holding' /\ Counted' /\ Known' /\ Entered'
<1>1. Holding'
  BY OthersHolding
<1>2. Known'
  BY DEF IInv, Known
<1> QED BY <1>1, <1>2 DEF IInv, Counted, Entered

\* One more Device object is found: on with the list, or with the call.
LEMMA FoundStep ==
  ASSUME IInv, NEW t \in Thread, NEW object \in Nat, Found(t, object),
         call[t].at \in {"device", "construct"},
         UNCHANGED <<blocks, lock, primary, made>>
  PROVE  Holding' /\ Counted' /\ Known' /\ Entered'
<1>1. /\ call'[t].at \in {Listed(t), "device"}
      /\ call'[t].op = call[t].op /\ call'[t].dev = call[t].dev
      /\ \A u \in Thread \ {t} : call'[u] = call[u]
  BY FoundEffect DEF IInv
<1>2. Listed(t) = IF call[t].op = "gpu" /\ lock # t THEN "lock" ELSE "primary"
  BY DEF Listed
<1>3. /\ call[t].op # "exit"
      /\ call[t].op # "gpu" => lock = t
  BY DEF IInv, Holding
<1> QED BY <1>1, <1>2, <1>3, MoveStep

LEMMA HoldProceed ==
  ASSUME IInv, NEW t \in Thread, Proceed(t)
  PROVE  Holding' /\ Counted' /\ Known' /\ Entered'
<1> USE DEF threadVars, deviceVars
<1>0. call[t].dev \in Device /\ Typed
  BY DEF IInv, Typed, Calls
<1>1. CASE TakeLock(t)
  <2>1. /\ call'[t].at = "list" /\ call'[t].op = call[t].op
        /\ call'[t] # Idle
        /\ \A u \in Thread \ {t} : call'[u] = call[u]
    BY <1>0, <1>1, LockedEffect DEF TakeLock, Idle, Call
  <2>2. call[t].op # "exit" /\ call[t].at = "lock"
    BY <1>1 DEF IInv, Holding, TakeLock
  <2>3. Holding'
    BY <1>1, <2>1, <2>2, OthersHolding DEF TakeLock
  <2>4. Known'
    BY <1>1, <2>1, <2>2, OthersKnown DEF TakeLock
  <2> QED BY <1>1, <2>3, <2>4 DEF TakeLock, IInv, Counted, Entered
<1>2. CASE LookUpList(t)
  <2> DEFINE l == IF lst # NoList THEN Listed(t) ELSE "device"
  <2>1. l \in Points
    BY ListedPoint DEF Points
  <2>2. /\ call'[t].at = l /\ call'[t].op = call[t].op /\ call'[t].dev = call[t].dev
        /\ \A u \in Thread \ {t} : call'[u] = call[u]
    <3> HIDE DEF l
    <3>1. Goto(t, l)
      BY <1>2 DEF LookUpList, l
    <3> QED BY <1>0, <2>1, <3>1, GotoEffect
  <2>3. l \in {"lock", "primary", "device"} /\ (l = "lock" => lock # t)
        /\ (l = "primary" => call[t].op # "gpu" \/ lock = t)
    BY DEF Listed
  <2>4. /\ call[t].op # "exit"
        /\ call[t].op # "gpu" => lock = t
    BY <1>2 DEF LookUpList, IInv, Holding
  <2> HIDE DEF l
  <2> QED BY <1>2, <2>2, <2>3, <2>4, MoveStep DEF LookUpList
<1>3. CASE LookUpDevice(t)
  <2>1. CASE Goto(t, "construct")
    <3>1. "construct" \in Points
      BY DEF Points
    <3>2. /\ call'[t].at = "construct" /\ call'[t].op = call[t].op
          /\ call'[t].dev = call[t].dev
          /\ \A u \in Thread \ {t} : call'[u] = call[u]
      BY <1>0, <2>1, <3>1, GotoEffect
    <3>3. /\ call[t].op # "exit"
          /\ call[t].op # "gpu" => lock = t
      BY <1>3 DEF LookUpDevice, IInv, Holding
    <3> QED BY <1>3, <3>2, <3>3, MoveStep DEF LookUpDevice
  <2>2. CASE Found(t, objects[Len(call[t].seen)])
    BY <1>0, <1>3, <2>2, NextDevice, FoundStep DEF LookUpDevice
  <2> QED BY <1>3, <2>1, <2>2 DEF LookUpDevice
<1>4. CASE StoreDevice(t)
  <2>1. CASE Found(t, 1) /\ UNCHANGED <<cached, lock>>
    BY <1>4, <2>1, FoundStep DEF StoreDevice
  <2>2. CASE Raise(t)
    BY <1>4, <2>2, RaiseStep DEF StoreDevice
  <2> QED BY <1>4, <2>1, <2>2 DEF StoreDevice
<1>5. CASE LookUpPrimary(t)
  <2>1. CASE primary[call[t].dev] # NoContext
    <3>1. /\ call'[t].at = IF call[t].op = "exit" THEN "pop" ELSE "use"
          /\ call'[t].op = call[t].op /\ call'[t].dev = call[t].dev
          /\ \A u \in Thread \ {t} : call'[u] = call[u]
      BY <1>0, <1>5, <2>1, GotPrimaryPoint DEF LookUpPrimary
    <3>2. call[t].op # "exit" <=> lock = t
      BY <1>5 DEF LookUpPrimary, IInv, Holding
    <3> QED BY <1>5, <2>1, <3>1, <3>2, MoveStep DEF LookUpPrimary
  <2>2. CASE primary[call[t].dev] = NoContext
    <3>1. "create" \in Points
      BY DEF Points
    <3>2. /\ call'[t].at = "create" /\ call'[t].op = call[t].op
          /\ call'[t].dev = call[t].dev
          /\ \A u \in Thread \ {t} : call'[u] = call[u]
      BY <1>0, <1>5, <2>2, <3>1, GotoEffect DEF LookUpPrimary
    <3>3. call[t].op # "exit" /\ lock = t
      BY <1>5, <2>2 DEF LookUpPrimary, IInv, Holding, Known
    <3> QED BY <1>5, <2>2, <3>2, <3>3, MoveStep DEF LookUpPrimary
  <2> QED BY <2>1, <2>2
<1>6. CASE Create(t)
  <2> DEFINE d == call[t].dev
  <2>1. /\ call[t].at = "create" /\ call[t].op # "exit" /\ lock = t
        /\ primary[d] = NoContext /\ made[d] = 0
    BY <1>0, <1>6 DEF Create, IInv, Holding, Known, Counted
  <2>2. /\ call'[t].at = "use" /\ call'[t].op = call[t].op /\ call'[t].dev = d
        /\ \A u \in Thread \ {t} : call'[u] = call[u]
    BY <1>0, <1>6, <2>1, GotPrimaryPoint DEF Create
  <2>3. PICK h \in Current(t, d) : KeepContext(d, h)
    BY <1>6 DEF Create
  <2>4. h # NoContext
    <3>1. d # NoContext
      BY <1>0, ConstantsAssumption
    <3> QED BY <2>3, <3>1 DEF Current
  <2>5. /\ primary' = [primary EXCEPT ![d] = h] /\ made' = [made EXCEPT ![d] = @ + 1]
        /\ primary \in [Device -> Maybe] /\ made \in [Device -> Nat] /\ d \in Device
    BY <1>0, <2>3 DEF KeepContext, Typed
  <2> HIDE DEF d
  <2>6. /\ \A e \in Device \ {d} : primary'[e] = primary[e] /\ made'[e] = made[e]
        /\ primary'[d] = h /\ made'[d] = 1
    BY <2>1, <2>5 DEF d
  <2>7. Counted'
    BY <2>4, <2>6 DEF IInv, Counted
  <2>8. Holding'
    BY <1>6, <2>1, <2>2, OthersHolding DEF Create
  <2>9. \A u \in Thread : call[u].dev \in Device
    BY <1>0 DEF Typed, Calls
  <2>10. \A e \in Device : primary[e] # NoContext => primary'[e] # NoContext
    BY <2>4, <2>6
  <2>11. Known'
    <3>1. ASSUME NEW u \in Thread, u # t
          PROVE  call[u].at # "create"
      BY <2>1, <3>1 DEF IInv, Holding
    <3> QED BY <1>6, <2>1, <2>2, <2>4, <2>6, <2>9, <2>10, <3>1 DEF Create, IInv, Known, d
  <2>12. \A u \in Thread : \A i \in DOMAIN blocks[u] :
           blocks[u][i].kind = "gpu" => blocks[u][i].dev \in Device
    <3>1. ASSUME NEW u \in Thread, NEW i \in DOMAIN blocks[u]
          PROVE  blocks[u][i] \in Blocks
      <4>1. blocks[u] \in Seq(Blocks)
        BY <1>0 DEF Typed
      <4> QED BY <3>1, <4>1
    <3> QED BY <3>1 DEF Blocks
  <2>13. Entered'
    BY <1>6, <2>10, <2>12 DEF Create, IInv, Entered
  <2> QED BY <2>7, <2>8, <2>11, <2>13
<1>7. CASE CreateFails(t)
  BY <1>7, RaiseStep DEF CreateFails
<1>8. CASE Adopt(t)
  <2>1. CASE Goto(t, "prepare") /\ UNCHANGED <<cached, lock>>
    <3>1. "prepare" \in Points
      BY DEF Points
    <3>2. /\ call'[t].at = "prepare" /\ call'[t].op = call[t].op
          /\ call'[t].dev = call[t].dev
          /\ \A u \in Thread \ {t} : call'[u] = call[u]
      BY <1>0, <2>1, <3>1, GotoEffect
    <3>3. call[t].op # "exit" /\ lock = t /\ primary[call[t].dev] # NoContext
      BY <1>8 DEF Adopt, IInv, Holding, Known
    <3> QED BY <1>8, <2>1, <3>2, <3>3, MoveStep DEF Adopt
  <2>2. CASE Raise(t)
    BY <1>8, <2>2, RaiseStep DEF Adopt
  <2> QED BY <1>8, <2>1, <2>2 DEF Adopt
<1>9. CASE Push(t)
  <2>1. CASE Goto(t, "prepare") /\ UNCHANGED <<cached, lock>>
    <3>1. "prepare" \in Points
      BY DEF Points
    <3>2. /\ call'[t].at = "prepare" /\ call'[t].op = call[t].op
          /\ call'[t].dev = call[t].dev
          /\ \A u \in Thread \ {t} : call'[u] = call[u]
      BY <1>0, <2>1, <3>1, GotoEffect
    <3>3. call[t].op # "exit" /\ lock = t /\ primary[call[t].dev] # NoContext
      BY <1>9 DEF Push, IInv, Holding, Known
    <3> QED BY <1>9, <2>1, <3>2, <3>3, MoveStep DEF Push
  <2>2. CASE Raise(t)
    BY <1>9, <2>2, RaiseStep DEF Push
  <2> QED BY <1>9, <2>1, <2>2 DEF Push
<1>10. CASE Prepare(t)
  <2>1. /\ call[t].op # "exit" /\ lock = t /\ primary[call[t].dev] # NoContext
    BY <1>10 DEF Prepare, IInv, Holding, Known
  <2>2. /\ call'[t] = Idle
        /\ \A u \in Thread \ {t} : call'[u] = call[u]
        /\ lock' = NoThread
    BY <1>0, <1>10 DEF Prepare, Typed
  <2>3. Idle.op = "none" /\ Idle.at = "idle"
    BY DEF Idle, Call
  <2>4. Holding'
    BY <2>1, <2>2, <2>3, ConstantsAssumption, OthersHolding
  <2>5. Entered' /\ \A u \in Thread \ {t} : blocks'[u] = blocks[u]
    <3>1. CASE Enter(t, Block("api", NoContext, Len(stack[t]), call[t].caches))
      <4>1. NoContext \in Maybe /\ call[t].caches \in BOOLEAN
        BY <1>0 DEF Maybe, Typed, Calls
      <4>2. Block("api", NoContext, Len(stack[t]), call[t].caches) \in Blocks
        BY <1>0, <4>1, StackHeight, BlockType
      <4>3. Block("api", NoContext, Len(stack[t]), call[t].caches).kind = "api"
        BY DEF Block
      <4> QED BY <1>0, <1>10, <3>1, <4>2, <4>3, EnteredEnter, OtherBlocks DEF Prepare
    <3>2. CASE Enter(t, Block("gpu", call[t].dev, Len(stack[t]) - 1, FALSE))
      <4>1. call[t].dev \in Maybe
        BY <1>0 DEF Maybe, Handle
      <4>2. Block("gpu", call[t].dev, Len(stack[t]) - 1, FALSE) \in Blocks
        BY <1>0, <4>1, StackHeight, BlockType
      <4>3. Block("gpu", call[t].dev, Len(stack[t]) - 1, FALSE).dev = call[t].dev
        BY DEF Block
      <4> QED BY <1>0, <1>10, <2>1, <3>2, <4>2, <4>3, EnteredEnter, OtherBlocks DEF Prepare
    <3>3. CASE Disturb(t)
      BY <1>0, <1>10, <3>3, EnteredUnclean, OtherBlocks DEF Prepare, Disturb
    <3> QED BY <1>10, <3>1, <3>2, <3>3 DEF Prepare
  <2>6. Known'
    BY <1>10, <2>2, <2>3, <2>5, OthersKnown DEF Prepare
  <2> QED BY <1>10, <2>4, <2>5, <2>6 DEF Prepare, IInv, Counted
<1>11. CASE PrepareFails(t)
  BY <1>11, RaiseStep DEF PrepareFails
<1>12. CASE Pop(t)
  <2>1. call[t].op = "exit" /\ blocks[t] # <<>> /\ Leave(t) /\ lock # t
    BY <1>12 DEF Pop, IInv, Holding, Known
  <2>2. /\ call'[t] = Idle
        /\ \A u \in Thread \ {t} : call'[u] = call[u]
    BY <1>0, <1>12 DEF Pop, Typed
  <2>3. Idle.op = "none" /\ Idle.at = "idle"
    BY DEF Idle, Call
  <2>4. Holding'
    BY <1>12, <2>1, <2>2, <2>3, OthersHolding DEF Pop
  <2>5. Entered'
    BY <1>12, <2>1, EnteredLeave DEF Pop
  <2>6. \A u \in Thread \ {t} : blocks'[u] = blocks[u]
    BY <1>0, <2>1, OtherBlocks
  <2>7. Known'
    BY <1>12, <2>2, <2>3, <2>6, OthersKnown DEF Pop
  <2> QED BY <1>12, <2>4, <2>5, <2>7 DEF Pop, IInv, Counted
<1> QED BY <1>1, <1>2, <1>3, <1>4, <1>5, <1>6, <1>7, <1>8, <1>9, <1>10, <1>11, <1>12
        DEF Proceed

\* The reset of every device finds no call and no block that could know of the
\* Contexts that go.
LEMMA HoldResetAll ==
  ASSUME IInv, ResetAll
  PROVE  Holding' /\ Counted' /\ Known' /\ Entered'
<1>1. UNCHANGED <<blocks, call, lock>>
  BY DEF ResetAll
<1>2. \A t \in Thread : call[t].at = "idle" /\ call[t].op = "none" /\ blocks[t] = <<>>
  BY DEF ResetAll, Idle, Call
<1>3. Holding'
  BY <1>1 DEF IInv, Holding
<1>4. Counted'
  <2>1. PICK n \in 0..Count :
          LET gone == {d \in Device : d < n}
          IN  /\ primary' = [d \in Device |-> IF d \in gone THEN NoContext ELSE primary[d]]
              /\ made' = [d \in Device |-> IF d \in gone THEN 0 ELSE made[d]]
    BY DEF ResetAll
  <2> QED BY <2>1 DEF IInv, Counted
<1>5. Known'
  BY <1>1, <1>2 DEF Known
<1>6. Entered'
  <2>1. \A t \in Thread : DOMAIN blocks[t] = {}
    BY <1>2
  <2> QED BY <1>1, <2>1 DEF Entered
<1> QED BY <1>3, <1>4, <1>5, <1>6

(***************************************************************************)
(* The invariant holds initially and is kept.                              *)
(***************************************************************************)
LEMMA IInvInit == Init => IInv
<1> SUFFICES ASSUME Init PROVE IInv
  OBVIOUS
<1>1. \A t \in Thread : call[t] = Idle /\ blocks[t] = <<>> /\ stack[t] = <<>>
  BY DEF Init
<1>2. Idle.at = "idle" /\ Idle.op = "none" /\ Idle.seen = <<>>
  BY DEF Idle, Call
<1>3. Typed
  <2>1. <<>> \in Seq(Maybe) /\ <<>> \in Seq(Blocks) /\ <<>> \in Seq(Nat)
    BY EmptySeq
  <2>2. Partial
    BY <1>1, <1>2 DEF Partial
  <2>3. NoContext \in Maybe
    BY DEF Maybe
  <2> QED BY <2>1, <2>2, <2>3, IdleType DEF Init, Typed, NoList
<1>4. Holding
  BY <1>1, <1>2, ConstantsAssumption DEF Init, Holding
<1>5. Counted
  BY DEF Init, Counted
<1>6. Known
  BY <1>1, <1>2 DEF Known
<1>7. Entered
  <2>1. \A t \in Thread : DOMAIN blocks[t] = {}
    BY <1>1
  <2> QED BY <2>1 DEF Entered
<1> QED BY <1>3, <1>4, <1>5, <1>6, <1>7 DEF IInv

LEMMA IInvNext == IInv /\ [Next]_vars => IInv'
<1> SUFFICES ASSUME IInv, [Next]_vars PROVE IInv'
  OBVIOUS
<1>1. CASE ResetAll
  BY <1>1, TypeResetAll, HoldResetAll DEF IInv
<1>2. ASSUME NEW t \in Thread, Proceed(t)
      PROVE  IInv'
  <2>1. call[t].at = "pop" => blocks[t] # <<>>
    BY DEF IInv, Holding, Known
  <2>2. Typed'
    BY <1>2, <2>1, TypeProceed DEF IInv
  <2> QED BY <1>2, <2>2, HoldProceed DEF IInv
<1>3. ASSUME NEW t \in Thread, Ask(t)
      PROVE  IInv'
  BY <1>3, TypeAsk, HoldAsk DEF IInv
<1>4. CASE UNCHANGED vars
  BY <1>4 DEF vars, threadVars, deviceVars, IInv, Typed, Partial, Holding, Counted, Known, Entered
<1> QED BY <1>1, <1>2, <1>3, <1>4 DEF Next

LEMMA IInvAlways == Spec => []IInv
  BY IInvInit, IInvNext, PTL DEF Spec

(***************************************************************************)
(* However many threads ask for the first Context of a device at once, and *)
(* whatever failed before, the device has at most one: every thread that   *)
(* goes on to make one holds the runtime's lock, and __exit__, which gets  *)
(* the Context without the lock, is about a device that has it.            *)
(***************************************************************************)
THEOREM OneContext == Spec => []OneContextPerDevice
<1>1. IInv => OneContextPerDevice
  BY DEF IInv, Counted, OneContextPerDevice
<1> QED BY <1>1, IInvAlways, PTL

(***************************************************************************)
(* The runtime's lock is held only by a thread in the middle of a call:    *)
(* get_or_create_context gives it back when it returns and when it raises, *)
(* at whichever point.                                                     *)
(***************************************************************************)
THEOREM LockGivenBack == Spec => []LockHeldInCall
<1>1. IInv => LockHeldInCall
  BY DEF IInv, Typed, Holding, LockHeldInCall
<1> QED BY <1>1, IInvAlways, PTL

(***************************************************************************)
(* The device list.  Each Device object in it, or found for it by a call,  *)
(* is the first and only one that the driver made for its number.          *)
(***************************************************************************)
Stands(s) == \A i \in DOMAIN s : i - 1 \in Device /\ s[i] = 1 /\ objects[i - 1] = 1

Lists ==
  /\ \A d \in Device : objects[d] \in {0, 1}
  /\ Stands(lst)
  /\ \A t \in Thread : Stands(call[t].seen)

\* A step that finds no Device object.
LEMMA SeenStep ==
  ASSUME Lists, NEW t \in Thread, UNCHANGED <<objects, lst>>,
         call'[t].seen \in {<<>>, call[t].seen},
         \A u \in Thread \ {t} : call'[u] = call[u]
  PROVE  Lists'
<1>1. \A u \in Thread : call'[u].seen = <<>> \/ call'[u].seen = call[u].seen
  OBVIOUS
<1>2. Stands(<<>>)'
  BY DEF Stands
<1>3. ASSUME NEW u \in Thread
      PROVE  Stands(call[u].seen)'
  BY <1>1, <1>2, <1>3 DEF Lists, Stands
<1> QED BY <1>3 DEF Lists, Stands

\* A step that finds one: it is the only one of its number.
LEMMA SeenFound ==
  ASSUME Typed, Lists, NEW t \in Thread, call[t].at \in {"device", "construct"},
         Found(t, 1),
         objects' = [objects EXCEPT ![Len(call[t].seen)] = 1]
  PROVE  Lists'
<1> DEFINE old  == call[t].seen
           n    == Len(old)
           seen == Append(old, 1)
           done == Len(seen) = Count
<1>1. /\ lst' = IF done THEN seen ELSE lst
      /\ call'[t].seen = IF done THEN <<>> ELSE seen
      /\ \A u \in Thread \ {t} : call'[u] = call[u]
  <2>1. 1 \in Nat
    OBVIOUS
  <2> QED BY <2>1, FoundEffect
<1>2. n \in Device /\ n \in Nat /\ old \in Seq(Nat)
  <2>1. old \in Seq(Nat)
    BY DEF Typed, Calls
  <2> QED BY <2>1, NextDevice, LenProperties
<1>3. /\ DOMAIN old = 1..n /\ DOMAIN seen = 1..(n + 1)
      /\ seen[n + 1] = 1 /\ \A i \in 1..n : seen[i] = old[i]
  BY <1>2, AppendProperties
<1>4. objects' \in [Device -> Nat] /\ \A d \in Device : objects'[d] = IF d = n THEN 1 ELSE objects[d]
  BY <1>2 DEF Typed
<1> HIDE DEF old, n, seen, done
<1>5. Stands(old) /\ Stands(lst)
  BY DEF Lists, old
<1>6. \A s : Stands(s) => \A i \in DOMAIN s : i - 1 \in Device /\ s[i] = 1 /\ objects'[i - 1] = 1
  BY <1>4 DEF Stands
<1>7. \A i \in DOMAIN seen : i - 1 \in Device /\ seen[i] = 1 /\ objects'[i - 1] = 1
  <2>1. ASSUME NEW i \in 1..n
        PROVE  i - 1 \in Device /\ seen[i] = 1 /\ objects'[i - 1] = 1
    BY <1>3, <1>5, <1>6
  <2>2. (n + 1) - 1 = n /\ objects'[n] = 1
    BY <1>2, <1>4
  <2>3. \A i \in 1..(n + 1) : i \in 1..n \/ i = n + 1
    BY <1>2
  <2> QED BY <1>2, <1>3, <2>1, <2>2, <2>3
<1>8. \A d \in Device : objects'[d] \in {0, 1}
  BY <1>4 DEF Lists
<1>9. Stands(lst)'
  BY <1>1, <1>5, <1>6, <1>7 DEF Stands
<1>10. ASSUME NEW u \in Thread
       PROVE  Stands(call[u].seen)'
  <2>1. CASE u = t
    <3>1. CASE done
      BY <1>1, <2>1, <3>1 DEF Stands
    <3>2. CASE ~done
      <4>1. call'[u].seen = seen
        BY <1>1, <2>1, <3>2
      <4> QED BY <1>7, <4>1 DEF Stands
    <3> QED BY <3>1, <3>2
  <2>2. CASE u # t
    <3>1. call'[u].seen = call[u].seen /\ Stands(call[u].seen)
      BY <1>1, <2>2 DEF Lists
    <3> QED BY <1>6, <3>1 DEF Stands
  <2> QED BY <2>1, <2>2
<1> QED BY <1>8, <1>9, <1>10 DEF Lists

LEMMA ListsNext ==
  ASSUME Typed, Lists, [Next]_vars
  PROVE  Lists'
<1> USE DEF threadVars, deviceVars
<1>0. Idle.seen = <<>> /\ \A l, op, d, c : Call(l, op, d, c).seen = <<>>
  BY DEF Idle, Call
<1>1. ASSUME NEW t \in Thread, Raise(t), UNCHANGED <<objects, lst>>
      PROVE  Lists'
  BY <1>0, <1>1, RaiseEffect, SeenStep
<1>2. ASSUME NEW t \in Thread, NEW l \in Points, Goto(t, l), UNCHANGED <<objects, lst>>
      PROVE  Lists'
  BY <1>2, GotoEffect, SeenStep
<1>3. ASSUME UNCHANGED <<call, objects, lst>>
      PROVE  Lists'
  BY <1>3 DEF Lists, Stands
<1>4. ASSUME NEW t \in Thread, NEW l, NEW op, NEW d, NEW c,
             call' = [call EXCEPT ![t] = Call(l, op, d, c)], UNCHANGED <<objects, lst>>
      PROVE  Lists'
  BY <1>0, <1>4, SeenStep DEF Typed
<1>5. ASSUME NEW t \in Thread, call' = [call EXCEPT ![t] = Idle], UNCHANGED <<objects, lst>>
      PROVE  Lists'
  BY <1>0, <1>5, SeenStep DEF Typed
<1>6. CASE ResetAll
  BY <1>3, <1>6 DEF ResetAll
<1>7. ASSUME NEW t \in Thread, Ask(t)
      PROVE  Lists'
  <2>1. CASE BeginApi(t)
    BY <1>3, <1>4, <2>1 DEF BeginApi
  <2>2. CASE EndApi(t) \/ ThirdPop(t) \/ Reset(t) \/ \E h \in Handle : ThirdPush(t, h)
    BY <1>3, <2>2 DEF EndApi, ThirdPop, Reset, ThirdPush
  <2>3. CASE GetContext(t)
    BY <1>4, <2>3 DEF GetContext
  <2>4. ASSUME NEW d \in Device, SelectDevice(t, d) \/ BeginGpu(t, d)
        PROVE  Lists'
    BY <1>4, <2>4 DEF SelectDevice, BeginGpu
  <2>5. CASE EndGpu(t)
    BY <1>4, <2>5 DEF EndGpu
  <2> QED BY <1>7, <2>1, <2>2, <2>3, <2>4, <2>5 DEF Ask
<1>8. ASSUME NEW t \in Thread, Proceed(t)
      PROVE  Lists'
  <2>1. CASE TakeLock(t)
    BY <2>1, LockedEffect, SeenStep DEF TakeLock
  <2>2. CASE LookUpList(t)
    <3> DEFINE l == IF lst # NoList THEN Listed(t) ELSE "device"
    <3>1. l \in Points
      BY ListedPoint DEF Points
    <3>2. Goto(t, l) /\ UNCHANGED <<objects, lst>>
      BY <2>2 DEF LookUpList
    <3> HIDE DEF l
    <3> QED BY <1>2, <3>1, <3>2
  <2>3. CASE LookUpDevice(t)
    <3> DEFINE n == Len(call[t].seen)
    <3>1. CASE Goto(t, "construct") /\ UNCHANGED lst
      BY <1>2, <2>3, <3>1 DEF LookUpDevice, Points
    <3>2. CASE objects[n] # 0 /\ Found(t, objects[n])
      <4>1. n \in Device /\ call[t].at = "device" /\ objects' = objects
        BY <2>3, NextDevice DEF LookUpDevice
      <4>2. objects[n] = 1
        BY <3>2, <4>1 DEF Lists
      <4>3. objects' = [objects EXCEPT ![n] = 1]
        BY <4>1, <4>2 DEF Typed
      <4> QED BY <3>2, <4>1, <4>2, <4>3, SeenFound
    <3> QED BY <2>3, <3>1, <3>2 DEF LookUpDevice
  <2>4. CASE StoreDevice(t)
    BY <1>1, <2>4, SeenFound DEF StoreDevice
  <2>5. CASE LookUpPrimary(t)
    <3>1. CASE GotPrimary(t)
      BY <2>5, <3>1, GotPrimaryPoint, SeenStep DEF LookUpPrimary
    <3>2. CASE Goto(t, "create")
      BY <1>2, <2>5, <3>2 DEF LookUpPrimary, Points
    <3> QED BY <2>5, <3>1, <3>2 DEF LookUpPrimary
  <2>6. CASE Create(t)
    BY <2>6, GotPrimaryPoint, SeenStep DEF Create
  <2>7. CASE CreateFails(t) \/ PrepareFails(t)
    BY <1>1, <2>7 DEF CreateFails, PrepareFails
  <2>8. CASE Adopt(t) \/ Push(t)
    BY <1>1, <1>2, <2>8 DEF Adopt, Push, Points
  <2>9. CASE Prepare(t) \/ Pop(t)
    BY <1>5, <2>9 DEF Prepare, Pop
  <2> QED BY <1>8, <2>1, <2>2, <2>3, <2>4, <2>5, <2>6, <2>7, <2>8, <2>9 DEF Proceed
<1>9. CASE UNCHANGED vars
  BY <1>3, <1>9 DEF vars
<1> QED BY <1>6, <1>7, <1>8, <1>9 DEF Next

(***************************************************************************)
(* Threads that make the device list at once, without the lock, all come   *)
(* to the Device objects that the driver keeps alive: each object of the   *)
(* list is the only one that was ever made for its number.                 *)
(***************************************************************************)
THEOREM ListStandsForDevices == Spec => []ProxiesAlive
<1>1. Init => Lists
  <2> SUFFICES ASSUME Init PROVE Lists
    OBVIOUS
  <2>1. \A t \in Thread : call[t].seen = <<>>
    BY DEF Init, Idle, Call
  <2> QED BY <2>1 DEF Init, Lists, Stands, NoList
<1>2. IInv => Typed
  BY DEF IInv
<1>3. Typed /\ Lists /\ [Next]_vars => Lists'
  BY ListsNext
<1>4. Lists => ProxiesAlive
  BY DEF Lists, Stands, ProxiesAlive
<1> QED BY <1>1, <1>2, <1>3, <1>4, IInvAlways, PTL DEF Spec

(***************************************************************************)
(* The scopes of a thread.  What follows is about its blocks b, outermost  *)
(* first, and the height h of its stack, or the stack s itself.            *)
(***************************************************************************)
Api(x) == x.kind = "api"

\* The height of the stack when the block begins.
Height(x) == IF Api(x) THEN x.base ELSE x.base + 1

\* A block that pushed a context, in which nothing was pushed or popped for good.
Exact(x) == ~Api(x) /\ x.clean

\* What the block found is still there, below whatever was pushed in it.
Firm(b, i) == b[i].clean \/ \E j \in 1..i : Api(b[j]) /\ b[j].clean

\* Where the blocks sit on the stack: each on top of those around it, and one
\* right on the other if the outer one is exact.
Sits(b, h) ==
  /\ \A i \in DOMAIN b : b[i].base \in Nat
  /\ \A j \in DOMAIN b : Exact(b[j]) =>
        /\ h = Height(Last(b))
        /\ \A k \in DOMAIN b : j < k => b[k].base = Height(b[k - 1])
  /\ \A i \in DOMAIN b : Firm(b, i) =>
        /\ Height(b[i]) <= h
        /\ \A k \in DOMAIN b : i < k => Height(b[i]) <= b[k].base

\* API functions: other libraries push nothing in them; a call that fails and
\* leaves a context concerns all of them; the outermost one found nothing
\* attached, and the others what is attached now, a.
Ordered(b, a) ==
  /\ \A i, k \in DOMAIN b : Api(b[i]) /\ i < k =>
        /\ b[k].kind # "third"
        /\ Api(b[k]) => (b[i].clean => b[k].clean) /\ b[k].dev = a
  /\ \A i \in DOMAIN b : Api(b[i]) /\ (\A j \in DOMAIN b : Api(b[j]) => i <= j)
                           => b[i].dev = NoContext
  /\ \A i \in DOMAIN b : b[i].caches => Api(b[i])
  /\ a # NoContext <=> \E i \in DOMAIN b : Api(b[i])

ApiClean(b) == \A i \in DOMAIN b : Api(b[i]) => b[i].clean

\* The contexts of exact "with gpus[d]" blocks are where they were pushed.
InPlace(b, s, contexts) ==
  \A j \in DOMAIN b : b[j].kind = "gpu" /\ b[j].clean
                        => s[Height(b[j])] = contexts[b[j].dev]

\* From the first API function on, the stack holds nothing but the context c.
Ours(b, s, c) ==
  ApiClean(b) => \A i \in DOMAIN b : Api(b[i]) =>
                    /\ 1 <= b[i].base
                    /\ \A p \in DOMAIN s : b[i].base <= p => s[p] = c

\* A block begins, on the stack as it is or with a context that was just pushed.
LEMMA Appended ==
  ASSUME NEW b \in Seq(Blocks), NEW x \in Blocks
  PROVE  /\ Append(b, x) \in Seq(Blocks)
         /\ Len(b) \in Nat /\ DOMAIN b = 1..Len(b)
         /\ DOMAIN Append(b, x) = 1..(Len(b) + 1)
         /\ Last(Append(b, x)) = x /\ Append(b, x)[Len(b) + 1] = x
         /\ \A i \in 1..Len(b) : Append(b, x)[i] = b[i] /\ b[i] \in Blocks
<1>1. Len(b) \in Nat /\ DOMAIN b = 1..Len(b) /\ \A i \in 1..Len(b) : b[i] \in Blocks
  BY ElementOfSeq
<1>2. /\ Append(b, x) \in Seq(Blocks) /\ Len(Append(b, x)) = Len(b) + 1
      /\ DOMAIN Append(b, x) = 1..(Len(b) + 1)
      /\ Append(b, x)[Len(b) + 1] = x
      /\ \A i \in 1..Len(b) : Append(b, x)[i] = b[i]
  BY AppendProperties
<1> QED BY <1>1, <1>2 DEF Last

LEMMA SitsEnter ==
  ASSUME NEW b \in Seq(Blocks), NEW x \in Blocks, NEW h \in Nat, Sits(b, h), x.base = h
  PROVE  Sits(Append(b, x), Height(x))
<1> DEFINE n == Len(b)
           new == Append(b, x)
<1>1. /\ n \in Nat /\ DOMAIN b = 1..n /\ DOMAIN new = 1..(n + 1)
      /\ Last(new) = x /\ new[n + 1] = x
      /\ \A i \in 1..n : new[i] = b[i] /\ b[i] \in Blocks
  BY Appended
<1>2. Last(b) = b[n]
  BY DEF Last
<1>3. Height(x) \in Int /\ h <= Height(x)
  BY DEF Height
<1> HIDE DEF n, new
<1>4. ASSUME NEW j \in DOMAIN new, Exact(new[j]), NEW k \in DOMAIN new, j < k
      PROVE  new[k].base = Height(new[k - 1])
  <2>1. j \in 1..n /\ k - 1 \in 1..n
    BY <1>1, <1>4
  <2>2. Exact(b[j]) /\ new[k - 1] = b[k - 1]
    BY <1>1, <1>4, <2>1
  <2>3. CASE k = n + 1
    BY <1>1, <1>2, <2>1, <2>2, <2>3 DEF Sits
  <2>4. CASE k # n + 1
    <3>1. k \in 1..n
      BY <1>1, <2>4
    <3> QED BY <1>1, <1>4, <2>1, <2>2, <3>1 DEF Sits
  <2> QED BY <2>3, <2>4
<1>5. ASSUME NEW i \in DOMAIN new, Firm(new, i)
      PROVE  /\ Height(new[i]) <= Height(x)
             /\ \A k \in DOMAIN new : i < k => Height(new[i]) <= new[k].base
  <2>1. CASE i = n + 1
    BY <1>1, <1>3, <2>1
  <2>2. CASE i # n + 1
    <3>1. i \in 1..n /\ \A j \in 1..i : j \in 1..n
      BY <1>1, <2>2
    <3>2. Firm(b, i)
      BY <1>1, <1>5, <3>1 DEF Firm
    <3>3. /\ Height(b[i]) <= h /\ new[i] = b[i]
          /\ \A k \in 1..n : i < k => Height(b[i]) <= b[k].base
      BY <1>1, <3>1, <3>2 DEF Sits
    <3>4. Height(b[i]) \in Int
      BY <1>1, <3>1 DEF Blocks, Height
    <3>5. \A k \in DOMAIN new : k \in 1..n \/ k = n + 1
      BY <1>1
    <3> QED BY <1>1, <1>3, <3>3, <3>4, <3>5
  <2> QED BY <2>1, <2>2
<1>6. \A i \in DOMAIN new : new[i].base \in Nat
  <2>1. \A i \in DOMAIN new : i \in 1..n \/ i = n + 1
    BY <1>1
  <2> QED BY <1>1, <2>1 DEF Sits
<1> QED BY <1>1, <1>4, <1>5, <1>6 DEF Sits, new

\* A block ends, with what it pushed.
LEMMA Fronted ==
  ASSUME NEW b \in Seq(Blocks), b # <<>>, NEW n, n = Len(b) - 1
  PROVE  /\ Front(b) \in Seq(Blocks)
         /\ n \in Nat /\ DOMAIN b = 1..(n + 1) /\ DOMAIN Front(b) = 1..n
         /\ Last(b) = b[n + 1] /\ (n # 0 => Last(Front(b)) = b[n])
         /\ \A i \in 1..n : Front(b)[i] = b[i] /\ b[i] \in Blocks
         /\ b[n + 1] \in Blocks
<1>1. Len(b) \in Nat \ {0} /\ Len(b) = n + 1
  BY EmptySeq
<1>2. /\ Front(b) \in Seq(Blocks)
      /\ DOMAIN Front(b) = 1..n /\ DOMAIN b = 1..(n + 1)
      /\ \A i \in DOMAIN Front(b) : Front(b)[i] = b[i]
  BY <1>1, FrontLast
<1>3. n \in Nat /\ \A i \in 1..(n + 1) : b[i] \in Blocks
  BY <1>1, <1>2, ElementOfSeq
<1>4. Len(Front(b)) = n
  BY <1>2, <1>3, LenProperties
<1> QED BY <1>1, <1>2, <1>3, <1>4 DEF Last

LEMMA SitsLeave ==
  ASSUME NEW b \in Seq(Blocks), b # <<>>, NEW h \in Nat, Sits(b, h)
  PROVE  Sits(Front(b), IF Api(Last(b)) THEN h ELSE IF h = 0 THEN 0 ELSE h - 1)
<1> DEFINE n == Len(b) - 1
           new == Front(b)
           g == IF Api(Last(b)) THEN h ELSE IF h = 0 THEN 0 ELSE h - 1
<1>1. /\ n \in Nat /\ DOMAIN b = 1..(n + 1) /\ DOMAIN new = 1..n
      /\ Last(b) = b[n + 1] /\ (n # 0 => Last(new) = b[n])
      /\ \A i \in 1..n : new[i] = b[i] /\ b[i] \in Blocks
      /\ b[n + 1] \in Blocks
  BY Fronted
<1>2. /\ b[n + 1].base \in Int /\ \A i \in 1..n : Height(b[i]) \in Int
      /\ \A i \in 1..n : i \in 1..(n + 1) /\ i < n + 1
      /\ n + 1 \in 1..(n + 1)
  BY <1>1 DEF Blocks, Height
<1>3. Height(b[n + 1]) = IF Api(Last(b)) THEN b[n + 1].base ELSE b[n + 1].base + 1
  BY <1>1 DEF Height
<1> HIDE DEF n, new
<1>4. ASSUME NEW j \in 1..n, Exact(b[j])
      PROVE  /\ g = Height(Last(new))
             /\ \A k \in 1..n : j < k => new[k].base = Height(new[k - 1])
  <2>1. /\ h = Height(b[n + 1]) /\ b[n + 1].base = Height(b[(n + 1) - 1])
        /\ b[n + 1].base \in Nat
    BY <1>1, <1>2, <1>4 DEF Sits
  <2>2. (n + 1) - 1 = n /\ n # 0
    BY <1>1
  <2>3. g = Height(Last(new))
    BY <1>1, <1>3, <2>1, <2>2
  <2>4. ASSUME NEW k \in 1..n, j < k
        PROVE  new[k].base = Height(new[k - 1])
    <3>1. k \in 1..(n + 1) /\ k - 1 \in 1..n
      BY <1>1, <2>4
    <3> QED BY <1>1, <1>2, <1>4, <2>4, <3>1 DEF Sits
  <2> QED BY <2>3, <2>4
<1>5. ASSUME NEW i \in 1..n, Firm(b, i)
      PROVE  /\ Height(b[i]) <= g
             /\ \A k \in 1..n : i < k => Height(b[i]) <= b[k].base
  <2>1. /\ Height(b[i]) <= h /\ Height(b[i]) <= b[n + 1].base
        /\ \A k \in 1..n : i < k => Height(b[i]) <= b[k].base
    BY <1>1, <1>2, <1>5 DEF Sits
  <2>2. CASE \E j \in 1..i : Api(b[j]) /\ b[j].clean
    <3>1. \A j \in 1..i : j \in 1..(n + 1)
      BY <1>1
    <3>2. Firm(b, n + 1)
      BY <2>2, <3>1 DEF Firm
    <3>3. Height(b[n + 1]) <= h
      BY <1>1, <1>2, <3>2 DEF Sits
    <3> QED BY <1>2, <1>3, <2>1, <3>3
  <2>3. CASE Exact(b[i])
    <3>1. h = Height(b[n + 1]) /\ b[n + 1].base \in Nat
      BY <1>1, <1>2, <2>3 DEF Sits
    <3> QED BY <1>2, <1>3, <2>1, <3>1
  <2>4. CASE Api(b[i]) /\ b[i].clean
    <3>1. i \in 1..i
      BY <1>1
    <3> QED BY <2>2, <2>4, <3>1
  <2> QED BY <1>5, <2>2, <2>3, <2>4 DEF Firm, Exact
<1>6. ASSUME NEW i \in 1..n
      PROVE  i \in DOMAIN b /\ new[i] = b[i] /\ (Firm(new, i) => Firm(b, i))
  <2>1. \A j \in 1..i : j \in 1..n
    BY <1>1
  <2> QED BY <1>1, <1>2, <2>1 DEF Firm
<1>7. \A i \in 1..n : new[i].base \in Nat
  BY <1>6 DEF Sits
<1>8. Sits(new, g)
  <2> HIDE DEF g
  <2> QED BY <1>1, <1>4, <1>5, <1>6, <1>7 DEF Sits
<1> QED BY <1>8 DEF new

\* Blocks are marked: nothing else of them changes.
LEMMA MarkedIs ==
  ASSUME NEW b \in Seq(Blocks), NEW kinds
  PROVE  /\ Marked(b, kinds) \in Seq(Blocks)
         /\ Len(b) \in Nat /\ DOMAIN b = 1..Len(b)
         /\ DOMAIN Marked(b, kinds) = DOMAIN b /\ Len(Marked(b, kinds)) = Len(b)
         /\ \A i \in DOMAIN b :
              LET x == Marked(b, kinds)[i]
              IN  /\ b[i] \in Blocks /\ x \in Blocks
                  /\ x.kind = b[i].kind /\ x.dev = b[i].dev /\ x.base = b[i].base
                  /\ x.caches = b[i].caches
                  /\ x.clean = (b[i].clean /\ b[i].kind \notin kinds)
<1> DEFINE new == Marked(b, kinds)
<1>1. Len(b) \in Nat /\ DOMAIN b = 1..Len(b) /\ \A i \in DOMAIN b : b[i] \in Blocks
  BY ElementOfSeq
<1>2. \A i \in DOMAIN b :
        /\ new[i] \in Blocks
        /\ new[i].kind = b[i].kind /\ new[i].dev = b[i].dev /\ new[i].base = b[i].base
        /\ new[i].caches = b[i].caches
        /\ new[i].clean = (b[i].clean /\ b[i].kind \notin kinds)
  BY <1>1 DEF Blocks, Marked
<1>3. new \in [1..Len(b) -> Blocks]
  BY <1>1, <1>2 DEF Marked
<1>4. new \in Seq(Blocks) /\ Len(new) = Len(b)
  BY <1>1, <1>3, SeqDef, LenProperties
<1> QED BY <1>1, <1>2, <1>3, <1>4

LEMMA SpiltIs ==
  ASSUME NEW b \in Seq(Blocks)
  PROVE  LET new == Marked(b, {"api", "gpu", "third"})
         IN  /\ DOMAIN new = DOMAIN b /\ DOMAIN b = 1..Len(b) /\ Len(b) \in Nat
             /\ \A i \in DOMAIN b : new[i].base = b[i].base /\ ~new[i].clean
<1>1. \A i \in DOMAIN b : b[i].kind \in {"api", "gpu", "third"}
  BY MarkedIs DEF Blocks
<1> QED BY <1>1, MarkedIs

\* After select_device or a reset, no block that pushed a context is exact.
LEMMA SitsDisturbed ==
  ASSUME NEW b \in Seq(Blocks), NEW h, Sits(b, h), NEW g \in Int, h \in Int,
         h <= g \/ \A i \in DOMAIN b : ~Api(b[i])
  PROVE  Sits(Marked(b, {"gpu", "third"}), g)
<1> DEFINE new == Marked(b, {"gpu", "third"})
<1>1. /\ DOMAIN new = DOMAIN b /\ DOMAIN b = 1..Len(b) /\ Len(b) \in Nat
      /\ \A i \in DOMAIN b : /\ Height(new[i]) = Height(b[i]) /\ Height(b[i]) \in Int
                             /\ new[i].base = b[i].base
                             /\ Api(new[i]) <=> Api(b[i])
                             /\ new[i].clean => b[i].clean /\ Api(b[i])
  BY MarkedIs DEF Height, Api, Blocks
<1> HIDE DEF new
<1>2. ASSUME NEW i \in DOMAIN b, Firm(new, i)
      PROVE  Firm(b, i) /\ \E j \in DOMAIN b : Api(b[j])
  <2>1. \A j \in 1..i : j \in DOMAIN b
    BY <1>1
  <2> QED BY <1>1, <1>2, <2>1 DEF Firm
<1>3. \A i \in DOMAIN b : ~Exact(new[i])
  BY <1>1 DEF Exact
<1>4. ASSUME NEW i \in DOMAIN b, Firm(new, i)
      PROVE  /\ Height(new[i]) <= g
             /\ \A k \in DOMAIN b : i < k => Height(new[i]) <= new[k].base
  <2>1. /\ Height(b[i]) <= h
        /\ \A k \in DOMAIN b : i < k => Height(b[i]) <= b[k].base
    BY <1>2, <1>4 DEF Sits
  <2> QED BY <1>1, <1>2, <1>4, <2>1
<1> QED BY <1>1, <1>3, <1>4 DEF Sits, new

\* After a call that failed and left a context, nothing is known of the stack.
LEMMA SitsSpilt ==
  ASSUME NEW b \in Seq(Blocks), NEW h, Sits(b, h), NEW g
  PROVE  Sits(Marked(b, {"api", "gpu", "third"}), g)
<1> DEFINE new == Marked(b, {"api", "gpu", "third"})
<1>1. /\ DOMAIN new = DOMAIN b /\ DOMAIN b = 1..Len(b) /\ Len(b) \in Nat
      /\ \A i \in DOMAIN b : new[i].base = b[i].base /\ ~new[i].clean
  BY SpiltIs
<1> HIDE DEF new
<1>2. ASSUME NEW i \in DOMAIN b
      PROVE  ~Exact(new[i]) /\ ~Firm(new, i)
  <2>1. \A j \in 1..i : j \in DOMAIN b
    BY <1>1
  <2> QED BY <1>1, <2>1 DEF Firm, Exact
<1> QED BY <1>1, <1>2 DEF Sits, new

\* On an empty stack nothing sits that a push could disturb.
LEMMA SitsOnNothing ==
  ASSUME NEW b \in Seq(Blocks), Sits(b, 0)
  PROVE  Sits(b, 1)
<1>1. /\ DOMAIN b = 1..Len(b) /\ Len(b) \in Nat
      /\ \A i \in DOMAIN b : b[i] \in Blocks /\ b[i].base \in Nat
  BY ElementOfSeq DEF Sits
<1>2. ASSUME NEW j \in DOMAIN b
      PROVE  ~Exact(b[j])
  <2>1. SUFFICES ASSUME Exact(b[j]) PROVE FALSE
    OBVIOUS
  <2>2. Firm(b, j)
    BY <2>1 DEF Firm, Exact
  <2>3. Height(b[j]) <= 0 /\ Height(b[j]) = b[j].base + 1
    BY <2>1, <2>2 DEF Sits, Exact, Height
  <2> QED BY <1>1, <2>3
<1>3. \A i \in DOMAIN b : Height(b[i]) \in Nat
  BY <1>1 DEF Height
<1>4. \A x \in Nat : x <= 0 => x <= 1
  OBVIOUS
<1> QED BY <1>1, <1>2, <1>3, <1>4 DEF Sits

\* An API function begins when nothing is attached, d else; or another block.
LEMMA OrderedEnter ==
  ASSUME NEW b \in Seq(Blocks), NEW x \in Blocks, NEW a, Ordered(b, a), x.clean, NEW c,
         IF Api(x)
         THEN c # NoContext /\ x.dev = a /\ (a # NoContext => c = a)
         ELSE c = a /\ ~x.caches /\ (x.kind = "third" => a = NoContext)
  PROVE  Ordered(Append(b, x), c)
<1> DEFINE n == Len(b)
           new == Append(b, x)
<1>1. /\ n \in Nat /\ DOMAIN b = 1..n /\ DOMAIN new = 1..(n + 1)
      /\ new[n + 1] = x
      /\ \A i \in 1..n : new[i] = b[i]
  BY Appended
<1>2. \A i \in 1..(n + 1) : i \in 1..n \/ i = n + 1
  BY <1>1
<1>3. \A i \in 1..n : i \in 1..(n + 1) /\ i < n + 1
  BY <1>1
<1> HIDE DEF n, new
<1>4. a # NoContext <=> \E i \in 1..n : Api(b[i])
  BY <1>1 DEF Ordered
<1>5. ASSUME NEW i \in 1..(n + 1), NEW k \in 1..(n + 1), Api(new[i]), i < k
      PROVE  /\ new[k].kind # "third"
             /\ Api(new[k]) => (new[i].clean => new[k].clean) /\ new[k].dev = c
  <2>1. i \in 1..n /\ Api(b[i])
    BY <1>1, <1>2, <1>5
  <2>2. a # NoContext /\ c = a
    BY <1>4, <2>1
  <2>3. CASE k = n + 1
    BY <1>1, <2>2, <2>3 DEF Api
  <2>4. CASE k \in 1..n
    BY <1>1, <1>5, <2>1, <2>2, <2>4 DEF Ordered
  <2> QED BY <1>2, <2>3, <2>4
<1>6. ASSUME NEW i \in 1..(n + 1), Api(new[i]), \A j \in 1..(n + 1) : Api(new[j]) => i <= j
      PROVE  new[i].dev = NoContext
  <2>1. CASE i = n + 1
    <3>1. \A j \in 1..n : ~Api(b[j])
      BY <1>1, <1>3, <1>6, <2>1
    <3> QED BY <1>1, <1>4, <1>6, <2>1, <3>1
  <2>2. CASE i \in 1..n
    BY <1>1, <1>3, <1>6, <2>2 DEF Ordered
  <2> QED BY <1>2, <2>1, <2>2
<1>7. \A i \in 1..(n + 1) : new[i].caches => Api(new[i])
  BY <1>1, <1>2 DEF Ordered
<1>8. c # NoContext <=> \E i \in 1..(n + 1) : Api(new[i])
  <2>1. n + 1 \in 1..(n + 1)
    BY <1>1
  <2> QED BY <1>1, <1>2, <1>3, <1>4, <2>1
<1> QED BY <1>1, <1>5, <1>6, <1>7, <1>8 DEF Ordered, new

\* An API function ends, and what it found attached is attached again.
LEMMA OrderedLeave ==
  ASSUME NEW b \in Seq(Blocks), b # <<>>, NEW a, Ordered(b, a)
  PROVE  LET c == IF Api(Last(b)) THEN Last(b).dev ELSE a
         IN  Ordered(Front(b), c) /\ c \in {a, NoContext}
<1> DEFINE n == Len(b) - 1
           new == Front(b)
           c == IF Api(Last(b)) THEN Last(b).dev ELSE a
<1>0. n \in Nat
  BY Fronted
<1>1. /\ n \in Nat /\ DOMAIN b = 1..(n + 1) /\ DOMAIN new = 1..n
      /\ Last(b) = b[n + 1]
      /\ \A i \in 1..n : new[i] = b[i]
  BY Fronted
<1>2. \A i \in 1..n : i \in 1..(n + 1) /\ i < n + 1
  BY <1>1
<1>3. /\ \A i \in 1..(n + 1) : i \in 1..n \/ i = n + 1
      /\ n + 1 \in 1..(n + 1) /\ n + 1 <= n + 1
  BY <1>0
<1> HIDE DEF n, new
<1>4. (c # NoContext <=> \E i \in 1..n : Api(b[i])) /\ c \in {a, NoContext}
  <2>1. CASE \E i \in 1..n : Api(b[i])
    <3>1. c = a
      BY <1>1, <1>2, <1>3, <2>1 DEF Ordered
    <3> QED BY <1>1, <1>2, <2>1, <3>1 DEF Ordered
  <2>2. CASE \A i \in 1..n : ~Api(b[i])
    <3>1. CASE Api(b[n + 1])
      <4>1. \A j \in 1..(n + 1) : Api(b[j]) => n + 1 <= j
        BY <1>3, <2>2
      <4> QED BY <1>1, <1>3, <2>2, <3>1, <4>1 DEF Ordered
    <3>2. CASE ~Api(b[n + 1])
      BY <1>1, <1>3, <2>2, <3>2 DEF Ordered
    <3> QED BY <3>1, <3>2
  <2> QED BY <2>1, <2>2
<1>5. ASSUME NEW i \in 1..n, NEW k \in 1..n, Api(b[i]), i < k
      PROVE  /\ b[k].kind # "third"
             /\ Api(b[k]) => (b[i].clean => b[k].clean) /\ b[k].dev = c
  <2>1. c = a
    BY <1>1, <1>2, <1>3, <1>5 DEF Ordered
  <2> QED BY <1>1, <1>2, <1>5, <2>1 DEF Ordered
<1>6. ASSUME NEW i \in 1..n, Api(b[i]), \A j \in 1..n : Api(b[j]) => i <= j
      PROVE  b[i].dev = NoContext
  <2>1. \A j \in 1..(n + 1) : Api(b[j]) => i <= j
    BY <1>1, <1>2, <1>3, <1>6
  <2> QED BY <1>1, <1>2, <1>6, <2>1 DEF Ordered
<1>7. \A i \in 1..n : b[i].caches => Api(b[i])
  BY <1>1, <1>2 DEF Ordered
<1>8. Ordered(new, c)
  <2> HIDE DEF c
  <2> QED BY <1>1, <1>4, <1>5, <1>6, <1>7 DEF Ordered
<1> QED BY <1>4, <1>8 DEF new

LEMMA OrderedMarked ==
  ASSUME NEW b \in Seq(Blocks), NEW a, Ordered(b, a), NEW kinds
  PROVE  Ordered(Marked(b, kinds), a)
<1> DEFINE new == Marked(b, kinds)
<1>1. /\ DOMAIN new = DOMAIN b
      /\ \A i \in DOMAIN b : /\ new[i].kind = b[i].kind /\ new[i].dev = b[i].dev
                             /\ new[i].caches = b[i].caches
                             /\ new[i].clean = (b[i].clean /\ b[i].kind \notin kinds)
  BY MarkedIs
<1> HIDE DEF new
<1>2. \A i, k \in DOMAIN b :
        Api(b[i]) /\ Api(b[k]) /\ (b[i].clean => b[k].clean) => (new[i].clean => new[k].clean)
  BY <1>1 DEF Api
<1>3. \A i \in DOMAIN b : Api(new[i]) <=> Api(b[i])
  BY <1>1 DEF Api
<1>4. \A i, k \in DOMAIN b : Api(new[i]) /\ i < k =>
         /\ new[k].kind # "third"
         /\ Api(new[k]) => (new[i].clean => new[k].clean) /\ new[k].dev = a
  BY <1>1, <1>2, <1>3 DEF Ordered
<1>5. \A i \in DOMAIN b : Api(new[i]) /\ (\A j \in DOMAIN b : Api(new[j]) => i <= j)
                            => new[i].dev = NoContext
  BY <1>1, <1>3 DEF Ordered
<1> QED BY <1>1, <1>3, <1>4, <1>5 DEF Ordered, new

LEMMA InPlaceEnter ==
  ASSUME NEW b \in Seq(Blocks), NEW x \in Blocks, NEW s, NEW contexts, InPlace(b, s, contexts),
         x.kind = "gpu" => s[Height(x)] = contexts[x.dev]
  PROVE  InPlace(Append(b, x), s, contexts)
<1> DEFINE n == Len(b)
           new == Append(b, x)
<1>1. /\ n \in Nat /\ DOMAIN b = 1..n /\ DOMAIN new = 1..(n + 1)
      /\ new[n + 1] = x
      /\ \A i \in 1..n : new[i] = b[i]
  BY Appended
<1> HIDE DEF n, new
<1>2. \A i \in 1..(n + 1) : i \in 1..n \/ i = n + 1
  BY <1>1
<1> QED BY <1>1, <1>2 DEF InPlace, new

LEMMA InPlaceLeave ==
  ASSUME NEW b \in Seq(Blocks), b # <<>>, NEW s, NEW contexts, InPlace(b, s, contexts)
  PROVE  InPlace(Front(b), s, contexts)
<1> DEFINE f == Front(b)
<1>1. \A i \in DOMAIN f : i \in DOMAIN b /\ f[i] = b[i]
  BY FrontLast
<1> HIDE DEF f
<1> QED BY <1>1 DEF InPlace, f

LEMMA InPlaceMarked ==
  ASSUME NEW b \in Seq(Blocks), NEW kinds, "gpu" \in kinds, NEW s, NEW contexts
  PROVE  InPlace(Marked(b, kinds), s, contexts)
<1> DEFINE new == Marked(b, kinds)
<1>1. /\ DOMAIN new = DOMAIN b
      /\ \A i \in DOMAIN b : /\ new[i].kind = b[i].kind
                             /\ new[i].clean = (b[i].clean /\ b[i].kind \notin kinds)
  BY MarkedIs
<1> HIDE DEF new
<1>2. \A i \in DOMAIN b : new[i].kind = "gpu" => ~new[i].clean
  BY <1>1
<1> QED BY <1>1, <1>2 DEF InPlace, new

\* Above the blocks, the stack may change; the contexts of devices stay.
LEMMA InPlaceStack ==
  ASSUME NEW b \in Seq(Blocks), NEW h \in Int, Sits(b, h),
         NEW s, NEW contexts, InPlace(b, s, contexts),
         NEW z, \A p \in 1..h : z[p] = s[p],
         NEW later, \A i \in DOMAIN b : b[i].kind = "gpu" => later[b[i].dev] = contexts[b[i].dev]
  PROVE  InPlace(b, z, later)
<1>1. ASSUME NEW j \in DOMAIN b, b[j].kind = "gpu", b[j].clean
      PROVE  Height(b[j]) \in 1..h
  <2>1. Firm(b, j) /\ Height(b[j]) = b[j].base + 1
    BY <1>1 DEF Firm, Height, Api
  <2> QED BY <1>1, <2>1 DEF Sits
<1> QED BY <1>1 DEF InPlace

LEMMA OursEnter ==
  ASSUME NEW b \in Seq(Blocks), NEW x \in Blocks, NEW s \in Seq(Handle), NEW c, Ours(b, s, c),
         Api(x) /\ ApiClean(b) => s # <<>> /\ x.base = Len(s) /\ Last(s) = c
  PROVE  Ours(Append(b, x), s, c)
<1> DEFINE n == Len(b)
           new == Append(b, x)
<1>1. /\ n \in Nat /\ DOMAIN b = 1..n /\ DOMAIN new = 1..(n + 1)
      /\ new[n + 1] = x
      /\ \A i \in 1..n : new[i] = b[i]
  BY Appended
<1> HIDE DEF n, new
<1>2. /\ \A i \in 1..(n + 1) : i \in 1..n \/ i = n + 1
      /\ \A i \in 1..n : i \in 1..(n + 1)
  BY <1>1
<1>3. ApiClean(new) => ApiClean(b)
  BY <1>1, <1>2 DEF ApiClean
<1>4. ASSUME ApiClean(b), Api(x)
      PROVE  1 <= x.base /\ \A p \in DOMAIN s : x.base <= p => s[p] = c
  <2> DEFINE m == Len(s)
  <2>1. m \in Nat \ {0} /\ DOMAIN s = 1..m /\ s[m] = c /\ x.base = m
    BY <1>4, EmptySeq, LenProperties DEF Last
  <2> HIDE DEF m
  <2>2. 1 <= m /\ \A p \in 1..m : m <= p => p = m
    BY <2>1
  <2> QED BY <2>1, <2>2
<1> QED BY <1>1, <1>2, <1>3, <1>4 DEF Ours, new

LEMMA OursLeave ==
  ASSUME NEW b \in Seq(Blocks), b # <<>>, NEW s, NEW c, Ours(b, s, c), NEW a, Ordered(b, a)
  PROVE  /\ Ours(Front(b), s, c)
         /\ ApiClean(Front(b)) => ApiClean(b) \/ \A i \in DOMAIN Front(b) : ~Api(Front(b)[i])
<1> DEFINE n == Len(b) - 1
           new == Front(b)
<1>1. /\ n \in Nat /\ DOMAIN b = 1..(n + 1) /\ DOMAIN new = 1..n
      /\ \A i \in 1..n : new[i] = b[i]
  BY Fronted
<1> HIDE DEF n, new
<1>2. /\ \A i \in 1..(n + 1) : i \in 1..n \/ i = n + 1
      /\ \A i \in 1..n : i \in 1..(n + 1) /\ i < n + 1
      /\ n + 1 \in 1..(n + 1)
  BY <1>1
<1>3. ApiClean(new) => ApiClean(b) \/ \A i \in DOMAIN new : ~Api(new[i])
  <2>1. ASSUME NEW i \in 1..n, Api(b[i]), b[i].clean
        PROVE  Api(b[n + 1]) => b[n + 1].clean
    BY <1>1, <1>2, <2>1 DEF Ordered
  <2> QED BY <1>1, <1>2, <2>1 DEF ApiClean
<1> QED BY <1>1, <1>2, <1>3 DEF Ours, new

LEMMA OursMarked ==
  ASSUME NEW b \in Seq(Blocks), NEW s, NEW c, Ours(b, s, c), NEW kinds
  PROVE  /\ Ours(Marked(b, kinds), s, c)
         /\ ApiClean(Marked(b, kinds)) => ApiClean(b)
<1> DEFINE new == Marked(b, kinds)
<1>1. /\ DOMAIN new = DOMAIN b
      /\ \A i \in DOMAIN b : /\ Api(new[i]) <=> Api(b[i])
                             /\ new[i].base = b[i].base
                             /\ new[i].clean => b[i].clean
  BY MarkedIs DEF Api
<1> HIDE DEF new
<1>2. ApiClean(new) => ApiClean(b)
  BY <1>1 DEF ApiClean
<1> QED BY <1>1, <1>2 DEF Ours, new

LEMMA OursSpilt ==
  ASSUME NEW b \in Seq(Blocks), NEW s, NEW c
  PROVE  LET new == Marked(b, {"api", "gpu", "third"})
         IN  Ours(new, s, c) /\ (ApiClean(new) => \A i \in DOMAIN b : ~Api(b[i]))
<1> DEFINE new == Marked(b, {"api", "gpu", "third"})
<1>1. /\ DOMAIN new = DOMAIN b
      /\ \A i \in DOMAIN b : ~new[i].clean /\ (Api(new[i]) <=> Api(b[i]))
  BY SpiltIs, MarkedIs DEF Api
<1> HIDE DEF new
<1> QED BY <1>1 DEF Ours, ApiClean, new

\* On the stack comes the context itself; off it, whatever is on top.
LEMMA OursStack ==
  ASSUME NEW b, NEW s \in Seq(Handle), NEW c \in Handle, Ours(b, s, c)
  PROVE  /\ Ours(b, Append(s, c), c)
         /\ s # <<>> => Ours(b, Front(s), c)
<1>1. Ours(b, Append(s, c), c)
  <2>1. /\ DOMAIN Append(s, c) = 1..(Len(s) + 1) /\ DOMAIN s = 1..Len(s) /\ Len(s) \in Nat
        /\ Append(s, c)[Len(s) + 1] = c
        /\ \A p \in 1..Len(s) : Append(s, c)[p] = s[p]
    BY AppendProperties
  <2>2. \A p \in 1..(Len(s) + 1) : p \in 1..Len(s) \/ p = Len(s) + 1
    BY <2>1
  <2> QED BY <2>1, <2>2 DEF Ours
<1>2. s # <<>> => Ours(b, Front(s), c)
  BY FrontLast DEF Ours
<1> QED BY <1>1, <1>2

(***************************************************************************)
(* What a thread has of its own: a call may have pushed a context for a    *)
(* block that it has not entered yet; calls without a number are made when *)
(* nothing is attached; and the attached context is a prepared one.        *)
(***************************************************************************)
Extra(t) == IF call[t].at = "prepare" /\ call[t].op \in {"gpu", "select"} THEN 1 ELSE 0

CallScope(t) ==
  LET c == call[t]
  IN  /\ c.at # "idle" => c.op # "none"
      /\ c.op = "exit" => Innermost(t, "gpu")
      /\ c.op \in {"api", "get"} => attached[t] = NoContext
      /\ c.caches => c.op = "api" /\ cached[t] # NoContext /\ cached[t] = Top(stack[t])
      /\ c.at = "prepare" => Top(stack[t]) = primary[c.dev]

\* Who has cached the active context, and which one it is.
CacheScope(t) ==
  cached[t] # NoContext =>
    /\ call[t].caches \/ \E i \in DOMAIN blocks[t] : blocks[t][i].caches
    /\ ApiClean(blocks[t]) /\ ~call[t].caches => cached[t] = primary[attached[t]]

Attachment(t) ==
  attached[t] # NoContext =>
    attached[t] \in Device /\ attached[t] \in prepared /\ primary[attached[t]] # NoContext

ScopeOf(t) ==
  /\ stack[t] \in Seq(Handle)
  /\ Sits(blocks[t], Len(stack[t]) - Extra(t))
  /\ Ordered(blocks[t], attached[t])
  /\ InPlace(blocks[t], stack[t], primary)
  /\ Ours(blocks[t], stack[t], primary[attached[t]])
  /\ CallScope(t) /\ CacheScope(t) /\ Attachment(t)

Scoped == \A t \in Thread : ScopeOf(t)

\* Contexts stay while there are calls and blocks.
Grows ==
  /\ \A d \in Device : primary[d] # NoContext => primary'[d] = primary[d]
  /\ prepared \subseteq prepared'

LEMMA ContextsStay ==
  ASSUME IInv, NEW t \in Thread, Proceed(t) \/ Ask(t)
  PROVE  Grows
<1> USE DEF threadVars, deviceVars
<1>1. CASE Ask(t)
  BY <1>1 DEF Ask, BeginApi, EndApi, GetContext, SelectDevice, BeginGpu, EndGpu, ThirdPush,
              ThirdPop, Reset, Grows
<1>2. CASE Create(t)
  <2> DEFINE d == call[t].dev
  <2>1. primary[d] = NoContext /\ primary \in [Device -> Maybe] /\ d \in Device
    BY <1>2 DEF Create, IInv, Known, Typed, Calls
  <2>2. /\ \E h : primary' = [primary EXCEPT ![d] = h]
        /\ prepared' = prepared
    BY <1>2 DEF Create, KeepContext
  <2> QED BY <2>1, <2>2 DEF Grows
<1>3. CASE Prepare(t)
  BY <1>3 DEF Prepare, Grows
<1>4. CASE Proceed(t) /\ ~Create(t) /\ ~Prepare(t)
  BY <1>4 DEF Proceed, TakeLock, LookUpList, LookUpDevice, StoreDevice, LookUpPrimary,
              CreateFails, Adopt, Push, PrepareFails, Pop, Grows
<1> QED BY <1>1, <1>2, <1>3, <1>4

LEMMA BlocksOf ==
  ASSUME Typed, NEW t \in Thread
  PROVE  /\ blocks[t] \in Seq(Blocks) /\ Len(blocks[t]) \in Nat
         /\ DOMAIN blocks[t] = 1..Len(blocks[t])
         /\ \A i \in DOMAIN blocks[t] : blocks[t][i] \in Blocks
  BY ElementOfSeq DEF Typed

\* The stack of a thread has a number of contexts, and the top of it is the last.
LEMMA StackOf ==
  ASSUME NEW s \in Seq(Handle)
  PROVE  /\ Len(s) \in Nat /\ DOMAIN s = 1..Len(s)
         /\ Top(s) = NoContext <=> s = <<>>
         /\ s # <<>> => Len(s) \in DOMAIN s /\ Top(s) = s[Len(s)] /\ Last(s) = Top(s)
                        /\ Top(s) \in Handle
<1>1. Len(s) \in Nat /\ DOMAIN s = 1..Len(s) /\ (s = <<>> <=> Len(s) = 0)
  BY EmptySeq, LenProperties
<1>2. s # <<>> => Len(s) \in DOMAIN s /\ s[Len(s)] \in Handle
  BY <1>1, ElementOfSeq
<1>3. NoContext \notin Handle
  BY ConstantsAssumption DEF Handle
<1> QED BY <1>1, <1>2, <1>3 DEF Top, Last

\* The contexts that a thread's blocks and its attached context are about stay.
LEMMA InPlaceLater ==
  ASSUME IInv, NEW t \in Thread, ScopeOf(t), Grows
  PROVE  /\ InPlace(blocks[t], stack[t], primary')
         /\ \A i \in DOMAIN blocks[t] : blocks[t][i].kind = "gpu"
              => primary'[blocks[t][i].dev] = primary[blocks[t][i].dev]
         /\ Ours(blocks[t], stack[t], primary'[attached[t]])
         /\ attached[t] # NoContext => /\ primary'[attached[t]] = primary[attached[t]]
                                       /\ attached[t] \in prepared'
<1>1. \A i \in DOMAIN blocks[t] : blocks[t][i].kind = "gpu"
              => primary'[blocks[t][i].dev] = primary[blocks[t][i].dev]
  BY BlocksOf DEF IInv, Entered, Grows, Blocks
<1>2. InPlace(blocks[t], stack[t], primary')
  BY <1>1 DEF ScopeOf, InPlace
<1>3. attached[t] # NoContext => /\ primary'[attached[t]] = primary[attached[t]]
                                 /\ attached[t] \in prepared'
  BY DEF ScopeOf, Attachment, Grows
<1>4. Ours(blocks[t], stack[t], primary'[attached[t]])
  <2>1. CASE attached[t] = NoContext
    BY <2>1 DEF ScopeOf, Ordered, Ours
  <2>2. CASE attached[t] # NoContext
    BY <1>3, <2>2 DEF ScopeOf
  <2> QED BY <2>1, <2>2
<1> QED BY <1>1, <1>2, <1>3, <1>4

LEMMA CacheLater ==
  ASSUME IInv, NEW t \in Thread, ScopeOf(t), Grows, cached[t] # NoContext
  PROVE  ApiClean(blocks[t]) /\ ~call[t].caches => cached[t] = primary'[attached[t]]
<1> SUFFICES ASSUME ApiClean(blocks[t]), ~call[t].caches
             PROVE  cached[t] = primary'[attached[t]]
  OBVIOUS
<1>1. \E i \in DOMAIN blocks[t] : blocks[t][i].caches
  BY DEF ScopeOf, CacheScope
<1>2. attached[t] # NoContext
  BY <1>1 DEF ScopeOf, Ordered
<1> QED BY <1>2, InPlaceLater DEF ScopeOf, CacheScope

\* A step that leaves a thread what it has; its call may go on.
LEMMA SameScope ==
  ASSUME IInv, NEW t \in Thread, ScopeOf(t), Grows,
         stack'[t] = stack[t], blocks'[t] = blocks[t],
         attached'[t] = attached[t], cached'[t] = cached[t],
         Extra(t)' = Extra(t), call'[t].caches = call[t].caches, CallScope(t)'
  PROVE  ScopeOf(t)'
<1>1. Sits(blocks[t], Len(stack[t]) - Extra(t))'
  BY DEF ScopeOf
<1>2. CacheScope(t)'
  BY CacheLater DEF CacheScope, ScopeOf
<1>3. Attachment(t)'
  BY InPlaceLater DEF Attachment, ScopeOf
<1> QED BY <1>1, <1>2, <1>3, InPlaceLater DEF ScopeOf

\* The step of another thread.
LEMMA OthersScope ==
  ASSUME IInv, NEW t \in Thread, ScopeOf(t), Grows,
         stack'[t] = stack[t], blocks'[t] = blocks[t], call'[t] = call[t],
         attached'[t] = attached[t], cached'[t] = cached[t]
  PROVE  ScopeOf(t)'
<1>1. call[t].at = "prepare" => primary'[call[t].dev] = primary[call[t].dev]
  BY DEF IInv, Known, Typed, Calls, Grows
<1>2. CallScope(t)'
  BY <1>1 DEF ScopeOf, CallScope, Innermost
<1>3. Extra(t)' = Extra(t)
  BY DEF Extra
<1> QED BY <1>2, <1>3, SameScope

\* A thread that is in no call is where Idle says, and knows nothing else.
LEMMA IdleIs ==
  /\ Idle.at = "idle" /\ Idle.op = "none" /\ Idle.caches = FALSE
  /\ \A l, op, d, c : /\ Call(l, op, d, c).at = l /\ Call(l, op, d, c).op = op
                      /\ Call(l, op, d, c).dev = d /\ Call(l, op, d, c).caches = c
  BY DEF Idle, Call

LEMMA IdleScope ==
  ASSUME NEW t \in Thread, call'[t] = Idle
  PROVE  CallScope(t)' /\ Extra(t)' = 0
  BY IdleIs DEF CallScope, Extra

\* Outside API functions nothing is attached, and only a call caches a context.
LEMMA OutsideApi ==
  ASSUME NEW t \in Thread, ScopeOf(t), attached[t] = NoContext
  PROVE  /\ \A i \in DOMAIN blocks[t] : ~Api(blocks[t][i]) /\ ~blocks[t][i].caches
         /\ cached[t] # NoContext => call[t].caches
         /\ \A s, c : Ours(blocks[t], s, c)
<1>1. \A i \in DOMAIN blocks[t] : ~Api(blocks[t][i]) /\ ~blocks[t][i].caches
  BY DEF ScopeOf, Ordered
<1> QED BY <1>1 DEF ScopeOf, CacheScope, Ours

LEMMA InsideApi ==
  ASSUME NEW t \in Thread, ScopeOf(t)
  PROVE  attached[t] # NoContext <=> InApi(t)
  BY DEF ScopeOf, Ordered, InApi, Api

\* What is on top of the stack in an API function.
LEMMA TopIsOurs ==
  ASSUME IInv, NEW t \in Thread, ScopeOf(t), ApiClean(blocks[t]), attached[t] # NoContext
  PROVE  stack[t] # <<>> /\ Top(stack[t]) = primary[attached[t]]
<1>1. PICK i \in DOMAIN blocks[t] : Api(blocks[t][i]) /\ blocks[t][i].clean
  BY DEF ScopeOf, Ordered, ApiClean
<1> DEFINE b == blocks[t][i].base
           n == Len(stack[t])
<1>2. /\ b \in Nat /\ b <= n - Extra(t) /\ 1 <= b
      /\ \A p \in DOMAIN stack[t] : b <= p => stack[t][p] = primary[attached[t]]
  BY <1>1 DEF ScopeOf, Sits, Firm, Height, Ours
<1>3. Extra(t) \in {0, 1} /\ n \in Nat
  BY StackOf DEF Extra, ScopeOf
<1> HIDE DEF b, n
<1>4. n # 0 /\ b <= n
  BY <1>2, <1>3
<1>5. stack[t] # <<>>
  BY <1>4, EmptySeq DEF n
<1> QED BY <1>2, <1>4, <1>5, StackOf DEF ScopeOf, n

(***************************************************************************)
(* Each kind of step keeps the scopes of the thread that makes it.         *)
(***************************************************************************)
LEMMA MoveScope ==
  ASSUME IInv, NEW t \in Thread, ScopeOf(t), Grows,
         stack'[t] = stack[t], blocks'[t] = blocks[t],
         attached'[t] = attached[t], cached'[t] = cached[t],
         call[t].at \notin {"idle", "prepare"}, call'[t].at # "prepare",
         call'[t].op = call[t].op, call'[t].caches = call[t].caches
  PROVE  ScopeOf(t)'
<1>1. CallScope(t)'
  BY DEF ScopeOf, CallScope, Innermost
<1>2. Extra(t)' = Extra(t)
  BY DEF Extra
<1> QED BY <1>1, <1>2, SameScope

LEMMA BeginScope ==
  ASSUME IInv, NEW t \in Thread, ScopeOf(t), Grows,
         stack'[t] = stack[t], blocks'[t] = blocks[t],
         attached'[t] = attached[t], cached'[t] = cached[t],
         call[t] = Idle, call'[t].at # "prepare", call'[t].caches = FALSE,
         call'[t].op \notin {"none", "api"},
         call'[t].op = "exit" => Innermost(t, "gpu"),
         call'[t].op = "get" => attached[t] = NoContext
  PROVE  ScopeOf(t)'
<1>1. CallScope(t)'
  BY DEF CallScope, Innermost
<1>2. Extra(t)' = Extra(t) /\ call[t].caches = FALSE
  BY IdleIs DEF Extra
<1> QED BY <1>1, <1>2, SameScope

\* A call raises before it has pushed anything.
LEMMA RaiseScope ==
  ASSUME IInv, NEW t \in Thread, ScopeOf(t), Grows, Raise(t),
         stack'[t] = stack[t], blocks'[t] = blocks[t], attached'[t] = attached[t],
         call[t].at # "prepare"
  PROVE  ScopeOf(t)'
<1>1. call'[t] = Idle
  BY RaiseEffect DEF IInv
<1>2. cached'[t] = IF call[t].caches THEN NoContext ELSE cached[t]
  BY DEF Raise, IInv, Typed
<1>3. CallScope(t)' /\ Extra(t)' = 0 /\ Extra(t) = 0
  BY <1>1, IdleScope DEF Extra
<1>4. CacheScope(t)'
  BY <1>2, CacheLater DEF CacheScope, ScopeOf
<1>5. Attachment(t)'
  BY InPlaceLater DEF Attachment, ScopeOf
<1>6. Sits(blocks[t], Len(stack[t]) - Extra(t))'
  BY <1>3 DEF ScopeOf
<1> QED BY <1>3, <1>4, <1>5, <1>6, InPlaceLater DEF ScopeOf

\* It raises, and what it pushed stays.
LEMMA SpillScope ==
  ASSUME IInv, NEW t \in Thread, ScopeOf(t), Grows, Raise(t), Spill(t),
         stack'[t] \in Seq(Handle), attached'[t] = attached[t]
  PROVE  ScopeOf(t)'
<1> DEFINE b == blocks[t]
           new == Marked(b, {"api", "gpu", "third"})
<1>1. call'[t] = Idle
  BY RaiseEffect DEF IInv
<1>2. cached'[t] = IF call[t].caches THEN NoContext ELSE cached[t]
  BY DEF Raise, IInv, Typed
<1>3. CallScope(t)' /\ Extra(t)' = 0
  BY <1>1, IdleScope
<1>4. blocks'[t] = new /\ b \in Seq(Blocks)
  BY DEF Spill, Unclean, IInv, Typed
<1>5. Sits(b, Len(stack[t]) - Extra(t)) /\ Ordered(b, attached[t])
  BY DEF ScopeOf
<1> HIDE DEF new
<1>6. /\ \A h : Sits(new, h)
      /\ Ordered(new, attached[t])
      /\ \A s, c : InPlace(new, s, c) /\ Ours(new, s, c)
      /\ ApiClean(new) => \A i \in DOMAIN b : ~Api(b[i])
  <2> HIDE DEF b
  <2>1. b \in Seq(Blocks)
    BY <1>4
  <2> QED BY <1>5, <2>1, SitsSpilt, OrderedMarked, InPlaceMarked, OursSpilt DEF new
<1>7. CacheScope(t)'
  <2>1. SUFFICES ASSUME cached'[t] # NoContext
                 PROVE  (\E i \in DOMAIN new : new[i].caches) /\ ~ApiClean(new)
    BY <1>4 DEF CacheScope
  <2>2. PICK i \in DOMAIN b : b[i].caches
    BY <1>2, <2>1 DEF ScopeOf, CacheScope
  <2>3. Api(b[i])
    BY <1>5, <2>2 DEF Ordered
  <2>4. i \in DOMAIN new /\ new[i].caches
    BY <1>4, <2>2, MarkedIs DEF new
  <2> QED BY <1>6, <2>3, <2>4
<1>8. Attachment(t)'
  BY InPlaceLater DEF Attachment, ScopeOf
<1> QED BY <1>3, <1>4, <1>6, <1>7, <1>8 DEF ScopeOf

\* A block is entered: whoever cached the active context still has.
LEMMA CacheEnter ==
  ASSUME IInv, NEW t \in Thread, NEW x \in Blocks
  PROVE  LET new == Append(blocks[t], x)
         IN  /\ (\E i \in DOMAIN blocks[t] : blocks[t][i].caches) => \E i \in DOMAIN new : new[i].caches
             /\ x.caches => \E i \in DOMAIN new : new[i].caches
             /\ ApiClean(new) => ApiClean(blocks[t])
<1> DEFINE b == blocks[t]
           n == Len(b)
           new == Append(b, x)
<1>1. /\ n \in Nat /\ DOMAIN b = 1..n /\ DOMAIN new = 1..(n + 1)
      /\ new[n + 1] = x
      /\ \A i \in 1..n : new[i] = b[i]
  <2>1. b \in Seq(Blocks)
    BY BlocksOf DEF IInv
  <2> HIDE DEF b
  <2> QED BY <2>1, Appended
<1> HIDE DEF n, new, b
<1>2. n + 1 \in 1..(n + 1) /\ \A i \in 1..n : i \in 1..(n + 1)
  BY <1>1
<1> QED BY <1>1, <1>2 DEF ApiClean, new, b

LEMMA BeginApiScope ==
  ASSUME IInv, NEW t \in Thread, ScopeOf(t), Grows, BeginApi(t)
  PROVE  ScopeOf(t)'
<1> DEFINE b == blocks[t]
           s == stack[t]
           a == attached[t]
           caches == cached[t] = NoContext /\ s # <<>>
           x == Block("api", a, Len(s), caches)
<1> USE DEF threadVars, deviceVars
<1>1. /\ call[t] = Idle /\ stack' = stack /\ attached' = attached /\ prepared' = prepared
      /\ primary' = primary
      /\ cached' = IF caches THEN [cached EXCEPT ![t] = Top(s)] ELSE cached
  BY DEF BeginApi, Free
<1>2. cached'[t] = IF caches THEN Top(s) ELSE cached[t]
  BY <1>1 DEF IInv, Typed
<1>3. /\ b \in Seq(Blocks) /\ s \in Seq(Handle) /\ Len(s) \in Nat /\ caches \in BOOLEAN
      /\ caches => Top(s) # NoContext
  BY BlocksOf, StackOf DEF IInv, ScopeOf
<1>4. Extra(t) = 0 /\ ~call[t].caches
  BY <1>1, IdleIs DEF Extra
<1>5. Sits(b, Len(s)) /\ Ordered(b, a) /\ InPlace(b, s, primary) /\ Ours(b, s, primary[a])
  BY <1>3, <1>4 DEF ScopeOf
<1>6. Attachment(t)'
  BY <1>1 DEF ScopeOf, Attachment
<1>7. CASE a # NoContext /\ Enter(t, x) /\ UNCHANGED call
  <2>1. /\ x \in Blocks /\ x.base = Len(s) /\ Api(x) /\ x.dev = a /\ x.clean
        /\ x.caches = caches /\ Height(x) = Len(s)
    <3>1. x \in Blocks
      BY StackHeight, BlockType DEF Typed, IInv
    <3> QED BY <3>1 DEF Block, Api, Height
  <2>2. blocks'[t] = Append(b, x) /\ call'[t] = Idle
    BY <1>1, <1>7 DEF Enter, IInv, Typed
  <2>3. CallScope(t)' /\ Extra(t)' = 0
    BY <2>2, IdleScope
  <2>4. ApiClean(b) => s # <<>> /\ Top(s) = primary[a] /\ Last(s) = primary[a]
    BY <1>3, <1>7, TopIsOurs, StackOf
  <2>5. CacheScope(t)'
    <3>1. ApiClean(Append(b, x)) => ApiClean(b)
      BY <2>1, CacheEnter
    <3>2. cached'[t] # NoContext => \E i \in DOMAIN Append(b, x) : Append(b, x)[i].caches
      <4>1. CASE caches
        <5>1. x.caches
          BY <2>1, <4>1
        <5> QED BY <2>1, <5>1, CacheEnter
      <4>2. CASE ~caches
        <5>1. cached'[t] # NoContext => \E i \in DOMAIN b : b[i].caches
          BY <1>2, <1>4, <4>2 DEF ScopeOf, CacheScope
        <5> QED BY <2>1, <5>1, CacheEnter
      <4> QED BY <4>1, <4>2
    <3>3. cached'[t] # NoContext /\ ApiClean(b) => cached'[t] = primary[a]
      BY <1>2, <1>4, <2>4 DEF ScopeOf, CacheScope
    <3> QED BY <1>1, <2>2, <3>1, <3>2, <3>3 DEF CacheScope
  <2> HIDE DEF x, b, s, a, caches
  <2>6. Sits(Append(b, x), Len(s))
    BY <1>3, <1>5, <2>1, SitsEnter
  <2>7. Ordered(Append(b, x), a)
    BY <1>3, <1>5, <1>7, <2>1, OrderedEnter
  <2>8. InPlace(Append(b, x), s, primary)
    BY <1>3, <1>5, <2>1, InPlaceEnter DEF Api
  <2>9. Ours(Append(b, x), s, primary[a])
    BY <1>3, <1>5, <2>1, <2>4, OursEnter
  <2>10. stack'[t] = s /\ attached'[t] = a /\ Len(s) - 0 = Len(s)
    BY <1>1, <1>3 DEF s, a
  <2> QED BY <1>1, <1>3, <1>6, <2>2, <2>3, <2>5, <2>6, <2>7, <2>8, <2>9, <2>10 DEF ScopeOf
<1>8. CASE a = NoContext /\ UNCHANGED blocks
           /\ call' = [call EXCEPT ![t] = Call("lock", "api", 0, caches)]
  <2>1. call'[t].at = "lock" /\ call'[t].op = "api" /\ call'[t].caches = caches
    BY <1>8 DEF Call, IInv, Typed
  <2>2. cached[t] = NoContext
    BY <1>4, <1>8, OutsideApi
  <2>3. CallScope(t)'
    BY <1>1, <1>2, <1>3, <1>8, <2>1 DEF CallScope
  <2>4. CacheScope(t)'
    BY <1>2, <2>1, <2>2 DEF CacheScope
  <2>5. Extra(t)' = Extra(t)
    BY <1>4, <2>1 DEF Extra
  <2> QED BY <1>1, <1>6, <1>8, <2>3, <2>4, <2>5 DEF ScopeOf
<1> QED BY <1>7, <1>8 DEF BeginApi

\* A block is left: whoever cached the active context still has, unless it is the block.
LEMMA CacheLeave ==
  ASSUME IInv, NEW t \in Thread, ScopeOf(t), blocks[t] # <<>>, ~Last(blocks[t]).caches
  PROVE  (\E i \in DOMAIN blocks[t] : blocks[t][i].caches)
           => /\ \E i \in DOMAIN Front(blocks[t]) : Front(blocks[t])[i].caches
              /\ \E i \in DOMAIN Front(blocks[t]) : Api(Front(blocks[t])[i])
<1> DEFINE b == blocks[t]
           n == Len(b) - 1
           new == Front(b)
<1>1. /\ n \in Nat /\ DOMAIN b = 1..(n + 1) /\ DOMAIN new = 1..n
      /\ Last(b) = b[n + 1]
      /\ \A i \in 1..n : new[i] = b[i]
  <2>1. b \in Seq(Blocks) /\ b # <<>>
    BY BlocksOf DEF IInv
  <2> HIDE DEF b
  <2> QED BY <2>1, Fronted
<1>2. \A i \in DOMAIN b : b[i].caches => Api(b[i])
  BY DEF ScopeOf, Ordered
<1> HIDE DEF n, new, b
<1>3. \A i \in 1..(n + 1) : i \in 1..n \/ i = n + 1
  BY <1>1
<1>4. ~b[n + 1].caches
  BY <1>1 DEF b
<1> QED BY <1>1, <1>2, <1>3, <1>4 DEF new, b

LEMMA EndApiScope ==
  ASSUME IInv, NEW t \in Thread, ScopeOf(t), Grows, EndApi(t)
  PROVE  ScopeOf(t)'
<1> DEFINE b == blocks[t]
           s == stack[t]
           a == attached[t]
           x == Last(b)
<1> USE DEF threadVars, deviceVars
<1>1. /\ call[t] = Idle /\ stack' = stack /\ prepared' = prepared /\ primary' = primary
      /\ b # <<>> /\ Api(x) /\ UNCHANGED call
      /\ attached' = [attached EXCEPT ![t] = x.dev]
      /\ cached' = IF x.caches THEN [cached EXCEPT ![t] = NoContext] ELSE cached
      /\ Leave(t)
  BY DEF EndApi, Innermost, Api
<1>2. /\ cached'[t] = IF x.caches THEN NoContext ELSE cached[t]
      /\ attached'[t] = x.dev
      /\ blocks'[t] = Front(b) /\ call'[t] = Idle
  BY <1>1 DEF IInv, Typed, Leave
<1>3. b \in Seq(Blocks) /\ s \in Seq(Handle) /\ Len(s) \in Nat
  BY BlocksOf, StackOf DEF IInv, ScopeOf
<1>4. Extra(t) = 0 /\ ~call[t].caches
  BY <1>1, IdleIs DEF Extra
<1>5. Sits(b, Len(s)) /\ Ordered(b, a) /\ InPlace(b, s, primary) /\ Ours(b, s, primary[a])
  BY <1>3, <1>4 DEF ScopeOf
<1>6. CallScope(t)' /\ Extra(t)' = 0
  BY <1>2, IdleScope
<1>7. /\ Sits(Front(b), Len(s)) /\ Ordered(Front(b), x.dev) /\ x.dev \in {a, NoContext}
      /\ InPlace(Front(b), s, primary) /\ Ours(Front(b), s, primary[a])
      /\ ApiClean(Front(b)) => ApiClean(b) \/ \A i \in DOMAIN Front(b) : ~Api(Front(b)[i])
  <2> HIDE DEF b, s, a
  <2> QED BY <1>1, <1>3, <1>5, SitsLeave, OrderedLeave, InPlaceLeave, OursLeave
<1>8. Ours(Front(b), s, primary[x.dev])
  <2>1. CASE x.dev = NoContext
    BY <1>7, <2>1 DEF Ordered, Ours
  <2>2. CASE x.dev = a
    BY <1>7, <2>2
  <2> QED BY <1>7, <2>1, <2>2
<1>9. CacheScope(t)'
  <2>1. SUFFICES ASSUME cached'[t] # NoContext
                 PROVE  /\ \E i \in DOMAIN Front(b) : Front(b)[i].caches
                        /\ ApiClean(Front(b)) => cached'[t] = primary[x.dev]
    BY <1>1, <1>2 DEF CacheScope
  <2>2. ~x.caches /\ cached'[t] = cached[t]
    BY <1>2, <2>1
  <2>3. \E i \in DOMAIN b : b[i].caches
    BY <1>4, <2>1, <2>2 DEF ScopeOf, CacheScope
  <2>4. /\ \E i \in DOMAIN Front(b) : Front(b)[i].caches
        /\ \E i \in DOMAIN Front(b) : Api(Front(b)[i])
    BY <1>1, <2>2, <2>3, CacheLeave
  <2>5. x.dev = a
    BY <1>7, <2>4 DEF Ordered
  <2>6. ApiClean(Front(b)) => ApiClean(b)
    BY <1>7, <2>4
  <2> QED BY <1>4, <2>1, <2>2, <2>4, <2>5, <2>6 DEF ScopeOf, CacheScope
<1>10. Attachment(t)'
  BY <1>1, <1>2, <1>7 DEF ScopeOf, Attachment
<1>11. stack'[t] = s /\ Len(s) - 0 = Len(s)
  BY <1>1, <1>3
<1> QED BY <1>1, <1>2, <1>3, <1>6, <1>7, <1>8, <1>9, <1>10, <1>11 DEF ScopeOf

\* The end of "with gpus[d]", or another library, takes the top of the stack off.
LEMMA PopScope ==
  ASSUME IInv, NEW t \in Thread, ScopeOf(t), Grows, blocks[t] # <<>>,
         ~Api(Last(blocks[t])), Leave(t), UNCHANGED <<attached, cached, primary, prepared>>,
         stack' = IF stack[t] = <<>> THEN stack ELSE [stack EXCEPT ![t] = Front(@)],
         call'[t] = Idle, ~call[t].caches, Extra(t) = 0
  PROVE  ScopeOf(t)'
<1> DEFINE b == blocks[t]
           s == stack[t]
           a == attached[t]
           z == IF s = <<>> THEN <<>> ELSE Front(s)
           h == IF Len(s) = 0 THEN 0 ELSE Len(s) - 1
<1>1. stack'[t] = z /\ blocks'[t] = Front(b) /\ b \in Seq(Blocks) /\ s \in Seq(Handle)
  BY BlocksOf DEF IInv, Typed, Leave, ScopeOf
<1>2. /\ Len(s) \in Nat /\ z \in Seq(Handle) /\ Len(z) = h /\ h \in Nat
      /\ \A p \in 1..h : z[p] = s[p]
  <2>1. CASE s = <<>>
    BY <2>1, EmptySeq
  <2>2. CASE s # <<>>
    <3> HIDE DEF s
    <3>1. /\ Len(s) \in Nat /\ Len(s) # 0 /\ Front(s) \in Seq(Handle)
          /\ DOMAIN Front(s) = 1..(Len(s) - 1)
          /\ \A i \in DOMAIN Front(s) : Front(s)[i] = s[i]
      <4>1. s \in Seq(Handle)
        BY <1>1
      <4>2. Len(s) \in Nat /\ Len(s) # 0
        BY <2>2, <4>1, EmptySeq, LenProperties
      <4> QED BY <2>2, <4>1, <4>2, FrontLast
    <3>2. Len(Front(s)) = Len(s) - 1
      BY <3>1, LenProperties
    <3> QED BY <2>2, <3>1, <3>2
  <2> QED BY <2>1, <2>2
<1>3. Sits(b, Len(s)) /\ Ordered(b, a) /\ InPlace(b, s, primary) /\ Ours(b, s, primary[a])
  BY <1>2 DEF ScopeOf
<1>4. /\ Sits(Front(b), h) /\ Ordered(Front(b), a)
      /\ InPlace(Front(b), s, primary) /\ Ours(Front(b), s, primary[a])
      /\ ApiClean(Front(b)) => ApiClean(b) \/ \A i \in DOMAIN Front(b) : ~Api(Front(b)[i])
      /\ Front(b) \in Seq(Blocks)
  <2>1. ~Api(Last(b)) /\ b # <<>>
    OBVIOUS
  <2> HIDE DEF b, s, a
  <2> QED BY <1>1, <1>2, <1>3, <2>1, SitsLeave, OrderedLeave, InPlaceLeave, OursLeave, Fronted
<1>5. InPlace(Front(b), z, primary)
  <2> HIDE DEF b, s, z, h
  <2> QED BY <1>2, <1>4, InPlaceStack
<1>6. Ours(Front(b), z, primary[a])
  <2>1. DOMAIN z = 1..h /\ \A p \in 1..h : p \in DOMAIN s
    BY <1>1, <1>2, LenProperties
  <2> HIDE DEF b, s, z, h
  <2> QED BY <1>2, <1>4, <2>1 DEF Ours
<1>7. CallScope(t)' /\ Extra(t)' = 0
  BY IdleScope
<1>8. CacheScope(t)'
  <2>1. SUFFICES ASSUME cached[t] # NoContext
                 PROVE  /\ \E i \in DOMAIN Front(b) : Front(b)[i].caches
                        /\ ApiClean(Front(b)) => cached[t] = primary[a]
    BY <1>1 DEF CacheScope
  <2>2. \E i \in DOMAIN b : b[i].caches
    BY <2>1 DEF ScopeOf, CacheScope
  <2>3. ~Last(b).caches
    <3>1. Len(b) \in DOMAIN b /\ Last(b) = b[Len(b)]
      BY <1>1, FrontLast DEF Last
    <3> QED BY <1>3, <3>1 DEF Ordered
  <2>4. /\ \E i \in DOMAIN Front(b) : Front(b)[i].caches
        /\ \E i \in DOMAIN Front(b) : Api(Front(b)[i])
    BY <2>2, <2>3, CacheLeave
  <2> QED BY <1>4, <2>1, <2>4 DEF ScopeOf, CacheScope
<1>9. Attachment(t)'
  BY DEF ScopeOf, Attachment
<1>10. h - 0 = h
  BY <1>2
<1> QED BY <1>1, <1>2, <1>4, <1>5, <1>6, <1>7, <1>8, <1>9, <1>10 DEF ScopeOf

\* A context goes on a thread's stack, above what its blocks have there.
LEMMA Pushed ==
  ASSUME NEW b \in Seq(Blocks), NEW s \in Seq(Handle), NEW c \in Handle, NEW contexts,
         Sits(b, Len(s)), InPlace(b, s, contexts)
  PROVE  /\ Append(s, c) \in Seq(Handle) /\ Len(s) \in Nat
         /\ Len(Append(s, c)) = Len(s) + 1
         /\ Top(Append(s, c)) = c /\ Append(s, c)[Len(s) + 1] = c
         /\ InPlace(b, Append(s, c), contexts)
<1>1. /\ Append(s, c) \in Seq(Handle) /\ Len(s) \in Nat
      /\ Len(Append(s, c)) = Len(s) + 1 /\ Append(s, c) # <<>>
      /\ Append(s, c)[Len(s) + 1] = c
      /\ \A p \in 1..Len(s) : Append(s, c)[p] = s[p]
  BY AppendProperties, LenProperties
<1>2. Top(Append(s, c)) = c
  BY <1>1 DEF Top, Last
<1> DEFINE z == Append(s, c)
           n == Len(s)
<1>3. n \in Int /\ \A p \in 1..n : z[p] = s[p]
  BY <1>1
<1>4. Sits(b, n)
  OBVIOUS
<1>5. InPlace(b, z, contexts)
  <2>1. ASSUME NEW j \in DOMAIN b, b[j].kind = "gpu", b[j].clean
        PROVE  Height(b[j]) \in 1..n
    <3>1. Firm(b, j) /\ Height(b[j]) = b[j].base + 1
      BY <2>1 DEF Firm, Height, Api
    <3> HIDE DEF n
    <3> QED BY <1>3, <1>4, <2>1, <3>1 DEF Sits
  <2>2. InPlace(b, s, contexts)
    OBVIOUS
  <2> HIDE DEF z, n
  <2> QED BY <1>3, <2>1, <2>2 DEF InPlace
<1> QED BY <1>1, <1>2, <1>5

LEMMA PushScope ==
  ASSUME IInv, NEW t \in Thread, ScopeOf(t), Grows, Push(t)
  PROVE  ScopeOf(t)'
<1> DEFINE b == blocks[t]
           s == stack[t]
           a == attached[t]
           d == call[t].dev
           c == primary[d]
<1> USE DEF threadVars, deviceVars
<1>1. CASE Raise(t) /\ UNCHANGED stack
  BY <1>1, RaiseScope DEF Push
<1>2. CASE /\ a \in {NoContext, d}
           /\ stack' = [stack EXCEPT ![t] = Append(@, c)]
           /\ Goto(t, "prepare")
           /\ UNCHANGED <<cached, lock>>
  <2>1. /\ call[t].at = "use" /\ ~Adopts(t)
        /\ attached' = attached /\ blocks' = blocks /\ primary' = primary
        /\ prepared' = prepared /\ cached' = cached
    BY <1>2 DEF Push
  <2>2. /\ call'[t].at = "prepare" /\ call'[t].op = call[t].op /\ call'[t].dev = d
        /\ call'[t].caches = call[t].caches
        /\ stack'[t] = Append(s, c)
    BY <1>2 DEF Goto, IInv, Typed, Calls
  <2>3. d \in Device /\ c \in Handle
    BY <2>1 DEF IInv, Typed, Calls, Known, Maybe
  <2>4. /\ b \in Seq(Blocks) /\ s \in Seq(Handle) /\ Len(s) \in Nat
        /\ Extra(t) = 0 /\ Sits(b, Len(s)) /\ Ordered(b, a) /\ InPlace(b, s, primary)
        /\ Ours(b, s, primary[a])
    BY <2>1, BlocksOf, StackOf DEF IInv, ScopeOf, Extra
  <2>5. /\ Append(s, c) \in Seq(Handle) /\ Len(Append(s, c)) = Len(s) + 1
        /\ Top(Append(s, c)) = c /\ InPlace(b, Append(s, c), primary)
    <3> HIDE DEF b, s, c
    <3> QED BY <2>3, <2>4, Pushed
  <2>6. call[t].op \in {"api", "get", "gpu", "select"}
    BY <2>1 DEF IInv, Typed, Calls, Ops, Holding, ScopeOf, CallScope
  <2>7. call[t].op \in {"api", "get"} => cached[t] = NoContext /\ s = <<>>
    <3>1. call[t].op \in {"api", "get"} => cached[t] = NoContext /\ Top(s) = NoContext
      BY <2>1 DEF Adopts, Active
    <3> QED BY <2>4, <3>1, StackOf
  <2>8. Sits(b, Len(stack'[t]) - Extra(t)')
    <3>1. CASE call[t].op \in {"gpu", "select"}
      <4>1. Extra(t)' = 1
        BY <2>2, <3>1 DEF Extra
      <4> QED BY <2>2, <2>4, <2>5, <4>1
    <3>2. CASE call[t].op \in {"api", "get"}
      <4>1. Extra(t)' = 0
        BY <2>2, <3>2 DEF Extra
      <4>2. Len(s) = 0
        BY <2>7, <3>2, EmptySeq
      <4>3. Sits(b, 1)
        BY <2>4, <4>2, SitsOnNothing
      <4> QED BY <2>2, <2>5, <4>1, <4>2, <4>3
    <3> QED BY <2>6, <3>1, <3>2
  <2>9. Ours(b, Append(s, c), primary[a])
    <3>1. CASE a = NoContext
      BY <3>1, OutsideApi
    <3>2. CASE a = d
      <4>1. Ours(b, s, c)
        BY <2>4, <3>2
      <4>2. Ours(b, Append(s, c), c)
        <5> HIDE DEF b, s, c
        <5> QED BY <2>3, <2>4, <4>1, OursStack
      <4> QED BY <3>2, <4>2
    <3> QED BY <1>2, <3>1, <3>2
  <2>10. CallScope(t)'
    <3>1. ~call[t].caches
      BY <2>7 DEF ScopeOf, CallScope
    <3> QED BY <2>1, <2>2, <2>5, <2>6, <3>1 DEF ScopeOf, CallScope
  <2>11. CacheScope(t)' /\ Attachment(t)'
    BY <2>1, <2>2 DEF ScopeOf, CacheScope, Attachment
  <2> QED BY <2>1, <2>2, <2>4, <2>5, <2>8, <2>9, <2>10, <2>11 DEF ScopeOf
<1> QED BY <1>1, <1>2 DEF Push

LEMMA AdoptScope ==
  ASSUME IInv, NEW t \in Thread, ScopeOf(t), Grows, Adopt(t)
  PROVE  ScopeOf(t)'
<1> USE DEF threadVars, deviceVars
<1>1. CASE Raise(t)
  BY <1>1, RaiseScope DEF Adopt
<1>2. CASE /\ primary[call[t].dev] = Active(t)
           /\ Goto(t, "prepare")
           /\ UNCHANGED <<cached, lock>>
  <2>1. /\ call[t].at = "use" /\ call[t].op \in {"api", "get"}
        /\ UNCHANGED <<stack, attached, cached, blocks, primary, prepared>>
    BY <1>2 DEF Adopt, Adopts
  <2>2. /\ call'[t].at = "prepare" /\ call'[t].op = call[t].op /\ call'[t].dev = call[t].dev
        /\ call'[t].caches = call[t].caches
    BY <1>2 DEF Goto, IInv, Typed, Calls
  <2>3. Top(stack[t]) = Active(t)
    <3>1. cached[t] # NoContext => call[t].caches
      BY <2>1, OutsideApi DEF ScopeOf, CallScope
    <3> QED BY <3>1 DEF ScopeOf, CallScope, Active
  <2>4. CallScope(t)'
    BY <1>2, <2>1, <2>2, <2>3 DEF ScopeOf, CallScope
  <2>5. Extra(t)' = Extra(t)
    BY <2>1, <2>2 DEF Extra
  <2> QED BY <2>1, <2>2, <2>4, <2>5, SameScope
<1> QED BY <1>1, <1>2 DEF Adopt

LEMMA PrepareScope ==
  ASSUME IInv, NEW t \in Thread, ScopeOf(t), Grows, Prepare(t)
  PROVE  ScopeOf(t)'
<1> DEFINE b == blocks[t]
           s == stack[t]
           a == attached[t]
           d == call[t].dev
<1> USE DEF threadVars, deviceVars
<1>1. /\ call[t].at = "prepare" /\ stack' = stack /\ cached' = cached /\ primary' = primary
      /\ prepared' = prepared \cup {d} /\ call'[t] = Idle
  BY DEF Prepare, IInv, Typed
<1>2. /\ d \in Device /\ primary[d] # NoContext /\ Top(s) = primary[d]
      /\ d # NoContext
  BY <1>1, ConstantsAssumption DEF IInv, Typed, Calls, Known, ScopeOf, CallScope
<1>3. /\ b \in Seq(Blocks) /\ s \in Seq(Handle) /\ Len(s) \in Nat
      /\ s # <<>> /\ Len(s) # 0 /\ s[Len(s)] = primary[d] /\ Last(s) = primary[d]
  <2>1. b \in Seq(Blocks) /\ s \in Seq(Handle)
    BY BlocksOf DEF IInv, ScopeOf
  <2>2. Len(s) \in Nat /\ s # <<>> /\ s[Len(s)] = primary[d] /\ Last(s) = primary[d]
    BY <1>2, <2>1, StackOf
  <2> QED BY <2>1, <2>2, EmptySeq
<1>4. /\ Sits(b, Len(s) - Extra(t)) /\ Ordered(b, a) /\ InPlace(b, s, primary)
      /\ Ours(b, s, primary[a])
  BY DEF ScopeOf
<1>5. CallScope(t)' /\ Extra(t)' = 0
  BY <1>1, IdleScope
<1>6. Len(s) - 0 = Len(s)
  BY <1>3
<1>7. CASE /\ call[t].op = "api" /\ attached' = [attached EXCEPT ![t] = d]
           /\ Enter(t, Block("api", NoContext, Len(s), call[t].caches))
  <2> DEFINE x == Block("api", NoContext, Len(s), call[t].caches)
  <2>1. /\ x \in Blocks /\ x.base = Len(s) /\ Api(x) /\ x.dev = NoContext /\ x.clean
        /\ x.caches = call[t].caches /\ Height(x) = Len(s)
    <3>1. NoContext \in Maybe /\ call[t].caches \in BOOLEAN /\ Len(s) \in Int
      BY <1>3 DEF Maybe, IInv, Typed, Calls
    <3>2. x \in Blocks
      BY <3>1, BlockType
    <3> QED BY <3>2 DEF Block, Api, Height
  <2>2. blocks'[t] = Append(b, x) /\ attached'[t] = d
    BY <1>7 DEF Enter, IInv, Typed
  <2>3. a = NoContext /\ Extra(t) = 0
    BY <1>7 DEF ScopeOf, CallScope, Extra
  <2>4. Ours(b, s, primary[d])
    BY <2>3, OutsideApi
  <2>5. CacheScope(t)'
    <3>1. SUFFICES ASSUME cached[t] # NoContext
                   PROVE  /\ \E i \in DOMAIN Append(b, x) : Append(b, x)[i].caches
                          /\ cached[t] = primary[d]
      BY <1>1, <2>2 DEF CacheScope
    <3>2. call[t].caches
      BY <2>3, <3>1, OutsideApi
    <3>3. cached[t] = primary[d]
      BY <1>2, <3>2 DEF ScopeOf, CallScope
    <3>4. x.caches
      BY <2>1, <3>2
    <3> QED BY <2>1, <3>3, <3>4, CacheEnter
  <2>6. Attachment(t)'
    BY <1>1, <1>2, <2>2 DEF Attachment
  <2> HIDE DEF x, b, s, a, d
  <2>7. Sits(Append(b, x), Len(s))
    BY <1>3, <1>4, <1>6, <2>1, <2>3, SitsEnter
  <2>8. Ordered(Append(b, x), d)
    BY <1>2, <1>3, <1>4, <2>1, <2>3, OrderedEnter
  <2>9. InPlace(Append(b, x), s, primary)
    BY <1>3, <1>4, <2>1, InPlaceEnter DEF Api
  <2>10. Ours(Append(b, x), s, primary[d])
    BY <1>3, <2>1, <2>4, OursEnter
  <2>11. stack'[t] = s
    BY <1>1 DEF s
  <2> QED BY <1>1, <1>3, <1>5, <1>6, <2>2, <2>5, <2>6, <2>7, <2>8, <2>9, <2>10, <2>11
          DEF ScopeOf
<1>8. CASE /\ call[t].op = "gpu" /\ UNCHANGED attached
           /\ Enter(t, Block("gpu", d, Len(s) - 1, FALSE))
  <2> DEFINE x == Block("gpu", d, Len(s) - 1, FALSE)
  <2>1. /\ x \in Blocks /\ x.base = Len(s) - 1 /\ ~Api(x) /\ x.dev = d /\ x.clean
        /\ ~x.caches /\ Height(x) = Len(s) /\ x.kind = "gpu"
    <3>1. d \in Maybe /\ Len(s) - 1 \in Int
      BY <1>2, <1>3 DEF Maybe, Handle
    <3>2. x \in Blocks
      BY <1>2, <3>1, BlockType
    <3>3. (Len(s) - 1) + 1 = Len(s)
      BY <1>3
    <3> QED BY <3>2, <3>3 DEF Block, Api, Height
  <2>2. blocks'[t] = Append(b, x) /\ attached'[t] = a
    BY <1>8 DEF Enter, IInv, Typed
  <2>3. Extra(t) = 1 /\ Len(s) - 1 \in Nat /\ ~call[t].caches
    BY <1>1, <1>3, <1>8 DEF Extra, ScopeOf, CallScope
  <2>4. CacheScope(t)'
    <3>1. SUFFICES ASSUME cached[t] # NoContext
                   PROVE  /\ \E i \in DOMAIN Append(b, x) : Append(b, x)[i].caches
                          /\ ApiClean(Append(b, x)) => cached[t] = primary[a]
      BY <1>1, <2>2 DEF CacheScope
    <3> QED BY <2>1, <2>3, <3>1, CacheEnter DEF ScopeOf, CacheScope
  <2>5. Attachment(t)'
    BY <1>1, <2>2 DEF ScopeOf, Attachment
  <2> HIDE DEF x, b, s, a, d
  <2>6. Sits(Append(b, x), Len(s))
    BY <1>3, <1>4, <2>1, <2>3, SitsEnter
  <2>7. Ordered(Append(b, x), a)
    BY <1>3, <1>4, <2>1, OrderedEnter
  <2>8. InPlace(Append(b, x), s, primary)
    BY <1>3, <1>4, <2>1, InPlaceEnter
  <2>9. Ours(Append(b, x), s, primary[a])
    BY <1>3, <1>4, <2>1, OursEnter
  <2>10. stack'[t] = s
    BY <1>1 DEF s
  <2> QED BY <1>1, <1>3, <1>5, <1>6, <2>2, <2>4, <2>5, <2>6, <2>7, <2>8, <2>9, <2>10
          DEF ScopeOf
<1>9. CASE call[t].op \in {"select", "get"} /\ Disturb(t) /\ UNCHANGED attached
  <2> DEFINE new == Marked(b, {"gpu", "third"})
  <2>1. blocks'[t] = new /\ attached'[t] = a
    BY <1>9 DEF Disturb, Unclean, IInv, Typed
  <2>2. ~call[t].caches
    BY <1>9 DEF ScopeOf, CallScope
  <2>3. Len(s) - Extra(t) \in Int /\ Len(s) - Extra(t) <= Len(s) /\ Len(s) \in Int
    <3> DEFINE n == Len(s)
               e == Extra(t)
    <3>1. n \in Nat /\ e \in {0, 1}
      BY <1>3 DEF Extra
    <3> HIDE DEF n, e
    <3>2. n - e \in Int /\ n - e <= n /\ n \in Int
      BY <3>1
    <3> QED BY <3>2 DEF n, e
  <2>4. /\ Sits(new, Len(s)) /\ Ordered(new, a) /\ InPlace(new, s, primary)
        /\ Ours(new, s, primary[a]) /\ (ApiClean(new) => ApiClean(b))
    <3>1. "gpu" \in {"gpu", "third"}
      OBVIOUS
    <3> HIDE DEF b, s, a
    <3> QED BY <1>3, <1>4, <2>3, <3>1, SitsDisturbed, OrderedMarked, InPlaceMarked, OursMarked
  <2>5. Attachment(t)'
    BY <1>1, <2>1 DEF ScopeOf, Attachment
  <2>6. CacheScope(t)'
    <3>1. \A i \in DOMAIN b : i \in DOMAIN new /\ (b[i].caches => new[i].caches)
      BY <1>3, MarkedIs
    <3> HIDE DEF new
    <3> QED BY <1>1, <2>1, <2>2, <2>4, <3>1 DEF ScopeOf, CacheScope
  <2> HIDE DEF new
  <2> QED BY <1>1, <1>3, <1>5, <1>6, <2>1, <2>4, <2>5, <2>6 DEF ScopeOf
<1> QED BY <1>7, <1>8, <1>9 DEF Prepare

LEMMA ThirdPushScope ==
  ASSUME IInv, NEW t \in Thread, ScopeOf(t), Grows, NEW h \in Handle, ThirdPush(t, h)
  PROVE  ScopeOf(t)'
<1> DEFINE b == blocks[t]
           s == stack[t]
           x == Block("third", h, Len(s), FALSE)
<1> USE DEF threadVars, deviceVars
<1>1. /\ call[t] = Idle /\ call'[t] = Idle /\ ~InApi(t)
      /\ UNCHANGED <<attached, cached, primary, prepared>>
      /\ stack'[t] = Append(s, h) /\ blocks'[t] = Append(b, x)
  BY DEF ThirdPush, Free, Enter, IInv, Typed
<1>2. attached[t] = NoContext /\ Extra(t) = 0 /\ cached[t] = NoContext
  BY <1>1, InsideApi, OutsideApi, IdleIs DEF Extra
<1>3. /\ b \in Seq(Blocks) /\ s \in Seq(Handle) /\ Len(s) \in Nat
      /\ Sits(b, Len(s)) /\ Ordered(b, NoContext) /\ InPlace(b, s, primary)
  BY <1>2, BlocksOf, StackOf DEF IInv, ScopeOf
<1>4. /\ x \in Blocks /\ x.base = Len(s) /\ ~Api(x) /\ x.clean /\ ~x.caches
      /\ Height(x) = Len(s) + 1 /\ x.kind = "third"
  <2>1. h \in Maybe /\ Len(s) \in Int
    BY <1>3 DEF Maybe
  <2>2. x \in Blocks
    BY <2>1, BlockType
  <2> QED BY <2>2 DEF Block, Api, Height
<1>5. CallScope(t)' /\ Extra(t)' = 0
  BY <1>1, IdleScope
<1>6. CacheScope(t)' /\ Attachment(t)'
  BY <1>1, <1>2 DEF CacheScope, Attachment
<1> HIDE DEF x, b, s
<1>7. /\ Append(s, h) \in Seq(Handle) /\ Len(Append(s, h)) = Len(s) + 1
      /\ InPlace(b, Append(s, h), primary)
  BY <1>3, Pushed
<1>8. Sits(Append(b, x), Len(s) + 1)
  BY <1>3, <1>4, SitsEnter
<1>9. Ordered(Append(b, x), NoContext)
  BY <1>3, <1>4, OrderedEnter
<1>10. InPlace(Append(b, x), Append(s, h), primary)
  BY <1>3, <1>4, <1>7, InPlaceEnter
<1>11. \A c : Ours(Append(b, x), Append(s, h), c)
  BY <1>9 DEF Ordered, Ours
<1>12. (Len(s) + 1) - 0 = Len(s) + 1
  BY <1>3
<1> QED BY <1>1, <1>2, <1>5, <1>6, <1>7, <1>8, <1>9, <1>10, <1>11, <1>12 DEF ScopeOf

LEMMA ResetScope ==
  ASSUME IInv, NEW t \in Thread, ScopeOf(t), Grows, Reset(t)
  PROVE  ScopeOf(t)'
<1> DEFINE b == blocks[t]
           new == Marked(b, {"gpu", "third"})
<1> USE DEF threadVars, deviceVars
<1>1. /\ call[t] = Idle /\ call'[t] = Idle /\ ~InApi(t)
      /\ UNCHANGED <<attached, cached, primary, prepared>>
      /\ stack'[t] = <<>> /\ blocks'[t] = new
  BY DEF Reset, Disturb, Unclean, IInv, Typed
<1>2. attached[t] = NoContext /\ cached[t] = NoContext /\ \A i \in DOMAIN b : ~Api(b[i])
  BY <1>1, InsideApi, OutsideApi, IdleIs
<1>3. /\ b \in Seq(Blocks) /\ Len(stack[t]) - Extra(t) \in Int /\ 0 \in Int
      /\ Sits(b, Len(stack[t]) - Extra(t)) /\ Ordered(b, NoContext)
  <2>1. Len(stack[t]) \in Nat /\ Extra(t) \in {0, 1}
    BY StackOf DEF ScopeOf, Extra
  <2>2. Len(stack[t]) - Extra(t) \in Int
    BY <2>1
  <2> QED BY <1>2, <2>2, BlocksOf DEF IInv, ScopeOf
<1>4. CallScope(t)' /\ Extra(t)' = 0
  BY <1>1, IdleScope
<1>5. CacheScope(t)' /\ Attachment(t)'
  BY <1>1, <1>2 DEF CacheScope, Attachment
<1>6. /\ Sits(new, 0) /\ Ordered(new, NoContext) /\ \A s, c : InPlace(new, s, c)
      /\ \A s, c : Ours(new, s, c)
  <2>1. "gpu" \in {"gpu", "third"}
    OBVIOUS
  <2>2. Ordered(new, NoContext)
    BY <1>3, OrderedMarked
  <2>3. \A s, c : Ours(new, s, c)
    BY <2>2 DEF Ordered, Ours
  <2>4. Sits(new, 0)
    <3> DEFINE h == Len(stack[t]) - Extra(t)
    <3>1. h \in Int /\ Sits(b, h)
      BY <1>3
    <3> HIDE DEF h, b
    <3> QED BY <1>2, <1>3, <3>1, SitsDisturbed
  <2> QED BY <1>3, <2>1, <2>2, <2>3, <2>4, InPlaceMarked
<1>7. <<>> \in Seq(Handle) /\ Len(<<>>) - 0 = 0
  BY EmptySeq
<1> HIDE DEF new
<1> QED BY <1>1, <1>2, <1>4, <1>5, <1>6, <1>7 DEF ScopeOf

LEMMA ScopeAsk ==
  ASSUME IInv, NEW t \in Thread, ScopeOf(t), Grows, Ask(t)
  PROVE  ScopeOf(t)'
<1> USE DEF threadVars, deviceVars
<1>0. call \in [Thread -> Calls]
  BY DEF IInv, Typed
<1>1. CASE BeginApi(t)
  BY <1>1, BeginApiScope
<1>2. CASE EndApi(t)
  BY <1>2, EndApiScope
<1>3. CASE GetContext(t)
  <2>1. /\ call[t] = Idle /\ call'[t].at = "lock" /\ call'[t].op = "get" /\ call'[t].caches = FALSE
        /\ stack'[t] = stack[t] /\ blocks'[t] = blocks[t]
        /\ attached'[t] = attached[t] /\ cached'[t] = cached[t]
        /\ attached[t] = NoContext
    BY <1>0, <1>3 DEF GetContext, Free, Call
  <2> QED BY <2>1, BeginScope
<1>4. ASSUME NEW d \in Device, SelectDevice(t, d)
      PROVE  ScopeOf(t)'
  <2>1. /\ call[t] = Idle /\ call'[t].at = "lock" /\ call'[t].op = "select" /\ call'[t].caches = FALSE
        /\ stack'[t] = stack[t] /\ blocks'[t] = blocks[t]
        /\ attached'[t] = attached[t] /\ cached'[t] = cached[t]
    BY <1>0, <1>4 DEF SelectDevice, Free, Call
  <2> QED BY <2>1, BeginScope
<1>5. ASSUME NEW d \in Device, BeginGpu(t, d)
      PROVE  ScopeOf(t)'
  <2>1. /\ call[t] = Idle /\ call'[t].at = "list" /\ call'[t].op = "gpu" /\ call'[t].caches = FALSE
        /\ stack'[t] = stack[t] /\ blocks'[t] = blocks[t]
        /\ attached'[t] = attached[t] /\ cached'[t] = cached[t]
    BY <1>0, <1>5 DEF BeginGpu, Free, Call
  <2> QED BY <2>1, BeginScope
<1>6. CASE EndGpu(t)
  <2>1. /\ call[t] = Idle /\ Innermost(t, "gpu")
        /\ call'[t].at = "primary" /\ call'[t].op = "exit" /\ call'[t].caches = FALSE
        /\ stack'[t] = stack[t] /\ blocks'[t] = blocks[t]
        /\ attached'[t] = attached[t] /\ cached'[t] = cached[t]
    BY <1>0, <1>6 DEF EndGpu, Call
  <2> QED BY <2>1, BeginScope
<1>7. ASSUME NEW h \in Handle, ThirdPush(t, h)
      PROVE  ScopeOf(t)'
  BY <1>7, ThirdPushScope
<1>8. CASE ThirdPop(t)
  <2>1. /\ call[t] = Idle /\ call'[t] = Idle /\ blocks[t] # <<>> /\ ~Api(Last(blocks[t]))
        /\ Leave(t) /\ UNCHANGED <<attached, cached, primary, prepared>>
        /\ stack' = IF stack[t] = <<>> THEN stack ELSE [stack EXCEPT ![t] = Front(@)]
    BY <1>8 DEF ThirdPop, Innermost, Api
  <2>2. ~call[t].caches /\ Extra(t) = 0
    BY <2>1, IdleIs DEF Extra
  <2> QED BY <2>1, <2>2, PopScope
<1>9. CASE Reset(t)
  BY <1>9, ResetScope
<1> QED BY <1>1, <1>2, <1>3, <1>4, <1>5, <1>6, <1>7, <1>8, <1>9 DEF Ask

LEMMA ScopeProceed ==
  ASSUME IInv, NEW t \in Thread, ScopeOf(t), Grows, Proceed(t)
  PROVE  ScopeOf(t)'
<1> USE DEF threadVars, deviceVars
<1>0. call \in [Thread -> Calls]
  BY DEF IInv, Typed
<1>1. ASSUME NEW l, l # "prepare", call' = [call EXCEPT ![t].at = l],
             UNCHANGED <<stack, attached, cached, blocks>>,
             call[t].at \notin {"idle", "prepare"}
      PROVE  ScopeOf(t)'
  <2>1. call'[t].at = l /\ call'[t].op = call[t].op /\ call'[t].caches = call[t].caches
    BY <1>0, <1>1 DEF Calls
  <2> QED BY <1>1, <2>1, MoveScope
<1>2. CASE TakeLock(t)
  <2>1. call'[t].at = "list" /\ call'[t].op = call[t].op /\ call'[t].caches = call[t].caches
    BY <1>0, <1>2 DEF TakeLock, Locked, Calls
  <2> QED BY <1>2, <2>1, MoveScope DEF TakeLock
<1>3. CASE LookUpList(t)
  BY <1>1, <1>3 DEF LookUpList, Goto, Listed
<1>4. ASSUME NEW object, Found(t, object), UNCHANGED <<stack, attached, cached, blocks>>,
             call[t].at \notin {"idle", "prepare"}
      PROVE  ScopeOf(t)'
  <2>1. /\ call'[t].at \in {"lock", "primary", "device"}
        /\ call'[t].op = call[t].op /\ call'[t].caches = call[t].caches
    <3> DEFINE done == Len(Append(call[t].seen, object)) = Count
               l == IF done THEN Listed(t) ELSE "device"
               z == IF done THEN <<>> ELSE Append(call[t].seen, object)
    <3>1. call' = [call EXCEPT ![t].at = l, ![t].seen = z]
      BY <1>4 DEF Found
    <3>2. l \in {"lock", "primary", "device"}
      BY DEF Listed
    <3> HIDE DEF l, z, done
    <3> QED BY <1>0, <3>1, <3>2 DEF Calls
  <2> QED BY <1>4, <2>1, MoveScope
<1>5. CASE LookUpDevice(t)
  BY <1>1, <1>4, <1>5 DEF LookUpDevice, Goto
<1>6. CASE StoreDevice(t)
  <2>1. CASE Raise(t)
    BY <1>6, <2>1, RaiseScope DEF StoreDevice
  <2>2. CASE Found(t, 1) /\ UNCHANGED <<cached, lock>>
    BY <1>4, <1>6, <2>2 DEF StoreDevice
  <2> QED BY <1>6, <2>1, <2>2 DEF StoreDevice
<1>7. CASE LookUpPrimary(t)
  BY <1>1, <1>7 DEF LookUpPrimary, GotPrimary, Goto
<1>8. CASE Create(t)
  BY <1>1, <1>8 DEF Create, GotPrimary, Goto
<1>9. CASE CreateFails(t)
  <2>1. CASE UNCHANGED <<stack, blocks>>
    BY <1>9, <2>1, RaiseScope DEF CreateFails
  <2>2. CASE Spill(t) /\ stack' = [stack EXCEPT ![t] = Append(@, call[t].dev)]
    <3>1. stack'[t] = Append(stack[t], call[t].dev)
      BY <2>2 DEF IInv, Typed
    <3>2. call[t].dev \in Handle /\ stack[t] \in Seq(Handle)
      BY <1>0 DEF Calls, Handle, ScopeOf
    <3>3. Append(stack[t], call[t].dev) \in Seq(Handle)
      BY <3>2, AppendProperties
    <3> QED BY <1>9, <2>2, <3>1, <3>3, SpillScope DEF CreateFails
  <2> QED BY <1>9, <2>1, <2>2 DEF CreateFails
<1>10. CASE Adopt(t)
  BY <1>10, AdoptScope
<1>11. CASE Push(t)
  BY <1>11, PushScope
<1>12. CASE Prepare(t)
  BY <1>12, PrepareScope
<1>13. CASE PrepareFails(t)
  BY <1>13, SpillScope DEF PrepareFails, ScopeOf
<1>14. CASE Pop(t)
  <2>1. /\ call[t].at = "pop" /\ call'[t] = Idle
        /\ Leave(t) /\ UNCHANGED <<attached, cached, primary, prepared>>
        /\ stack' = IF stack[t] = <<>> THEN stack ELSE [stack EXCEPT ![t] = Front(@)]
    BY <1>0, <1>14 DEF Pop
  <2>2. blocks[t] # <<>> /\ ~Api(Last(blocks[t])) /\ ~call[t].caches /\ Extra(t) = 0
    <3>1. call[t].op = "exit"
      BY <2>1 DEF IInv, Holding
    <3> QED BY <2>1, <3>1 DEF ScopeOf, CallScope, Innermost, Api, Extra
  <2> QED BY <2>1, <2>2, PopScope
<1> QED BY <1>2, <1>3, <1>5, <1>6, <1>7, <1>8, <1>9, <1>10, <1>11, <1>12, <1>13, <1>14
        DEF Proceed

\* Nothing is left of a thread's scopes when all is reset, and there was nothing at first.
LEMMA NoScope ==
  ASSUME NEW t \in Thread, stack[t] \in Seq(Handle), blocks[t] = <<>>, call[t] = Idle,
         attached[t] = NoContext, cached[t] = NoContext
  PROVE  ScopeOf(t)
<1>1. DOMAIN blocks[t] = {} /\ DOMAIN <<>> = {}
  OBVIOUS
<1>2. CallScope(t)
  BY IdleIs DEF CallScope
<1> QED BY <1>1, <1>2 DEF ScopeOf, Sits, Ordered, InPlace, Ours, CacheScope, Attachment

LEMMA NoScopeLater ==
  ASSUME NEW t \in Thread, stack'[t] \in Seq(Handle), blocks'[t] = <<>>, call'[t] = Idle,
         attached'[t] = NoContext, cached'[t] = NoContext
  PROVE  ScopeOf(t)'
<1>1. DOMAIN blocks'[t] = {} /\ DOMAIN <<>> = {}
  OBVIOUS
<1>2. CallScope(t)'
  BY IdleScope
<1> QED BY <1>1, <1>2 DEF ScopeOf, Sits, Ordered, InPlace, Ours, CacheScope, Attachment

LEMMA OthersKeep ==
  ASSUME IInv, NEW t \in Thread, Proceed(t) \/ Ask(t), NEW u \in Thread, u # t
  PROVE  /\ stack'[u] = stack[u] /\ blocks'[u] = blocks[u] /\ call'[u] = call[u]
         /\ attached'[u] = attached[u] /\ cached'[u] = cached[u]
<1> USE DEF threadVars, deviceVars, IInv, Typed
<1>1. CASE Ask(t)
  BY <1>1 DEF Ask, BeginApi, EndApi, GetContext, SelectDevice, BeginGpu, EndGpu, ThirdPush,
              ThirdPop, Reset, Enter, Leave, Disturb, Unclean
<1>2. CASE Proceed(t)
  BY <1>2 DEF Proceed, TakeLock, Locked, LookUpList, LookUpDevice, StoreDevice, Found,
              LookUpPrimary, GotPrimary, Create, CreateFails, Adopt, Push, Prepare,
              PrepareFails, Pop, Goto, Raise, Enter, Leave, Disturb, Spill, Unclean
<1> QED BY <1>1, <1>2

LEMMA ScopedNext == IInv /\ Scoped /\ [Next]_vars => Scoped'
<1> SUFFICES ASSUME IInv, Scoped, [Next]_vars, NEW t \in Thread
             PROVE  ScopeOf(t)'
  BY DEF Scoped
<1>0. ScopeOf(t)
  BY DEF Scoped
<1>1. CASE ResetAll
  <2>1. /\ blocks'[t] = <<>> /\ call'[t] = Idle /\ blocks[t] = <<>> /\ call[t] = Idle
        /\ attached'[t] = attached[t] /\ cached'[t] = cached[t]
    BY <1>1 DEF ResetAll
  <2>2. attached[t] = NoContext /\ cached[t] = NoContext
    <3>1. DOMAIN blocks[t] = {}
      BY <2>1
    <3>2. attached[t] = NoContext
      BY <1>0, <3>1 DEF ScopeOf, Ordered
    <3> QED BY <1>0, <2>1, <3>2, OutsideApi, IdleIs
  <2>3. stack'[t] \in Seq(Handle)
    <3>1. <<>> \in Seq(Handle)
      BY EmptySeq
    <3> QED BY <1>0, <1>1, <3>1 DEF ResetAll, ScopeOf, IInv, Typed
  <2> QED BY <2>1, <2>2, <2>3, NoScopeLater
<1>2. ASSUME NEW u \in Thread, Proceed(u) \/ Ask(u)
      PROVE  ScopeOf(t)'
  <2>1. Grows
    BY <1>2, ContextsStay
  <2>2. CASE u = t
    BY <1>0, <1>2, <2>1, <2>2, ScopeProceed, ScopeAsk
  <2>3. CASE u # t
    BY <1>0, <1>2, <2>1, <2>3, OthersKeep, OthersScope
  <2> QED BY <2>2, <2>3
<1>3. CASE UNCHANGED vars
  <2>1. UNCHANGED <<stack, blocks, call, attached, cached, primary, prepared>>
    BY <1>3 DEF vars, threadVars, deviceVars
  <2> QED BY <1>0, <2>1, OthersScope DEF Grows
<1> QED BY <1>1, <1>2, <1>3 DEF Next

LEMMA AlwaysScoped == Spec => []Scoped
<1>1. Init => Scoped
  <2> SUFFICES ASSUME Init, NEW t \in Thread PROVE ScopeOf(t)
    BY DEF Scoped
  <2>1. <<>> \in Seq(Handle)
    BY EmptySeq
  <2> QED BY <2>1, NoScope DEF Init
<1> QED BY <1>1, ScopedNext, IInvAlways, PTL DEF Spec

(***************************************************************************)
(* A with-statement for a device finds, when it ends, the context that it  *)
(* pushed on top of what was there before, for any nesting of such         *)
(* statements, API functions and contexts of other libraries, unless the   *)
(* thread changed the stack in it for good (_Runtime, _DeviceContextManager).*)
(***************************************************************************)
THEOREM WithBlocksNest == Spec => []ScopesNest
<1>1. IInv /\ Scoped => ScopesNest
  <2> SUFFICES ASSUME IInv, Scoped, NEW t \in Thread, call[t].at \in {"idle", "pop"},
                      Innermost(t, "gpu"), Last(blocks[t]).clean
               PROVE  /\ Len(stack[t]) = Last(blocks[t]).base + 1
                      /\ Last(stack[t]) = primary[Last(blocks[t]).dev]
    BY DEF ScopesNest
  <2> DEFINE b == blocks[t]
             n == Len(b)
             s == stack[t]
  <2>1. ScopeOf(t) /\ b \in Seq(Blocks) /\ b # <<>> /\ s \in Seq(Handle)
    BY BlocksOf DEF IInv, Scoped, ScopeOf, Innermost
  <2>2. n \in DOMAIN b /\ Last(b) = b[n]
    BY <2>1, FrontLast DEF Last
  <2>3. Exact(b[n]) /\ Height(b[n]) = b[n].base + 1 /\ b[n].kind = "gpu"
    BY <2>2 DEF Innermost, Exact, Api, Height
  <2>4. Extra(t) = 0 /\ Len(s) \in Nat
    BY <2>1, StackOf DEF Extra
  <2>5. Len(s) = b[n].base + 1 /\ b[n].base \in Nat
    BY <2>1, <2>2, <2>3, <2>4 DEF ScopeOf, Sits
  <2>6. s[Len(s)] = primary[b[n].dev]
    BY <2>1, <2>2, <2>3, <2>5 DEF ScopeOf, InPlace, Exact
  <2> QED BY <2>2, <2>5, <2>6 DEF Last
<1> QED BY <1>1, AlwaysScoped, IInvAlways, PTL

(***************************************************************************)
(* In an API function the attached context is the one that the driver uses *)
(* for the thread, is the prepared Context of its device, and agrees with  *)
(* what is cached as the active context, for any number of threads and     *)
(* devices and whatever is nested in the function.                         *)
(***************************************************************************)
THEOREM AttachedStaysCurrent == Spec => []AttachedIsCurrent
<1>1. IInv /\ Scoped => AttachedIsCurrent
  <2> SUFFICES ASSUME IInv, Scoped, NEW t \in Thread,
                      \A i \in DOMAIN blocks[t] :
                         blocks[t][i].kind = "api" => blocks[t][i].clean
               PROVE  /\ attached[t] # NoContext
                            => /\ Top(stack[t]) = primary[attached[t]]
                               /\ attached[t] \in prepared
                               /\ InApi(t)
                      /\ cached[t] # NoContext => cached[t] = Top(stack[t])
    BY DEF AttachedIsCurrent
  <2>1. ScopeOf(t) /\ ApiClean(blocks[t])
    BY DEF Scoped, ApiClean, Api
  <2>2. attached[t] # NoContext => Top(stack[t]) = primary[attached[t]]
    BY <2>1, TopIsOurs
  <2>3. cached[t] # NoContext => cached[t] = Top(stack[t])
    <3>1. CASE attached[t] = NoContext
      BY <2>1, <3>1, OutsideApi DEF ScopeOf, CallScope
    <3>2. CASE attached[t] # NoContext
      BY <2>1, <2>2, <3>2 DEF ScopeOf, CallScope, CacheScope
    <3> QED BY <3>1, <3>2
  <2> QED BY <2>1, <2>2, <2>3, InsideApi DEF ScopeOf, Attachment
<1> QED BY <1>1, AlwaysScoped, IInvAlways, PTL
=============================================================================
