------------------------- MODULE LaunchConfig_proofs -------------------------
(***************************************************************************)
(* Launches run code that was generated for them and what is on disk is    *)
(* under its key, whatever the threads, the signatures and configurations, *)
(* the restarts, recompilations, failed compilations and failures to write *)
(* the marker, until two launches contend for the main dispatcher, if no   *)
(* device function looks at the launch configuration.  And, whatever they  *)
(* look at: no overload is compiled twice, what was recompiled is new, and *)
(* with the marker on disk nothing is compiled that the disk has.          *)
(***************************************************************************)
EXTENDS LaunchConfig, TLAPS

\* Only kernels look at the configuration.
KernelsOnly == Inner = {}

Calm == "contended" \notin excuse

\* Code that depends on the configuration c alone, and says so.
For(k, c) == k.uses \subseteq {c} /\ (k.uses # {} => k.lcs)

\* The call of a thread uses the right dispatcher, kernel and key.
CallOK(t) ==
  LET c == call[t]
  IN  c # Idle =>
        /\ c.disp # Main => c.disp = c.config
        /\ c.disp = Main /\ default # NoConfig => default = c.config
        /\ c.at = "compiling" => c.key \in {c.config, NoKey}
        /\ c.at \in {"update", "default", "launch"} => For(c.kernel, c.config)
        /\ c.at = "default" => sensitive /\ c.disp = Main

\* Thread u launches Main, if at all, with the configuration c.
Agrees(u, c) == call[u] # Idle /\ call[u].disp = Main => call[u].config = c

\* The threads that launch Main launch it with one configuration.
OneConfig ==
  \A t, u \in Thread : call[t] # Idle /\ call[t].disp = Main => Agrees(u, call[t].config)

\* A call that will make Main sensitive because of the kernel k.
Announced(k) ==
  \E t \in Thread : /\ call[t].at \in {"update", "default"}
                    /\ call[t].disp = Main /\ call[t].kernel = k

MainOK ==
  \A s \in Sig :
     LET k == overloads[Main][s]
     IN  k # NoKernel /\ k.uses # {} =>
           /\ k.lcs
           /\ \/ sensitive /\ default # NoConfig /\ k.uses \subseteq {default}
              \/ Announced(k)

SpecializedOK ==
  \A d \in Config, s \in Sig : overloads[d][s] # NoKernel => For(overloads[d][s], d)

DiskOK == \A e \in disk : For(e.kernel, e.key)

Inv == /\ TypeOK
       /\ default # NoConfig => sensitive
       /\ OneConfig
       /\ \A t \in Thread : CallOK(t)
       /\ MainOK /\ SpecializedOK /\ DiskOK

\* The kinds of calls, told apart by their "at".
LEMMA CallKinds ==
  ASSUME TypeOK, NEW t \in Thread
  PROVE  LET c == call[t]
         IN  /\ c = Idle \/ c.at # "idle"
             /\ c # Idle => c.config \in Config /\ c.sig \in Sig /\ c.disp \in Dispatcher
             /\ c.at \in {"resolve", "compile"} =>
                  c \in [at : {"resolve", "compile"}, config : Config, sig : Sig,
                         disp : Dispatcher]
             /\ c.at = "compiling" =>
                  c \in [at : {"compiling"}, config : Config, sig : Sig,
                         disp : Dispatcher, key : Config \cup {NoKey}]
             /\ c.at \in {"update", "default", "launch"} =>
                  c \in [at : {"update", "default", "launch"}, config : Config,
                         sig : Sig, disp : Dispatcher, kernel : Kernel]
BY DEF TypeOK, Calls, Idle

LEMMA GotoEffect ==
  ASSUME TypeOK, NEW t \in Thread, NEW c, Goto(t, c)
  PROVE  /\ call'[t] = c
         /\ \A u \in Thread \ {t} : call'[u] = call[u]
         /\ c \in Calls => call' \in [Thread -> Calls]
BY DEF TypeOK, Goto

\* The other threads do not mind what call the thread t makes of its own, if it
\* agrees with theirs on the configuration of Main.
LEMMA OthersKeep ==
  ASSUME Inv, NEW t \in Thread, NEW n \in Calls, Goto(t, n),
         n # Idle /\ n.disp = Main => \A u \in Thread \ {t} : Agrees(u, n.config),
         sensitive => sensitive',
         default' = default \/ (n # Idle /\ n.disp = Main /\ default' = n.config)
  PROVE  /\ call' \in [Thread -> Calls]
         /\ call'[t] = n
         /\ OneConfig'
         /\ \A u \in Thread \ {t} : CallOK(u)'
         /\ call[t].at \notin {"update", "default"} => \A k : Announced(k) => Announced(k)'
<1>1. call' \in [Thread -> Calls] /\ call'[t] = n /\ \A u \in Thread \ {t} : call'[u] = call[u]
  BY GotoEffect DEF Inv
<1>2. OneConfig'
  <2> SUFFICES ASSUME NEW a \in Thread, NEW b \in Thread,
                      call'[a] # Idle, call'[a].disp = Main,
                      call'[b] # Idle, call'[b].disp = Main
               PROVE  call'[b].config = call'[a].config
    BY DEF OneConfig, Agrees
  <2>1. CASE a = t
    BY <1>1, <2>1 DEF Agrees
  <2>2. CASE a # t /\ b = t
    BY <1>1, <2>2 DEF Agrees
  <2>3. CASE a # t /\ b # t
    BY <1>1, <2>3 DEF Inv, OneConfig, Agrees
  <2> QED
    BY <2>1, <2>2, <2>3
<1>3. ASSUME NEW u \in Thread \ {t} PROVE CallOK(u)'
  BY <1>1 DEF Inv, CallOK, Agrees
<1>4. call[t].at \notin {"update", "default"} => \A k : Announced(k) => Announced(k)'
  BY <1>1 DEF Announced
<1> QED
  BY <1>1, <1>2, <1>3, <1>4

\* A call that goes on agrees with the others as it did before.
LEMMA Agreement ==
  ASSUME Inv, NEW t \in Thread, call[t] # Idle, call[t].disp = Main
  PROVE  \A u \in Thread : Agrees(u, call[t].config)
BY DEF Inv, OneConfig

\* What becomes of a call when it takes a kernel.
LEMMA TakeEffect ==
  ASSUME TypeOK, NEW t \in Thread, call[t] # Idle, NEW k \in Kernel, Take(t, k)
  PROVE  \E c \in Calls : /\ Goto(t, c) /\ c.at = "update" /\ c.kernel = k /\ c # Idle
                          /\ c.config = call[t].config /\ c.disp = call[t].disp
                          /\ c.sig = call[t].sig
<1> DEFINE c == [at |-> "update", config |-> call[t].config, sig |-> call[t].sig,
                 disp |-> call[t].disp, kernel |-> k]
<1>1. c \in Calls /\ c # Idle
  BY CallKinds DEF Calls, Idle
<1> QED
  BY <1>1 DEF Take

\* A kernel in memory is a kernel.
LEMMA OverloadType ==
  ASSUME TypeOK, NEW t \in Thread, call[t] # Idle
  PROVE  Overload(t) \in Kernel \cup {NoKernel}
BY CallKinds DEF TypeOK, Overload

LEMMA AddEffect ==
  ASSUME TypeOK, NEW t \in Thread, call[t] # Idle, NEW k \in Kernel, AddOverload(t, k)
  PROVE  /\ overloads' \in [Dispatcher -> [Sig -> Kernel \cup {NoKernel}]]
         /\ \A d \in Dispatcher, s \in Sig :
              overloads'[d][s] = IF d = call[t].disp /\ s = call[t].sig THEN k
                                 ELSE overloads[d][s]
BY CallKinds DEF TypeOK, AddOverload

-----------------------------------------------------------------------------
(* Types.                                                                    *)

\* A thread that takes a kernel.
LEMMA TakeType ==
  ASSUME TypeOK, NEW t \in Thread, call[t] # Idle, NEW k \in Kernel, Take(t, k)
  PROVE  call' \in [Thread -> Calls]
BY TakeEffect, GotoEffect

\* A key under which a kernel is filed.
LEMMA KeyType ==
  ASSUME TypeOK, NEW t \in Thread, call[t] # Idle
  PROVE  /\ CacheKey(call[t].disp, call[t].config) \in Config
         /\ ConfiguredKey(call[t].disp, call[t].config) \in Config \cup {NoKey}
<1>1. call[t].config \in Config /\ call[t].disp \in Dispatcher
  BY CallKinds
<1>2. CacheKey(call[t].disp, call[t].config) \in Config
  BY <1>1 DEF TypeOK, CacheKey, Dispatcher
<1> QED
  BY <1>1, <1>2 DEF ConfiguredKey

LEMMA FlagType ==
  ASSUME TypeOK, NEW d \in Dispatcher
  PROVE  /\ Flag(d) \in {"unborn", "off", "unknown", "no", "yes"}
         /\ ConfiguredFlag(d) \in {"unborn", "off", "unknown", "no", "yes"}
BY DEF TypeOK, Flag, ConfiguredFlag

\* What compiles the device function of s looks at the configuration c.
LEMMA DeviceType ==
  ASSUME TypeOK, NEW c \in Config, NEW s \in Sig
  PROVE  /\ Device(c, s) \in [Inner -> Config \cup {NoConfig}]
         /\ s \in Inner => Device(c, s)[s] \in Config
         /\ Marked(c, s) \subseteq Config
BY DEF TypeOK, Device, Marked

LEMMA CompiledType ==
  ASSUME TypeOK, NEW c \in Config, NEW s \in Sig, NEW r \in BOOLEAN
  PROVE  Compiled(c, s, r) \in Kernel
<1>1. Compiled(c, s, r).uses \subseteq Config
  BY DeviceType DEF Compiled
<1> QED
  BY <1>1 DEF Compiled, Looks, Kernel, TypeOK

\* A kernel that is saved under a configuration or under none.
LEMMA SavedType ==
  ASSUME TypeOK, NEW s \in Sig, NEW k \in Config \cup {NoKey}, NEW kernel \in Kernel
  PROVE  Saved(s, k, kernel) \subseteq [sig : Sig, key : Config \cup {NoKey, NoConfig},
                                        kernel : Kernel]
BY DEF TypeOK, Saved

LEMMA TypeStep ==
  ASSUME TypeOK, NEW t \in Thread, Step(t)
  PROVE  TypeOK'
<1>1. ASSUME NEW c \in Config, NEW s \in Sig, Select(t, c, s)
      PROVE  TypeOK'
  <2>1. PICK d \in {Main, c} :
          Goto(t, [at |-> "resolve", config |-> c, sig |-> s, disp |-> d])
    BY <1>1 DEF Select
  <2> DEFINE n == [at |-> "resolve", config |-> c, sig |-> s, disp |-> d]
  <2>2. n \in Calls
    BY DEF Calls, Dispatcher
  <2>3. call' \in [Thread -> Calls]
    BY <2>1, <2>2, GotoEffect
  <2>4. cache' \in [Dispatcher -> {"unborn", "off", "unknown", "no", "yes"}]
    BY <1>1 DEF Select, TypeOK, Dispatcher
  <2>5. default' \in Config \cup {NoConfig} /\ excuse' \subseteq {"contended", "recompiled"}
    BY <1>1 DEF Select, TypeOK
  <2>6. overlaps' \in Nat
    BY <1>1 DEF Select, TypeOK
  <2> QED
    BY <1>1, <2>3, <2>4, <2>5, <2>6 DEF Select, TypeOK
<1>2. CASE Resolve(t) \/ CompiledMeanwhile(t)
  <2>1. /\ call[t].at \in {"resolve", "compile"} /\ call[t] # Idle
        /\ UNCHANGED <<memory, disk, marker, lock, generation, overlaps, excuse>>
    BY <1>2 DEF Resolve, CompiledMeanwhile, Idle
  <2>2. CASE Overload(t) # NoKernel
    <3>1. Take(t, Overload(t)) /\ Overload(t) \in Kernel
      BY <1>2, <2>1, <2>2, OverloadType DEF Resolve, CompiledMeanwhile
    <3> QED
      BY <2>1, <3>1, TakeType DEF TypeOK, memory
  <2>3. CASE Overload(t) = NoKernel
    <3> DEFINE n == [call[t] EXCEPT !.at = "compile"]
    <3>1. Goto(t, n)
      BY <1>2, <2>3 DEF Resolve, CompiledMeanwhile
    <3>2. n \in Calls
      BY <2>1, CallKinds DEF Calls
    <3> QED
      BY <2>1, <3>1, <3>2, GotoEffect DEF TypeOK, memory
  <2> QED
    BY <2>2, <2>3
<1>3. CASE CompileHit(t)
  <2> DEFINE d == call[t].disp
             k == ConfiguredKey(d, call[t].config)
  <2>1. PICK e \in Entries(call[t].sig, k) :
          /\ AddOverload(t, e.kernel)
          /\ cache' = [cache EXCEPT ![d] = IF e.kernel.lcs THEN Flag(d) ELSE ConfiguredFlag(d)]
          /\ Take(t, e.kernel)
    BY <1>3 DEF CompileHit
  <2>2. /\ call[t] # Idle
        /\ UNCHANGED <<sensitive, default, marked, device, disk, marker, lock, generation,
                       overlaps, excuse>>
    BY <1>3 DEF CompileHit, Idle
  <2>3. e.kernel \in Kernel /\ d \in Dispatcher
    BY <2>2, CallKinds DEF TypeOK, Entries
  <2>4. cache' \in [Dispatcher -> {"unborn", "off", "unknown", "no", "yes"}]
    BY <2>1, <2>3, FlagType DEF TypeOK
  <2>5. /\ overloads' \in [Dispatcher -> [Sig -> Kernel \cup {NoKernel}]]
        /\ call' \in [Thread -> Calls]
    BY <2>1, <2>2, <2>3, AddEffect, TakeType
  <2> QED
    BY <2>2, <2>4, <2>5 DEF TypeOK
<1>4. CASE CompileMiss(t)
  <2> DEFINE d == call[t].disp
             k == ConfiguredKey(d, call[t].config)
             n == [at |-> "compiling", config |-> call[t].config, sig |-> call[t].sig,
                   disp |-> d, key |-> k]
  <2>1. /\ call[t].at = "compile" /\ call[t] # Idle /\ Goto(t, n) /\ lock' = t
        /\ cache' = (IF cache[d] = "off" THEN cache ELSE [cache EXCEPT ![d] = ConfiguredFlag(d)])
        /\ UNCHANGED <<sensitive, default, overloads, marked, device, disk, marker, generation,
                       overlaps, excuse>>
    BY <1>4 DEF CompileMiss, Idle
  <2>2. d \in Dispatcher /\ n \in Calls
    BY <2>1, CallKinds, KeyType DEF Calls
  <2>3. cache' \in [Dispatcher -> {"unborn", "off", "unknown", "no", "yes"}]
    BY <2>1, <2>2, FlagType DEF TypeOK
  <2> QED
    BY <2>1, <2>2, <2>3, GotoEffect DEF TypeOK
<1>5. CASE Compile(t)
  <2> DEFINE c == call[t].config
             s == call[t].sig
             d == call[t].disp
  <2>1. /\ call[t].at = "compiling" /\ call[t] # Idle
        /\ device' = Device(c, s) /\ marked' = Marked(c, s) /\ lock' = NoThread
        /\ UNCHANGED <<sensitive, default, generation, overlaps, excuse>>
    BY <1>5 DEF Compile, Idle
  <2>2. PICK remembered \in BOOLEAN :
          LET kernel == Compiled(c, s, remembered)
          IN  /\ AddOverload(t, kernel)
              /\ Take(t, kernel)
              /\ cache' \in {cache, [cache EXCEPT ![d] = "yes"], [cache EXCEPT ![d] = "off"]}
              /\ marker' \in {marker, marker \/ cache[d] # "yes"}
              /\ disk' \in {disk, Saved(s, call[t].key, kernel), Saved(s, CacheKey(d, c), kernel)}
    BY <1>5 DEF Compile
  <2> DEFINE kernel == Compiled(c, s, remembered)
  <2>3. c \in Config /\ s \in Sig /\ d \in Dispatcher /\ call[t].key \in Config \cup {NoKey}
    BY <2>1, CallKinds
  <2>4. kernel \in Kernel
    BY <2>3, CompiledType
  <2>5. device' \in [Inner -> Config \cup {NoConfig}] /\ marked' \subseteq Config
    BY <2>1, <2>3, DeviceType
  <2> HIDE DEF kernel
  <2>6. disk' \subseteq [sig : Sig, key : Config \cup {NoKey, NoConfig}, kernel : Kernel]
    <3>1. Saved(s, call[t].key, kernel) \subseteq
            [sig : Sig, key : Config \cup {NoKey, NoConfig}, kernel : Kernel]
      BY <2>3, <2>4, SavedType
    <3>2. Saved(s, CacheKey(d, c), kernel) \subseteq
            [sig : Sig, key : Config \cup {NoKey, NoConfig}, kernel : Kernel]
      BY <2>1, <2>3, <2>4, SavedType, KeyType
    <3> QED
      BY <2>2, <3>1, <3>2 DEF kernel, TypeOK
  <2>7. cache' \in [Dispatcher -> {"unborn", "off", "unknown", "no", "yes"}] /\ marker' \in BOOLEAN
    BY <2>2, <2>3 DEF TypeOK
  <2>8. /\ overloads' \in [Dispatcher -> [Sig -> Kernel \cup {NoKernel}]]
        /\ call' \in [Thread -> Calls]
    BY <2>1, <2>2, <2>4, AddEffect, TakeType DEF kernel
  <2> QED
    BY <2>1, <2>5, <2>6, <2>7, <2>8 DEF TypeOK
<1>6. CASE CompileFails(t) \/ Launch(t)
  <2>1. /\ call[t].at \in {"compiling", "launch"} /\ call[t] # Idle /\ Goto(t, Idle)
        /\ UNCHANGED <<sensitive, default, overloads, cache, disk, marker, generation,
                       overlaps, excuse>>
        /\ lock' \in {lock, NoThread}
    BY <1>6 DEF CompileFails, Launch, Idle, memory
  <2>2. call[t].config \in Config /\ call[t].sig \in Sig
    BY <2>1, CallKinds
  <2>3. device' \in [Inner -> Config \cup {NoConfig}] /\ marked' \subseteq Config
    BY <1>6, <2>2, DeviceType DEF CompileFails, Launch, TypeOK, memory
  <2>4. call' \in [Thread -> Calls]
    BY <2>1, GotoEffect DEF Calls
  <2> QED
    BY <2>1, <2>3, <2>4 DEF TypeOK
<1>7. CASE UpdateFlag(t) \/ UpdateDefault(t)
  <2> DEFINE c == call[t]
  <2>1. PICK at \in {"default", "launch"} :
          /\ Goto(t, [c EXCEPT !.at = at])
          /\ c.at \in {"update", "default"} /\ c # Idle
          /\ sensitive' \in {sensitive, sensitive \/ (c.kernel.lcs /\ c.disp = Main)}
          /\ default' \in {default, c.config}
          /\ UNCHANGED <<overloads, cache, marked, device, disk, marker, lock, generation,
                         overlaps, excuse>>
    BY <1>7 DEF UpdateFlag, UpdateDefault, Idle
  <2> DEFINE n == [c EXCEPT !.at = at]
  <2>2. n \in Calls /\ c.config \in Config /\ c.kernel \in Kernel
    BY <2>1, CallKinds DEF Calls
  <2>3. call' \in [Thread -> Calls]
    BY <2>1, <2>2, GotoEffect
  <2> QED
    BY <2>1, <2>2, <2>3 DEF TypeOK, Kernel
<1> QED
  BY <1>1, <1>2, <1>3, <1>4, <1>5, <1>6, <1>7 DEF Step

LEMMA TypeQuiet ==
  ASSUME TypeOK, Recompile \/ Restart
  PROVE  TypeOK'
<1>1. CASE Restart
  <2>1. /\ overloads' \in [Dispatcher -> [Sig -> Kernel \cup {NoKernel}]]
        /\ cache' \in [Dispatcher -> {"unborn", "off", "unknown", "no", "yes"}]
        /\ generation' \in 0..MaxRecompiles /\ device' \in [Inner -> Config \cup {NoConfig}]
    BY <1>1, ConstantsAssumption DEF Restart, NoOverloads, FreshCache
  <2>2. disk' \subseteq [sig : Sig, key : Config \cup {NoKey, NoConfig}, kernel : Kernel]
    <3> DEFINE old(e) == [e EXCEPT !.kernel.generation = 0]
    <3>1. ASSUME NEW e \in disk
          PROVE  old(e) \in [sig : Sig, key : Config \cup {NoKey, NoConfig}, kernel : Kernel]
      <4>1. e \in [sig : Sig, key : Config \cup {NoKey, NoConfig}, kernel : Kernel]
        BY DEF TypeOK
      <4>2. 0 \in 0..MaxRecompiles
        BY ConstantsAssumption
      <4> QED
        BY <4>1, <4>2 DEF Kernel
    <3>2. disk' = {old(e) : e \in disk}
      BY <1>1 DEF Restart
    <3> HIDE DEF old
    <3> QED
      BY <3>1, <3>2
  <2> QED
    BY <1>1, <2>1, <2>2 DEF Restart, TypeOK
<1>2. CASE Recompile
  <2> DEFINE kernel(s) == [lcs        |-> FALSE,
                           uses       |-> IF s \in Inner THEN {device[s]} ELSE {},
                           generation |-> generation + 1]
             key == IF sensitive THEN NoConfig ELSE NoKey
  <2>1. generation + 1 \in 0..MaxRecompiles
    BY <1>2, ConstantsAssumption DEF Recompile, TypeOK
  <2>2. ASSUME NEW s \in Sig, ~Raises(s) PROVE kernel(s) \in Kernel
    BY <2>1, <2>2 DEF Raises, TypeOK, Kernel
  <2>3. PICK done \in SUBSET {s \in Sig : ~Raises(s)} :
          /\ overloads' = [overloads EXCEPT ![Main] =
                             [s \in Sig |-> IF s \in done THEN kernel(s) ELSE NoKernel]]
          /\ \/ UNCHANGED <<cache, disk, marker>>
             \/ /\ marker' = FALSE
                /\ cache' \in {[cache EXCEPT ![Main] = x] : x \in {"unknown", "no"}}
                /\ disk' = {[sig |-> s, key |-> key, kernel |-> kernel(s)] : s \in done}
    BY <1>2 DEF Recompile, Flushed
  <2> HIDE DEF kernel
  <2>4. overloads' \in [Dispatcher -> [Sig -> Kernel \cup {NoKernel}]]
    BY <2>2, <2>3 DEF TypeOK, Dispatcher
  <2>5. disk' \subseteq [sig : Sig, key : Config \cup {NoKey, NoConfig}, kernel : Kernel]
    BY <2>2, <2>3 DEF TypeOK
  <2>6. /\ cache' \in [Dispatcher -> {"unborn", "off", "unknown", "no", "yes"}]
        /\ marker' \in BOOLEAN
    BY <2>3 DEF TypeOK
  <2> QED
    BY <1>2, <2>1, <2>4, <2>5, <2>6 DEF Recompile, TypeOK
<1> QED
  BY <1>1, <1>2

LEMMA TypeInit == ASSUME Init PROVE TypeOK
<1>1. overloads \in [Dispatcher -> [Sig -> Kernel \cup {NoKernel}]]
  BY DEF Init, NoOverloads
<1>2. cache \in [Dispatcher -> {"unborn", "off", "unknown", "no", "yes"}]
  BY DEF Init, FreshCache
<1>3. call \in [Thread -> Calls]
  BY DEF Init, Calls
<1>4. generation \in 0..MaxRecompiles
  BY ConstantsAssumption DEF Init
<1> QED
  BY <1>1, <1>2, <1>3, <1>4 DEF Init, TypeOK

LEMMA TypeInvariance ==
  ASSUME TypeOK, [Next]_vars
  PROVE  TypeOK'
<1>1. CASE UNCHANGED vars
  BY <1>1 DEF vars, memory, TypeOK
<1> QED
  BY <1>1, TypeStep, TypeQuiet DEF Next

\* Every variable keeps its type, whatever the threads, configurations,
\* signatures and failures.
THEOREM Typing == Spec => []TypeOK
BY TypeInit, TypeInvariance, PTL DEF Spec

-----------------------------------------------------------------------------
(* What is in memory and on disk fits the launch configuration.              *)

\* A kernel in memory that a thread may take is right for its configuration.
LEMMA OverloadOK ==
  ASSUME Inv, NEW t \in Thread, call[t].at \in {"resolve", "compile"}, Overload(t) # NoKernel
  PROVE  Overload(t) \in Kernel /\ For(Overload(t), call[t].config)
<1>1. call[t] # Idle /\ call[t].disp \in Dispatcher /\ call[t].sig \in Sig
  BY CallKinds DEF Inv, Idle
<1>2. Overload(t) \in Kernel
  BY <1>1, OverloadType DEF Inv
<1>3. CASE call[t].disp # Main
  BY <1>1, <1>2, <1>3 DEF Inv, CallOK, SpecializedOK, Overload, Dispatcher
<1>4. CASE call[t].disp = Main
  <2> DEFINE k == Overload(t)
  <2>1. k = overloads[Main][call[t].sig]
    BY <1>4 DEF Overload
  <2>2. CASE k.uses # {} /\ Announced(k)
    <3>1. PICK u \in Thread : /\ call[u].at \in {"update", "default"}
                              /\ call[u].disp = Main /\ call[u].kernel = k
      BY <2>2 DEF Announced
    <3>2. call[u] # Idle /\ CallOK(u)
      BY <3>1 DEF Idle, Inv
    <3>3. call[u].config = call[t].config
      BY <1>1, <1>4, <3>1, <3>2, Agreement DEF Agrees
    <3> QED
      BY <1>2, <3>1, <3>2, <3>3 DEF CallOK
  <2>3. CASE k.uses # {} /\ ~Announced(k)
    <3>1. k.lcs /\ default # NoConfig /\ k.uses \subseteq {default}
      BY <1>1, <2>1, <2>3 DEF Inv, MainOK
    <3>2. default = call[t].config
      BY <1>1, <1>4, <3>1 DEF Inv, CallOK
    <3> QED
      BY <1>2, <3>1, <3>2 DEF For
  <2>4. CASE k.uses = {}
    BY <1>2, <2>4 DEF For
  <2> QED
    BY <2>2, <2>3, <2>4
<1> QED
  BY <1>2, <1>3, <1>4

\* The key under which a thread looks for a kernel is its own, or none.
LEMMA KeyOK ==
  ASSUME Inv, NEW t \in Thread, call[t] # Idle
  PROVE  /\ CacheKey(call[t].disp, call[t].config) = call[t].config
         /\ ConfiguredKey(call[t].disp, call[t].config) \in {call[t].config, NoKey}
<1>1. call[t].config # NoConfig /\ call[t].config \in Config
  BY CallKinds, ConstantsAssumption DEF Inv
<1>2. CacheKey(call[t].disp, call[t].config) = call[t].config
  BY <1>1 DEF Inv, CallOK, CacheKey
<1> QED
  BY <1>2 DEF ConfiguredKey

\* A thread that takes a kernel, right for its configuration, that is in memory
\* or has just been added to it.
LEMMA TakeKeeps ==
  ASSUME Inv, NEW t \in Thread, call[t] # Idle,
         call[t].at \notin {"update", "default"},
         NEW k \in Kernel, For(k, call[t].config), Take(t, k),
         AddOverload(t, k) \/ UNCHANGED overloads,
         UNCHANGED <<sensitive, default>>
  PROVE  /\ call' \in [Thread -> Calls]
         /\ OneConfig'
         /\ \A u \in Thread : CallOK(u)'
         /\ MainOK' /\ SpecializedOK'
         /\ overloads' \in [Dispatcher -> [Sig -> Kernel \cup {NoKernel}]]
<1>1. PICK c \in Calls : /\ Goto(t, c) /\ c.at = "update" /\ c.kernel = k /\ c # Idle
                         /\ c.config = call[t].config /\ c.disp = call[t].disp
                         /\ c.sig = call[t].sig
  BY TakeEffect DEF Inv
<1>2. /\ call' \in [Thread -> Calls] /\ call'[t] = c /\ OneConfig'
      /\ \A u \in Thread \ {t} : CallOK(u)'
      /\ \A x : Announced(x) => Announced(x)'
  BY <1>1, OthersKeep, Agreement
<1>3. CallOK(t)'
  BY <1>1, <1>2 DEF Inv, CallOK
<1>4. overloads' \in [Dispatcher -> [Sig -> Kernel \cup {NoKernel}]]
  BY AddEffect DEF Inv, TypeOK
<1>5. \A d \in Dispatcher, s \in Sig :
        \/ overloads'[d][s] = overloads[d][s]
        \/ d = c.disp /\ overloads'[d][s] = k
  BY <1>1, AddEffect DEF Inv
<1>6. SpecializedOK'
  BY <1>1, <1>5, ConstantsAssumption DEF Inv, CallOK, SpecializedOK, Dispatcher
<1>8. c.disp = Main => Announced(k)'
  BY <1>1, <1>2 DEF Announced
<1>9. MainOK'
  <2>1. Main \in Dispatcher
    BY DEF Dispatcher
  <2> QED
    BY <1>2, <1>5, <1>8, <2>1 DEF Inv, MainOK, For
<1> QED
  BY <1>2, <1>3, <1>4, <1>6, <1>9

\* The invariant survives every step of a launch.
LEMMA StepInvariance ==
  ASSUME Inv, TypeOK', KernelsOnly, Calm', NEW t \in Thread, Step(t)
  PROVE  Inv'
<1>1. ASSUME NEW c \in Config, NEW s \in Sig, Select(t, c, s)
      PROVE  Inv'
  <2>1. PICK d \in {Main, c} :
          /\ Goto(t, [at |-> "resolve", config |-> c, sig |-> s, disp |-> d])
          /\ d = Main => /\ ~sensitive \/ default \in {c, NoConfig}
                         /\ default' = IF sensitive THEN c ELSE default
                         /\ ~Contended(t, c)
          /\ d # Main => UNCHANGED default
    BY <1>1, ConstantsAssumption DEF Select, Calm
  <2> DEFINE n == [at |-> "resolve", config |-> c, sig |-> s, disp |-> d]
  <2>2. /\ n \in Calls /\ n # Idle /\ n.at = "resolve" /\ n.config = c /\ n.disp = d
    BY DEF Calls, Dispatcher, Idle
  <2> HIDE DEF n
  <2>3. call[t].at = "idle" /\ UNCHANGED <<sensitive, overloads, disk>>
    BY <1>1 DEF Select, Idle
  <2>4. n.disp = Main => \A u \in Thread \ {t} : Agrees(u, n.config)
    BY <2>1, <2>2 DEF Contended, Agrees
  <2>5. default' = default \/ (n.disp = Main /\ default' = n.config)
    BY <2>1, <2>2
  <2>6. /\ call'[t] = n /\ OneConfig'
        /\ \A u \in Thread \ {t} : CallOK(u)'
        /\ \A k : Announced(k) => Announced(k)'
    BY <2>1, <2>2, <2>3, <2>4, <2>5, OthersKeep DEF n
  <2>7. default # NoConfig => UNCHANGED default
    BY <2>1 DEF Inv
  <2>8. MainOK'
    BY <2>3, <2>6, <2>7 DEF Inv, MainOK
  <2>9. CallOK(t)'
    BY <2>1, <2>2, <2>6 DEF Inv, CallOK
  <2>10. default' # NoConfig => sensitive'
    BY <2>1, <2>3 DEF Inv
  <2> QED
    BY <2>3, <2>6, <2>8, <2>9, <2>10 DEF Inv, SpecializedOK, DiskOK
<1>2. CASE Resolve(t) \/ CompiledMeanwhile(t)
  <2>1. call[t].at \in {"resolve", "compile"} /\ call[t] # Idle
        /\ UNCHANGED <<sensitive, default, overloads, disk>>
    BY <1>2 DEF Resolve, CompiledMeanwhile, Idle, memory
  <2>2. CASE Overload(t) # NoKernel
    <3>1. Take(t, Overload(t))
      BY <1>2, <2>2 DEF Resolve, CompiledMeanwhile
    <3> QED
      BY <2>1, <2>2, <3>1, OverloadOK, TakeKeeps DEF Inv, DiskOK
  <2>3. CASE Overload(t) = NoKernel
    <3> DEFINE n == [call[t] EXCEPT !.at = "compile"]
    <3>1. Goto(t, n) /\ call[t].at = "resolve"
      BY <1>2, <2>3 DEF Resolve, CompiledMeanwhile
    <3>2. /\ n \in Calls /\ n # Idle /\ n.at = "compile"
          /\ n.config = call[t].config /\ n.disp = call[t].disp
      BY <3>1, CallKinds DEF Inv, Calls, Idle
    <3> HIDE DEF n
    <3>3. /\ call'[t] = n /\ OneConfig'
          /\ \A u \in Thread \ {t} : CallOK(u)'
          /\ \A k : Announced(k) => Announced(k)'
      BY <2>1, <3>1, <3>2, OthersKeep, Agreement
    <3>4. CallOK(t)'
      BY <2>1, <3>2, <3>3 DEF Inv, CallOK
    <3> QED
      BY <2>1, <3>3, <3>4 DEF Inv, MainOK, SpecializedOK, DiskOK
  <2> QED
    BY <2>2, <2>3
<1>3. CASE CompileHit(t)
  <2> DEFINE d == call[t].disp
             k == ConfiguredKey(d, call[t].config)
  <2>1. PICK e \in Entries(call[t].sig, k) : AddOverload(t, e.kernel) /\ Take(t, e.kernel)
    BY <1>3 DEF CompileHit
  <2>2. /\ call[t].at = "compile" /\ call[t] # Idle
        /\ UNCHANGED <<sensitive, default, disk>>
    BY <1>3 DEF CompileHit, Idle
  <2>3. e \in disk /\ e.key \in {call[t].config, NoKey} /\ e.kernel \in Kernel
    BY <2>2, KeyOK DEF Inv, TypeOK, Entries
  <2>4. For(e.kernel, call[t].config)
    <3>1. For(e.kernel, e.key) /\ e.kernel.uses \subseteq Config
      BY <2>3 DEF Inv, DiskOK, Kernel
    <3> QED
      BY <2>3, <3>1, ConstantsAssumption DEF For
  <2> QED
    BY <2>1, <2>2, <2>3, <2>4, TakeKeeps DEF Inv, DiskOK
<1>4. CASE CompileMiss(t)
  <2> DEFINE d == call[t].disp
             k == ConfiguredKey(d, call[t].config)
             n == [at |-> "compiling", config |-> call[t].config, sig |-> call[t].sig,
                   disp |-> d, key |-> k]
  <2>1. /\ call[t].at = "compile" /\ call[t] # Idle /\ Goto(t, n)
        /\ UNCHANGED <<sensitive, default, overloads, disk>>
    BY <1>4 DEF CompileMiss, Idle
  <2>2. k \in {call[t].config, NoKey}
    BY <2>1, KeyOK
  <2>3. /\ n \in Calls /\ n # Idle /\ n.at = "compiling" /\ n.key = k
        /\ n.config = call[t].config /\ n.disp = call[t].disp
    BY <2>1, CallKinds, KeyType DEF Inv, Calls, Idle
  <2> HIDE DEF n
  <2>4. /\ call'[t] = n /\ OneConfig'
        /\ \A u \in Thread \ {t} : CallOK(u)'
        /\ \A x : Announced(x) => Announced(x)'
    BY <2>1, <2>3, OthersKeep, Agreement
  <2>5. CallOK(t)'
    BY <2>1, <2>2, <2>3, <2>4 DEF Inv, CallOK
  <2> QED
    BY <2>1, <2>4, <2>5 DEF Inv, MainOK, SpecializedOK, DiskOK
<1>5. CASE Compile(t)
  <2> DEFINE c == call[t].config
             s == call[t].sig
             d == call[t].disp
  <2>1. call[t].at = "compiling" /\ call[t] # Idle /\ UNCHANGED <<sensitive, default>>
    BY <1>5 DEF Compile, Idle
  <2>2. PICK remembered \in BOOLEAN :
          LET kernel == Compiled(c, s, remembered)
          IN  /\ AddOverload(t, kernel)
              /\ Take(t, kernel)
              /\ \/ disk' = disk
                 \/ ~kernel.lcs /\ disk' = Saved(s, call[t].key, kernel)
                 \/ disk' = Saved(s, CacheKey(d, c), kernel)
    BY <1>5 DEF Compile
  <2> DEFINE kernel == Compiled(c, s, remembered)
  <2>3. c \in Config /\ s \in Sig /\ call[t].key \in {c, NoKey}
    BY <2>1, CallKinds DEF Inv, CallOK
  <2>4. kernel \in Kernel
    BY <2>3, CompiledType DEF Inv
  <2>5. For(kernel, c)
    BY DEF Compiled, Looks, For, KernelsOnly
  <2>6. ~kernel.lcs => kernel.uses = {}
    BY <2>5 DEF For
  <2> HIDE DEF kernel
  <2>7. OneConfig' /\ (\A u \in Thread : CallOK(u)') /\ MainOK' /\ SpecializedOK'
    BY <2>1, <2>2, <2>4, <2>5, TakeKeeps DEF kernel
  <2>8. \/ disk' = disk
        \/ \E k \in {c, NoKey} : disk' = Saved(s, k, kernel) /\ (k = NoKey => kernel.uses = {})
    <3>1. CacheKey(d, c) = c
      BY <2>1, KeyOK
    <3> QED
      BY <2>2, <2>3, <2>6, <3>1, ConstantsAssumption DEF kernel
  <2>9. DiskOK'
    <3>1. CASE disk' = disk
      BY <3>1 DEF Inv, DiskOK
    <3>2. CASE disk' # disk
      <4> PICK k \in {c, NoKey} : disk' = Saved(s, k, kernel) /\ (k = NoKey => kernel.uses = {})
        BY <2>8, <3>2
      <4> DEFINE new == [sig |-> s, key |-> k, kernel |-> kernel]
      <4>1. new.kernel = kernel /\ new.key = k
        OBVIOUS
      <4>2. For(kernel, k)
        BY <2>5 DEF For
      <4>3. \A e \in disk' : e \in disk \/ e = new
        BY DEF Saved, Entries
      <4> HIDE DEF new
      <4> QED
        BY <4>1, <4>2, <4>3 DEF DiskOK, Inv
    <3> QED
      BY <3>1, <3>2
  <2> QED
    BY <2>1, <2>7, <2>9 DEF Inv
<1>6. CASE CompileFails(t) \/ Launch(t)
  <2>1. /\ call[t].at \in {"compiling", "launch"} /\ Goto(t, Idle)
        /\ UNCHANGED <<sensitive, default, overloads, disk>>
    BY <1>6 DEF CompileFails, Launch, memory
  <2>2. /\ call'[t] = Idle /\ OneConfig'
        /\ \A u \in Thread \ {t} : CallOK(u)'
        /\ \A x : Announced(x) => Announced(x)'
    BY <2>1, OthersKeep DEF Calls
  <2> QED
    BY <2>1, <2>2 DEF Inv, CallOK, MainOK, SpecializedOK, DiskOK
<1>7. CASE UpdateFlag(t) \/ UpdateDefault(t)
  <2> DEFINE c == call[t]
             at == IF c.at = "update" /\ c.kernel.lcs /\ c.disp = Main /\ default = NoConfig
                   THEN "default" ELSE "launch"
             n == [c EXCEPT !.at = at]
  <2>1. /\ c.at \in {"update", "default"} /\ c # Idle /\ Goto(t, n)
        /\ sensitive' = (sensitive \/ (c.at = "update" /\ c.kernel.lcs /\ c.disp = Main))
        /\ default' = (IF c.at = "default" THEN c.config ELSE default)
        /\ UNCHANGED <<overloads, disk>>
    <3>1. CASE UpdateFlag(t)
      BY <3>1 DEF UpdateFlag, Idle
    <3>2. CASE UpdateDefault(t)
      <4>1. c.at = "default" /\ c # Idle /\ sensitive' = sensitive /\ sensitive \in BOOLEAN
        BY <3>2 DEF UpdateDefault, Idle, Inv, TypeOK
      <4> QED
        BY <3>2, <4>1 DEF UpdateDefault
    <3> QED
      BY <1>7, <3>1, <3>2
  <2>2. /\ n \in Calls /\ n # Idle
        /\ n.at = at /\ n.kernel = c.kernel /\ n.config = c.config /\ n.disp = c.disp
        /\ c.config \in Config /\ c.kernel \in Kernel
    BY <2>1, CallKinds DEF Inv, Calls, Idle
  <2> HIDE DEF n
  <2>3. CallOK(t)
    BY DEF Inv
  <2>4. /\ sensitive => sensitive'
        /\ default' = default \/ (n # Idle /\ n.disp = Main /\ default' = n.config)
        /\ n.disp = Main => \A u \in Thread : Agrees(u, n.config)
    BY <2>1, <2>2, <2>3, Agreement DEF CallOK
  <2>5. call'[t] = n /\ OneConfig' /\ \A u \in Thread \ {t} : CallOK(u)' /\ call'[u] = call[u]
    BY <2>1, <2>2, <2>4, OthersKeep, GotoEffect DEF Inv
  <2>6. CallOK(t)'
    BY <2>1, <2>2, <2>3, <2>5 DEF CallOK, Kernel
  <2>7. default' # NoConfig => sensitive'
    BY <2>1, <2>3 DEF Inv, CallOK
  <2>8. default # NoConfig => default' = default
    BY <2>1, <2>3 DEF CallOK
  <2>9. ASSUME NEW k, Announced(k), k.lcs
        PROVE  Announced(k)' \/ (sensitive' /\ default' # NoConfig /\ k.uses \subseteq {default'})
    <3>1. PICK u \in Thread : /\ call[u].at \in {"update", "default"}
                              /\ call[u].disp = Main /\ call[u].kernel = k
      BY <2>9 DEF Announced
    <3>2. CASE u # t
      BY <2>5, <3>1, <3>2 DEF Announced
    <3>3. CASE u = t /\ at = "default"
      BY <2>2, <2>5, <3>1, <3>3 DEF Announced
    <3>4. CASE u = t /\ at = "launch"
      BY <2>1, <2>2, <2>3, <2>9, <3>1, <3>4, ConstantsAssumption DEF CallOK, For
    <3> QED
      BY <3>2, <3>3, <3>4
  <2>10. MainOK'
    BY <2>1, <2>4, <2>8, <2>9 DEF Inv, MainOK
  <2> QED
    BY <2>1, <2>5, <2>6, <2>7, <2>10 DEF Inv, SpecializedOK, DiskOK
<1> QED
  BY <1>1, <1>2, <1>3, <1>4, <1>5, <1>6, <1>7 DEF Step

\* Recompiling leaves kernels of no configuration in memory and on disk, and a
\* restart leaves what is on disk filed as it was.
LEMMA QuietInvariance ==
  ASSUME Inv, TypeOK', KernelsOnly, Recompile \/ Restart
  PROVE  Inv'
<1>1. \A t \in Thread : call'[t] = Idle
  BY DEF Recompile, Restart, Quiet
<1>2. OneConfig' /\ \A t \in Thread : CallOK(t)'
  BY <1>1 DEF OneConfig, CallOK
<1>3. CASE Restart
  <2> DEFINE old(e) == [e EXCEPT !.kernel.generation = 0]
  <2>1. ASSUME NEW e \in disk
        PROVE  /\ old(e).key = e.key
               /\ old(e).kernel.uses = e.kernel.uses /\ old(e).kernel.lcs = e.kernel.lcs
    BY DEF Inv, TypeOK, Kernel
  <2>2. disk' = {old(e) : e \in disk}
    BY <1>3 DEF Restart
  <2> HIDE DEF old
  <2>3. DiskOK'
    BY <2>1, <2>2 DEF Inv, DiskOK, For
  <2>4. \A d \in Dispatcher, s \in Sig : overloads'[d][s] = NoKernel
    BY <1>3 DEF Restart, NoOverloads
  <2>5. MainOK' /\ SpecializedOK'
    BY <2>4 DEF MainOK, SpecializedOK, Dispatcher
  <2> QED
    BY <1>2, <1>3, <2>3, <2>5 DEF Restart, Inv
<1>4. CASE Recompile
  <2> DEFINE kernel == [lcs |-> FALSE, uses |-> {}, generation |-> generation + 1]
             key == IF sensitive THEN NoConfig ELSE NoKey
             k(s) == [lcs        |-> FALSE,
                      uses       |-> IF s \in Inner THEN {device[s]} ELSE {},
                      generation |-> generation + 1]
  <2>1. \A s : k(s) = kernel
    BY DEF KernelsOnly
  <2>2. PICK done \in SUBSET Sig :
          /\ overloads' = [overloads EXCEPT ![Main] =
                             [s \in Sig |-> IF s \in done THEN kernel ELSE NoKernel]]
          /\ \/ UNCHANGED disk
             \/ disk' = {[sig |-> s, key |-> key, kernel |-> kernel] : s \in done}
    <3>1. PICK done \in SUBSET Sig :
            /\ overloads' = [overloads EXCEPT ![Main] =
                               [s \in Sig |-> IF s \in done THEN k(s) ELSE NoKernel]]
            /\ \/ UNCHANGED disk
               \/ disk' = {[sig |-> s, key |-> key, kernel |-> k(s)] : s \in done}
      BY <1>4 DEF Recompile, Flushed
    <3> HIDE DEF kernel, k, key
    <3>2. /\ [s \in Sig |-> IF s \in done THEN k(s) ELSE NoKernel]
               = [s \in Sig |-> IF s \in done THEN kernel ELSE NoKernel]
          /\ {[sig |-> s, key |-> key, kernel |-> k(s)] : s \in done}
               = {[sig |-> s, key |-> key, kernel |-> kernel] : s \in done}
      BY <2>1
    <3> QED
      BY <3>1, <3>2
  <2>3. UNCHANGED <<sensitive, default>>
    BY <1>4 DEF Recompile
  <2>4. kernel.uses = {}
    OBVIOUS
  <2> HIDE DEF kernel
  <2>5. /\ \A s \in Sig : overloads'[Main][s] \in {kernel, NoKernel}
        /\ \A d \in Config : overloads'[d] = overloads[d]
    BY <2>2, ConstantsAssumption DEF Inv, TypeOK, Dispatcher
  <2>6. \A e \in disk' :
           \/ e \in disk
           \/ \E s \in Sig : e = [sig |-> s, key |-> key, kernel |-> kernel]
    BY <2>2
  <2>7. DiskOK'
    BY <2>4, <2>6 DEF DiskOK, For, Inv
  <2>8. MainOK' /\ SpecializedOK'
    BY <2>4, <2>5 DEF Inv, MainOK, SpecializedOK
  <2> QED
    BY <1>2, <2>3, <2>7, <2>8 DEF Inv
<1> QED
  BY <1>3, <1>4

LEMMA InitInv == ASSUME Init PROVE Inv
<1>1. MainOK /\ SpecializedOK /\ DiskOK
  BY DEF Init, NoOverloads, MainOK, SpecializedOK, DiskOK, Dispatcher
<1> QED
  BY <1>1, TypeInit DEF Init, Inv, CallOK, OneConfig

\* Once launches have contended, they have for good.
LEMMA CalmBefore ==
  ASSUME [Next]_vars, Calm'
  PROVE  Calm
<1>1. excuse \subseteq excuse'
  <2>1. CASE \E t \in Thread : Step(t)
    <3>1. PICK t \in Thread : Step(t)
      BY <2>1
    <3>2. ASSUME NEW c \in Config, NEW s \in Sig, Select(t, c, s) PROVE excuse \subseteq excuse'
      BY <3>2 DEF Select
    <3>3. CASE Resolve(t) \/ CompiledMeanwhile(t)
      BY <3>3 DEF Resolve, CompiledMeanwhile
    <3>4. CASE CompileHit(t) \/ CompileMiss(t)
      BY <3>4 DEF CompileHit, CompileMiss
    <3>5. CASE Compile(t) \/ CompileFails(t)
      BY <3>5 DEF Compile, CompileFails
    <3>6. CASE UpdateFlag(t) \/ UpdateDefault(t) \/ Launch(t)
      BY <3>6 DEF UpdateFlag, UpdateDefault, Launch
    <3> QED
      BY <3>1, <3>2, <3>3, <3>4, <3>5, <3>6 DEF Step
  <2>2. CASE Recompile \/ Restart \/ UNCHANGED vars
    BY <2>2 DEF Recompile, Restart, vars
  <2> QED
    BY <2>1, <2>2 DEF Next
<1> QED
  BY <1>1 DEF Calm

LEMMA Invariance ==
  ASSUME TypeOK, Calm => Inv, KernelsOnly, [Next]_vars
  PROVE  Calm' => Inv'
<1> SUFFICES ASSUME Calm' PROVE Inv'
  OBVIOUS
<1>1. Inv /\ TypeOK'
  BY CalmBefore, TypeInvariance
<1>2. CASE UNCHANGED vars
  BY <1>1, <1>2 DEF vars, memory, Inv, TypeOK, OneConfig, Agrees, CallOK, MainOK, Announced,
                    SpecializedOK, DiskOK
<1> QED
  BY <1>1, <1>2, StepInvariance, QuietInvariance DEF Next

LEMMA CalmInvariant == ASSUME KernelsOnly PROVE Spec => [](Calm => Inv)
<1>1. TypeOK /\ (Calm => Inv) /\ [Next]_vars => (Calm => Inv)'
  BY Invariance
<1>2. Init => (Calm => Inv)
  BY InitInv
<1> QED
  BY <1>1, <1>2, Typing, PTL DEF Spec

\* No thread launches code that was generated for another launch configuration,
\* until two launches contend for the main dispatcher (CUDADispatcher.call).
THEOREM CalmReusesSafely == ASSUME KernelsOnly PROVE Spec => []SafeReuse
<1>1. (Calm => Inv) => SafeReuse
  BY DEF Calm, Inv, CallOK, SafeReuse, For, Idle
<1> QED
  BY <1>1, CalmInvariant, PTL

\* What threads leave on disk, over any number of processes one after the
\* other, is filed under the configuration it was generated for
\* (CUDADispatcher.compile).
THEOREM CalmKeysDisk == ASSUME KernelsOnly PROVE Spec => []DiskKeyed
<1>1. (Calm => Inv) => DiskKeyed
  BY DEF Calm, Inv, DiskOK, DiskKeyed, For
<1> QED
  BY <1>1, CalmInvariant, PTL
-----------------------------------------------------------------------------
(***************************************************************************)
(* Compiling.  A thread that compiles holds the compiler lock, so that     *)
(* nobody adds the kernel it makes, to memory or to the disk cache, before *)
(* it does.                                                                *)
(***************************************************************************)
\* A thread compiles with the lock, what it did not find in memory.
LockOK ==
  \A t \in Thread : call[t].at = "compiling" => lock = t /\ Overload(t) = NoKernel

(***************************************************************************)
(* Recompiling.  What Main can still take, in memory, by a call in         *)
(* progress, or from disk unless its disk cache is off, was compiled after *)
(* the last recompile().                                                   *)
(***************************************************************************)
Recent ==
  /\ \A s \in Sig : overloads[Main][s] # NoKernel => overloads[Main][s].generation = generation
  /\ \A t \in Thread :
        call[t].at \in {"update", "default", "launch"} /\ call[t].disp = Main
          => call[t].kernel.generation = generation
  /\ cache[Main] # "off" => \A e \in disk : e.kernel.generation = generation

(***************************************************************************)
(* The disk cache and its marker.                                          *)
(***************************************************************************)
\* Which dispatcher a call uses, and the default it goes by.
Route ==
  /\ default # NoConfig => sensitive
  /\ \A t \in Thread : call[t] # Idle =>
        /\ call[t].disp # Main => call[t].disp = call[t].config /\ sensitive
        /\ call[t].at = "default" => sensitive /\ call[t].disp = Main

\* As long as no two launches contended, all calls of Main have the default
\* configuration.
RouteCalm ==
  Calm =>
     /\ OneConfig
     /\ \A t \in Thread : call[t] # Idle =>
           /\ call[t].disp = Main /\ default # NoConfig => default = call[t].config
           /\ call[t].at = "compiling" => call[t].key \in {call[t].config, NoKey}

\* Main is sensitive, or will be once a call in progress or a later one has
\* taken a kernel that is.
Sensitive ==
  \/ sensitive
  \/ \E s \in Sig : overloads[Main][s].lcs
  \/ \E t \in Thread : /\ call[t].at \in {"update", "default", "launch"}
                       /\ call[t].disp = Main /\ call[t].kernel.lcs

Original == "recompiled" \notin excuse

\* A dispatcher is born before it is launched, and Main does not believe that
\* there is no marker when there is one, unless it knows better.
Born ==
  /\ cache[Main] # "unborn"
  /\ \A t \in Thread : call[t] # Idle => cache[call[t].disp] # "unborn"
  /\ marker /\ cache[Main] = "no" => sensitive

\* As long as nobody recompiled, what is sensitive and goes to disk, or has
\* gone there, has left the marker.
MarkerOK ==
  Original =>
     /\ \A d \in Dispatcher : cache[d] = "yes" => marker
     /\ \A d \in Config : cache[d] \notin {"unborn", "off"} => marker
     /\ Sensitive => cache[Main] \in {"yes", "off"}
     /\ \A e \in disk : e.key \in Config => marker

\* The disk does not have what a thread compiles for it.
CompilingOK ==
  \A t \in Thread : call[t].at = "compiling" /\ cache[call[t].disp] # "off" =>
     /\ \A e \in disk : e.sig = call[t].sig => e.key # call[t].key
     /\ Original /\ call[t].key = NoKey => \A e \in disk : e.key \notin Config
     /\ Original /\ call[t].key \in Config => marker

LEMMA IdleAt == Idle.at = "idle"
BY DEF Idle

\* While a thread compiles, the others leave alone what it will write.
LEMMA OthersWait ==
  ASSUME TypeOK, LockOK, NEW t \in Thread, Step(t)
  PROVE  /\ \A u \in Thread \ {t} : call'[u] = call[u]
         /\ \A u \in Thread \ {t} : call[u].at = "compiling" =>
              /\ UNCHANGED <<overloads, disk, marker, lock>>
              /\ \A d \in Dispatcher : cache[d] # "unborn" => cache'[d] = cache[d]
<1>1. ASSUME NEW c \in Config, NEW s \in Sig, Select(t, c, s)
      PROVE  /\ \A u \in Thread \ {t} : call'[u] = call[u]
             /\ UNCHANGED <<overloads, disk, marker, lock>>
             /\ \A d \in Dispatcher : cache[d] # "unborn" => cache'[d] = cache[d]
  BY <1>1 DEF Select, Goto, TypeOK
<1>2. CASE \/ Resolve(t) \/ CompiledMeanwhile(t) \/ UpdateFlag(t) \/ UpdateDefault(t) \/ Launch(t)
  BY <1>2 DEF Resolve, CompiledMeanwhile, UpdateFlag, UpdateDefault, Launch, Take, Goto, TypeOK, memory
<1>3. CASE CompileHit(t) \/ CompileMiss(t)
  <2>1. lock = NoThread
    BY <1>3 DEF CompileHit, CompileMiss
  <2>2. \A u \in Thread : call[u].at # "compiling"
    BY <2>1, ConstantsAssumption DEF LockOK
  <2>3. \A u \in Thread \ {t} : call'[u] = call[u]
    BY <1>3 DEF CompileHit, CompileMiss, Take, Goto, TypeOK
  <2> QED BY <2>2, <2>3
<1>4. CASE Compile(t) \/ CompileFails(t)
  <2>1. call[t].at = "compiling"
    BY <1>4 DEF Compile, CompileFails
  <2>2. \A u \in Thread \ {t} : call[u].at # "compiling"
    BY <2>1 DEF LockOK
  <2>3. \A u \in Thread \ {t} : call'[u] = call[u]
    BY <1>4 DEF Compile, CompileFails, Take, Goto, TypeOK
  <2> QED BY <2>2, <2>3
<1> QED BY <1>1, <1>2, <1>3, <1>4 DEF Step

\* Between launches nobody compiles.
LEMMA QuietCalls ==
  ASSUME Recompile \/ Restart
  PROVE  \A t \in Thread : call[t] = Idle /\ call'[t] = Idle
BY DEF Recompile, Restart, Quiet

LEMMA LockInvariance ==
  ASSUME TypeOK, LockOK, [Next]_vars
  PROVE  LockOK'
<1>1. ASSUME NEW t \in Thread, Step(t)
      PROVE  LockOK'
  <2>1. \A u \in Thread \ {t} : call'[u].at = "compiling" => lock' = u /\ (Overload(u) = NoKernel)'
    BY <1>1, OthersWait DEF LockOK, Overload
  <2>2. call'[t].at = "compiling" => CompileMiss(t)
    <3>1. ASSUME NEW c \in Config, NEW s \in Sig, Select(t, c, s)
          PROVE  call'[t].at = "resolve"
      BY <3>1 DEF Select, Goto, TypeOK
    <3>2. CASE \/ Resolve(t) \/ CompiledMeanwhile(t)
      BY <3>2, CallKinds DEF Resolve, CompiledMeanwhile, Take, Goto, TypeOK
    <3>3. CASE CompileHit(t) \/ Compile(t)
      BY <3>3 DEF CompileHit, Compile, Take, Goto, TypeOK
    <3>4. CASE CompileFails(t) \/ Launch(t)
      BY <3>4 DEF CompileFails, Launch, Goto, TypeOK, Idle
    <3>5. CASE UpdateFlag(t) \/ UpdateDefault(t)
      BY <3>5, CallKinds DEF UpdateFlag, UpdateDefault, Goto, TypeOK
    <3> QED BY <1>1, <3>1, <3>2, <3>3, <3>4, <3>5 DEF Step
  <2>3. CompileMiss(t) => lock' = t /\ (Overload(t) = NoKernel)'
    BY DEF CompileMiss, Goto, TypeOK, Overload
  <2> QED BY <2>1, <2>2, <2>3 DEF LockOK
<1>2. CASE Recompile \/ Restart
  BY <1>2, QuietCalls, IdleAt DEF LockOK
<1>3. CASE UNCHANGED vars
  BY <1>3 DEF vars, memory, LockOK, Overload
<1> QED BY <1>1, <1>2, <1>3 DEF Next

LEMMA AlwaysLocked == Spec => []LockOK
<1>1. Init => LockOK
  BY IdleAt DEF Init, LockOK
<1> QED BY <1>1, LockInvariance, Typing, PTL DEF Spec

\* A call goes from compiling to taking its kernel in one way.
LEMMA OnlyCompile ==
  ASSUME TypeOK, LockOK, [Next]_vars, NEW t \in Thread,
         call[t].at = "compiling", call'[t].at = "update"
  PROVE  Compile(t)
<1>1. PICK u \in Thread : Step(u)
  BY QuietCalls, IdleAt DEF Next, vars
<1>2. u = t
  BY <1>1, OthersWait
<1>3. ASSUME NEW c \in Config, NEW s \in Sig
      PROVE  ~Select(t, c, s)
  BY IdleAt DEF Select
<1> QED
  BY <1>1, <1>2, <1>3, IdleAt DEF Step, Resolve, CompiledMeanwhile, CompileHit, CompileMiss,
     CompileFails, UpdateFlag, UpdateDefault, Launch, Goto, TypeOK

\* A kernel is compiled once, whatever threads launch its signature at the same
\* time (CUDADispatcher.compile).
THEOREM AlwaysCompiledOnce == Spec => CompiledOnce
<1>1. ASSUME LockOK, NEW t \in Thread, call[t].at = "compiling"
      PROVE  Overload(t) = NoKernel
  BY <1>1 DEF LockOK
<1>2. LockOK => [\A t \in Thread : call[t].at = "compiling" /\ call'[t].at = "update"
                                     => Overload(t) = NoKernel]_vars
  BY <1>1
<1> QED BY <1>2, AlwaysLocked, PTL DEF CompiledOnce
-----------------------------------------------------------------------------
(* Recompiling.                                                              *)

\* A step that takes a kernel for the call of a thread, if it takes one, changes
\* no other call.
LEMMA TakesAfter ==
  ASSUME TypeOK, NEW t \in Thread, call[t] # Idle, NEW k \in Kernel, Take(t, k)
  PROVE  /\ call'[t].at = "update" /\ call'[t].kernel = k
         /\ call'[t].disp = call[t].disp /\ call'[t].sig = call[t].sig
         /\ call'[t].config = call[t].config /\ call'[t] # Idle
         /\ \A u \in Thread \ {t} : call'[u] = call[u]
<1>1. PICK c \in Calls : /\ Goto(t, c) /\ c.at = "update" /\ c.kernel = k /\ c # Idle
                         /\ c.config = call[t].config /\ c.disp = call[t].disp
                         /\ c.sig = call[t].sig
  BY TakeEffect
<1> QED BY <1>1, GotoEffect

\* Main takes what is recent, in memory and from disk.
LEMMA TakeRecent ==
  ASSUME TypeOK, Recent, NEW t \in Thread, call[t] # Idle, NEW k \in Kernel, Take(t, k),
         call[t].disp = Main => k.generation = generation,
         AddOverload(t, k) \/ UNCHANGED overloads,
         generation' = generation,
         cache'[Main] # "off" => \A e \in disk' : e.kernel.generation = generation
  PROVE  Recent'
<1>1. \A s \in Sig : \/ overloads'[Main][s] = overloads[Main][s]
                     \/ call[t].disp = Main /\ overloads'[Main][s] = k
  BY AddEffect DEF Dispatcher
<1>2. \A s \in Sig : overloads'[Main][s] # NoKernel => overloads'[Main][s].generation = generation'
  BY <1>1 DEF Recent
<1>3. \A u \in Thread :
        call'[u].at \in {"update", "default", "launch"} /\ call'[u].disp = Main
          => call'[u].kernel.generation = generation'
  BY TakesAfter DEF Recent
<1> QED BY <1>2, <1>3 DEF Recent

LEMMA RecentStep ==
  ASSUME TypeOK, Recent, NEW t \in Thread, Step(t)
  PROVE  Recent'
<1>m. Main \in Dispatcher
  BY DEF Dispatcher
<1>1. ASSUME NEW c \in Config, NEW s \in Sig, Select(t, c, s)
      PROVE  Recent'
  <2>1. /\ UNCHANGED <<overloads, disk, generation>> /\ call'[t].at = "resolve"
        /\ \A u \in Thread \ {t} : call'[u] = call[u]
        /\ cache'[Main] = cache[Main]
    BY <1>1, <1>m, ConstantsAssumption DEF Select, Goto, TypeOK
  <2> QED BY <2>1 DEF Recent
<1>2. CASE Resolve(t) \/ CompiledMeanwhile(t)
  <2>1. /\ call[t].at \in {"resolve", "compile"} /\ call[t] # Idle
        /\ UNCHANGED <<overloads, cache, disk, generation>>
    BY <1>2 DEF Resolve, CompiledMeanwhile, Idle, memory
  <2>2. CASE Overload(t) # NoKernel
    <3>1. Take(t, Overload(t)) /\ Overload(t) \in Kernel
      BY <1>2, <2>1, <2>2, OverloadType DEF Resolve, CompiledMeanwhile
    <3>2. call[t].disp = Main => Overload(t).generation = generation
      BY <2>1, <2>2, CallKinds DEF Overload, Recent
    <3>3. cache'[Main] # "off" => \A e \in disk' : e.kernel.generation = generation
      BY <2>1 DEF Recent
    <3> HIDE DEF Overload
    <3> QED BY <2>1, <3>1, <3>2, <3>3, TakeRecent
  <2>3. CASE Overload(t) = NoKernel
    <3>1. call'[t].at = "compile" /\ \A u \in Thread \ {t} : call'[u] = call[u]
      BY <1>2, <2>1, <2>3, CallKinds DEF Resolve, CompiledMeanwhile, Goto, TypeOK
    <3> QED BY <2>1, <3>1 DEF Recent
  <2> QED BY <2>2, <2>3
<1>3. CASE CompileHit(t)
  <2> DEFINE d == call[t].disp
             k == ConfiguredKey(d, call[t].config)
  <2>1. PICK e \in Entries(call[t].sig, k) :
          /\ AddOverload(t, e.kernel) /\ Take(t, e.kernel)
          /\ \E x : cache' = [cache EXCEPT ![d] = x]
    BY <1>3 DEF CompileHit
  <2>2. /\ call[t] # Idle /\ cache[d] # "off" /\ UNCHANGED <<disk, generation>>
    BY <1>3 DEF CompileHit, Idle
  <2>3. e \in disk /\ e.kernel \in Kernel
    BY DEF Entries, TypeOK
  <2>4. d = Main => e.kernel.generation = generation
    BY <2>2, <2>3 DEF Recent
  <2>5. cache'[Main] # "off" => \A x \in disk' : x.kernel.generation = generation
    <3>1. CASE d = Main
      BY <2>2, <3>1 DEF Recent
    <3>2. CASE d # Main
      <4>1. cache'[Main] = cache[Main]
        BY <2>1, <3>2, <1>m DEF TypeOK
      <4> QED BY <2>2, <4>1 DEF Recent
    <3> QED BY <3>1, <3>2
  <2> QED BY <2>1, <2>2, <2>3, <2>4, <2>5, TakeRecent
<1>4. CASE CompileMiss(t)
  <2> DEFINE d == call[t].disp
  <2>1. /\ UNCHANGED <<overloads, disk, generation>> /\ call'[t].at = "compiling"
        /\ \A u \in Thread \ {t} : call'[u] = call[u]
        /\ \/ cache' = cache
           \/ cache[d] # "off" /\ \E x : cache' = [cache EXCEPT ![d] = x]
    BY <1>4 DEF CompileMiss, Goto, TypeOK
  <2>2. cache'[Main] # "off" => cache[Main] # "off"
    BY <2>1, <1>m DEF TypeOK
  <2> QED BY <2>1, <2>2 DEF Recent
<1>5. CASE Compile(t)
  <2> DEFINE c == call[t].config
             s == call[t].sig
             d == call[t].disp
  <2>1. call[t].at = "compiling" /\ call[t] # Idle /\ generation' = generation
    BY <1>5 DEF Compile, Idle
  <2>2. PICK remembered \in BOOLEAN :
          LET kernel == Compiled(c, s, remembered)
          IN  /\ AddOverload(t, kernel) /\ Take(t, kernel)
              /\ disk' = disk \/ \E k : disk' = Saved(s, k, kernel)
              /\ \/ cache' = cache
                 \/ cache[d] # "off" /\ \E x : cache' = [cache EXCEPT ![d] = x]
    BY <1>5 DEF Compile
  <2> DEFINE kernel == Compiled(c, s, remembered)
  <2>3. kernel \in Kernel /\ kernel.generation = generation
    BY <2>1, CallKinds, CompiledType DEF Compiled
  <2> HIDE DEF kernel
  <2>4. \A e \in disk' : e \in disk \/ e.kernel.generation = generation
    BY <2>2, <2>3 DEF Saved, kernel
  <2>5. cache'[Main] # "off" => cache[Main] # "off"
    BY <2>2, <1>m DEF TypeOK
  <2>6. cache'[Main] # "off" => \A e \in disk' : e.kernel.generation = generation
    BY <2>4, <2>5 DEF Recent
  <2> QED BY <2>1, <2>2, <2>3, <2>6, TakeRecent DEF kernel
<1>6. CASE CompileFails(t) \/ Launch(t)
  <2>1. /\ UNCHANGED <<overloads, cache, disk, generation>> /\ call'[t].at = "idle"
        /\ \A u \in Thread \ {t} : call'[u] = call[u]
    BY <1>6, IdleAt DEF CompileFails, Launch, Goto, TypeOK, memory
  <2> QED BY <2>1 DEF Recent
<1>7. CASE UpdateFlag(t) \/ UpdateDefault(t)
  <2>1. /\ UNCHANGED <<overloads, cache, disk, generation>>
        /\ call[t].at \in {"update", "default"}
        /\ call'[t].disp = call[t].disp /\ call'[t].kernel = call[t].kernel
        /\ \A u \in Thread \ {t} : call'[u] = call[u]
    BY <1>7, CallKinds DEF UpdateFlag, UpdateDefault, Goto, TypeOK
  <2> QED BY <2>1 DEF Recent
<1> QED BY <1>1, <1>2, <1>3, <1>4, <1>5, <1>6, <1>7 DEF Step

\* recompile() makes everything that Main can take recent, a restart forgets
\* when it was compiled.
LEMMA RecentQuiet ==
  ASSUME TypeOK, Recent, Recompile \/ Restart
  PROVE  Recent'
<1>m. Main \in Dispatcher
  BY DEF Dispatcher
<1>1. \A t \in Thread : call'[t].at = "idle"
  BY QuietCalls, IdleAt
<1>2. CASE Restart
  <2>1. \A s \in Sig : overloads'[Main][s] = NoKernel
    BY <1>2, <1>m DEF Restart, NoOverloads
  <2>2. \A e \in disk' : e.kernel.generation = 0
    <3>1. disk' = {[e EXCEPT !.kernel.generation = 0] : e \in disk}
      BY <1>2 DEF Restart
    <3>2. \A e \in disk : [e EXCEPT !.kernel.generation = 0].kernel.generation = 0
      BY DEF TypeOK, Kernel
    <3> QED BY <3>1, <3>2
  <2> QED BY <1>1, <1>2, <2>1, <2>2 DEF Recent, Restart
<1>3. CASE Recompile
  <2> DEFINE kernel(s) == [lcs        |-> FALSE,
                           uses       |-> IF s \in Inner THEN {device[s]} ELSE {},
                           generation |-> generation + 1]
             key == IF sensitive THEN NoConfig ELSE NoKey
  <2>1. PICK done \in SUBSET Sig :
          /\ overloads' = [overloads EXCEPT ![Main] =
                             [s \in Sig |-> IF s \in done THEN kernel(s) ELSE NoKernel]]
          /\ IF cache[Main] = "off" THEN UNCHANGED cache
             ELSE disk' = {[sig |-> s, key |-> key, kernel |-> kernel(s)] : s \in done}
    BY <1>3 DEF Recompile, Flushed
  <2>2. generation' = generation + 1
    BY <1>3 DEF Recompile
  <2>3. \A s : kernel(s).generation = generation'
    BY <2>2
  <2> HIDE DEF kernel
  <2>4. \A s \in Sig : overloads'[Main][s] # NoKernel => overloads'[Main][s].generation = generation'
    BY <2>1, <2>3, <1>m DEF TypeOK
  <2>5. cache'[Main] # "off" => \A e \in disk' : e.kernel.generation = generation'
    BY <2>1, <2>3
  <2> QED BY <1>1, <2>4, <2>5 DEF Recent
<1> QED BY <1>2, <1>3

LEMMA AlwaysRecent == Spec => []Recent
<1>1. Init => Recent
  <2>1. ASSUME Init
        PROVE  \A s \in Sig : overloads[Main][s] = NoKernel
    BY <2>1 DEF Init, NoOverloads, Dispatcher
  <2> QED BY <2>1, IdleAt DEF Init, Recent
<1>2. TypeOK /\ Recent /\ [Next]_vars => Recent'
  <2>1. TypeOK /\ Recent /\ UNCHANGED vars => Recent'
    BY DEF vars, memory, Recent
  <2> QED BY <2>1, RecentStep, RecentQuiet DEF Next
<1> QED BY <1>1, <1>2, Typing, PTL DEF Spec

\* "Recompile all signatures afresh": after recompile() Main never launches a
\* kernel that is older, for any threads, signatures, restarts, failures to
\* compile and to write the marker (CUDADispatcher.recompile).
THEOREM AlwaysRecompiledAfresh == Spec => []MainRecompiledAfresh
<1>1. Recent => MainRecompiledAfresh
  BY DEF Recent, MainRecompiledAfresh
<1> QED BY <1>1, AlwaysRecent, PTL
-----------------------------------------------------------------------------
(* The disk cache spares compiling.                                          *)

\* The calls after a step of the thread t, told apart by what the step does.
LEMMA StepCalls ==
  ASSUME TypeOK, NEW t \in Thread, Step(t)
  PROVE  /\ \A u \in Thread \ {t} : call'[u] = call[u]
         /\ \/ \E c \in Config, s \in Sig : Select(t, c, s)
            \/ call'[t] = Idle
            \/ /\ call[t] # Idle /\ call'[t] # Idle
               /\ call'[t].disp = call[t].disp /\ call'[t].config = call[t].config
               /\ call'[t].sig = call[t].sig
<1>1. ASSUME NEW c \in Config, NEW s \in Sig, Select(t, c, s)
      PROVE  \A u \in Thread \ {t} : call'[u] = call[u]
  BY <1>1 DEF Select, Goto, TypeOK
<1>2. CASE Resolve(t) \/ CompiledMeanwhile(t)
  <2>1. call[t] # Idle /\ call[t].at \in {"resolve", "compile"}
    BY <1>2 DEF Resolve, CompiledMeanwhile, Idle
  <2>2. CASE Overload(t) # NoKernel
    <3>1. Take(t, Overload(t)) /\ Overload(t) \in Kernel
      BY <1>2, <2>1, <2>2, OverloadType DEF Resolve, CompiledMeanwhile
    <3> HIDE DEF Overload
    <3> QED BY <2>1, <3>1, TakesAfter
  <2>3. CASE Overload(t) = NoKernel
    <3>1. Goto(t, [call[t] EXCEPT !.at = "compile"])
      BY <1>2, <2>3 DEF Resolve, CompiledMeanwhile
    <3> QED BY <2>1, <3>1, CallKinds DEF Goto, TypeOK, Idle
  <2> QED BY <2>2, <2>3
<1>3. CASE CompileHit(t)
  <2>1. /\ call[t] # Idle
        /\ \E e \in disk : Take(t, e.kernel)
    BY <1>3 DEF CompileHit, Idle, Entries
  <2>2. PICK e \in disk : Take(t, e.kernel) /\ e.kernel \in Kernel
    BY <2>1 DEF TypeOK
  <2> QED BY <2>1, <2>2, TakesAfter
<1>4. CASE CompileMiss(t)
  BY <1>4 DEF CompileMiss, Goto, TypeOK, Idle
<1>5. CASE Compile(t)
  <2>1. /\ call[t] # Idle
        /\ \E r \in BOOLEAN : Take(t, Compiled(call[t].config, call[t].sig, r))
    BY <1>5 DEF Compile, Idle
  <2>2. PICK k \in Kernel : Take(t, k)
    BY <2>1, CallKinds, CompiledType
  <2> QED BY <2>1, <2>2, TakesAfter
<1>6. CASE CompileFails(t) \/ Launch(t)
  BY <1>6 DEF CompileFails, Launch, Goto, TypeOK
<1>7. CASE UpdateFlag(t) \/ UpdateDefault(t)
  BY <1>7, CallKinds DEF UpdateFlag, UpdateDefault, Goto, TypeOK, Idle
<1> QED BY <1>1, <1>2, <1>3, <1>4, <1>5, <1>6, <1>7 DEF Step

\* The default configuration and the flag change in three steps.
LEMMA StepDefaults ==
  ASSUME TypeOK, NEW t \in Thread, Step(t)
  PROVE  \/ UNCHANGED <<sensitive, default>>
         \/ \E c \in Config, s \in Sig : Select(t, c, s)
         \/ UpdateFlag(t) \/ UpdateDefault(t)
BY DEF Step, Resolve, CompiledMeanwhile, CompileHit, CompileMiss, Compile, CompileFails,
       Launch, memory

LEMMA RouteInvariance ==
  ASSUME TypeOK, Route, [Next]_vars
  PROVE  Route'
<1>1. ASSUME NEW t \in Thread, NEW c \in Config, NEW s \in Sig, Select(t, c, s)
      PROVE  Route'
  <2>1. /\ call'[t].config = c /\ call'[t].at = "resolve" /\ sensitive' = sensitive
        /\ \A u \in Thread \ {t} : call'[u] = call[u]
        /\ \/ call'[t].disp = Main /\ default' = (IF sensitive THEN c ELSE default)
           \/ call'[t].disp = c /\ sensitive /\ default' = default
    BY <1>1 DEF Select, Goto, TypeOK
  <2> QED BY <2>1 DEF Route
<1>2. ASSUME NEW t \in Thread, UpdateFlag(t)
      PROVE  Route'
  <2>1. /\ sensitive' = (sensitive \/ (call[t].kernel.lcs /\ call[t].disp = Main))
        /\ default' = default
        /\ \A u \in Thread \ {t} : call'[u] = call[u]
        /\ call'[t].disp = call[t].disp /\ call'[t].config = call[t].config /\ call[t] # Idle
        /\ call'[t].at = "default" => call[t].kernel.lcs /\ call[t].disp = Main
    BY <1>2, CallKinds DEF UpdateFlag, Goto, TypeOK, Idle
  <2> QED BY <2>1 DEF Route
<1>3. ASSUME NEW t \in Thread, UpdateDefault(t)
      PROVE  Route'
  <2>1. /\ sensitive' = sensitive /\ call[t].at = "default" /\ call[t] # Idle
        /\ \A u \in Thread \ {t} : call'[u] = call[u]
        /\ call'[t].disp = call[t].disp /\ call'[t].config = call[t].config
        /\ call'[t].at = "launch"
    BY <1>3, CallKinds DEF UpdateDefault, Goto, TypeOK, Idle
  <2> QED BY <2>1 DEF Route
<1>4. ASSUME NEW t \in Thread, Step(t), UNCHANGED <<sensitive, default>>,
             ~UpdateFlag(t), ~ \E c \in Config, s \in Sig : Select(t, c, s)
      PROVE  Route'
  <2>1. call'[t].at # "default"
    <3>1. CASE Resolve(t) \/ CompiledMeanwhile(t)
      BY <3>1, CallKinds DEF Resolve, CompiledMeanwhile, Take, Goto, TypeOK
    <3>2. CASE CompileHit(t) \/ CompileMiss(t) \/ Compile(t)
      BY <3>2 DEF CompileHit, CompileMiss, Compile, Take, Goto, TypeOK
    <3>3. CASE CompileFails(t) \/ Launch(t)
      BY <3>3, IdleAt DEF CompileFails, Launch, Goto, TypeOK
    <3>4. CASE UpdateDefault(t)
      BY <3>4, CallKinds DEF UpdateDefault, Goto, TypeOK
    <3> QED BY <1>4, <3>1, <3>2, <3>3, <3>4 DEF Step
  <2> QED BY <1>4, <2>1, StepCalls DEF Route
<1>5. CASE Recompile \/ Restart
  <2>1. UNCHANGED <<sensitive, default>> \/ default' = NoConfig
    BY <1>5 DEF Recompile, Restart
  <2> QED BY <1>5, <2>1, QuietCalls DEF Route
<1>6. CASE UNCHANGED vars
  BY <1>6 DEF vars, memory, Route
<1> QED
  BY <1>1, <1>2, <1>3, <1>4, <1>5, <1>6, StepDefaults DEF Next

\* Under which keys a thread of an uncontended dispatcher looks for a kernel.
LEMMA CalmKeys ==
  ASSUME TypeOK, Route, RouteCalm, Calm, NEW t \in Thread, call[t] # Idle
  PROVE  /\ CacheKey(call[t].disp, call[t].config) = call[t].config
         /\ ConfiguredKey(call[t].disp, call[t].config) \in {call[t].config, NoKey}
<1>1. call[t].config # NoConfig /\ call[t].config \in Config
  BY CallKinds, ConstantsAssumption
<1>2. CacheKey(call[t].disp, call[t].config) = call[t].config
  BY <1>1 DEF Route, RouteCalm, CacheKey
<1> QED
  BY <1>2 DEF ConfiguredKey

LEMMA RouteCalmInvariance ==
  ASSUME TypeOK, TypeOK', Route, RouteCalm, [Next]_vars
  PROVE  RouteCalm'
<1> SUFFICES ASSUME Calm'
             PROVE  /\ OneConfig'
                    /\ \A t \in Thread : call'[t] # Idle =>
                         /\ call'[t].disp = Main /\ default' # NoConfig => default' = call'[t].config
                         /\ call'[t].at = "compiling" => call'[t].key \in {call'[t].config, NoKey}
  BY DEF RouteCalm
<1>c. Calm
  BY CalmBefore
<1>1. ASSUME NEW t \in Thread, NEW c \in Config, NEW s \in Sig, Select(t, c, s)
      PROVE  RouteCalm'
  <2>1. /\ call'[t].config = c /\ call'[t].at = "resolve" /\ sensitive' = sensitive
        /\ \A u \in Thread \ {t} : call'[u] = call[u]
    BY <1>1 DEF Select, Goto, TypeOK
  <2>2. \/ /\ call'[t].disp = Main /\ default' = (IF sensitive THEN c ELSE default)
           /\ ~sensitive \/ default \in {c, NoConfig}
           /\ ~Contended(t, c)
        \/ call'[t].disp = c /\ default' = default
    BY <1>1 DEF Select, Goto, TypeOK, Calm
  <2>3. call'[t].disp = Main =>
          \A u \in Thread \ {t} : call[u] # Idle /\ call[u].disp = Main => call[u].config = c
    BY <2>2, ConstantsAssumption DEF Contended
  <2>4. OneConfig'
    BY <1>c, <2>1, <2>3 DEF RouteCalm, OneConfig, Agrees
  <2>5. ASSUME NEW u \in Thread, call'[u] # Idle, call'[u].disp = Main, default' # NoConfig
        PROVE  default' = call'[u].config
    <3>1. CASE u = t
      BY <2>1, <2>2, <2>5, <3>1, ConstantsAssumption DEF Route
    <3>2. CASE u # t
      BY <1>c, <2>1, <2>2, <2>3, <2>5, <3>2 DEF Route, RouteCalm
    <3> QED BY <3>1, <3>2
  <2> QED BY <1>c, <2>1, <2>4, <2>5 DEF RouteCalm
<1>2. ASSUME NEW t \in Thread, Step(t), ~ \E c \in Config, s \in Sig : Select(t, c, s)
      PROVE  RouteCalm'
  <2>1. /\ \A u \in Thread \ {t} : call'[u] = call[u]
        /\ \/ call'[t] = Idle
           \/ /\ call[t] # Idle /\ call'[t] # Idle
              /\ call'[t].disp = call[t].disp /\ call'[t].config = call[t].config
    BY <1>2, StepCalls
  <2>2. OneConfig'
    BY <1>c, <2>1 DEF RouteCalm, OneConfig, Agrees
  <2>3. \/ default' = default
        \/ call[t] # Idle /\ call[t].disp = Main /\ default' = call[t].config
    <3>1. CASE UpdateFlag(t)
      BY <3>1 DEF UpdateFlag
    <3>2. CASE UpdateDefault(t)
      <4>1. call[t].at = "default" /\ default' = call[t].config
        BY <3>2 DEF UpdateDefault
      <4>2. call[t] # Idle
        BY <4>1, IdleAt
      <4> QED BY <4>1, <4>2 DEF Route
    <3> QED BY <1>2, <3>1, <3>2, StepDefaults
  <2>4. ASSUME NEW u \in Thread, call'[u] # Idle, call'[u].disp = Main, default' # NoConfig
        PROVE  default' = call'[u].config
    BY <1>c, <2>1, <2>3, <2>4 DEF RouteCalm, OneConfig, Agrees
  <2>5. call'[t].at = "compiling" => call'[t].key \in {call'[t].config, NoKey}
    <3>1. CASE CompileMiss(t)
      <4>1. call[t] # Idle /\ call'[t].key = ConfiguredKey(call[t].disp, call[t].config)
            /\ call'[t].config = call[t].config
        BY <3>1 DEF CompileMiss, Goto, TypeOK, Idle
      <4> QED BY <1>c, <4>1, CalmKeys
    <3>2. CASE Resolve(t) \/ CompiledMeanwhile(t)
      BY <3>2, CallKinds DEF Resolve, CompiledMeanwhile, Take, Goto, TypeOK
    <3>3. CASE CompileHit(t) \/ Compile(t)
      BY <3>3 DEF CompileHit, Compile, Take, Goto, TypeOK
    <3>4. CASE CompileFails(t) \/ Launch(t)
      BY <3>4, IdleAt DEF CompileFails, Launch, Goto, TypeOK
    <3>5. CASE UpdateFlag(t) \/ UpdateDefault(t)
      BY <3>5, CallKinds DEF UpdateFlag, UpdateDefault, Goto, TypeOK
    <3> QED BY <1>2, <3>1, <3>2, <3>3, <3>4, <3>5 DEF Step
  <2> QED BY <1>c, <2>1, <2>2, <2>4, <2>5 DEF RouteCalm
<1>3. CASE Recompile \/ Restart
  BY <1>3, QuietCalls DEF OneConfig
<1>4. CASE UNCHANGED vars
  BY <1>4, <1>c DEF vars, memory, RouteCalm, OneConfig, Agrees
<1> QED
  BY <1>1, <1>2, <1>3, <1>4 DEF Next, RouteCalm
\* What a dispatcher that looks for the marker believes of it.
LEMMA FlagEffect ==
  ASSUME TypeOK, Route, Born, MarkerOK, NEW d \in Dispatcher, cache[d] \notin {"unborn", "off"},
         NEW x \in {Flag(d), ConfiguredFlag(d)}
  PROVE  /\ x \notin {"unborn", "off"}
         /\ Original /\ x = "yes" => marker
         /\ marker /\ x = "no" /\ d = Main => sensitive
         /\ cache[d] = "yes" => x = "yes"
<1>1. x = cache[d] \/ (cache[d] = "unknown" /\ x = IF marker THEN "yes" ELSE "no")
  BY DEF Flag, ConfiguredFlag
<1>2. marker \in BOOLEAN
  BY DEF TypeOK
<1> QED BY <1>1, <1>2 DEF Born, MarkerOK

\* Nothing but the kernels that calls take and dispatchers keep, and the flag
\* that follows from them, makes Main sensitive.
LEMMA TakeSensitive ==
  ASSUME TypeOK, NEW t \in Thread, call[t] # Idle, NEW k \in Kernel, Take(t, k),
         AddOverload(t, k) \/ UNCHANGED overloads, UNCHANGED sensitive, Sensitive'
  PROVE  Sensitive \/ (call[t].disp = Main /\ k.lcs)
<1>1. \A s \in Sig : \/ overloads'[Main][s] = overloads[Main][s]
                     \/ call[t].disp = Main /\ overloads'[Main][s] = k
  BY AddEffect DEF Dispatcher
<1> QED
  BY <1>1, TakesAfter DEF Sensitive

\* A step that lets no kernel go to memory, to disk or to a call.
LEMMA NoKernelMoves ==
  ASSUME TypeOK, Born, MarkerOK, NEW t \in Thread,
         \A u \in Thread \ {t} : call'[u] = call[u],
         call'[t] = Idle \/ cache[call'[t].disp] # "unborn",
         Sensitive' => Sensitive, sensitive => sensitive',
         Original' => Original, UNCHANGED <<cache, disk, marker>>
  PROVE  Born' /\ MarkerOK'
<1>1. Born'
  BY DEF Born
<1>2. MarkerOK'
  BY DEF MarkerOK
<1> QED BY <1>1, <1>2

LEMMA MarkerStep ==
  ASSUME TypeOK, TypeOK', Route, Born, MarkerOK, CompilingOK, NEW t \in Thread, Step(t)
  PROVE  Born' /\ MarkerOK'
<1>m. Main \in Dispatcher /\ Config \subseteq Dispatcher /\ Main \notin Config
  BY ConstantsAssumption DEF Dispatcher
<1>o. Original' => Original
  BY DEF Original, Step, Select, Resolve, CompiledMeanwhile, CompileHit, CompileMiss, Compile,
         CompileFails, UpdateFlag, UpdateDefault, Launch
<1>c. \A u \in Thread \ {t} : call'[u] = call[u]
  BY StepCalls
<1>d. call[t] # Idle => call[t].disp \in Dispatcher /\ cache[call[t].disp] # "unborn"
  BY CallKinds DEF Born
<1>1. ASSUME NEW c \in Config, NEW s \in Sig, Select(t, c, s)
      PROVE  Born' /\ MarkerOK'
  <2>1. /\ UNCHANGED <<overloads, sensitive, disk, marker>> /\ call'[t].at = "resolve"
    BY <1>1 DEF Select, Goto, TypeOK
  <2>2. Sensitive' => Sensitive
    BY <1>c, <2>1 DEF Sensitive
  <2>3. CASE call'[t].disp = Main /\ UNCHANGED cache
    BY <1>o, <1>c, <2>1, <2>2, <2>3, NoKernelMoves DEF Born
  <2>4. CASE /\ call'[t].disp = c /\ sensitive
             /\ cache' = IF cache[c] # "unborn" THEN cache
                         ELSE [cache EXCEPT ![c] = IF cache[Main] = "off" THEN "off" ELSE "unknown"]
    <3>1. cache'[c] # "unborn" /\ cache'[Main] = cache[Main]
      BY <2>4, <1>m DEF TypeOK
    <3>2. \A d \in Dispatcher : cache'[d] = cache[d]
                                \/ (d = c /\ cache[Main] # "off" /\ cache'[d] = "unknown")
                                \/ (d = c /\ cache'[d] = "off")
      BY <2>4 DEF TypeOK
    <3>3. Original /\ cache[Main] # "off" => marker
      BY <2>4, <1>m DEF MarkerOK, Sensitive
    <3>4. \A u \in Thread \ {t} : call[u] # Idle => cache'[call[u].disp] # "unborn"
      <4>1. ASSUME NEW u \in Thread, call[u] # Idle
            PROVE  call[u].disp \in Dispatcher /\ cache[call[u].disp] # "unborn"
        BY <4>1, CallKinds DEF Born
      <4> QED BY <3>2, <4>1
    <3>5. Born'
      BY <1>c, <2>1, <2>4, <3>1, <3>4 DEF Born
    <3>6. MarkerOK'
      BY <1>o, <1>m, <2>1, <2>2, <3>1, <3>2, <3>3 DEF MarkerOK
    <3> QED BY <3>5, <3>6
  <2>5. \/ call'[t].disp = Main /\ UNCHANGED cache
        \/ /\ call'[t].disp = c /\ sensitive
           /\ cache' = IF cache[c] # "unborn" THEN cache
                       ELSE [cache EXCEPT ![c] = IF cache[Main] = "off" THEN "off" ELSE "unknown"]
    BY <1>1 DEF Select, Goto, TypeOK
  <2> QED BY <2>3, <2>4, <2>5
<1>2. CASE Resolve(t) \/ CompiledMeanwhile(t)
  <2>1. /\ call[t].at \in {"resolve", "compile"} /\ call[t] # Idle
        /\ UNCHANGED <<sensitive, overloads, cache, disk, marker>>
    BY <1>2 DEF Resolve, CompiledMeanwhile, Idle, memory
  <2>2. CASE Overload(t) # NoKernel
    <3>1. Take(t, Overload(t)) /\ Overload(t) \in Kernel
      BY <1>2, <2>1, <2>2, OverloadType DEF Resolve, CompiledMeanwhile
    <3>2. call[t].disp = Main /\ Overload(t).lcs => Sensitive
      BY <2>1, CallKinds DEF Sensitive, Overload
    <3> HIDE DEF Overload
    <3>3. Sensitive' => Sensitive
      BY <2>1, <3>1, <3>2, TakeSensitive
    <3>4. call'[t].disp = call[t].disp
      BY <2>1, <3>1, TakesAfter
    <3> QED BY <1>o, <1>c, <1>d, <2>1, <3>3, <3>4, NoKernelMoves
  <2>3. CASE Overload(t) = NoKernel
    <3>1. call'[t].at = "compile" /\ call'[t].disp = call[t].disp
      BY <1>2, <2>1, <2>3, CallKinds DEF Resolve, CompiledMeanwhile, Goto, TypeOK
    <3>2. Sensitive' => Sensitive
      BY <1>c, <2>1, <3>1 DEF Sensitive
    <3> QED BY <1>o, <1>c, <1>d, <2>1, <3>1, <3>2, NoKernelMoves
  <2> QED BY <2>2, <2>3
<1>3. CASE CompileHit(t)
  <2> DEFINE d == call[t].disp
             k == ConfiguredKey(d, call[t].config)
  <2>1. PICK e \in Entries(call[t].sig, k) :
          /\ e.kernel.lcs => Flag(d) = "yes"
          /\ AddOverload(t, e.kernel) /\ Take(t, e.kernel)
          /\ cache' = [cache EXCEPT ![d] = IF e.kernel.lcs THEN Flag(d) ELSE ConfiguredFlag(d)]
    BY <1>3 DEF CompileHit
  <2>2. /\ call[t] # Idle /\ cache[d] # "off" /\ UNCHANGED <<sensitive, disk, marker>>
    BY <1>3 DEF CompileHit, Idle
  <2>3. e.kernel \in Kernel /\ d \in Dispatcher
    BY <1>d, <2>2 DEF Entries, TypeOK
  <2> DEFINE x == IF e.kernel.lcs THEN Flag(d) ELSE ConfiguredFlag(d)
  <2>4. /\ x \notin {"unborn", "off"}
        /\ Original /\ x = "yes" => marker
        /\ marker /\ x = "no" /\ d = Main => sensitive
        /\ cache[d] = "yes" => x = "yes"
    BY <1>d, <2>2, FlagEffect
  <2>5. e.kernel.lcs => x = "yes"
    BY <2>1
  <2> HIDE DEF x
  <2>6. /\ cache'[d] = x
        /\ \A b \in Dispatcher \ {d} : cache'[b] = cache[b]
    BY <2>1, <2>3 DEF x, TypeOK
  <2>7. Sensitive' => Sensitive \/ (d = Main /\ x = "yes")
    BY <2>1, <2>2, <2>3, <2>5, TakeSensitive
  <2>8. \A u \in Thread : call'[u] # Idle => call[u] # Idle /\ call'[u].disp = call[u].disp
    BY <2>1, <2>2, <2>3, <1>c, TakesAfter
  <2>9. Born'
    <3>1. \A u \in Thread : call[u] # Idle => cache'[call[u].disp] # "unborn"
      <4>1. ASSUME NEW u \in Thread, call[u] # Idle
            PROVE  call[u].disp \in Dispatcher /\ cache[call[u].disp] # "unborn"
        BY <4>1, CallKinds DEF Born
      <4> QED BY <2>4, <2>6, <4>1
    <3>2. cache'[Main] # "unborn" /\ (marker' /\ cache'[Main] = "no" => sensitive')
      BY <2>2, <2>4, <2>6, <1>m DEF Born
    <3> QED BY <2>8, <3>1, <3>2 DEF Born
  <2>10. MarkerOK'
    BY <1>o, <1>d, <1>m, <2>2, <2>3, <2>4, <2>6, <2>7 DEF MarkerOK
  <2> QED BY <2>9, <2>10
<1>4. CASE CompileMiss(t)
  <2> DEFINE d == call[t].disp
             x == ConfiguredFlag(d)
  <2>1. /\ call[t] # Idle /\ UNCHANGED <<sensitive, overloads, disk, marker>>
        /\ call'[t].at = "compiling" /\ call'[t].disp = d
        /\ cache' = IF cache[d] = "off" THEN cache ELSE [cache EXCEPT ![d] = x]
    BY <1>4 DEF CompileMiss, Goto, TypeOK, Idle
  <2>2. Sensitive' => Sensitive
    BY <1>c, <2>1 DEF Sensitive
  <2>3. CASE cache[d] = "off"
    BY <1>o, <1>c, <1>d, <2>1, <2>2, <2>3, NoKernelMoves
  <2>4. CASE cache[d] # "off"
    <3>1. /\ x \notin {"unborn", "off"}
          /\ Original /\ x = "yes" => marker
          /\ marker /\ x = "no" /\ d = Main => sensitive
          /\ cache[d] = "yes" => x = "yes"
      BY <1>d, <2>1, <2>4, FlagEffect
    <3> HIDE DEF x
    <3>2. /\ cache'[d] = x
          /\ \A b \in Dispatcher \ {d} : cache'[b] = cache[b]
      BY <1>d, <2>1, <2>4 DEF TypeOK
    <3>3. Born'
      <4>1. \A u \in Thread : call[u] # Idle => cache'[call[u].disp] # "unborn"
        <5>1. ASSUME NEW u \in Thread, call[u] # Idle
              PROVE  call[u].disp \in Dispatcher /\ cache[call[u].disp] # "unborn"
          BY <5>1, CallKinds DEF Born
        <5> QED BY <3>1, <3>2, <5>1
      <4>2. cache'[Main] # "unborn" /\ (marker' /\ cache'[Main] = "no" => sensitive')
        BY <2>1, <3>1, <3>2, <1>m DEF Born
      <4>3. \A u \in Thread : call'[u] # Idle => call[u] # Idle /\ call'[u].disp = call[u].disp
        BY <1>c, <2>1
      <4> QED BY <4>1, <4>2, <4>3 DEF Born
    <3>4. MarkerOK'
      BY <1>o, <1>d, <1>m, <2>1, <2>2, <2>4, <3>1, <3>2 DEF MarkerOK
    <3> QED BY <3>3, <3>4
  <2> QED BY <2>3, <2>4
<1>5. CASE Compile(t)
  <2> DEFINE c == call[t].config
             s == call[t].sig
             d == call[t].disp
  <2>1. call[t].at = "compiling" /\ call[t] # Idle /\ UNCHANGED sensitive
    BY <1>5 DEF Compile, Idle
  <2>2. PICK remembered \in BOOLEAN :
         LET kernel == Compiled(c, s, remembered)
         IN  /\ AddOverload(t, kernel)
             /\ Take(t, kernel)
             /\ \/ /\ cache[d] = "off"
                   /\ UNCHANGED <<cache, disk, marker>>
                \/ /\ cache[d] # "off" /\ ~kernel.lcs
                   /\ disk' = Saved(s, call[t].key, kernel)
                   /\ UNCHANGED <<cache, marker>>
                \/ /\ cache[d] # "off" /\ kernel.lcs
                   /\ marker' = (marker \/ cache[d] # "yes")
                   /\ cache' = [cache EXCEPT ![d] = "yes"]
                   /\ disk' = Saved(s, CacheKey(d, c), kernel)
                \/ /\ cache[d] \notin {"off", "yes"} /\ kernel.lcs /\ MarkMayFail
                   /\ cache' = [cache EXCEPT ![d] = "off"]
                   /\ UNCHANGED <<disk, marker>>
    BY <1>5 DEF Compile
  <2> DEFINE kernel == Compiled(c, s, remembered)
  <2>3. kernel \in Kernel /\ d \in Dispatcher
    BY <2>1, CallKinds, CompiledType
  <2> HIDE DEF kernel
  <2>4. Sensitive' => Sensitive \/ (d = Main /\ kernel.lcs)
    BY <2>1, <2>2, <2>3, TakeSensitive DEF kernel
  <2>5. \A u \in Thread : call'[u] # Idle => call[u] # Idle /\ call'[u].disp = call[u].disp
    BY <2>1, <2>2, <2>3, <1>c, TakesAfter DEF kernel
  <2>6. \A u \in Thread : call[u] # Idle =>
           call[u].disp \in Dispatcher /\ cache[call[u].disp] # "unborn"
    BY CallKinds DEF Born
  <2>7. d # Main => sensitive /\ d \in Config
    BY <2>1, <2>3 DEF Route, Dispatcher
  <2>8. CASE cache[d] = "off" /\ UNCHANGED <<cache, disk, marker>>
    <3>1. Born'
      BY <2>1, <2>5, <2>6, <2>8 DEF Born
    <3>2. MarkerOK'
      BY <1>o, <1>m, <2>1, <2>4, <2>8 DEF MarkerOK
    <3> QED BY <3>1, <3>2
  <2>9. CASE /\ cache[d] # "off" /\ ~kernel.lcs
             /\ disk' = Saved(s, call[t].key, kernel)
             /\ UNCHANGED <<cache, marker>>
    <3>1. Born'
      BY <2>1, <2>5, <2>6, <2>9 DEF Born
    <3>2. Original /\ call[t].key \in Config => marker
      BY <2>1, <2>9 DEF CompilingOK
    <3>3. \A e \in disk' : e \in disk \/ e.key = call[t].key
      BY <2>9 DEF Saved
    <3>4. MarkerOK'
      BY <1>o, <1>m, <2>1, <2>4, <2>9, <3>2, <3>3 DEF MarkerOK
    <3> QED BY <3>1, <3>4
  <2>10. CASE /\ cache[d] # "off" /\ kernel.lcs
              /\ marker' = (marker \/ cache[d] # "yes")
              /\ cache' = [cache EXCEPT ![d] = "yes"]
    <3>1. /\ cache'[d] = "yes"
          /\ \A b \in Dispatcher \ {d} : cache'[b] = cache[b]
      BY <2>3, <2>10 DEF TypeOK
    <3>2. Original => marker'
      BY <2>3, <2>10 DEF MarkerOK
    <3>3. Born'
      <4>1. \A u \in Thread : call[u] # Idle => cache'[call[u].disp] # "unborn"
        BY <2>6, <3>1
      <4>2. cache'[Main] # "unborn" /\ (marker' /\ cache'[Main] = "no" => sensitive')
        BY <2>1, <2>7, <3>1, <1>m DEF Born
      <4> QED BY <2>5, <4>1, <4>2 DEF Born
    <3>4. MarkerOK'
      BY <1>o, <1>m, <2>3, <2>4, <3>1, <3>2 DEF MarkerOK
    <3> QED BY <3>3, <3>4
  <2>11. CASE /\ cache[d] \notin {"off", "yes"} /\ kernel.lcs
              /\ cache' = [cache EXCEPT ![d] = "off"]
              /\ UNCHANGED <<disk, marker>>
    <3>1. /\ cache'[d] = "off"
          /\ \A b \in Dispatcher \ {d} : cache'[b] = cache[b]
      BY <2>3, <2>11 DEF TypeOK
    <3>2. Born'
      <4>1. \A u \in Thread : call[u] # Idle => cache'[call[u].disp] # "unborn"
        BY <2>6, <3>1
      <4>2. cache'[Main] # "unborn" /\ (marker' /\ cache'[Main] = "no" => sensitive')
        BY <2>1, <2>7, <2>11, <3>1, <1>m DEF Born
      <4> QED BY <2>5, <4>1, <4>2 DEF Born
    <3>3. MarkerOK'
      BY <1>o, <1>m, <2>3, <2>4, <2>11, <3>1 DEF MarkerOK
    <3> QED BY <3>2, <3>3
  <2> QED BY <2>2, <2>8, <2>9, <2>10, <2>11 DEF kernel
<1>6. CASE CompileFails(t) \/ Launch(t)
  <2>1. /\ call'[t] = Idle /\ UNCHANGED <<sensitive, overloads, cache, disk, marker>>
    BY <1>6 DEF CompileFails, Launch, Goto, TypeOK, memory
  <2>2. Sensitive' => Sensitive
    BY <1>c, <2>1, IdleAt DEF Sensitive
  <2> QED BY <1>o, <1>c, <2>1, <2>2, NoKernelMoves
<1>7. CASE UpdateFlag(t) \/ UpdateDefault(t)
  <2>1. /\ UNCHANGED <<overloads, cache, disk, marker>>
        /\ call[t].at \in {"update", "default"}
        /\ call'[t].disp = call[t].disp /\ call'[t].kernel = call[t].kernel
        /\ sensitive' = sensitive
             \/ sensitive' = (sensitive \/ (call[t].kernel.lcs /\ call[t].disp = Main))
    BY <1>7, CallKinds DEF UpdateFlag, UpdateDefault, Goto, TypeOK
  <2>2. call[t] # Idle
    BY <2>1, IdleAt
  <2>3. Sensitive' => Sensitive
    BY <1>c, <2>1 DEF Sensitive
  <2>4. sensitive => sensitive'
    BY <2>1
  <2>5. call'[t] = Idle \/ cache[call'[t].disp] # "unborn"
    BY <1>d, <2>1, <2>2
  <2>6. UNCHANGED <<cache, disk, marker>>
    BY <2>1
  <2> QED BY <1>o, <1>c, <2>3, <2>4, <2>5, <2>6, NoKernelMoves
<1> QED BY <1>1, <1>2, <1>3, <1>4, <1>5, <1>6, <1>7 DEF Step
\* The disk does not get, behind the back of a thread that compiles, what the
\* thread did not find on it.
LEMMA CompilingStep ==
  ASSUME TypeOK, TypeOK', LockOK, Route, Born, MarkerOK, CompilingOK, NEW t \in Thread, Step(t)
  PROVE  CompilingOK'
<1>o. Original' => Original
  BY DEF Original, Step, Select, Resolve, CompiledMeanwhile, CompileHit, CompileMiss, Compile,
         CompileFails, UpdateFlag, UpdateDefault, Launch
<1>1. ASSUME NEW u \in Thread \ {t}, call'[u].at = "compiling", cache'[call'[u].disp] # "off"
      PROVE  /\ \A e \in disk' : e.sig = call'[u].sig => e.key # call'[u].key
             /\ Original' /\ call'[u].key = NoKey => \A e \in disk' : e.key \notin Config
             /\ Original' /\ call'[u].key \in Config => marker'
  <2>1. call'[u] = call[u] /\ call[u].at = "compiling"
    BY <1>1, OthersWait
  <2>2. call[u] # Idle /\ call[u].disp \in Dispatcher /\ cache[call[u].disp] # "unborn"
    BY <2>1, CallKinds, IdleAt DEF Born
  <2>3. UNCHANGED <<disk, marker>> /\ cache'[call[u].disp] = cache[call[u].disp]
    BY <2>1, <2>2, OthersWait
  <2> QED BY <1>1, <1>o, <2>1, <2>3 DEF CompilingOK
<1>2. ASSUME call'[t].at = "compiling", cache'[call'[t].disp] # "off"
      PROVE  /\ \A e \in disk' : e.sig = call'[t].sig => e.key # call'[t].key
             /\ Original' /\ call'[t].key = NoKey => \A e \in disk' : e.key \notin Config
             /\ Original' /\ call'[t].key \in Config => marker'
  <2> DEFINE d == call[t].disp
             c == call[t].config
             k == ConfiguredKey(d, c)
  <2>1. CompileMiss(t)
    <3>1. ASSUME NEW x \in Config, NEW s \in Sig, Select(t, x, s)
          PROVE  call'[t].at = "resolve"
      BY <3>1 DEF Select, Goto, TypeOK
    <3>2. CASE Resolve(t) \/ CompiledMeanwhile(t)
      BY <1>2, <3>2, CallKinds DEF Resolve, CompiledMeanwhile, Take, Goto, TypeOK
    <3>3. CASE CompileHit(t) \/ Compile(t)
      BY <1>2, <3>3 DEF CompileHit, Compile, Take, Goto, TypeOK
    <3>4. CASE CompileFails(t) \/ Launch(t)
      BY <1>2, <3>4, IdleAt DEF CompileFails, Launch, Goto, TypeOK
    <3>5. CASE UpdateFlag(t) \/ UpdateDefault(t)
      BY <1>2, <3>5, CallKinds DEF UpdateFlag, UpdateDefault, Goto, TypeOK
    <3> QED BY <1>2, <3>1, <3>2, <3>3, <3>4, <3>5 DEF Step
  <2>2. /\ call[t] # Idle /\ UNCHANGED <<disk, marker>>
        /\ cache[d] = "off" \/ Entries(call[t].sig, k) = {}
        /\ cache' = (IF cache[d] = "off" THEN cache ELSE [cache EXCEPT ![d] = ConfiguredFlag(d)])
        /\ call'[t].disp = d /\ call'[t].sig = call[t].sig /\ call'[t].key = k
    BY <2>1 DEF CompileMiss, Goto, TypeOK, Idle
  <2>3. d \in Dispatcher /\ c \in Config /\ cache[d] # "unborn"
    BY <2>2, CallKinds DEF Born
  <2>4. cache[d] # "off"
    BY <1>2, <2>2
  <2>5. \A e \in disk' : e.sig = call'[t].sig => e.key # call'[t].key
    BY <2>2, <2>4 DEF Entries
  <2>6. CacheKey(d, c) # NoKey
    BY <2>2, KeyType, ConstantsAssumption
  <2>7. ASSUME Original, k = NoKey
        PROVE  \A e \in disk : e.key \notin Config
    <3>1. d = Main /\ ~sensitive /\ Flag(d) # "yes"
      BY <2>3, <2>6, <2>7, ConstantsAssumption DEF ConfiguredKey
    <3>2. ~marker
      <4>1. cache[Main] \in {"no", "unknown"}
        BY <2>3, <2>4, <3>1 DEF TypeOK, Flag
      <4>2. cache[Main] = "unknown" => ~marker
        BY <3>1 DEF Flag
      <4> QED BY <3>1, <4>1, <4>2 DEF Born
    <3> QED BY <2>7, <3>2 DEF MarkerOK
  <2>8. ASSUME Original, k \in Config
        PROVE  marker
    <3>1. CASE d # Main
      BY <2>3, <2>4, <2>8, <3>1 DEF MarkerOK, Dispatcher
    <3>2. CASE d = Main /\ sensitive
      BY <2>3, <2>4, <2>8, <3>2 DEF MarkerOK, Sensitive
    <3>3. CASE d = Main /\ ~sensitive
      <4>1. Flag(d) = "yes"
        BY <2>8, <3>3, ConstantsAssumption DEF ConfiguredKey
      <4>2. cache[d] = "yes" \/ marker
        BY <4>1 DEF Flag
      <4> QED BY <2>3, <2>8, <4>2 DEF MarkerOK
    <3> QED BY <3>1, <3>2, <3>3
  <2> QED BY <1>o, <2>2, <2>5, <2>7, <2>8
<1> QED BY <1>1, <1>2 DEF CompilingOK

MarkerInv == Route /\ RouteCalm /\ Born /\ MarkerOK /\ CompilingOK

LEMMA MarkerInit ==
  ASSUME Init
  PROVE  MarkerInv
<1>1. Main \in Dispatcher /\ Main \notin Config
  BY ConstantsAssumption DEF Dispatcher
<1>2. cache[Main] \in {"unknown", "off"} /\ \A d \in Config : cache[d] = "unborn"
  BY <1>1 DEF Init, FreshCache, Dispatcher
<1>3. \A s \in Sig : overloads[Main][s] = NoKernel
  BY <1>1 DEF Init, NoOverloads
<1>4. \A d \in Dispatcher : cache[d] # "yes"
  BY <1>2 DEF Dispatcher
<1>5. ~Sensitive
  BY <1>3, IdleAt DEF Init, Sensitive, NoKernel
<1>6. Route /\ RouteCalm
  BY IdleAt DEF Init, Route, RouteCalm, OneConfig, Agrees
<1>7. Born /\ MarkerOK /\ CompilingOK
  BY <1>2, <1>4, <1>5, IdleAt DEF Init, Born, MarkerOK, CompilingOK
<1> QED BY <1>6, <1>7 DEF MarkerInv

LEMMA MarkerQuiet ==
  ASSUME TypeOK, Born, MarkerOK, Recompile \/ Restart
  PROVE  Born' /\ MarkerOK' /\ CompilingOK'
<1>1. \A t \in Thread : call'[t] = Idle
  BY QuietCalls
<1>2. CompilingOK'
  BY <1>1, IdleAt DEF CompilingOK
<1>3. Main \in Dispatcher /\ Main \notin Config
  BY ConstantsAssumption DEF Dispatcher
<1>4. CASE Restart
  <2>1. cache'[Main] \in {"unknown", "off"} /\ \A d \in Config : cache'[d] = "unborn"
    BY <1>3, <1>4 DEF Restart, FreshCache, Dispatcher
  <2>2. \A s \in Sig : overloads'[Main][s] = NoKernel
    BY <1>3, <1>4 DEF Restart, NoOverloads
  <2>3. ~Sensitive'
    BY <1>1, <1>4, <2>2, IdleAt DEF Restart, Sensitive, NoKernel
  <2>4. \A d \in Dispatcher : cache'[d] # "yes"
    BY <2>1 DEF Dispatcher
  <2>5. \A x \in disk' : \E e \in disk : x.key = e.key
    <3>1. disk' = {[e EXCEPT !.kernel.generation = 0] : e \in disk}
      BY <1>4 DEF Restart
    <3>2. \A e \in disk : [e EXCEPT !.kernel.generation = 0].key = e.key
      BY DEF TypeOK
    <3> QED BY <3>1, <3>2
  <2>6. marker' = marker /\ (Original' => Original)
    BY <1>4 DEF Restart, Original
  <2>7. Born'
    BY <1>1, <2>1 DEF Born
  <2>8. MarkerOK'
    BY <2>1, <2>3, <2>4, <2>5, <2>6 DEF MarkerOK
  <2> QED BY <1>2, <2>7, <2>8
<1>5. CASE Recompile
  <2>1. ~Original'
    BY <1>5 DEF Recompile, Original
  <2>2. \/ UNCHANGED <<cache, marker>>
        \/ /\ marker' = FALSE
           /\ cache' \in {[cache EXCEPT ![Main] = x] : x \in {"unknown", "no"}}
    BY <1>5 DEF Recompile
  <2>3. sensitive' = sensitive
    BY <1>5 DEF Recompile
  <2>4. Born'
    BY <1>1, <1>3, <2>2, <2>3 DEF Born, TypeOK
  <2> QED BY <1>2, <2>1, <2>4 DEF MarkerOK
<1> QED BY <1>4, <1>5

LEMMA AlwaysMarker == Spec => []MarkerInv
<1>1. Init => MarkerInv
  BY MarkerInit
<1>2. TypeOK /\ TypeOK' /\ LockOK /\ MarkerInv /\ [Next]_vars => MarkerInv'
  <2> SUFFICES ASSUME TypeOK, TypeOK', LockOK, MarkerInv, [Next]_vars
               PROVE  MarkerInv'
    OBVIOUS
  <2>1. Route' /\ RouteCalm'
    BY RouteInvariance, RouteCalmInvariance DEF MarkerInv
  <2>2. CASE UNCHANGED vars
    <3>1. Born' /\ CompilingOK'
      BY <2>2 DEF MarkerInv, vars, memory, Born, CompilingOK, Original
    <3>2. MarkerOK'
      BY <2>2 DEF MarkerInv, vars, memory, MarkerOK, Original, Sensitive
    <3> QED BY <2>1, <3>1, <3>2 DEF MarkerInv
  <2>3. ASSUME NEW t \in Thread, Step(t)
        PROVE  Born' /\ MarkerOK' /\ CompilingOK'
    BY <2>3, MarkerStep, CompilingStep DEF MarkerInv
  <2>4. CASE Recompile \/ Restart
    BY <2>1, <2>4, MarkerQuiet DEF MarkerInv
  <2> QED BY <2>1, <2>2, <2>3, <2>4 DEF Next, MarkerInv
<1> QED BY <1>1, <1>2, Typing, AlwaysLocked, PTL DEF Spec

\* No kernel is compiled for a key that is on disk, for any threads and any
\* number of processes, whichever signatures depend on the configuration and
\* however often compilations and writes of the marker fail, as long as launches
\* did not contend and nobody recompiled (CUDADispatcher.compile, CUDACache).
THEOREM DiskAlwaysSparesCompiling == Spec => DiskSparesCompiling
<1> DEFINE A == \A t \in Thread : \A e \in disk :
                  call[t].at = "compiling" /\ call'[t].at = "update" /\ e.sig = call[t].sig
                  /\ cache'[call[t].disp] # "off" /\ excuse = {}
                    => e.key # IF call'[t].kernel.lcs THEN CacheKey(call[t].disp, call[t].config)
                               ELSE call[t].key
<1>1. TypeOK /\ LockOK /\ MarkerInv /\ [Next]_vars => [A]_vars
  <2> SUFFICES ASSUME TypeOK, LockOK, MarkerInv, [Next]_vars,
                      NEW t \in Thread, NEW e \in disk,
                      call[t].at = "compiling", call'[t].at = "update", e.sig = call[t].sig,
                      cache'[call[t].disp] # "off", excuse = {}
               PROVE  e.key # IF call'[t].kernel.lcs THEN CacheKey(call[t].disp, call[t].config)
                              ELSE call[t].key
    OBVIOUS
  <2>1. Compile(t)
    BY OnlyCompile
  <2>2. call[t] # Idle /\ call[t].disp \in Dispatcher /\ call[t].config \in Config
    BY CallKinds, IdleAt
  <2>3. cache[call[t].disp] # "off"
    BY <2>1 DEF Compile
  <2>4. Calm /\ Original
    BY DEF Calm, Original
  <2>5. /\ call[t].key \in {call[t].config, NoKey}
        /\ CacheKey(call[t].disp, call[t].config) = call[t].config
    BY <2>2, <2>4, CalmKeys DEF MarkerInv, RouteCalm
  <2>6. /\ e.key # call[t].key
        /\ call[t].key = NoKey => e.key \notin Config
    BY <2>3, <2>4 DEF MarkerInv, CompilingOK
  <2> QED BY <2>2, <2>5, <2>6
<1>2. DiskSparesCompiling <=> [][A]_vars
  BY DEF DiskSparesCompiling
<1> QED BY <1>1, <1>2, Typing, AlwaysLocked, AlwaysMarker, PTL DEF Spec
=============================================================================
