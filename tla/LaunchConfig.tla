----------------------------- MODULE LaunchConfig -----------------------------
(***************************************************************************)
(* Which compiled kernel a launch runs when code generation depends on the *)
(* launch configuration: CUDADispatcher of dispatcher.py with its          *)
(* specializations, its disk cache (CUDACache) and the marker file.        *)
(*                                                                         *)
(* A dispatcher compiles under the global compiler lock; everything else a *)
(* launch does runs without it, and threads interleave at each step.       *)
(***************************************************************************)
EXTENDS Integers, FiniteSets

CONSTANTS Thread,
          Config,         \* launch configuration keys: grid, block, shared memory
          Sig,            \* argument types
          Own,            \* signatures whose kernel's own passes look at the launch
                          \* configuration and call mark_launch_config_sensitive
          Ensure,         \* those of them whose passes need a configuration, and
                          \* raise where there is none (ensure_current_launch_config)
          Inner,          \* signatures whose kernel calls a device function whose
                          \* passes look at the configuration, and need one
          Cached,         \* jit(cache=True)
          MarkMayFail,    \* the marker file may be impossible to write
          Main,           \* the dispatcher that the user has
          NoConfig,       \* None, and _NO_LAUNCH_CONFIG_CACHE_KEY
          NoKey,          \* an index key without a launch configuration
          MaxRecompiles,  \* bound: calls of recompile()
          MaxOverlaps     \* bound: launches begun while another is in progress

NoThread == "free"

ASSUME ConstantsAssumption ==
         /\ NoThread \notin Thread
         /\ Own \subseteq Sig /\ Ensure \subseteq Own /\ Inner \subseteq Sig
         /\ Cached \in BOOLEAN /\ MarkMayFail \in BOOLEAN
         /\ Main \notin Config /\ NoConfig \notin Config /\ NoKey \notin Config
         /\ NoKey # NoConfig
         /\ MaxRecompiles \in Nat /\ MaxOverlaps \in Nat

\* The specialization for a configuration is named by it.
Dispatcher == {Main} \cup Config

\* A kernel: does its metadata say that it is launch-config sensitive, the
\* configurations its code was generated for (none if it depends on none), and
\* how many recompile() calls preceded it.
Kernel == [lcs : BOOLEAN, uses : SUBSET Config, generation : 0..MaxRecompiles]

NoKernel == [lcs |-> FALSE]

VARIABLES sensitive,  \* Main's _launch_config_sensitive
          default,    \* Main's _launch_config_default_key
          overloads,  \* of each dispatcher, by signature
          cache,      \* of each dispatcher: "unborn" (no dispatcher yet), "off"
                      \* (NullCache), or the _launch_config_sensitive_flag
          disk,       \* the disk cache: a set of [sig, key, kernel]
          marker,     \* does the marker file exist
          marked,     \* configurations whose _kernel_launch_config_sensitive is set
          device,     \* what the device function of each signature was compiled for
          lock,       \* who holds the compiler lock
          call,       \* the call each thread is in
          generation, \* history: calls of recompile() in this process
          overlaps,   \* history: launches begun while another was in progress
          excuse      \* history: "contended" when Main was chosen for a launch
                      \* while another thread launched it with a different
                      \* configuration, "recompiled" after recompile()

memory == <<sensitive, default, overloads, cache, marked, device>>

vars == <<memory, disk, marker, lock, call, generation, overlaps, excuse>>

Idle == [at |-> "idle"]

NoOverloads == [d \in Dispatcher |-> [s \in Sig |-> NoKernel]]

\* There is no specialization yet.
FreshCache == [d \in Dispatcher |-> IF d # Main THEN "unborn"
                                    ELSE IF Cached THEN "unknown" ELSE "off"]

Init == /\ sensitive = FALSE /\ default = NoConfig
        /\ overloads = NoOverloads
        /\ cache = FreshCache
        /\ disk = {} /\ marker = FALSE
        /\ marked = {}
        /\ device = [s \in Inner |-> NoConfig]
        /\ lock = NoThread
        /\ call = [t \in Thread |-> Idle]
        /\ generation = 0 /\ overlaps = 0 /\ excuse = {}

Goto(t, c) == call' = [call EXCEPT ![t] = c]

-----------------------------------------------------------------------------
(* The launch configuration in the key of the disk cache.                    *)

\* Variant: the default key before that of the specialization.
CacheKeyDefault(d, c) == IF default # NoConfig THEN default ELSE c

\* _cache_launch_config_key
CacheKey(d, c) == IF d # Main THEN d
                  ELSE IF c # NoConfig /\ default # NoConfig THEN default ELSE c

\* Variant: the marker is not looked for.
FlagForgets(d) == IF cache[d] = "unknown" THEN "no" ELSE cache[d]

\* is_launch_config_sensitive looks for the marker once.
Flag(d) == IF cache[d] = "unknown" THEN (IF marker THEN "yes" ELSE "no") ELSE cache[d]

\* _configure_cache_for_launch_config
ConfiguredKey(d, c) == IF d # Main \/ sensitive THEN CacheKey(d, c)
                       ELSE IF Flag(d) = "yes" THEN c ELSE NoKey

\* The flag is looked at by the dispatcher that is not known to be sensitive.
ConfiguredFlag(d) == IF d # Main \/ sensitive THEN cache[d] ELSE Flag(d)

\* Variant: recompile() leaves what is on disk.
FlushedNothing == disk

\* What flush() leaves on disk: an empty index.
Flushed == {}

Entries(s, k) == {e \in disk : e.sig = s /\ e.key = k}

Saved(s, k, kernel) == (disk \ Entries(s, k)) \cup {[sig |-> s, key |-> k, kernel |-> kernel]}

-----------------------------------------------------------------------------
(* A launch.                                                                 *)

\* Variant: every launch goes to Main.
SelectMain(t, c, s) ==
  /\ call[t] = Idle
  /\ Goto(t, [at |-> "resolve", config |-> c, sig |-> s, disp |-> Main])
  /\ UNCHANGED <<memory, disk, marker, lock, generation, overlaps, excuse>>

\* Another thread is in a launch...
Overlaps(t) == \E u \in Thread \ {t} : call[u] # Idle

\* ... and chose Main with another configuration.
Contended(t, c) ==
  \E u \in Thread \ {t} : call[u] # Idle /\ call[u].disp = Main /\ call[u].config # c

\* kernel[c](args) with arguments of signature s, and the choice of the
\* dispatcher (_select_launch_config_dispatcher).
Select(t, c, s) ==
  /\ call[t] = Idle
  /\ overlaps' = overlaps + (IF Overlaps(t) THEN 1 ELSE 0)
  /\ overlaps' <= MaxOverlaps
  /\ \/ /\ ~sensitive \/ default \in {c, NoConfig}
        /\ default' = IF sensitive THEN c ELSE default
        /\ Goto(t, [at |-> "resolve", config |-> c, sig |-> s, disp |-> Main])
        /\ excuse' = IF Contended(t, c) THEN excuse \cup {"contended"} ELSE excuse
        /\ UNCHANGED cache
     \/ /\ sensitive /\ default \notin {c, NoConfig}
        /\ cache' = IF cache[c] # "unborn" THEN cache
                    ELSE [cache EXCEPT ![c] = IF cache[Main] = "off" THEN "off" ELSE "unknown"]
        /\ Goto(t, [at |-> "resolve", config |-> c, sig |-> s, disp |-> c])
        /\ UNCHANGED <<default, excuse>>
  /\ UNCHANGED <<sensitive, overloads, marked, device, disk, marker, lock, generation>>

\* The call goes on with a kernel.
Take(t, kernel) ==
  Goto(t, [at |-> "update", config |-> call[t].config, sig |-> call[t].sig,
           disp |-> call[t].disp, kernel |-> kernel])

Overload(t) == overloads[call[t].disp][call[t].sig]

AddOverload(t, kernel) ==
  overloads' = [overloads EXCEPT ![call[t].disp][call[t].sig] = kernel]

\* _cuda_call: a kernel that is in memory is found without the lock.
Resolve(t) ==
  /\ call[t].at = "resolve"
  /\ IF Overload(t) # NoKernel THEN Take(t, Overload(t))
     ELSE Goto(t, [call[t] EXCEPT !.at = "compile"])
  /\ UNCHANGED <<memory, disk, marker, lock, generation, overlaps, excuse>>

\* compile() finds that another thread has compiled the kernel meanwhile.
CompiledMeanwhile(t) ==
  /\ call[t].at = "compile" /\ lock = NoThread
  /\ Overload(t) # NoKernel
  /\ Take(t, Overload(t))
  /\ UNCHANGED <<memory, disk, marker, lock, generation, overlaps, excuse>>

\* compile() loads the kernel from the disk cache.  (A sensitive kernel is
\* refused if there is no marker; one process at a time never meets that case,
\* in which a thread would be stuck here.)
CompileHit(t) ==
  LET d == call[t].disp
      k == ConfiguredKey(d, call[t].config)
  IN  /\ call[t].at = "compile" /\ lock = NoThread
      /\ Overload(t) = NoKernel
      /\ cache[d] # "off"
      /\ \E e \in Entries(call[t].sig, k) :
            /\ e.kernel.lcs => Flag(d) = "yes"
            /\ AddOverload(t, e.kernel)
            /\ cache' = [cache EXCEPT ![d] = IF e.kernel.lcs THEN Flag(d) ELSE ConfiguredFlag(d)]
            /\ Take(t, e.kernel)
      /\ UNCHANGED <<sensitive, default, marked, device, disk, marker, lock, generation, overlaps, excuse>>

\* Variant: with the lock, the kernels in memory are not looked at again.
CompileAgain(t) ==
  LET d == call[t].disp
      k == ConfiguredKey(d, call[t].config)
  IN  /\ call[t].at = "compile" /\ lock = NoThread
      /\ lock' = t
      /\ Goto(t, [at |-> "compiling", config |-> call[t].config, sig |-> call[t].sig,
                  disp |-> d, key |-> k])
      /\ UNCHANGED <<memory, disk, marker, generation, overlaps, excuse>>

\* compile() does not find the kernel on disk and keeps the lock to compile it.
CompileMiss(t) ==
  LET d == call[t].disp
      k == ConfiguredKey(d, call[t].config)
  IN  /\ call[t].at = "compile" /\ lock = NoThread
      /\ Overload(t) = NoKernel
      /\ cache[d] = "off" \/ Entries(call[t].sig, k) = {}
      /\ lock' = t
      /\ cache' = IF cache[d] = "off" THEN cache
                  ELSE [cache EXCEPT ![d] = ConfiguredFlag(d)]
      /\ Goto(t, [at |-> "compiling", config |-> call[t].config, sig |-> call[t].sig,
                  disp |-> d, key |-> k])
      /\ UNCHANGED <<sensitive, default, overloads, marked, device, disk, marker, generation, overlaps, excuse>>

\* The device function of an Inner signature is compiled once, for the
\* configuration that is launched then (compile_device).
Device(c, s) == IF s \in Inner THEN [device EXCEPT ![s] = IF @ = NoConfig THEN c ELSE @]
                ELSE device

\* Passes that look at the launch configuration run in this compilation.
Looks(s) == s \in Own \/ (s \in Inner /\ device[s] = NoConfig)

\* They mark the configuration object, which stays marked; configure() may have
\* dropped it from its lru_cache and made a new one, which is not.
Marked(c, s) == IF Looks(s) THEN marked \cup {c} ELSE marked

Compiled(c, s, remembered) ==
  [lcs        |-> Looks(s) \/ (remembered /\ c \in marked),
   uses       |-> (IF s \in Own THEN {c} ELSE {})
                  \cup (IF s \in Inner THEN {Device(c, s)[s]} ELSE {}),
   generation |-> generation]

\* The kernel is compiled, saved and added, and the lock released.  For a
\* sensitive kernel the marker is written before the kernel; if it cannot be,
\* the disk cache is turned off.
Compile(t) ==
  LET c == call[t].config
      s == call[t].sig
      d == call[t].disp
  IN  /\ call[t].at = "compiling"
      /\ device' = Device(c, s)
      /\ marked' = Marked(c, s)
      /\ \E remembered \in BOOLEAN :
         LET kernel == Compiled(c, s, remembered)
         IN  /\ AddOverload(t, kernel)
             /\ Take(t, kernel)
             /\ \/ /\ cache[d] = "off"
                   /\ UNCHANGED <<cache, disk, marker>>
                \/ /\ cache[d] # "off" /\ ~kernel.lcs
                   /\ disk' = Saved(s, call[t].key, kernel)
                   /\ UNCHANGED <<cache, marker>>
                \/ /\ cache[d] # "off" /\ kernel.lcs
                   /\ marker' = (marker \/ cache[d] # "yes")
                   /\ cache' = [cache EXCEPT ![d] = "yes"]
                   /\ disk' = Saved(s, CacheKey(d, c), kernel)
                \/ /\ cache[d] \notin {"off", "yes"} /\ kernel.lcs /\ MarkMayFail
                   /\ cache' = [cache EXCEPT ![d] = "off"]
                   /\ UNCHANGED <<disk, marker>>
      /\ lock' = NoThread
      /\ UNCHANGED <<sensitive, default, generation, overlaps, excuse>>

\* The compilation raises, somewhere in its passes.
CompileFails(t) ==
  /\ call[t].at = "compiling"
  /\ \/ UNCHANGED <<device, marked>>
     \/ /\ device' = Device(call[t].config, call[t].sig)
        /\ marked' = Marked(call[t].config, call[t].sig)
  /\ lock' = NoThread
  /\ Goto(t, Idle)
  /\ UNCHANGED <<sensitive, default, overloads, cache, disk, marker, generation, overlaps, excuse>>

\* _update_launch_config_sensitivity: the flag, and whether there is a default.
UpdateFlag(t) ==
  /\ call[t].at = "update"
  /\ sensitive' = (sensitive \/ (call[t].kernel.lcs /\ call[t].disp = Main))
  /\ Goto(t, [call[t] EXCEPT !.at =
                IF call[t].kernel.lcs /\ call[t].disp = Main /\ default = NoConfig
                THEN "default" ELSE "launch"])
  /\ UNCHANGED <<default, overloads, cache, marked, device, disk, marker, lock, generation, overlaps, excuse>>

\* The default key is computed by a call and stored.
UpdateDefault(t) ==
  /\ call[t].at = "default"
  /\ default' = call[t].config
  /\ Goto(t, [call[t] EXCEPT !.at = "launch"])
  /\ UNCHANGED <<sensitive, overloads, cache, marked, device, disk, marker, lock, generation, overlaps, excuse>>

\* kernel.launch, and the call returns.
Launch(t) == /\ call[t].at = "launch"
             /\ Goto(t, Idle)
             /\ UNCHANGED <<memory, disk, marker, lock, generation, overlaps, excuse>>

-----------------------------------------------------------------------------
(* Between launches.                                                         *)

Quiet == \A t \in Thread : call[t] = Idle

\* Without a launch configuration, the passes of this compilation raise.
Raises(s) == s \in Ensure \/ (s \in Inner /\ device[s] = NoConfig)

\* recompile(), while nothing is launched: the in-memory kernels of Main go, its
\* disk cache is flushed with the marker, and each signature is compiled
\* without a launch configuration, until one raises.
Recompile ==
  LET old       == {s \in Sig : overloads[Main][s] # NoKernel}
      kernel(s) == [lcs        |-> FALSE,
                    uses       |-> IF s \in Inner THEN {device[s]} ELSE {},
                    generation |-> generation + 1]
  IN  /\ Quiet /\ generation < MaxRecompiles
      /\ generation' = generation + 1
      /\ \E done \in SUBSET {s \in old : ~Raises(s)} :
            /\ (\A s \in old : ~Raises(s)) => done = old
            /\ overloads' = [overloads EXCEPT ![Main] =
                               [s \in Sig |-> IF s \in done THEN kernel(s) ELSE NoKernel]]
            /\ IF cache[Main] = "off" THEN UNCHANGED <<cache, disk, marker>>
               ELSE /\ marker' = FALSE
                    /\ cache' = [cache EXCEPT ![Main] =
                                   IF old = {} \/ sensitive THEN "unknown" ELSE "no"]
                    /\ disk' = Flushed \cup {[sig |-> s, key |-> IF sensitive THEN NoConfig ELSE NoKey,
                                            kernel |-> kernel(s)] : s \in done}
      /\ excuse' = excuse \cup {"recompiled"}
      /\ UNCHANGED <<sensitive, default, marked, device, lock, call, overlaps>>

\* The process ends and another one imports the function: only the disk stays,
\* and the history counts recompile() calls from 0 again.
Restart == /\ Quiet
           /\ sensitive' = FALSE /\ default' = NoConfig
           /\ overloads' = NoOverloads
           /\ cache' = FreshCache
           /\ marked' = {}
           /\ device' = [s \in Inner |-> NoConfig]
           /\ generation' = 0
           /\ disk' = {[e EXCEPT !.kernel.generation = 0] : e \in disk}
           /\ UNCHANGED <<marker, lock, call, overlaps, excuse>>

Step(t) == \/ \E c \in Config, s \in Sig : Select(t, c, s)
           \/ Resolve(t) \/ CompiledMeanwhile(t) \/ CompileHit(t) \/ CompileMiss(t)
           \/ Compile(t) \/ CompileFails(t) \/ UpdateFlag(t) \/ UpdateDefault(t) \/ Launch(t)

Next == (\E t \in Thread : Step(t)) \/ Recompile \/ Restart

Spec == Init /\ [][Next]_vars

-----------------------------------------------------------------------------

\* A call of kernel[config](args) in progress.
Calls == {Idle}
  \cup [at : {"resolve", "compile"}, config : Config, sig : Sig, disp : Dispatcher]
  \cup [at : {"compiling"}, config : Config, sig : Sig, disp : Dispatcher,
        key : Config \cup {NoKey}]
  \cup [at : {"update", "default", "launch"}, config : Config, sig : Sig,
        disp : Dispatcher, kernel : Kernel]

TypeOK ==
  /\ sensitive \in BOOLEAN /\ marker \in BOOLEAN
  /\ default \in Config \cup {NoConfig}
  /\ overloads \in [Dispatcher -> [Sig -> Kernel \cup {NoKernel}]]
  /\ cache \in [Dispatcher -> {"unborn", "off", "unknown", "no", "yes"}]
  /\ disk \subseteq [sig : Sig, key : Config \cup {NoKey, NoConfig}, kernel : Kernel]
  /\ marked \subseteq Config
  /\ device \in [Inner -> Config \cup {NoConfig}]
  /\ lock \in Thread \cup {NoThread}
  /\ call \in [Thread -> Calls]
  /\ generation \in 0..MaxRecompiles
  /\ overlaps \in Nat
  /\ excuse \subseteq {"contended", "recompiled"}

\* No launch runs code that was generated for another launch configuration:
\* marking the dispatcher "instructs the dispatcher/cache machinery to avoid
\* unsafe reuse across different launch configurations for that kernel path"
\* (docs/source/reference/kernel.rst).  The choice of the dispatcher is not
\* atomic with what makes it sensitive, so all bets are off once two threads
\* were in launches that chose Main with different configurations.
SafeReuse ==
  \A t \in Thread :
     call[t].at = "launch" /\ "contended" \notin excuse
       => call[t].kernel.uses \subseteq {call[t].config}

\* What is on disk outlives the process: code that depends on a launch
\* configuration is only ever filed under that configuration, also when the
\* marker cannot be written (compile, mark_launch_config_sensitive).  Here too
\* two contending first launches are the one way to get it wrong, for good.
DiskKeyed == "contended" \notin excuse => \A e \in disk : e.kernel.uses \subseteq {e.key}

\* A kernel is never compiled for a key that the disk cache already has, be it
\* by this process or by one that ran before (test_launch_config_sensitive_cache_keys
\* in tests/cudapy/test_caching.py), if no two first launches contended and
\* recompile() has not removed the marker: a specialization that remembers the
\* marker does not write it again, and the next process misses what it saves.
DiskSparesCompiling ==
  [][\A t \in Thread : \A e \in disk :
       call[t].at = "compiling" /\ call'[t].at = "update" /\ e.sig = call[t].sig
       /\ cache'[call[t].disp] # "off" /\ excuse = {}
         => e.key # IF call'[t].kernel.lcs THEN CacheKey(call[t].disp, call[t].config)
                    ELSE call[t].key]_vars

\* Threads that launch a new signature at the same time compile it once: a
\* kernel that is in memory is never replaced by another compilation (compile).
CompiledOnce ==
  [][\A t \in Thread : call[t].at = "compiling" /\ call'[t].at = "update"
        => Overload(t) = NoKernel]_vars

\* "Recompile all signatures afresh": after recompile() a launch that is not
\* left to a specialization runs a kernel that was compiled after it, although
\* some signatures may not compile without a launch configuration, and the
\* flags of other dispatchers stay as they were (recompile, flush).
MainRecompiledAfresh ==
  \A t \in Thread :
     call[t].at = "launch" /\ call[t].disp = Main => call[t].kernel.generation = generation
=============================================================================
