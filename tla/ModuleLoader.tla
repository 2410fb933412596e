---------------------------- MODULE ModuleLoader -----------------------------
(***************************************************************************)
(* Loading Starlark modules (cistarlark/starlark.go): a cache that runs    *)
(* each module once, hands its result to everybody who asks, and refuses   *)
(* to wait where waiting would be for ever.  A thread is one evaluation of *)
(* a script through one cache; LoadWorkflow gives every script a cache of  *)
(* its own, and the cache is written to be shared.  Between two steps of   *)
(* one thread any number of steps of the others may come, except where the *)
(* cache's mutex is held.                                                  *)
(***************************************************************************)
EXTENDS ModuleNames, FiniteSets

CONSTANTS
    Threads,    \* the goroutines that share the cache
    Worlds,     \* what may be there to load, and which scripts are run
    MaxLost     \* how many requests may fail

URLs == [scheme: STRING, host: Seq(STRING), dir: STRING, file: STRING, ref: STRING]

\* What a script may do that concerns the cache: load a module, read a file.
ScriptItems ==
    [op: {"load", "loadFile"}, name: [form: Forms, u: URLs], optional: BOOLEAN]

ASSUME LoaderAssumption ==
    /\ \A w \in Worlds :
          /\ w.main \in [Threads -> URLs]
          /\ \A t \in Threads : w.main[t] \in DOMAIN w.files
          /\ \A l \in DOMAIN w.files : w.files[l] \in Seq(ScriptItems)
    /\ MaxLost \in Nat

VARIABLES
    world,      \* the files, and the script each thread runs
    lost,       \* requests that failed
    cache,      \* modCache: an entry for every module asked for
    waits,      \* waitsFor of each thread's cycleChecker: the module, if any
    stack,      \* the scripts each thread is in the middle of
    th          \* where each thread is

vars == <<world, lost, cache, waits, stack, th>>

Locations == DOMAIN world.files

\* The script of thread t is executed as this URL.
Main(t) == world.main[t]

Outcomes == {"none", "ok", "failed"}
Points == {"run", "get", "own", "open", "checkOwner", "checkWaits", "wait", "waiting",
           "failing", "close", "done", "failed", "panicked"}

\* Each top-level load makes a new cycleChecker.
Checkers == Threads \X Nat
Me(t) == <<t, th[t].loads>>

Top(t) == stack[t][Len(stack[t])]
Items(t) == Top(t).todo

TypeOK ==
    /\ \A k \in DOMAIN cache :
          /\ cache[k].owner \in SUBSET Checkers /\ Cardinality(cache[k].owner) <= 1
          /\ cache[k].ready \in BOOLEAN /\ cache[k].result \in Outcomes
          /\ cache[k].ready => cache[k].result # "none"
    /\ \A t \in Threads :
          /\ waits[t] \subseteq DOMAIN cache
          /\ th[t].pc \in Points /\ th[t].loads \in Nat
          /\ \A i \in 2 .. Len(stack[t]) : stack[t][i].url \in DOMAIN cache

\* A script that runs: its URL, and what it has yet to load or read.
Frame(u, items) == [url |-> u, todo |-> items]

Goto(t, pc) == th' = [th EXCEPT ![t].pc = pc]

\* A load or loadFile of the topmost script is over.
Advance(t) == stack' = [stack EXCEPT ![t][Len(stack[t])].todo = Tail(@)]

-----------------------------------------------------------------------------
(* A script.                                                               *)

\* It loads a module: modCache.Load from the main script, which makes a new
\* cycleChecker, the Load that doLoad installed from any other.
Load(t) ==
    /\ th[t].pc = "run" /\ Items(t) # <<>> /\ Head(Items(t)).op = "load"
    /\ LET u == resolveModuleName(Top(t).url, Head(Items(t)).name)
       IN  th' = [th EXCEPT ![t].pc = IF Stops(u) THEN "panicked" ELSE "get",
                            ![t].want = u,
                            ![t].loads = IF Len(stack[t]) = 1 THEN @ + 1 ELSE @]
    /\ UNCHANGED <<world, lost, cache, waits, stack>>

\* A request to a host fails.  When GitHub gave no response at all, the code
\* looks at the one there is not, which is a panic.
Lose(t, u) ==
    /\ lost < MaxLost /\ u.scheme \in {"github", "https"}
    /\ lost' = lost + 1
    /\ Goto(t, "failing") \/ (u.scheme = "github" /\ Goto(t, "panicked"))
    /\ UNCHANGED stack

\* It reads a file; a script may put up with one that is not there.
LoadFile(t) ==
    /\ th[t].pc = "run" /\ Items(t) # <<>> /\ Head(Items(t)).op = "loadFile"
    /\ LET i == Head(Items(t))
           f == builtInLoadFile(Locations, Top(t).url, i.name)
           fine == ~Stops(f) \/ (f = Missing /\ i.optional)
       IN  \/ f = Panic /\ Goto(t, "panicked") /\ UNCHANGED <<lost, stack>>
           \/ fine /\ Advance(t) /\ UNCHANGED <<lost, th>>
           \/ f # Panic /\ ~fine /\ Goto(t, "failing") /\ UNCHANGED <<lost, stack>>
           \/ f # Panic /\ f # Error /\ Lose(t, parseModURL(Top(t).url, i.name))
    /\ UNCHANGED <<world, cache, waits>>

\* The main script ends.
End(t) ==
    /\ Len(stack[t]) = 1
    /\ \/ th[t].pc = "run" /\ Items(t) = <<>> /\ Goto(t, "done")
       \/ th[t].pc = "failing" /\ Goto(t, "failed")
    /\ UNCHANGED <<world, lost, cache, waits, stack>>

-----------------------------------------------------------------------------
(* get.                                                                    *)

\* Bug: the entry is made without looking again under the mutex.
BugFirstBlind(t) ==
    /\ th[t].pc = "get"
    /\ cache' = [k \in DOMAIN cache \cup {th[t].want} |->
                   IF k # th[t].want THEN cache[k]
                   ELSE [owner |-> {}, ready |-> FALSE, result |-> "none"]]
    /\ stack' = [stack EXCEPT ![t] = Append(@, Frame(th[t].want, <<>>))]
    /\ Goto(t, "own")
    /\ UNCHANGED <<world, lost, waits>>

\* Under the mutex: nobody has asked for the module, so it gets its entry.
First(t) ==
    /\ th[t].pc = "get" /\ th[t].want \notin DOMAIN cache
    /\ cache' = [k \in DOMAIN cache \cup {th[t].want} |->
                   IF k \in DOMAIN cache THEN cache[k]
                   ELSE [owner |-> {}, ready |-> FALSE, result |-> "none"]]
    /\ stack' = [stack EXCEPT ![t] = Append(@, Frame(th[t].want, <<>>))]
    /\ Goto(t, "own")
    /\ UNCHANGED <<world, lost, waits>>

\* Somebody has.
Found(t) ==
    /\ th[t].pc = "get" /\ th[t].want \in DOMAIN cache
    /\ th' = [th EXCEPT ![t].pc = "checkOwner", ![t].at = th[t].want]
    /\ UNCHANGED <<world, lost, cache, waits, stack>>

Own(t) ==
    /\ th[t].pc = "own"
    /\ cache' = [cache EXCEPT ![Top(t).url].owner = {Me(t)}]
    /\ Goto(t, "open")
    /\ UNCHANGED <<world, lost, waits, stack>>

\* doLoad: the module is found and its script starts, or it is not there, or
\* the request fails.
Open(t) ==
    /\ th[t].pc = "open"
    /\ LET l == ModOpen(Locations, Top(t).url)
       IN  \/ /\ ~Stops(l)
              /\ stack' = [stack EXCEPT ![t][Len(stack[t])].todo = world.files[l]]
              /\ Goto(t, "run")
              /\ UNCHANGED lost
           \/ l \in {Error, Missing} /\ Goto(t, "failing") /\ UNCHANGED <<lost, stack>>
           \/ l = Panic /\ Goto(t, "panicked") /\ UNCHANGED <<lost, stack>>
           \/ l \notin {Error, Panic} /\ Lose(t, Top(t).url)
    /\ UNCHANGED <<world, cache, waits>>

\* Bug: the error of a module is not kept in its entry.
BugResultLost(t) ==
    /\ Len(stack[t]) > 1
    /\ th[t].pc = "failing" \/ (th[t].pc = "run" /\ Items(t) = <<>>)
    /\ cache' = [cache EXCEPT ![Top(t).url].owner = {},
                               ![Top(t).url].result = IF th[t].pc = "run" THEN "ok" ELSE @]
    /\ Goto(t, "close")
    /\ UNCHANGED <<world, lost, waits, stack>>

\* Bug: whatever the module's script came to is taken for its globals.
BugResultOk(t) ==
    /\ Len(stack[t]) > 1
    /\ th[t].pc = "failing" \/ (th[t].pc = "run" /\ Items(t) = <<>>)
    /\ cache' = [cache EXCEPT ![Top(t).url].result = "ok", ![Top(t).url].owner = {}]
    /\ Goto(t, "close")
    /\ UNCHANGED <<world, lost, waits, stack>>

\* The module's script ended: the result is stored, the owner taken back ...
Result(t) ==
    /\ Len(stack[t]) > 1
    /\ \/ th[t].pc = "run" /\ Items(t) = <<>>
          /\ cache' = [cache EXCEPT ![Top(t).url].result = "ok", ![Top(t).url].owner = {}]
       \/ th[t].pc = "failing"
          /\ cache' = [cache EXCEPT ![Top(t).url].result = "failed", ![Top(t).url].owner = {}]
    /\ Goto(t, "close")
    /\ UNCHANGED <<world, lost, waits, stack>>

\* Bug: nobody tells those who wait for the module.
BugCloseSilent(t) ==
    /\ th[t].pc = "close"
    /\ LET below == Len(stack[t]) - 1
           asked == SubSeq(stack[t], 1, below)
       IN  IF cache[Top(t).url].result = "ok"
           THEN /\ stack' = [stack EXCEPT ![t] = [asked EXCEPT ![below].todo = Tail(@)]]
                /\ Goto(t, "run")
           ELSE stack' = [stack EXCEPT ![t] = asked] /\ Goto(t, "failing")
    /\ UNCHANGED <<world, lost, cache, waits>>

\* ... and the waiters are told; the script that asked goes on, or fails.
Close(t) ==
    /\ th[t].pc = "close"
    /\ cache' = [cache EXCEPT ![Top(t).url].ready = TRUE]
    /\ LET below == Len(stack[t]) - 1
           asked == SubSeq(stack[t], 1, below)
       IN  IF cache[Top(t).url].result = "ok"
           THEN /\ stack' = [stack EXCEPT ![t] = [asked EXCEPT ![below].todo = Tail(@)]]
                /\ Goto(t, "run")
           ELSE stack' = [stack EXCEPT ![t] = asked] /\ Goto(t, "failing")
    /\ UNCHANGED <<world, lost, waits>>

-----------------------------------------------------------------------------
(* cycleCheck, one load of a pointer at a time, and the wait.              *)

\* Bug: a module one is loading oneself is waited for like any other.
BugCheckOthers(t) ==
    /\ th[t].pc = "checkOwner"
    /\ LET o == cache[th[t].at].owner
       IN  th' = [th EXCEPT ![t].pc = IF o \in {{}, {Me(t)}} THEN "wait" ELSE "checkWaits",
                            ![t].holder = o]
    /\ UNCHANGED <<world, lost, cache, waits, stack>>

\* The owner of the entry looked at: nobody, this very checker, or another.
CheckOwner(t) ==
    /\ th[t].pc = "checkOwner"
    /\ LET o == cache[th[t].at].owner
       IN  th' = [th EXCEPT ![t].pc = IF o = {} THEN "wait"
                                      ELSE IF o = {Me(t)} THEN "failing" ELSE "checkWaits",
                            ![t].holder = o]
    /\ UNCHANGED <<world, lost, cache, waits, stack>>

\* A thread that has gone on to its next top-level load has left the old
\* cycleChecker waiting for nothing.
CheckWaits(t) ==
    /\ th[t].pc = "checkWaits"
    /\ LET cc == CHOOSE c \in th[t].holder : TRUE
           e == IF Me(cc[1]) = cc THEN waits[cc[1]] ELSE {}
       IN  th' = [th EXCEPT ![t].pc = IF e = {} THEN "wait" ELSE "checkOwner",
                            ![t].at = IF e = {} THEN @ ELSE CHOOSE k \in e : TRUE]
    /\ UNCHANGED <<world, lost, cache, waits, stack>>

Wait(t) ==
    /\ th[t].pc = "wait"
    /\ waits' = [waits EXCEPT ![t] = {th[t].want}]
    /\ Goto(t, "waiting")
    /\ UNCHANGED <<world, lost, cache, stack>>

Wake(t) ==
    /\ th[t].pc = "waiting" /\ cache[th[t].want].ready
    /\ waits' = [waits EXCEPT ![t] = {}]
    /\ IF cache[th[t].want].result = "ok"
       THEN Advance(t) /\ Goto(t, "run")
       ELSE Goto(t, "failing") /\ UNCHANGED stack
    /\ UNCHANGED <<world, lost, cache>>

-----------------------------------------------------------------------------

Init ==
    /\ world \in Worlds
    /\ lost = 0
    /\ cache = [k \in {} |-> 0]
    /\ waits = [t \in Threads |-> {}]
    /\ stack = [t \in Threads |-> <<Frame(Main(t), world.files[Main(t)])>>]
    /\ th = [t \in Threads |-> [pc |-> "run", want |-> Main(t), at |-> Main(t),
                                holder |-> {}, loads |-> 0]]

Step(t) ==
    \/ Load(t) \/ LoadFile(t) \/ End(t)
    \/ First(t) \/ Found(t) \/ Own(t) \/ Open(t) \/ Result(t) \/ Close(t)
    \/ CheckOwner(t) \/ CheckWaits(t) \/ Wait(t) \/ Wake(t)

Next == \E t \in Threads : Step(t)

Spec == Init /\ [][Next]_vars

\* The Go scheduler runs every goroutine.
LiveSpec == Spec /\ \A t \in Threads : WF_vars(Step(t))

-----------------------------------------------------------------------------
(* What loading a module comes to without a cache.                         *)

\* Item i of script u is fine, when the modules in "good" can be had.
Fine(u, i, good) ==
    IF i.op = "load" THEN resolveModuleName(u, i.name) \in good
    ELSE LET f == builtInLoadFile(Locations, u, i.name)
         IN  ~Stops(f) \/ (f = Missing /\ i.optional)

ItemsOf(l) == {world.files[l][i] : i \in DOMAIN world.files[l]}

\* Module u can be loaded, and script u executed, when those in "good" can.
Runs(u, good) ==
    LET l == ModOpen(Locations, u)
    IN  ~Stops(l) /\ \A i \in ItemsOf(l) : Fine(u, i, good)

ScriptRuns(t, good) == \A i \in ItemsOf(Main(t)) : Fine(Main(t), i, good)

\* Loading modules one after another gets to k: a set of modules that has
\* every module which runs on others of the set has k too.
Sound(k) ==
    \A S \in SUBSET DOMAIN cache :
        (\A m \in DOMAIN cache : Runs(m, S) => m \in S) => k \in S

\* It never gets to k, one of some modules that do not run, or only on one
\* another: something is missing, or their imports are cyclic.
Broken(k) ==
    \E B \in SUBSET DOMAIN cache : k \in B /\ \A m \in B : ~Runs(m, URLs \ B)

SoundModules == {k \in DOMAIN cache : Sound(k)}
BrokenModules == {k \in DOMAIN cache : Broken(k)}

\* At most one thread has anything to load.
Alone == \E t \in Threads : \A o \in Threads \ {t} : world.files[Main(o)] = <<>>

-----------------------------------------------------------------------------
(* Properties.                                                             *)

\* Loading through the cache comes to what loading without one does: nothing
\* is handed out that is broken somewhere below, and a thread that has the
\* cache for itself is refused only what really cannot be loaded - a cycle,
\* a file that is missing - unless a request failed (get, cycleCheck).
ResultsAreRight ==
    /\ \A k \in DOMAIN cache : cache[k].result = "ok" => Sound(k)
    /\ \A t \in Threads : th[t].pc = "done" => ScriptRuns(t, SoundModules)
    /\ Alone /\ lost = 0 =>
          /\ \A k \in DOMAIN cache : cache[k].result = "failed" => Broken(k)
          /\ \A t \in Threads : th[t].pc = "failed" => ~ScriptRuns(t, URLs \ BrokenModules)

\* The modules a module loads.
Needs(u) ==
    LET l == ModOpen(Locations, u)
    IN  IF Stops(l) THEN {}
        ELSE {resolveModuleName(u, i.name) : i \in {j \in ItemsOf(l) : j.op = "load"}}

\* The imports of k lead into a cycle.
Circular(k) ==
    \E C \in SUBSET DOMAIN cache : k \in C /\ \A m \in C : Needs(m) \cap C # {}

\* The threads in the middle of loading a module.
Loaders(k) == {t \in Threads : \E i \in 2 .. Len(stack[t]) : stack[t][i].url = k}

\* None of some threads goes on before another of them does.
Stuck(W) ==
    \A t \in W : /\ th[t].pc = "waiting" /\ ~cache[th[t].want].ready
                  /\ Loaders(th[t].want) \subseteq W

\* Threads wait for nobody but one another only where they share the cache,
\* and only for modules whose imports lead into a cycle: a thread never waits
\* for itself, nor for an entry that is given up (cycleCheck, close(e.ready)).
StuckOnlyByCycle ==
    \A W \in (SUBSET Threads) \ {{}} :
        Stuck(W) => ~Alone /\ \A t \in W : Circular(th[t].want)

Results ==
    [k \in DOMAIN cache |->
        [state |-> IF cache[k].ready THEN cache[k].result ELSE "loading", needs |-> Needs(k)]]

Once == INSTANCE LoadOnce WITH results <- Results

\* The cache loads each module once, after everything it needs, and keeps
\* the result, also when threads ask for it at the same time (get).
ImplementsLoadOnce == Once!OnceSpec

Ended(t) == th[t].pc \in {"done", "failed", "panicked"}

\* Every script ends, whatever its modules load, when it has the cache for
\* itself; and threads that share one all end as long as none of them panics
\* and no module's imports lead into a cycle (cycleCheck, close(e.ready)).
LoadsReturn ==
    (\/ Alone
     \/ [](\A k \in DOMAIN cache : ~Circular(k)) /\ [](\A t \in Threads : th[t].pc # "panicked"))
    => \A t \in Threads : <>Ended(t)
=============================================================================
