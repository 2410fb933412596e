------------------------ MODULE ModuleLoader_proofs -------------------------
(* ModuleLoader for any threads and any scripts, however the threads that  *)
(* share the cache interleave. It implements LoadOnce: the cache loads a   *)
(* module once, after everything it needs, and keeps the result. What it   *)
(* keeps is right: a module that loaded is sound, and a thread on its own  *)
(* fails only what no order of loading could run. And threads wait for one *)
(* another only when the modules they want import each other in a circle.  *)
EXTENDS ModuleLoader, TLAPS, SequenceTheorems, FiniteSetTheorems

Names == [form: Forms, u: URLs]
Frames == [url: URLs, todo: Seq(ScriptItems)]
Owners == {{}} \cup {{c} : c \in Checkers}
Entries == [owner: Owners, ready: BOOLEAN, result: Outcomes]
Wanted == URLs \cup {Panic}
Places == [pc: Points, want: Wanted, at: Wanted, holder: Owners, loads: Nat]

TypedCache ==
    /\ DOMAIN cache \subseteq URLs
    /\ cache \in [DOMAIN cache -> Entries]
    /\ waits \in [Threads -> SUBSET DOMAIN cache]

TypedThreads ==
    /\ stack \in [Threads -> Seq(Frames)]
    /\ \A t \in Threads : Len(stack[t]) >= 1
    /\ th \in [Threads -> Places]

\* A thread that looks a module up knows of an entry, one that loads a module
\* is in the middle of it.
Known(t) ==
    /\ th[t].pc = "get" => th[t].want \in URLs
    /\ th[t].pc \in {"own", "open", "close"} => Len(stack[t]) > 1
    /\ th[t].pc = "checkOwner" => th[t].at \in DOMAIN cache
    /\ th[t].pc = "checkWaits" => th[t].holder # {}
    /\ th[t].pc \in {"checkOwner", "checkWaits", "wait", "waiting"} => th[t].want \in DOMAIN cache

Typed ==
    /\ world \in Worlds /\ TypedCache /\ TypedThreads
    /\ \A t \in Threads : Known(t)

-----------------------------------------------------------------------------
(* Sequences and frames.                                                   *)

\* The scripts of a world.
LEMMA WorldFacts ==
    ASSUME world \in Worlds
    PROVE  /\ \A t \in Threads : Main(t) \in URLs /\ Main(t) \in Locations
           /\ \A l \in Locations : world.files[l] \in Seq(ScriptItems)
<1> DEFINE w == world
<1> HIDE DEF w
<1>1. /\ w.main \in [Threads -> URLs] /\ \A t \in Threads : w.main[t] \in DOMAIN w.files
      /\ \A l \in DOMAIN w.files : w.files[l] \in Seq(ScriptItems)
  <2>1. w \in Worlds
    BY DEF w
  <2> HIDE DEF ScriptItems, URLs
  <2> QED
    BY <2>1, LoaderAssumption
<1>2. \A t \in Threads : w.main[t] \in URLs
  BY <1>1
<1> QED
  BY <1>1, <1>2 DEF Main, Locations, w

\* A name that is resolved gives a URL, or stops the script.
LEMMA ResolvedType ==
    ASSUME NEW cwu \in URLs, NEW n \in Names
    PROVE  resolveModuleName(cwu, n) \in Wanted
<1>1. CASE n.form # "malformed"
  <2> DEFINE u == Parse(cwu, n)
  <2>1. n.form \in {"absolute", "host", "path", "file"} /\ n.u \in URLs
    BY <1>1 DEF Names, Forms
  <2>2. u \in URLs
    BY <2>1 DEF Parse, URLs
  <2> HIDE DEF u
  <2>3. [u EXCEPT !.ref = cwu.ref] \in URLs
    BY <2>2 DEF URLs
  <2>4. resolveModuleName(cwu, n) = IF u.ref = NoQuery THEN [u EXCEPT !.ref = cwu.ref] ELSE u
    BY <1>1 DEF resolveModuleName, u
  <2> QED
    BY <2>2, <2>3, <2>4 DEF Wanted
<1> QED
  BY <1>1 DEF resolveModuleName, Wanted

\* The topmost frame of a thread, and what it has to do next.
LEMMA TopFacts ==
    ASSUME TypedThreads, NEW t \in Threads
    PROVE  /\ stack[t] \in Seq(Frames) /\ Len(stack[t]) \in Nat \ {0}
           /\ \A i \in 1 .. Len(stack[t]) : /\ stack[t][i] \in Frames /\ stack[t][i].url \in URLs
                                            /\ stack[t][i].todo \in Seq(ScriptItems)
           /\ Top(t) = stack[t][Len(stack[t])] /\ Top(t) \in Frames
           /\ Top(t).url \in URLs /\ Items(t) \in Seq(ScriptItems)
           /\ Items(t) # <<>> => Head(Items(t)) \in ScriptItems /\ Tail(Items(t)) \in Seq(ScriptItems)
<1>1. stack[t] \in Seq(Frames) /\ Len(stack[t]) \in Nat \ {0}
  BY LenProperties DEF TypedThreads
<1>2. \A i \in 1 .. Len(stack[t]) : stack[t][i] \in Frames
  BY <1>1, ElementOfSeq
<1>3. Top(t) = stack[t][Len(stack[t])] /\ Top(t) \in Frames
  BY <1>1, <1>2 DEF Top
<1>4. \A f \in Frames : f.url \in URLs /\ f.todo \in Seq(ScriptItems)
  BY DEF Frames
<1>5. Items(t) \in Seq(ScriptItems)
  BY <1>3, <1>4 DEF Items
<1>6. Items(t) # <<>> => Head(Items(t)) \in ScriptItems /\ Tail(Items(t)) \in Seq(ScriptItems)
  BY <1>5, HeadTailProperties
<1> QED
  BY <1>1, <1>2, <1>3, <1>4, <1>5, <1>6

\* What Append, Advance and the return from a script do to a stack.
LEMMA PushFacts ==
    ASSUME NEW s \in Seq(Frames), NEW f \in Frames
    PROVE  /\ Append(s, f) \in Seq(Frames) /\ Len(Append(s, f)) = Len(s) + 1
           /\ \A i \in 1 .. Len(s) : Append(s, f)[i] = s[i]
           /\ Append(s, f)[Len(s) + 1] = f
<1> HIDE DEF Frames
<1> QED
  BY AppendProperties

\* Only the list of the topmost frame changes.
LEMMA TodoFacts ==
    ASSUME NEW s \in Seq(Frames), NEW n \in 1 .. Len(s), NEW todo \in Seq(ScriptItems)
    PROVE  /\ [s EXCEPT ![n].todo = todo] \in Seq(Frames)
           /\ Len([s EXCEPT ![n].todo = todo]) = Len(s)
           /\ \A i \in 1 .. Len(s) : i # n => [s EXCEPT ![n].todo = todo][i] = s[i]
           /\ [s EXCEPT ![n].todo = todo][n].url = s[n].url
           /\ [s EXCEPT ![n].todo = todo][n].todo = todo
<1> DEFINE e == [s[n] EXCEPT !.todo = todo]
<1>1. s[n] \in Frames
  BY ElementOfSeq
<1>2. e \in Frames /\ e.url = s[n].url /\ e.todo = todo
  BY <1>1 DEF Frames
<1>3. [s EXCEPT ![n].todo = todo] = [s EXCEPT ![n] = e]
  OBVIOUS
<1> HIDE DEF e, Frames
<1>4. /\ [s EXCEPT ![n] = e] \in Seq(Frames) /\ Len([s EXCEPT ![n] = e]) = Len(s)
      /\ \A i \in 1 .. Len(s) : [s EXCEPT ![n] = e][i] = IF i = n THEN e ELSE s[i]
  BY <1>2, ExceptSeq
<1> QED
  BY <1>2, <1>3, <1>4

\* A script that is over leaves those below it.
LEMMA PopFacts ==
    ASSUME NEW s \in Seq(Frames), Len(s) > 1
    PROVE  /\ SubSeq(s, 1, Len(s) - 1) \in Seq(Frames)
           /\ Len(SubSeq(s, 1, Len(s) - 1)) = Len(s) - 1
           /\ \A i \in 1 .. Len(s) - 1 : SubSeq(s, 1, Len(s) - 1)[i] = s[i]
<1> HIDE DEF Frames
<1>1. Len(s) \in Nat
  BY LenProperties
<1> QED
  BY <1>1, SubSeqProperties

-----------------------------------------------------------------------------
(* Types.                                                                  *)

\* Only thread t is somewhere else.
OthersStay(t) == \A o \in Threads \ {t} : stack'[o] = stack[o] /\ th'[o] = th[o]

\* What Goto does.
LEMMA GotoFacts ==
    ASSUME TypedThreads, NEW t \in Threads, NEW pc \in Points, Goto(t, pc)
    PROVE  /\ th' \in [Threads -> Places] /\ th'[t].pc = pc
           /\ th'[t].want = th[t].want /\ th'[t].at = th[t].at /\ th'[t].holder = th[t].holder
           /\ \A o \in Threads \ {t} : th'[o] = th[o]
<1> DEFINE p == [th[t] EXCEPT !.pc = pc]
<1>1. th[t] \in Places /\ th' = [th EXCEPT ![t] = p]
  BY DEF Goto, TypedThreads
<1>2. p \in Places /\ p.pc = pc /\ p.want = th[t].want /\ p.at = th[t].at /\ p.holder = th[t].holder
  BY <1>1 DEF Places
<1> HIDE DEF p, Places
<1> QED
  BY <1>1, <1>2 DEF TypedThreads

\* A stack that is replaced by another.
LEMMA StackFacts ==
    ASSUME TypedThreads, NEW t \in Threads, NEW s \in Seq(Frames), Len(s) >= 1,
           stack' = [stack EXCEPT ![t] = s]
    PROVE  /\ stack' \in [Threads -> Seq(Frames)] /\ \A o \in Threads : Len(stack'[o]) >= 1
           /\ stack'[t] = s /\ \A o \in Threads \ {t} : stack'[o] = stack[o]
<1> HIDE DEF Frames
<1> QED
  BY DEF TypedThreads

\* What the topmost script has to do next is another list.
LEMMA TopTodoFacts ==
    ASSUME TypedThreads, NEW t \in Threads, NEW todo \in Seq(ScriptItems),
           stack' = [stack EXCEPT ![t][Len(stack[t])].todo = todo]
    PROVE  /\ stack' \in [Threads -> Seq(Frames)] /\ \A o \in Threads : Len(stack'[o]) >= 1
           /\ \A o \in Threads \ {t} : stack'[o] = stack[o]
           /\ Len(stack'[t]) = Len(stack[t])
           /\ \A i \in 1 .. Len(stack[t]) : i # Len(stack[t]) => stack'[t][i] = stack[t][i]
           /\ stack'[t][Len(stack[t])].url = Top(t).url
           /\ stack'[t][Len(stack[t])].todo = todo
<1> DEFINE n == Len(stack[t])
           s == [stack[t] EXCEPT ![n].todo = todo]
<1>1. stack[t] \in Seq(Frames) /\ n \in 1 .. Len(stack[t]) /\ Top(t) = stack[t][n]
  BY TopFacts
<1>2. stack' = [stack EXCEPT ![t] = s]
  OBVIOUS
<1>3. /\ s \in Seq(Frames) /\ Len(s) = Len(stack[t])
      /\ \A i \in 1 .. Len(stack[t]) : i # n => s[i] = stack[t][i]
      /\ s[n].url = stack[t][n].url /\ s[n].todo = todo
  <2> DEFINE q == stack[t]
  <2>1. q \in Seq(Frames) /\ n \in 1 .. Len(q)
    BY <1>1
  <2>2. s = [q EXCEPT ![n].todo = todo]
    OBVIOUS
  <2> HIDE DEF q, n, s, Frames
  <2>3. /\ [q EXCEPT ![n].todo = todo] \in Seq(Frames)
        /\ Len([q EXCEPT ![n].todo = todo]) = Len(q)
        /\ \A i \in 1 .. Len(q) : i # n => [q EXCEPT ![n].todo = todo][i] = q[i]
        /\ [q EXCEPT ![n].todo = todo][n].url = q[n].url
        /\ [q EXCEPT ![n].todo = todo][n].todo = todo
    BY <2>1, TodoFacts
  <2> QED
    BY <2>2, <2>3 DEF q
<1>4. Len(s) >= 1
  BY <1>1, <1>3
<1> HIDE DEF s, Frames
<1>5. /\ stack' \in [Threads -> Seq(Frames)] /\ \A o \in Threads : Len(stack'[o]) >= 1
      /\ stack'[t] = s /\ \A o \in Threads \ {t} : stack'[o] = stack[o]
  BY <1>2, <1>3, <1>4, StackFacts
<1> QED
  BY <1>1, <1>3, <1>5

LEMMA AdvanceFacts ==
    ASSUME TypedThreads, NEW t \in Threads, Items(t) # <<>>, Advance(t)
    PROVE  /\ stack' \in [Threads -> Seq(Frames)] /\ \A o \in Threads : Len(stack'[o]) >= 1
           /\ \A o \in Threads \ {t} : stack'[o] = stack[o]
           /\ Len(stack'[t]) = Len(stack[t])
           /\ \A i \in 1 .. Len(stack[t]) : i # Len(stack[t]) => stack'[t][i] = stack[t][i]
           /\ stack'[t][Len(stack[t])].url = Top(t).url
           /\ stack'[t][Len(stack[t])].todo = Tail(Items(t))
<1>1. stack' = [stack EXCEPT ![t][Len(stack[t])].todo = Tail(Items(t))]
  BY DEF Advance, Items, Top
<1>2. Tail(Items(t)) \in Seq(ScriptItems)
  BY TopFacts
<1> HIDE DEF Frames
<1> QED
  BY <1>1, <1>2, TopTodoFacts

\* What another thread's step leaves known.
LEMMA OthersKnown ==
    ASSUME NEW o \in Threads, Known(o), stack'[o] = stack[o], th'[o] = th[o],
           DOMAIN cache \subseteq DOMAIN cache'
    PROVE  Known(o)'
BY DEF Known

\* A load whose script goes on names a URL.
LEMMA LoadDoes ==
    ASSUME Typed, NEW t \in Threads, Load(t)
    PROVE  /\ th[t].pc = "run" /\ Items(t) # <<>> /\ Head(Items(t)).op = "load"
           /\ th' \in [Threads -> Places] /\ OthersStay(t)
           /\ th'[t].want = resolveModuleName(Top(t).url, Head(Items(t)).name)
           /\ \/ th'[t].pc = "panicked"
              \/ th'[t].pc = "get" /\ th'[t].want \in URLs
           /\ UNCHANGED <<world, cache, waits, stack>>
<1> DEFINE u == resolveModuleName(Top(t).url, Head(Items(t)).name)
           p == [th[t] EXCEPT !.pc = IF Stops(u) THEN "panicked" ELSE "get",
                              !.want = u,
                              !.loads = IF Len(stack[t]) = 1 THEN @ + 1 ELSE @]
<1>1. /\ th[t].pc = "run" /\ Items(t) # <<>> /\ Head(Items(t)).op = "load"
      /\ th' = [th EXCEPT ![t] = p]
      /\ UNCHANGED <<world, cache, waits, stack>>
  BY DEF Load
<1>2. Top(t).url \in URLs /\ Head(Items(t)) \in ScriptItems /\ TypedThreads
  BY <1>1, TopFacts DEF Typed
<1>3. Head(Items(t)).name \in Names
  BY <1>2 DEF ScriptItems, Names
<1>4. u \in Wanted /\ (~Stops(u) => u \in URLs)
  BY <1>2, <1>3, ResolvedType DEF Wanted, Stops
<1> HIDE DEF u
<1>5. /\ p \in Places /\ p.want = u
      /\ p.pc = "panicked" \/ (p.pc = "get" /\ u \in URLs)
  <2> DEFINE pc == IF Stops(u) THEN "panicked" ELSE "get"
             loads == IF Len(stack[t]) = 1 THEN th[t].loads + 1 ELSE th[t].loads
  <2>1. th[t] \in Places
    BY <1>2 DEF TypedThreads
  <2>2. loads \in Nat /\ pc \in Points /\ (pc = "panicked" \/ (pc = "get" /\ u \in URLs))
    BY <1>4, <2>1 DEF Places, Points
  <2>3. p = [th[t] EXCEPT !.pc = pc, !.want = u, !.loads = loads]
    BY <2>1 DEF Places
  <2> HIDE DEF pc, loads, p
  <2> QED
    BY <1>4, <2>1, <2>2, <2>3 DEF Places
<1> HIDE DEF p, Places
<1>6. th' \in [Threads -> Places] /\ th'[t] = p /\ \A o \in Threads \ {t} : th'[o] = th[o]
  BY <1>1, <1>2, <1>5 DEF TypedThreads
<1> QED
  BY <1>1, <1>5, <1>6 DEF OthersStay, u

\* A file is read, or the script stops.
LEMMA LoadFileDoes ==
    ASSUME Typed, NEW t \in Threads, LoadFile(t)
    PROVE  /\ th[t].pc = "run" /\ Items(t) # <<>> /\ Head(Items(t)).op = "loadFile"
           /\ th' \in [Threads -> Places] /\ \A o \in Threads \ {t} : th'[o] = th[o]
           /\ \/ th'[t].pc \in {"panicked", "failing"} /\ UNCHANGED stack
              \/ th' = th /\ Advance(t)
           /\ UNCHANGED <<world, cache, waits>>
<1>1. TypedThreads
  BY DEF Typed
<1>2. /\ th[t].pc = "run" /\ Items(t) # <<>> /\ Head(Items(t)).op = "loadFile"
      /\ UNCHANGED <<world, cache, waits>>
      /\ \/ \E pc \in {"panicked", "failing"} : Goto(t, pc) /\ UNCHANGED stack
         \/ th' = th /\ Advance(t)
  BY DEF LoadFile, Lose
<1>3. ASSUME NEW pc \in {"panicked", "failing"}, Goto(t, pc)
      PROVE  th' \in [Threads -> Places] /\ th'[t].pc = pc /\ \A o \in Threads \ {t} : th'[o] = th[o]
  BY <1>1, <1>3, GotoFacts DEF Points
<1>4. th \in [Threads -> Places]
  BY <1>1 DEF TypedThreads
<1> HIDE DEF Places
<1> QED
  BY <1>2, <1>3, <1>4

\* The steps that leave stacks and entries alone.
LEMMA EndDoes ==
    ASSUME Typed, NEW t \in Threads, End(t)
    PROVE  /\ th' \in [Threads -> Places] /\ OthersStay(t)
           /\ th'[t].pc \in {"done", "failed"} /\ UNCHANGED <<world, cache, waits, stack>>
<1>1. TypedThreads
  BY DEF Typed
<1>2. /\ UNCHANGED <<world, cache, waits, stack>>
      /\ \E pc \in {"done", "failed"} : Goto(t, pc)
  BY DEF End
<1>3. PICK pc \in {"done", "failed"} : Goto(t, pc)
  BY <1>2
<1>4. pc \in Points
  BY DEF Points
<1> QED
  BY <1>1, <1>2, <1>3, <1>4, GotoFacts DEF OthersStay

LEMMA FoundDoes ==
    ASSUME Typed, NEW t \in Threads, Found(t)
    PROVE  /\ th' \in [Threads -> Places] /\ OthersStay(t) /\ th[t].pc = "get"
           /\ th'[t].pc = "checkOwner" /\ th'[t].want = th[t].want /\ th'[t].at = th[t].want
           /\ th[t].want \in DOMAIN cache
           /\ UNCHANGED <<world, cache, waits, stack>>
<1> DEFINE p == [th[t] EXCEPT !.pc = "checkOwner", !.at = th[t].want]
<1>1. th \in [Threads -> Places] /\ th[t] \in Places
  BY DEF Typed, TypedThreads
<1>2. /\ th' = [th EXCEPT ![t] = p] /\ th[t].pc = "get" /\ th[t].want \in DOMAIN cache
      /\ UNCHANGED <<world, cache, waits, stack>>
  BY DEF Found
<1>3. p \in Places /\ p.pc = "checkOwner" /\ p.want = th[t].want /\ p.at = th[t].want
  BY <1>1 DEF Places, Points
<1> HIDE DEF p, Places
<1> QED
  BY <1>1, <1>2, <1>3 DEF OthersStay

LEMMA CheckOwnerDoes ==
    ASSUME Typed, NEW t \in Threads, CheckOwner(t)
    PROVE  /\ th' \in [Threads -> Places] /\ OthersStay(t) /\ th[t].pc = "checkOwner"
           /\ th'[t].want = th[t].want
           /\ \/ th'[t].pc \in {"wait", "failing"}
              \/ th'[t].pc = "checkWaits" /\ th'[t].holder # {}
           /\ UNCHANGED <<world, cache, waits, stack>>
<1> DEFINE o == cache[th[t].at].owner
           pc == IF o = {} THEN "wait" ELSE IF o = {Me(t)} THEN "failing" ELSE "checkWaits"
           p == [th[t] EXCEPT !.pc = pc, !.holder = o]
<1>1. th \in [Threads -> Places] /\ th[t] \in Places
  BY DEF Typed, TypedThreads
<1>2. /\ th' = [th EXCEPT ![t] = p] /\ th[t].pc = "checkOwner"
      /\ UNCHANGED <<world, cache, waits, stack>>
  BY DEF CheckOwner
<1>3. th[t].at \in DOMAIN cache
  BY <1>2 DEF Typed, Known
<1>4. cache[th[t].at] \in Entries
  <2> HIDE DEF Entries
  <2> QED
    BY <1>3 DEF Typed, TypedCache
<1>5. o \in Owners
  BY <1>4 DEF Entries
<1>6. /\ pc \in Points
      /\ \/ pc \in {"wait", "failing"}
         \/ pc = "checkWaits" /\ o # {}
  BY DEF Points
<1> HIDE DEF o, pc
<1>7. p \in Places /\ p.pc = pc /\ p.want = th[t].want /\ p.holder = o
  BY <1>1, <1>5, <1>6 DEF Places
<1> HIDE DEF p, Places
<1> QED
  BY <1>1, <1>2, <1>6, <1>7 DEF OthersStay

LEMMA CheckWaitsDoes ==
    ASSUME Typed, NEW t \in Threads, CheckWaits(t)
    PROVE  /\ th' \in [Threads -> Places] /\ OthersStay(t) /\ th[t].pc = "checkWaits"
           /\ th'[t].want = th[t].want
           /\ \/ th'[t].pc = "wait"
              \/ th'[t].pc = "checkOwner" /\ th'[t].at \in DOMAIN cache
           /\ UNCHANGED <<world, cache, waits, stack>>
<1> DEFINE cc == CHOOSE c \in th[t].holder : TRUE
           e == IF Me(cc[1]) = cc THEN waits[cc[1]] ELSE {}
           pc == IF e = {} THEN "wait" ELSE "checkOwner"
           at == IF e = {} THEN th[t].at ELSE CHOOSE k \in e : TRUE
           p == [th[t] EXCEPT !.pc = pc, !.at = at]
<1>1. th \in [Threads -> Places] /\ th[t] \in Places
  BY DEF Typed, TypedThreads
<1>2. /\ th[t].pc = "checkWaits" /\ th[t].holder # {}
      /\ UNCHANGED <<world, cache, waits, stack>>
  BY DEF CheckWaits, Typed, Known
<1>3. th' = [th EXCEPT ![t] = p]
  BY DEF CheckWaits
<1>4. cc \in Checkers
  BY <1>1, <1>2 DEF Places, Owners
<1>5. e \subseteq DOMAIN cache
  <2>1. cc[1] \in Threads
    BY <1>4 DEF Checkers
  <2> QED
    BY <2>1 DEF Typed, TypedCache
<1>6. pc \in Points /\ pc \in {"wait", "checkOwner"} /\ at \in Wanted
      /\ (pc = "checkOwner" => at \in DOMAIN cache)
  BY <1>1, <1>5 DEF Points, Typed, TypedCache, Places, Wanted
<1> HIDE DEF cc, e, pc, at
<1>7. p \in Places /\ p.pc = pc /\ p.want = th[t].want /\ p.at = at
  BY <1>1, <1>6 DEF Places
<1> HIDE DEF p, Places
<1> QED
  BY <1>1, <1>2, <1>3, <1>6, <1>7 DEF OthersStay

LEMMA WaitDoes ==
    ASSUME Typed, NEW t \in Threads, Wait(t)
    PROVE  /\ th' \in [Threads -> Places] /\ OthersStay(t) /\ th[t].pc = "wait"
           /\ th'[t].pc = "waiting" /\ th'[t].want = th[t].want /\ th[t].want \in DOMAIN cache
           /\ waits' \in [Threads -> SUBSET DOMAIN cache]
           /\ UNCHANGED <<world, cache, stack>>
<1>1. TypedThreads /\ "waiting" \in Points
  BY DEF Typed, Points
<1>2. /\ th[t].pc = "wait" /\ Goto(t, "waiting") /\ waits' = [waits EXCEPT ![t] = {th[t].want}]
      /\ UNCHANGED <<world, cache, stack>>
  BY DEF Wait
<1>3. th[t].want \in DOMAIN cache /\ waits \in [Threads -> SUBSET DOMAIN cache]
  BY <1>2 DEF Typed, TypedCache, Known
<1>4. waits' \in [Threads -> SUBSET DOMAIN cache]
  BY <1>2, <1>3
<1> QED
  BY <1>1, <1>2, <1>3, <1>4, GotoFacts DEF OthersStay

LEMMA WakeDoes ==
    ASSUME Typed, NEW t \in Threads, Wake(t)
    PROVE  /\ th' \in [Threads -> Places] /\ \A o \in Threads \ {t} : th'[o] = th[o]
           /\ th[t].pc = "waiting" /\ th[t].want \in DOMAIN cache /\ cache[th[t].want].ready
           /\ \/ th'[t].pc = "failing" /\ UNCHANGED stack
              \/ th'[t].pc = "run" /\ cache[th[t].want].result = "ok" /\ Advance(t)
           /\ waits' \in [Threads -> SUBSET DOMAIN cache]
           /\ UNCHANGED <<world, cache>>
<1>1. TypedThreads /\ {"run", "failing"} \subseteq Points
  BY DEF Typed, Points
<1>2. /\ th[t].pc = "waiting" /\ cache[th[t].want].ready /\ waits' = [waits EXCEPT ![t] = {}]
      /\ UNCHANGED <<world, cache>>
      /\ \/ Goto(t, "failing") /\ UNCHANGED stack
         \/ Goto(t, "run") /\ cache[th[t].want].result = "ok" /\ Advance(t)
  BY DEF Wake
<1>3. th[t].want \in DOMAIN cache /\ waits \in [Threads -> SUBSET DOMAIN cache]
  BY <1>2 DEF Typed, TypedCache, Known
<1>4. waits' \in [Threads -> SUBSET DOMAIN cache]
  BY <1>2, <1>3
<1>5. ASSUME NEW pc \in {"run", "failing"}, Goto(t, pc)
      PROVE  th' \in [Threads -> Places] /\ th'[t].pc = pc /\ \A o \in Threads \ {t} : th'[o] = th[o]
  BY <1>1, <1>5, GotoFacts
<1> HIDE DEF Places
<1> QED
  BY <1>2, <1>3, <1>4, <1>5

\* An entry of the cache that is replaced by another.
LEMMA EntryFacts ==
    ASSUME TypedCache, NEW k \in DOMAIN cache, NEW e \in Entries, cache' = [cache EXCEPT ![k] = e]
    PROVE  /\ DOMAIN cache' = DOMAIN cache /\ cache' \in [DOMAIN cache' -> Entries]
           /\ cache'[k] = e /\ \A o \in DOMAIN cache : o # k => cache'[o] = cache[o]
<1> HIDE DEF Entries
<1> QED
  BY DEF TypedCache

\* A module gets its entry, and its script is the topmost one.
LEMMA FirstDoes ==
    ASSUME Typed, NEW t \in Threads, First(t)
    PROVE  /\ th' \in [Threads -> Places] /\ OthersStay(t)
           /\ th[t].pc = "get" /\ th'[t].pc = "own" /\ th[t].want \in URLs \ DOMAIN cache
           /\ stack' \in [Threads -> Seq(Frames)] /\ \A o \in Threads : Len(stack'[o]) >= 1
           /\ Len(stack'[t]) = Len(stack[t]) + 1
           /\ \A i \in 1 .. Len(stack[t]) : stack'[t][i] = stack[t][i]
           /\ stack'[t][Len(stack[t]) + 1].url = th[t].want
           /\ DOMAIN cache' = DOMAIN cache \cup {th[t].want}
           /\ cache' \in [DOMAIN cache' -> Entries]
           /\ \A k \in DOMAIN cache : cache'[k] = cache[k]
           /\ ~cache'[th[t].want].ready
           /\ UNCHANGED <<world, waits>>
<1> DEFINE u == th[t].want
           f == Frame(u, <<>>)
           e == [owner |-> {}, ready |-> FALSE, result |-> "none"]
           s == Append(stack[t], f)
<1>1. TypedThreads /\ TypedCache
  BY DEF Typed
<1>2. /\ th[t].pc = "get" /\ u \notin DOMAIN cache /\ Goto(t, "own")
      /\ cache' = [k \in DOMAIN cache \cup {u} |-> IF k \in DOMAIN cache THEN cache[k] ELSE e]
      /\ stack' = [stack EXCEPT ![t] = s]
      /\ UNCHANGED <<world, waits>>
  BY DEF First
<1>3. u \in URLs
  BY <1>2 DEF Typed, Known
<1>4. f \in Frames /\ f.url = u
  <2>1. <<>> \in Seq(ScriptItems)
    BY EmptySeq
  <2> QED
    BY <1>3, <2>1 DEF Frames, Frame
<1>5. e \in Entries /\ ~e.ready
  BY DEF Entries, Owners, Outcomes
<1>6. stack[t] \in Seq(Frames) /\ Len(stack[t]) \in Nat \ {0}
  BY <1>1, TopFacts
<1> HIDE DEF f, e, Frames, Entries
<1>7. /\ s \in Seq(Frames) /\ Len(s) = Len(stack[t]) + 1
      /\ \A i \in 1 .. Len(stack[t]) : s[i] = stack[t][i]
      /\ s[Len(stack[t]) + 1] = f
  BY <1>4, <1>6, PushFacts
<1>8. Len(s) >= 1
  BY <1>6, <1>7
<1> HIDE DEF s
<1>9. /\ stack' \in [Threads -> Seq(Frames)] /\ \A o \in Threads : Len(stack'[o]) >= 1
      /\ stack'[t] = s /\ \A o \in Threads \ {t} : stack'[o] = stack[o]
  BY <1>1, <1>2, <1>7, <1>8, StackFacts
<1>10. /\ DOMAIN cache' = DOMAIN cache \cup {u} /\ cache' \in [DOMAIN cache' -> Entries]
       /\ \A k \in DOMAIN cache : cache'[k] = cache[k]
       /\ ~cache'[u].ready
  BY <1>1, <1>2, <1>5 DEF TypedCache
<1>11. th' \in [Threads -> Places] /\ th'[t].pc = "own" /\ \A o \in Threads \ {t} : th'[o] = th[o]
  <2>1. "own" \in Points
    BY DEF Points
  <2> QED
    BY <1>1, <1>2, <2>1, GotoFacts
<1> QED
  BY <1>2, <1>3, <1>4, <1>7, <1>9, <1>10, <1>11 DEF OthersStay

LEMMA OwnDoes ==
    ASSUME Typed, NEW t \in Threads, Own(t), Top(t).url \in DOMAIN cache
    PROVE  /\ th' \in [Threads -> Places] /\ OthersStay(t)
           /\ th[t].pc = "own" /\ th'[t].pc = "open"
           /\ DOMAIN cache' = DOMAIN cache /\ cache' \in [DOMAIN cache' -> Entries]
           /\ \A k \in DOMAIN cache : /\ cache'[k].ready = cache[k].ready
                                      /\ cache'[k].result = cache[k].result
           /\ UNCHANGED <<world, waits, stack>>
<1> DEFINE k == Top(t).url
           e == [cache[k] EXCEPT !.owner = {Me(t)}]
<1>1. TypedThreads /\ TypedCache /\ "open" \in Points
  BY DEF Typed, Points
<1>2. /\ th[t].pc = "own" /\ Goto(t, "open") /\ cache' = [cache EXCEPT ![k] = e]
      /\ UNCHANGED <<world, waits, stack>>
  BY DEF Own
<1>3. th' \in [Threads -> Places] /\ th'[t].pc = "open" /\ \A o \in Threads \ {t} : th'[o] = th[o]
  BY <1>1, <1>2, GotoFacts
<1>4. Me(t) \in Checkers
  <2>1. th[t].loads \in Nat
    BY <1>1 DEF TypedThreads, Places
  <2> QED
    BY <2>1 DEF Me, Checkers
<1>5. cache[k] \in Entries
  <2> HIDE DEF Entries, k
  <2>1. k \in DOMAIN cache
    BY DEF k
  <2> QED
    BY <1>1, <2>1 DEF TypedCache
<1>6. e \in Entries /\ e.ready = cache[k].ready /\ e.result = cache[k].result
  BY <1>4, <1>5 DEF Entries, Owners
<1> HIDE DEF e, Entries
<1>7. /\ DOMAIN cache' = DOMAIN cache /\ cache' \in [DOMAIN cache' -> Entries]
      /\ cache'[k] = e /\ \A o \in DOMAIN cache : o # k => cache'[o] = cache[o]
  BY <1>1, <1>2, <1>6, EntryFacts
<1> QED
  BY <1>2, <1>3, <1>6, <1>7 DEF OthersStay

\* The script that is found is one of the world's.
LEMMA OpenDoes ==
    ASSUME Typed, NEW t \in Threads, Open(t)
    PROVE  /\ th' \in [Threads -> Places] /\ \A o \in Threads \ {t} : th'[o] = th[o]
           /\ th[t].pc = "open"
           /\ \/ th'[t].pc \in {"panicked", "failing"} /\ UNCHANGED stack
              \/ /\ th'[t].pc = "run"
                 /\ LET l == ModOpen(Locations, Top(t).url)
                    IN  /\ ~Stops(l) /\ world.files[l] \in Seq(ScriptItems)
                        /\ stack' = [stack EXCEPT ![t][Len(stack[t])].todo = world.files[l]]
           /\ UNCHANGED <<world, cache, waits>>
<1> DEFINE l == ModOpen(Locations, Top(t).url)
<1>1. TypedThreads /\ world \in Worlds
  BY DEF Typed
<1>2. /\ th[t].pc = "open" /\ UNCHANGED <<world, cache, waits>>
      /\ \/ \E pc \in {"panicked", "failing"} : Goto(t, pc) /\ UNCHANGED stack
         \/ /\ ~Stops(l) /\ Goto(t, "run")
            /\ stack' = [stack EXCEPT ![t][Len(stack[t])].todo = world.files[l]]
  BY DEF Open, Lose
<1>3. ~Stops(l) => l \in Locations
  BY DEF ModOpen, Stops
<1>4. ~Stops(l) => world.files[l] \in Seq(ScriptItems)
  BY <1>1, <1>3, WorldFacts
<1>5. ASSUME NEW pc \in {"run", "panicked", "failing"}, Goto(t, pc)
      PROVE  th' \in [Threads -> Places] /\ th'[t].pc = pc /\ \A o \in Threads \ {t} : th'[o] = th[o]
  BY <1>1, <1>5, GotoFacts DEF Points
<1> HIDE DEF l, Places
<1> QED
  BY <1>2, <1>4, <1>5 DEF l

LEMMA ResultDoes ==
    ASSUME Typed, NEW t \in Threads, Result(t), Top(t).url \in DOMAIN cache
    PROVE  /\ th' \in [Threads -> Places] /\ OthersStay(t)
           /\ Len(stack[t]) > 1 /\ th'[t].pc = "close"
           /\ DOMAIN cache' = DOMAIN cache /\ cache' \in [DOMAIN cache' -> Entries]
           /\ \A k \in DOMAIN cache : /\ cache'[k].ready = cache[k].ready
                                      /\ k # Top(t).url => cache'[k] = cache[k]
           /\ \/ cache'[Top(t).url].result = "ok" /\ th[t].pc = "run" /\ Items(t) = <<>>
              \/ cache'[Top(t).url].result = "failed"
           /\ UNCHANGED <<world, waits, stack>>
<1> DEFINE k == Top(t).url
<1>1. TypedThreads /\ TypedCache /\ "close" \in Points
  BY DEF Typed, Points
<1>2. PICK r \in {"ok", "failed"} :
         /\ Len(stack[t]) > 1 /\ Goto(t, "close")
         /\ cache' = [cache EXCEPT ![k] = [[cache[k] EXCEPT !.result = r] EXCEPT !.owner = {}]]
         /\ r = "ok" => th[t].pc = "run" /\ Items(t) = <<>>
         /\ UNCHANGED <<world, waits, stack>>
  <2>1. [cache EXCEPT ![k].result = "ok", ![k].owner = {}] =
        [cache EXCEPT ![k] = [[cache[k] EXCEPT !.result = "ok"] EXCEPT !.owner = {}]]
    OBVIOUS
  <2>2. [cache EXCEPT ![k].result = "failed", ![k].owner = {}] =
        [cache EXCEPT ![k] = [[cache[k] EXCEPT !.result = "failed"] EXCEPT !.owner = {}]]
    OBVIOUS
  <2> QED
    BY <2>1, <2>2 DEF Result
<1> DEFINE e == [[cache[k] EXCEPT !.result = r] EXCEPT !.owner = {}]
<1>3. th' \in [Threads -> Places] /\ th'[t].pc = "close" /\ \A o \in Threads \ {t} : th'[o] = th[o]
  BY <1>1, <1>2, GotoFacts
<1>4. cache[k] \in Entries
  <2> HIDE DEF Entries, k
  <2>1. k \in DOMAIN cache
    BY DEF k
  <2> QED
    BY <1>1, <2>1 DEF TypedCache
<1>5. e \in Entries /\ e.ready = cache[k].ready /\ e.result = r
  BY <1>4 DEF Entries, Owners, Outcomes
<1>6. cache' = [cache EXCEPT ![k] = e]
  BY <1>2
<1> HIDE DEF e, Entries
<1>7. /\ DOMAIN cache' = DOMAIN cache /\ cache' \in [DOMAIN cache' -> Entries]
      /\ cache'[k] = e /\ \A o \in DOMAIN cache : o # k => cache'[o] = cache[o]
  BY <1>1, <1>5, <1>6, EntryFacts
<1> QED
  BY <1>2, <1>3, <1>5, <1>7 DEF OthersStay

\* The script that asked is the topmost one again.
LEMMA CloseDoes ==
    ASSUME Typed, NEW t \in Threads, Close(t), Top(t).url \in DOMAIN cache,
           stack[t][Len(stack[t]) - 1].todo # <<>>
    PROVE  /\ th' \in [Threads -> Places] /\ OthersStay(t)
           /\ th[t].pc = "close" /\ Len(stack[t]) > 1
           /\ stack' \in [Threads -> Seq(Frames)] /\ \A o \in Threads : Len(stack'[o]) >= 1
           /\ Len(stack'[t]) = Len(stack[t]) - 1
           /\ \A i \in 1 .. Len(stack[t]) - 2 : stack'[t][i] = stack[t][i]
           /\ stack'[t][Len(stack[t]) - 1].url = stack[t][Len(stack[t]) - 1].url
           /\ \/ /\ cache[Top(t).url].result = "ok" /\ th'[t].pc = "run"
                 /\ stack'[t][Len(stack[t]) - 1].todo = Tail(stack[t][Len(stack[t]) - 1].todo)
              \/ cache[Top(t).url].result # "ok" /\ th'[t].pc = "failing"
           /\ DOMAIN cache' = DOMAIN cache /\ cache' \in [DOMAIN cache' -> Entries]
           /\ \A k \in DOMAIN cache : /\ cache'[k].result = cache[k].result
                                      /\ k # Top(t).url => cache'[k] = cache[k]
           /\ cache' = [cache EXCEPT ![Top(t).url].ready = TRUE] /\ cache'[Top(t).url].ready
           /\ UNCHANGED <<world, waits>>
<1> DEFINE k == Top(t).url
           below == Len(stack[t]) - 1
           e == [cache[k] EXCEPT !.ready = TRUE]
           s == SubSeq(stack[t], 1, below)
           a == [s EXCEPT ![below].todo = Tail(s[below].todo)]
<1>1. TypedThreads /\ TypedCache /\ {"run", "failing"} \subseteq Points
  BY DEF Typed, Points
<1>2. /\ th[t].pc = "close" /\ cache' = [cache EXCEPT ![k] = e] /\ UNCHANGED <<world, waits>>
      /\ \/ cache[k].result = "ok" /\ Goto(t, "run") /\ stack' = [stack EXCEPT ![t] = a]
         \/ cache[k].result # "ok" /\ Goto(t, "failing") /\ stack' = [stack EXCEPT ![t] = s]
  <2>1. [stack EXCEPT ![t] = [s EXCEPT ![below].todo = Tail(@)]] = [stack EXCEPT ![t] = a]
    OBVIOUS
  <2>2. [cache EXCEPT ![k].ready = TRUE] = [cache EXCEPT ![k] = e]
    OBVIOUS
  <2>3. CASE cache[k].result = "ok"
    BY <2>1, <2>2, <2>3, Zenon DEF Close
  <2>4. CASE cache[k].result # "ok"
    BY <2>2, <2>4, Zenon DEF Close
  <2> QED
    BY <2>3, <2>4
<1>3. /\ stack[t] \in Seq(Frames) /\ below \in 1 .. below /\ below + 1 = Len(stack[t])
      /\ stack[t][below].todo \in Seq(ScriptItems)
  <2>1. Len(stack[t]) > 1
    BY <1>2 DEF Typed, Known
  <2> QED
    BY <1>1, <2>1, TopFacts
<1>4. s \in Seq(Frames) /\ Len(s) = below /\ \A i \in 1 .. below : s[i] = stack[t][i]
  BY <1>3, PopFacts
<1>5. /\ a \in Seq(Frames) /\ Len(a) = below /\ \A i \in 1 .. below : i # below => a[i] = s[i]
      /\ a[below].url = s[below].url /\ a[below].todo = Tail(s[below].todo)
  <2>1. s[below] = stack[t][below]
    BY <1>3, <1>4
  <2>2. Tail(s[below].todo) \in Seq(ScriptItems)
    BY <1>3, <2>1, HeadTailProperties
  <2> DEFINE todo == Tail(s[below].todo)
  <2>3. todo \in Seq(ScriptItems) /\ below \in 1 .. Len(s) /\ Len(s) = below /\ s \in Seq(Frames)
    BY <1>3, <1>4, <2>2
  <2>4. a = [s EXCEPT ![below].todo = todo]
    OBVIOUS
  <2> HIDE DEF todo, s, below, a, Frames
  <2>5. /\ [s EXCEPT ![below].todo = todo] \in Seq(Frames)
        /\ Len([s EXCEPT ![below].todo = todo]) = Len(s)
        /\ \A i \in 1 .. Len(s) : i # below => [s EXCEPT ![below].todo = todo][i] = s[i]
        /\ [s EXCEPT ![below].todo = todo][below].url = s[below].url
        /\ [s EXCEPT ![below].todo = todo][below].todo = todo
    BY <2>3, TodoFacts
  <2> QED
    BY <2>3, <2>4, <2>5 DEF todo
<1>6. cache[k] \in Entries
  <2> HIDE DEF Entries, k
  <2>1. k \in DOMAIN cache
    BY DEF k
  <2> QED
    BY <1>1, <2>1 DEF TypedCache
<1>7. e \in Entries /\ e.ready /\ e.result = cache[k].result
  BY <1>6 DEF Entries
<1> HIDE DEF e, a, s, Entries, Frames
<1>8. /\ DOMAIN cache' = DOMAIN cache /\ cache' \in [DOMAIN cache' -> Entries]
      /\ cache'[k] = e /\ \A o \in DOMAIN cache : o # k => cache'[o] = cache[o]
  BY <1>1, <1>2, <1>7, EntryFacts
<1>9. ASSUME NEW pc \in {"run", "failing"}, Goto(t, pc)
      PROVE  th' \in [Threads -> Places] /\ th'[t].pc = pc /\ \A o \in Threads \ {t} : th'[o] = th[o]
  BY <1>1, <1>9, GotoFacts
<1>10. ASSUME NEW q \in Seq(Frames), Len(q) = below, stack' = [stack EXCEPT ![t] = q]
       PROVE  /\ stack' \in [Threads -> Seq(Frames)] /\ \A o \in Threads : Len(stack'[o]) >= 1
              /\ stack'[t] = q /\ \A o \in Threads \ {t} : stack'[o] = stack[o]
  <2>1. Len(q) >= 1
    BY <1>3, <1>10
  <2> QED
    BY <1>1, <1>10, <2>1, StackFacts
<1>11. /\ th[t].pc = "close" /\ cache' = [cache EXCEPT ![k].ready = TRUE] /\ UNCHANGED <<world, waits>>
       /\ cache'[k].ready /\ \A o \in DOMAIN cache : cache'[o].result = cache[o].result
  BY <1>2, <1>7, <1>8 DEF e
<1> HIDE DEF Places
<1>12. CASE cache[k].result = "ok" /\ Goto(t, "run") /\ stack' = [stack EXCEPT ![t] = a]
  <2>1. th' \in [Threads -> Places] /\ th'[t].pc = "run" /\ \A o \in Threads \ {t} : th'[o] = th[o]
    BY <1>9, <1>12
  <2>2. /\ stack' \in [Threads -> Seq(Frames)] /\ \A o \in Threads : Len(stack'[o]) >= 1
        /\ stack'[t] = a /\ \A o \in Threads \ {t} : stack'[o] = stack[o]
    BY <1>5, <1>10, <1>12
  <2>3. /\ Len(stack[t]) > 1 /\ Len(a) = Len(stack[t]) - 1
        /\ \A i \in 1 .. Len(stack[t]) - 2 : a[i] = stack[t][i]
        /\ a[below].url = stack[t][below].url /\ a[below].todo = Tail(stack[t][below].todo)
    <3>1. Len(stack[t]) - 2 = below - 1 /\ Len(stack[t]) - 1 = below /\ below \in Nat /\ below >= 1
      BY <1>3, TopFacts, <1>1
    <3>2. s[below] = stack[t][below]
      BY <1>3, <1>4
    <3> HIDE DEF below
    <3>3. \A i \in 1 .. below - 1 : i \in 1 .. below /\ i # below
      BY <3>1
    <3> QED
      BY <1>4, <1>5, <3>1, <3>2, <3>3
  <2>4. OthersStay(t)
    BY <2>1, <2>2 DEF OthersStay
  <2> HIDE DEF below
  <2> QED
    BY <1>8, <1>11, <1>12, <2>1, <2>2, <2>3, <2>4 DEF below
<1>13. CASE cache[k].result # "ok" /\ Goto(t, "failing") /\ stack' = [stack EXCEPT ![t] = s]
  <2>1. th' \in [Threads -> Places] /\ th'[t].pc = "failing" /\ \A o \in Threads \ {t} : th'[o] = th[o]
    BY <1>9, <1>13
  <2>2. /\ stack' \in [Threads -> Seq(Frames)] /\ \A o \in Threads : Len(stack'[o]) >= 1
        /\ stack'[t] = s /\ \A o \in Threads \ {t} : stack'[o] = stack[o]
    BY <1>4, <1>10, <1>13
  <2> QED
    BY <1>3, <1>4, <1>8, <1>11, <1>13, <2>1, <2>2 DEF OthersStay
<1> QED
  BY <1>2, <1>12, <1>13

-----------------------------------------------------------------------------
(* The invariant.                                                          *)

\* The module is loaded, and is fine.
Good(n) == n \in DOMAIN cache /\ cache[n].ready /\ cache[n].result = "ok"

\* What a script that runs has yet to load.
ToLoad(f) ==
    {resolveModuleName(f.url, f.todo[j].name) : j \in {i \in DOMAIN f.todo : f.todo[i].op = "load"}}

\* A thread in the middle of a load; a script that has not failed.
Asks == {"get", "checkOwner", "checkWaits", "wait", "waiting"}
Running == {"run"} \cup Asks

\* Every module on the stack has its entry, which nobody is told about yet.
Loading(t) ==
    \A i \in 2 .. Len(stack[t]) :
        stack[t][i].url \in DOMAIN cache /\ ~cache[stack[t][i].url].ready

\* No module is loaded twice, by two threads or by one.
Apart ==
    \A t, o \in Threads : \A i \in 2 .. Len(stack[t]), j \in 2 .. Len(stack[o]) :
        stack[t][i].url = stack[o][j].url => t = o /\ i = j

Decided(t) ==
    th[t].pc = "close" =>
        /\ cache[Top(t).url].result \in {"ok", "failed"}
        /\ cache[Top(t).url].result = "ok" => Items(t) = <<>>

\* A script that loads a module is at that load until the module is there.
Asking(t) ==
    th[t].pc \in Asks =>
        /\ Items(t) # <<>> /\ Head(Items(t)).op = "load"
        /\ th[t].want = resolveModuleName(Top(t).url, Head(Items(t)).name)

Asked(t) ==
    \A i \in 1 .. Len(stack[t]) - 1 :
        /\ stack[t][i].todo # <<>> /\ Head(stack[t][i].todo).op = "load"
        /\ stack[t][i + 1].url = resolveModuleName(stack[t][i].url, Head(stack[t][i].todo).name)

\* Script i of the stack may still end well.
Hopeful(t, i) ==
    \/ i < Len(stack[t]) \/ th[t].pc \in Running
    \/ th[t].pc = "close" /\ cache[Top(t).url].result = "ok"

\* All it needs is fine or still to be loaded.
Met(t, i) == \A n \in Needs(stack[t][i].url) : n \in ToLoad(stack[t][i]) \/ Good(n)

Progress(t) == \A i \in 2 .. Len(stack[t]) : Hopeful(t, i) => Met(t, i)

Stored == \A k \in DOMAIN cache : cache[k].ready => cache[k].result \in {"ok", "failed"}

ThreadOK(t) == Loading(t) /\ Decided(t) /\ Asking(t) /\ Asked(t) /\ Progress(t)

LoaderInv == Typed /\ Apart /\ Stored /\ \A t \in Threads : ThreadOK(t)

-----------------------------------------------------------------------------
(* What is left to load.                                                   *)

LEMMA TailToLoad ==
    ASSUME NEW u, NEW todo \in Seq(ScriptItems), todo # <<>>,
           NEW n \in ToLoad([url |-> u, todo |-> todo])
    PROVE  \/ n \in ToLoad([url |-> u, todo |-> Tail(todo)])
           \/ Head(todo).op = "load" /\ n = resolveModuleName(u, Head(todo).name)
<1>1. PICK j \in 1 .. Len(todo) : todo[j].op = "load" /\ n = resolveModuleName(u, todo[j].name)
  BY DEF ToLoad
<1>2. /\ Len(todo) \in Nat /\ Head(todo) = todo[1] /\ Tail(todo) \in Seq(ScriptItems)
      /\ Len(Tail(todo)) = Len(todo) - 1
      /\ \A i \in 1 .. Len(Tail(todo)) : Tail(todo)[i] = todo[i + 1]
  <2> HIDE DEF ScriptItems
  <2> QED
    BY HeadTailProperties, LenProperties
<1>3. CASE j = 1
  BY <1>1, <1>2, <1>3
<1>4. CASE j # 1
  <2>1. j - 1 \in 1 .. Len(Tail(todo)) /\ Tail(todo)[j - 1] = todo[j]
    BY <1>1, <1>2, <1>4
  <2>2. DOMAIN Tail(todo) = 1 .. Len(Tail(todo))
    BY <1>2, LenProperties
  <2> QED
    BY <1>1, <2>1, <2>2 DEF ToLoad
<1> QED
  BY <1>3, <1>4

LEMMA NothingToLoad ==
    ASSUME NEW u
    PROVE  ToLoad([url |-> u, todo |-> <<>>]) = {}
BY DEF ToLoad

\* A script that starts has yet to load all its module needs.
LEMMA AllToLoad ==
    ASSUME NEW u, ~Stops(ModOpen(Locations, u))
    PROVE  Needs(u) \subseteq ToLoad([url |-> u, todo |-> world.files[ModOpen(Locations, u)]])
BY DEF Needs, ToLoad, ItemsOf

-----------------------------------------------------------------------------
(* The invariant is kept.                                                  *)

\* What holds of a thread holds while it stays where it is, and the entries
\* of its modules stay as they are.
LEMMA OthersOK ==
    ASSUME TypedThreads, NEW o \in Threads, ThreadOK(o), stack'[o] = stack[o], th'[o] = th[o],
           world' = world, DOMAIN cache \subseteq DOMAIN cache',
           \A k : Good(k) => Good(k)',
           \A i \in 2 .. Len(stack[o]) :
               /\ cache'[stack[o][i].url].ready = cache[stack[o][i].url].ready
               /\ cache'[stack[o][i].url].result = cache[stack[o][i].url].result,
           th[o].pc = "close" => Len(stack[o]) > 1
    PROVE  ThreadOK(o)'
<1>1. \A u : Needs(u)' = Needs(u)
  BY DEF Needs, ItemsOf, Locations
<1>2. Top(o)' = Top(o) /\ Items(o)' = Items(o)
  BY DEF Top, Items
<1>3. th[o].pc = "close" => cache'[Top(o).url].result = cache[Top(o).url].result
  <2>1. Len(stack[o]) \in Nat
    BY TopFacts
  <2> QED
    BY <2>1 DEF Top
<1>4. Loading(o)'
  BY DEF ThreadOK, Loading
<1>5. Decided(o)'
  BY <1>2, <1>3 DEF ThreadOK, Decided
<1>6. Asking(o)'
  BY <1>2 DEF ThreadOK, Asking
<1>7. Asked(o)'
  BY DEF ThreadOK, Asked
<1>8. \A i \in 2 .. Len(stack[o]) : Hopeful(o, i)' => Hopeful(o, i)
  BY <1>2, <1>3 DEF Hopeful
<1>9. \A i \in 2 .. Len(stack[o]) : Met(o, i) => Met(o, i)'
  BY <1>1 DEF Met
<1>10. Progress(o)'
  BY <1>8, <1>9 DEF ThreadOK, Progress
<1> QED
  BY <1>4, <1>5, <1>6, <1>7, <1>10 DEF ThreadOK

\* A step that changes neither stacks nor entries.
LEMMA QuietOK ==
    ASSUME LoaderInv, NEW t \in Threads, UNCHANGED <<world, cache, stack>>,
           th' \in [Threads -> Places], OthersStay(t), waits' \in [Threads -> SUBSET DOMAIN cache],
           Known(t)', Asking(t)', th'[t].pc # "close", th'[t].pc \in Running => th[t].pc \in Running
    PROVE  LoaderInv'
<1>1. Typed /\ TypedThreads /\ TypedCache
  BY DEF LoaderInv, Typed
<1>2. \A o \in Threads \ {t} : Known(o)'
  <2> TAKE o \in Threads \ {t}
  <2> QED
    BY <1>1, OthersKnown DEF Typed, OthersStay
<1>3. Typed'
  <2>1. TypedThreads' /\ TypedCache'
    BY <1>1 DEF TypedThreads, TypedCache
  <2> QED
    BY <1>1, <1>2, <2>1 DEF Typed
<1>4. Apart' /\ Stored'
  <2>1. Apart /\ Stored
    BY DEF LoaderInv
  <2>2. Apart'
    BY <2>1 DEF Apart
  <2>3. Stored'
    BY <2>1 DEF Stored
  <2> QED
    BY <2>2, <2>3
<1>5. \A k : Good(k) => Good(k)'
  BY DEF Good
<1>6. ASSUME NEW o \in Threads \ {t}
      PROVE  ThreadOK(o)'
  <2>1. ThreadOK(o) /\ (th[o].pc = "close" => Len(stack[o]) > 1)
    BY DEF LoaderInv, Typed, Known
  <2>2. stack'[o] = stack[o] /\ th'[o] = th[o]
    BY DEF OthersStay
  <2> QED
    BY <1>1, <1>5, <2>1, <2>2, OthersOK
<1>7. ThreadOK(t)'
  <2>1. \A u : Needs(u)' = Needs(u)
    BY DEF Needs, ItemsOf, Locations
  <2>2. ThreadOK(t)
    BY DEF LoaderInv
  <2>3. Loading(t)' /\ Asked(t)'
    BY <2>2 DEF ThreadOK, Loading, Asked
  <2>4. Decided(t)'
    BY DEF Decided
  <2>5. \A i \in 2 .. Len(stack[t]) : Hopeful(t, i)' => Hopeful(t, i)
    BY DEF Hopeful
  <2>6. \A i \in 2 .. Len(stack[t]) : Met(t, i) => Met(t, i)'
    BY <1>5, <2>1 DEF Met
  <2>7. Progress(t)'
    BY <2>2, <2>5, <2>6 DEF ThreadOK, Progress
  <2> QED
    BY <2>3, <2>4, <2>7 DEF ThreadOK
<1> QED
  BY <1>3, <1>4, <1>6, <1>7 DEF LoaderInv

\* A step that only changes what the topmost script has yet to do.
LEMMA TodoOK ==
    ASSUME LoaderInv, NEW t \in Threads, NEW todo \in Seq(ScriptItems), UNCHANGED <<world, cache>>,
           stack' = [stack EXCEPT ![t][Len(stack[t])].todo = todo],
           th' \in [Threads -> Places], \A o \in Threads \ {t} : th'[o] = th[o],
           th'[t].pc = "run", waits' \in [Threads -> SUBSET DOMAIN cache],
           Len(stack[t]) > 1 =>
               \A n \in Needs(Top(t).url) : n \in ToLoad([url |-> Top(t).url, todo |-> todo]) \/ Good(n)
    PROVE  LoaderInv'
<1> DEFINE n == Len(stack[t])
<1>1. Typed /\ TypedThreads /\ TypedCache
  BY DEF LoaderInv, Typed
<1>2. /\ stack' \in [Threads -> Seq(Frames)] /\ \A o \in Threads : Len(stack'[o]) >= 1
      /\ \A o \in Threads \ {t} : stack'[o] = stack[o]
      /\ Len(stack'[t]) = n
      /\ \A i \in 1 .. n : i # n => stack'[t][i] = stack[t][i]
      /\ stack'[t][n].url = Top(t).url /\ stack'[t][n].todo = todo
  BY <1>1, TopTodoFacts
<1>3. n \in Nat \ {0} /\ Top(t) = stack[t][n]
  BY <1>1, TopFacts
<1>4. \A i \in 1 .. n : stack'[t][i].url = stack[t][i].url
  BY <1>2, <1>3
<1>5. \A o \in Threads \ {t} : Known(o)'
  <2> TAKE o \in Threads \ {t}
  <2> QED
    BY <1>1, <1>2, OthersKnown DEF Typed
<1>6. Typed'
  <2>1. Known(t)'
    BY DEF Known
  <2>2. TypedThreads' /\ TypedCache'
    BY <1>1, <1>2 DEF TypedThreads, TypedCache
  <2> QED
    BY <1>1, <1>5, <2>1, <2>2 DEF Typed
<1>7. Apart'
  <2>1. \A o \in Threads : /\ Len(stack'[o]) = Len(stack[o])
                           /\ \A i \in 2 .. Len(stack[o]) : stack'[o][i].url = stack[o][i].url
    <3> TAKE o \in Threads
    <3>1. CASE o = t
      BY <1>2, <1>3, <1>4, <3>1
    <3>2. CASE o # t
      BY <1>2, <3>2
    <3> QED
      BY <3>1, <3>2
  <2>2. Apart
    BY DEF LoaderInv
  <2> QED
    BY <2>1, <2>2, SMTT(30) DEF Apart
<1>8. Stored'
  BY DEF LoaderInv, Stored
<1>9. \A k : Good(k) => Good(k)'
  BY DEF Good
<1>10. ASSUME NEW o \in Threads \ {t}
       PROVE  ThreadOK(o)'
  <2>1. ThreadOK(o) /\ (th[o].pc = "close" => Len(stack[o]) > 1)
    BY DEF LoaderInv, Typed, Known
  <2>2. stack'[o] = stack[o]
    BY <1>2
  <2> QED
    BY <1>1, <1>9, <2>1, <2>2, OthersOK
<1>11. ThreadOK(t)'
  <2>1. \A u : Needs(u)' = Needs(u)
    BY DEF Needs, ItemsOf, Locations
  <2>2. ThreadOK(t)
    BY DEF LoaderInv
  <2>3. Loading(t)'
    BY <1>2, <1>3, <1>4, <2>2 DEF ThreadOK, Loading
  <2>4. Decided(t)' /\ Asking(t)'
    BY DEF Decided, Asking, Asks
  <2>5. Asked(t)'
    <3>1. \A i \in 1 .. n - 1 : /\ i \in 1 .. n /\ i # n /\ i + 1 \in 1 .. n
                                /\ stack'[t][i] = stack[t][i]
                                /\ stack'[t][i + 1].url = stack[t][i + 1].url
      BY <1>2, <1>3, <1>4
    <3> HIDE DEF n
    <3> QED
      BY <1>2, <2>2, <3>1 DEF ThreadOK, Asked, n
  <2>6. Progress(t)'
    <3> SUFFICES ASSUME NEW i \in 2 .. n
                 PROVE  Met(t, i)'
      BY <1>2 DEF Progress
    <3>1. CASE i = n
      <4>1. stack'[t][i].url = Top(t).url
        BY <1>2, <3>1
      <4>2. ToLoad(stack'[t][i]) = ToLoad([url |-> Top(t).url, todo |-> todo])
        BY <1>2, <3>1 DEF ToLoad
      <4>3. \A m \in Needs(Top(t).url) : m \in ToLoad([url |-> Top(t).url, todo |-> todo]) \/ Good(m)
        BY <1>3, <3>1
      <4> QED
        BY <1>9, <2>1, <4>1, <4>2, <4>3 DEF Met
    <3>2. CASE i # n
      <4>1. stack'[t][i] = stack[t][i] /\ i < Len(stack[t])
        BY <1>2, <1>3, <3>2
      <4>2. Met(t, i)
        BY <1>3, <2>2, <4>1 DEF ThreadOK, Progress, Hopeful
      <4> QED
        BY <1>9, <2>1, <4>1, <4>2 DEF Met
    <3> QED
      BY <3>1, <3>2
  <2> QED
    BY <2>3, <2>4, <2>5, <2>6 DEF ThreadOK
<1> QED
  BY <1>6, <1>7, <1>8, <1>10, <1>11 DEF LoaderInv

\* A script goes on after a load that went well, or another file.
LEMMA AdvanceOK ==
    ASSUME LoaderInv, NEW t \in Threads, UNCHANGED <<world, cache>>, Items(t) # <<>>, Advance(t),
           th' \in [Threads -> Places], \A o \in Threads \ {t} : th'[o] = th[o],
           th[t].pc \in Running, th'[t].pc = "run", waits' \in [Threads -> SUBSET DOMAIN cache],
           \/ Head(Items(t)).op # "load"
           \/ Good(resolveModuleName(Top(t).url, Head(Items(t)).name))
    PROVE  LoaderInv'
<1> DEFINE todo == Tail(Items(t))
           u == Top(t).url
<1>1. TypedThreads
  BY DEF LoaderInv, Typed
<1>2. /\ stack' = [stack EXCEPT ![t][Len(stack[t])].todo = todo]
      /\ todo \in Seq(ScriptItems) /\ Items(t) \in Seq(ScriptItems)
  BY <1>1, TopFacts DEF Advance, Items, Top
<1>3. ASSUME Len(stack[t]) > 1, NEW m \in Needs(u)
      PROVE  m \in ToLoad([url |-> u, todo |-> todo]) \/ Good(m)
  <2>1. Len(stack[t]) \in 2 .. Len(stack[t]) /\ Top(t) = stack[t][Len(stack[t])] /\ Top(t) \in Frames
    BY <1>1, <1>3, TopFacts
  <2>2. Met(t, Len(stack[t]))
    BY <2>1 DEF LoaderInv, ThreadOK, Progress, Hopeful
  <2>3. m \in ToLoad(Top(t)) \/ Good(m)
    BY <1>3, <2>1, <2>2 DEF Met
  <2>4. Top(t) = [url |-> u, todo |-> Items(t)]
    BY <2>1 DEF Frames, Items
  <2>5. CASE m \in ToLoad(Top(t))
    <3> DEFINE is == Items(t)
    <3>1. m \in ToLoad([url |-> u, todo |-> is]) /\ is \in Seq(ScriptItems) /\ is # <<>>
      BY <1>2, <2>4, <2>5
    <3> HIDE DEF is, u
    <3>2. \/ m \in ToLoad([url |-> u, todo |-> Tail(is)])
          \/ Head(is).op = "load" /\ m = resolveModuleName(u, Head(is).name)
      BY <3>1, TailToLoad
    <3> QED
      BY <3>2 DEF is, u
  <2> QED
    BY <2>3, <2>5
<1> HIDE DEF todo
<1> QED
  BY <1>2, <1>3, TodoOK

\* What a script has yet to do is at least a load, where it asks for one.
LEMMA LoadOK ==
    ASSUME LoaderInv, NEW t \in Threads, Load(t)
    PROVE  LoaderInv'
<1>1. Typed /\ waits \in [Threads -> SUBSET DOMAIN cache]
  BY DEF LoaderInv, Typed, TypedCache
<1>2. Known(t)' /\ Asking(t)' /\ th'[t].pc # "close" /\ th[t].pc \in Running /\ UNCHANGED waits
  BY <1>1, LoadDoes DEF Known, Asking, Asks, Running, Items, Top
<1> QED
  BY <1>1, <1>2, LoadDoes, QuietOK

LEMMA LoadFileOK ==
    ASSUME LoaderInv, NEW t \in Threads, LoadFile(t)
    PROVE  LoaderInv'
<1>1. Typed /\ waits \in [Threads -> SUBSET DOMAIN cache]
  BY DEF LoaderInv, Typed, TypedCache
<1>2. /\ th[t].pc = "run" /\ Items(t) # <<>> /\ Head(Items(t)).op # "load"
      /\ th' \in [Threads -> Places] /\ \A o \in Threads \ {t} : th'[o] = th[o]
      /\ UNCHANGED <<world, cache, waits>>
  BY <1>1, LoadFileDoes
<1>3. CASE th'[t].pc \in {"panicked", "failing"} /\ UNCHANGED stack
  <2>1. Known(t)' /\ Asking(t)' /\ th'[t].pc # "close" /\ th'[t].pc \notin Running
    BY <1>3 DEF Known, Asking, Asks, Running
  <2> QED
    BY <1>1, <1>2, <1>3, <2>1, QuietOK DEF OthersStay
<1>4. CASE th' = th /\ Advance(t)
  <2>1. th[t].pc \in Running /\ th'[t].pc = "run"
    BY <1>2, <1>4 DEF Running
  <2> QED
    BY <1>1, <1>2, <1>4, <2>1, AdvanceOK
<1> QED
  BY <1>1, <1>3, <1>4, LoadFileDoes

LEMMA EndOK ==
    ASSUME LoaderInv, NEW t \in Threads, End(t)
    PROVE  LoaderInv'
<1>1. Typed /\ waits \in [Threads -> SUBSET DOMAIN cache]
  BY DEF LoaderInv, Typed, TypedCache
<1>2. Known(t)' /\ Asking(t)' /\ th'[t].pc # "close" /\ th'[t].pc \notin Running /\ UNCHANGED waits
  BY <1>1, EndDoes DEF Known, Asking, Asks, Running
<1> QED
  BY <1>1, <1>2, EndDoes, QuietOK

\* A thread that looks around the cache still wants the same module.
LEMMA AskOK ==
    ASSUME LoaderInv, NEW t \in Threads, UNCHANGED <<world, cache, stack>>,
           th' \in [Threads -> Places], OthersStay(t), waits' \in [Threads -> SUBSET DOMAIN cache],
           Known(t)', th[t].pc \in Asks, th'[t].pc \in Asks, th'[t].want = th[t].want
    PROVE  LoaderInv'
<1>1. Asking(t)
  BY DEF LoaderInv, ThreadOK
<1>2. Asking(t)' /\ th'[t].pc # "close" /\ th[t].pc \in Running
  BY <1>1 DEF Asking, Asks, Running, Items, Top
<1> QED
  BY <1>2, QuietOK

LEMMA FoundOK ==
    ASSUME LoaderInv, NEW t \in Threads, Found(t)
    PROVE  LoaderInv'
<1>1. Typed /\ waits \in [Threads -> SUBSET DOMAIN cache]
  BY DEF LoaderInv, Typed, TypedCache
<1>2. Known(t)' /\ th[t].pc \in Asks /\ th'[t].pc \in Asks /\ UNCHANGED waits
  BY <1>1, FoundDoes DEF Known, Asks
<1> QED
  BY <1>1, <1>2, FoundDoes, AskOK

LEMMA CheckOwnerOK ==
    ASSUME LoaderInv, NEW t \in Threads, CheckOwner(t)
    PROVE  LoaderInv'
<1>1. Typed /\ waits \in [Threads -> SUBSET DOMAIN cache]
  BY DEF LoaderInv, Typed, TypedCache
<1>2. /\ th' \in [Threads -> Places] /\ OthersStay(t) /\ th'[t].want = th[t].want
      /\ UNCHANGED <<world, cache, waits, stack>>
      /\ \/ th'[t].pc = "failing"
         \/ th'[t].pc = "wait"
         \/ th'[t].pc = "checkWaits" /\ th'[t].holder # {}
  BY <1>1, CheckOwnerDoes
<1>3. th[t].want \in DOMAIN cache /\ th[t].pc \in Asks
  BY <1>1, CheckOwnerDoes DEF Typed, Known, Asks
<1>4. CASE th'[t].pc = "failing"
  <2>1. Known(t)' /\ Asking(t)' /\ th'[t].pc # "close" /\ th'[t].pc \notin Running
    BY <1>4 DEF Known, Asking, Asks, Running
  <2> QED
    BY <1>1, <1>2, <2>1, QuietOK
<1>5. CASE th'[t].pc # "failing"
  <2>1. Known(t)' /\ th'[t].pc \in Asks
    BY <1>2, <1>3, <1>5 DEF Known, Asks
  <2> QED
    BY <1>1, <1>2, <1>3, <2>1, AskOK
<1> QED
  BY <1>4, <1>5

LEMMA CheckWaitsOK ==
    ASSUME LoaderInv, NEW t \in Threads, CheckWaits(t)
    PROVE  LoaderInv'
<1>1. Typed /\ waits \in [Threads -> SUBSET DOMAIN cache]
  BY DEF LoaderInv, Typed, TypedCache
<1>2. th[t].want \in DOMAIN cache /\ th[t].pc \in Asks
  BY <1>1, CheckWaitsDoes DEF Typed, Known, Asks
<1>3. Known(t)' /\ th'[t].pc \in Asks /\ UNCHANGED waits
  BY <1>1, <1>2, CheckWaitsDoes DEF Known, Asks
<1> QED
  BY <1>1, <1>2, <1>3, CheckWaitsDoes, AskOK

LEMMA WaitOK ==
    ASSUME LoaderInv, NEW t \in Threads, Wait(t)
    PROVE  LoaderInv'
<1>1. Typed
  BY DEF LoaderInv
<1>2. Known(t)' /\ th[t].pc \in Asks /\ th'[t].pc \in Asks
  BY <1>1, WaitDoes DEF Known, Asks
<1> QED
  BY <1>1, <1>2, WaitDoes, AskOK

\* A thread that was told its module is fine goes on, with that module.
LEMMA WakeOK ==
    ASSUME LoaderInv, NEW t \in Threads, Wake(t)
    PROVE  LoaderInv'
<1>1. Typed /\ Asking(t)
  BY DEF LoaderInv, ThreadOK
<1>2. /\ th' \in [Threads -> Places] /\ \A o \in Threads \ {t} : th'[o] = th[o]
      /\ th[t].pc = "waiting" /\ th[t].want \in DOMAIN cache /\ cache[th[t].want].ready
      /\ waits' \in [Threads -> SUBSET DOMAIN cache] /\ UNCHANGED <<world, cache>>
  BY <1>1, WakeDoes
<1>3. CASE th'[t].pc = "failing" /\ UNCHANGED stack
  <2>1. Known(t)' /\ Asking(t)' /\ th'[t].pc # "close" /\ th'[t].pc \notin Running
    BY <1>3 DEF Known, Asking, Asks, Running
  <2> QED
    BY <1>1, <1>2, <1>3, <2>1, QuietOK DEF OthersStay
<1>4. CASE th'[t].pc = "run" /\ cache[th[t].want].result = "ok" /\ Advance(t)
  <2>1. /\ Items(t) # <<>> /\ Good(resolveModuleName(Top(t).url, Head(Items(t)).name))
        /\ th[t].pc \in Running
    BY <1>1, <1>2, <1>4 DEF Asking, Asks, Running, Good
  <2> QED
    BY <1>1, <1>2, <1>4, <2>1, AdvanceOK
<1> QED
  BY <1>1, <1>3, <1>4, WakeDoes

\* A module's script starts with all the module needs before it.
LEMMA OpenOK ==
    ASSUME LoaderInv, NEW t \in Threads, Open(t)
    PROVE  LoaderInv'
<1> DEFINE l == ModOpen(Locations, Top(t).url)
<1>1. Typed /\ waits \in [Threads -> SUBSET DOMAIN cache]
  BY DEF LoaderInv, Typed, TypedCache
<1>2. /\ th' \in [Threads -> Places] /\ \A o \in Threads \ {t} : th'[o] = th[o]
      /\ UNCHANGED <<world, cache, waits>>
  BY <1>1, OpenDoes
<1>3. CASE th'[t].pc \in {"panicked", "failing"} /\ UNCHANGED stack
  <2>1. Known(t)' /\ Asking(t)' /\ th'[t].pc # "close" /\ th'[t].pc \notin Running
    BY <1>3 DEF Known, Asking, Asks, Running
  <2> QED
    BY <1>1, <1>2, <1>3, <2>1, QuietOK DEF OthersStay
<1>4. CASE /\ th'[t].pc = "run" /\ ~Stops(l) /\ world.files[l] \in Seq(ScriptItems)
           /\ stack' = [stack EXCEPT ![t][Len(stack[t])].todo = world.files[l]]
  <2>1. \A n \in Needs(Top(t).url) : n \in ToLoad([url |-> Top(t).url, todo |-> world.files[l]])
    BY <1>4, AllToLoad
  <2> HIDE DEF l
  <2> QED
    BY <1>1, <1>2, <1>4, <2>1, TodoOK
<1> QED
  BY <1>1, <1>3, <1>4, OpenDoes

\* A module that nobody asked for before is on one stack only.
LEMMA FirstOK ==
    ASSUME LoaderInv, NEW t \in Threads, First(t)
    PROVE  LoaderInv'
<1> DEFINE n == Len(stack[t])
           u == th[t].want
<1>1. Typed /\ TypedThreads /\ TypedCache
  BY DEF LoaderInv, Typed
<1>2. /\ th' \in [Threads -> Places] /\ OthersStay(t)
      /\ th[t].pc = "get" /\ th'[t].pc = "own" /\ u \in URLs /\ u \notin DOMAIN cache
      /\ stack' \in [Threads -> Seq(Frames)] /\ \A o \in Threads : Len(stack'[o]) >= 1
      /\ Len(stack'[t]) = n + 1
      /\ \A i \in 1 .. n : stack'[t][i] = stack[t][i]
      /\ stack'[t][n + 1].url = u
      /\ DOMAIN cache' = DOMAIN cache \cup {u}
      /\ cache' \in [DOMAIN cache' -> Entries]
      /\ \A k \in DOMAIN cache : cache'[k] = cache[k]
      /\ ~cache'[u].ready
      /\ UNCHANGED <<world, waits>>
  BY <1>1, FirstDoes
<1>3. n \in Nat \ {0} /\ Top(t) = stack[t][n]
  BY <1>1, TopFacts
<1> HIDE DEF u
<1>4. Typed'
  <2>1. waits \in [Threads -> SUBSET DOMAIN cache]
    BY <1>1 DEF TypedCache
  <2>2. waits' \in [Threads -> SUBSET DOMAIN cache']
    BY <1>2, <2>1
  <2>3. TypedThreads' /\ TypedCache'
    BY <1>1, <1>2, <2>2 DEF TypedThreads, TypedCache
  <2>4. Known(t)'
    BY <1>2, <1>3 DEF Known
  <2>5. \A o \in Threads \ {t} : Known(o)'
    <3> TAKE o \in Threads \ {t}
    <3> QED
      BY <1>1, <1>2, OthersKnown DEF Typed, OthersStay
  <2> QED
    BY <1>1, <1>2, <2>3, <2>4, <2>5 DEF Typed
<1>5. \A o \in Threads : \A i \in 2 .. Len(stack[o]) :
         stack[o][i].url \in DOMAIN cache /\ ~cache[stack[o][i].url].ready
  BY DEF LoaderInv, ThreadOK, Loading
<1>6. Apart'
  <2> SUFFICES ASSUME NEW p \in Threads, NEW o \in Threads,
                      NEW i \in 2 .. Len(stack'[p]), NEW j \in 2 .. Len(stack'[o]),
                      stack'[p][i].url = stack'[o][j].url
               PROVE  p = o /\ i = j
    BY DEF Apart
  <2>1. ASSUME NEW q \in Threads, NEW m \in 2 .. Len(stack'[q])
        PROVE  \/ m \in 2 .. Len(stack[q]) /\ stack'[q][m].url = stack[q][m].url /\ stack'[q][m].url # u
               \/ q = t /\ m = n + 1 /\ stack'[q][m].url = u
    <3>1. CASE q # t
      <4>1. stack'[q] = stack[q]
        BY <1>2, <3>1 DEF OthersStay
      <4> QED
        BY <1>2, <1>5, <4>1
    <3>2. CASE q = t /\ m = n + 1
      BY <1>2, <3>2
    <3>3. CASE q = t /\ m # n + 1
      <4>1. m \in 2 .. n
        BY <1>2, <1>3, <3>3
      <4> QED
        <5>1. m \in 1 .. n /\ stack'[t][m] = stack[t][m]
          BY <1>2, <1>3, <4>1
        <5>2. stack[t][m].url \in DOMAIN cache
          BY <1>5, <4>1
        <5> HIDE DEF n
        <5> QED
          BY <1>2, <3>3, <4>1, <5>1, <5>2 DEF n
    <3> QED
      BY <3>1, <3>2, <3>3
  <2>2. CASE stack'[p][i].url = u
    <3>1. p = t /\ i = n + 1
      BY <2>1, <2>2
    <3>2. o = t /\ j = n + 1
      BY <2>1, <2>2
    <3> QED
      BY <3>1, <3>2
  <2>3. CASE stack'[p][i].url # u
    <3>1. i \in 2 .. Len(stack[p]) /\ stack'[p][i].url = stack[p][i].url
      BY <2>1, <2>3
    <3>2. j \in 2 .. Len(stack[o]) /\ stack'[o][j].url = stack[o][j].url
      BY <2>1, <2>3
    <3>3. stack[p][i].url = stack[o][j].url
      BY <3>1, <3>2
    <3>4. \A q, r \in Threads : \A a \in 2 .. Len(stack[q]), b \in 2 .. Len(stack[r]) :
             stack[q][a].url = stack[r][b].url => q = r /\ a = b
      BY DEF LoaderInv, Apart
    <3> HIDE DEF n
    <3> QED
      BY <3>1, <3>2, <3>3, <3>4
  <2> QED
    BY <2>2, <2>3
<1>7. Stored'
  BY <1>2 DEF LoaderInv, Stored
<1>8. \A k : Good(k) => Good(k)'
  BY <1>2 DEF Good
<1>9. ASSUME NEW o \in Threads \ {t}
      PROVE  ThreadOK(o)'
  <2>1. ThreadOK(o) /\ (th[o].pc = "close" => Len(stack[o]) > 1)
    BY DEF LoaderInv, Typed, Known
  <2>2. stack'[o] = stack[o] /\ th'[o] = th[o]
    BY <1>2 DEF OthersStay
  <2>3. world' = world /\ DOMAIN cache \subseteq DOMAIN cache'
    BY <1>2
  <2>4. \A i \in 2 .. Len(stack[o]) :
           /\ cache'[stack[o][i].url].ready = cache[stack[o][i].url].ready
           /\ cache'[stack[o][i].url].result = cache[stack[o][i].url].result
    BY <1>2, <1>5
  <2> QED
    BY <1>1, <1>8, <2>1, <2>2, <2>3, <2>4, OthersOK
<1>10. ThreadOK(t)'
  <2>1. \A v : Needs(v)' = Needs(v)
    BY <1>2 DEF Needs, ItemsOf, Locations
  <2>2. ThreadOK(t)
    BY DEF LoaderInv
  <2>3. Loading(t)'
    <3> SUFFICES ASSUME NEW i \in 2 .. n + 1
                 PROVE  stack'[t][i].url \in DOMAIN cache' /\ ~cache'[stack'[t][i].url].ready
      BY <1>2 DEF Loading
    <3>1. CASE i = n + 1
      BY <1>2, <3>1
    <3>2. CASE i # n + 1
      <4>1. i \in 2 .. n /\ i \in 1 .. n
        BY <1>3, <3>2
      <4>2. stack'[t][i] = stack[t][i]
        BY <1>2, <4>1
      <4>3. stack[t][i].url \in DOMAIN cache /\ ~cache[stack[t][i].url].ready
        BY <1>5, <4>1
      <4> QED
        BY <1>2, <4>2, <4>3
    <3> QED
      BY <3>1, <3>2
  <2>4. Decided(t)' /\ Asking(t)'
    BY <1>2 DEF Decided, Asking, Asks
  <2>5. Asked(t)'
    <3> SUFFICES ASSUME NEW i \in 1 .. n
                 PROVE  /\ stack'[t][i].todo # <<>> /\ Head(stack'[t][i].todo).op = "load"
                        /\ stack'[t][i + 1].url =
                             resolveModuleName(stack'[t][i].url, Head(stack'[t][i].todo).name)
      BY <1>2, <1>3 DEF Asked
    <3>1. CASE i = n
      <4>1. /\ Items(t) # <<>> /\ Head(Items(t)).op = "load"
            /\ u = resolveModuleName(Top(t).url, Head(Items(t)).name)
        BY <1>2, <2>2 DEF ThreadOK, Asking, Asks, u
      <4>2. stack'[t][i] = Top(t)
        BY <1>2, <1>3, <3>1
      <4> QED
        BY <1>2, <3>1, <4>1, <4>2 DEF Items
    <3>2. CASE i # n
      <4>1. i \in 1 .. n - 1 /\ i + 1 \in 1 .. n
        BY <1>3, <3>2
      <4>2. stack'[t][i] = stack[t][i] /\ stack'[t][i + 1] = stack[t][i + 1]
        BY <1>2, <4>1
      <4> QED
        BY <2>2, <4>1, <4>2 DEF ThreadOK, Asked
    <3> QED
      BY <3>1, <3>2
  <2>6. Progress(t)'
    <3> SUFFICES ASSUME NEW i \in 2 .. n + 1, Hopeful(t, i)'
                 PROVE  Met(t, i)'
      BY <1>2 DEF Progress
    <3>1. i \in 2 .. n
      BY <1>2, <1>3 DEF Hopeful, Running, Asks
    <3>2. Met(t, i)
      BY <1>2, <2>2, <3>1 DEF ThreadOK, Progress, Hopeful, Running, Asks
    <3>3. stack'[t][i] = stack[t][i]
      BY <1>2, <3>1
    <3> QED
      BY <1>8, <2>1, <3>2, <3>3 DEF Met
  <2> QED
    BY <2>3, <2>4, <2>5, <2>6 DEF ThreadOK
<1> QED
  BY <1>4, <1>6, <1>7, <1>9, <1>10 DEF LoaderInv

\* A step that changes the entry of the module a thread is loading, and
\* tells nobody.
LEMMA EntryOK ==
    ASSUME LoaderInv, NEW t \in Threads, UNCHANGED <<world, stack, waits>>,
           th' \in [Threads -> Places], OthersStay(t), Len(stack[t]) > 1,
           DOMAIN cache' = DOMAIN cache, cache' \in [DOMAIN cache' -> Entries],
           \A k \in DOMAIN cache : /\ cache'[k].ready = cache[k].ready
                                   /\ k # Top(t).url => cache'[k].result = cache[k].result,
           th'[t].pc \in {"open", "close"}, Decided(t)',
           th'[t].pc = "close" /\ cache'[Top(t).url].result = "ok" => th[t].pc \in Running
    PROVE  LoaderInv'
<1> DEFINE n == Len(stack[t])
<1>1. Typed /\ TypedThreads /\ TypedCache
  BY DEF LoaderInv, Typed
<1>2. n \in 2 .. n /\ Top(t) = stack[t][n]
  BY <1>1, TopFacts
<1>3. Top(t).url \in DOMAIN cache /\ ~cache[Top(t).url].ready
  BY <1>2 DEF LoaderInv, ThreadOK, Loading
<1>4. Typed'
  <2>1. TypedThreads' /\ TypedCache'
    BY <1>1 DEF TypedThreads, TypedCache
  <2>2. Known(t)'
    BY DEF Known
  <2>3. \A o \in Threads \ {t} : Known(o)'
    <3> TAKE o \in Threads \ {t}
    <3> QED
      BY <1>1, OthersKnown DEF Typed, OthersStay
  <2> QED
    BY <1>1, <2>1, <2>2, <2>3 DEF Typed
<1>5. Apart'
  BY DEF LoaderInv, Apart
<1>6. Stored'
  BY <1>3 DEF LoaderInv, Stored
<1>7. \A k : Good(k) => Good(k)'
  BY <1>3 DEF Good
<1>8. ASSUME NEW o \in Threads \ {t}
      PROVE  ThreadOK(o)'
  <2>1. ThreadOK(o) /\ (th[o].pc = "close" => Len(stack[o]) > 1)
    BY DEF LoaderInv, Typed, Known
  <2>2. stack'[o] = stack[o] /\ th'[o] = th[o]
    BY DEF OthersStay
  <2>3. \A i \in 2 .. Len(stack[o]) : stack[o][i].url \in DOMAIN cache /\ stack[o][i].url # Top(t).url
    BY <1>2, <2>1 DEF LoaderInv, Apart, ThreadOK, Loading
  <2>4. \A i \in 2 .. Len(stack[o]) :
           /\ cache'[stack[o][i].url].ready = cache[stack[o][i].url].ready
           /\ cache'[stack[o][i].url].result = cache[stack[o][i].url].result
    BY <2>3
  <2> QED
    BY <1>1, <1>7, <2>1, <2>2, <2>4, OthersOK
<1>9. ThreadOK(t)'
  <2>1. \A v : Needs(v)' = Needs(v)
    BY DEF Needs, ItemsOf, Locations
  <2>2. ThreadOK(t)
    BY DEF LoaderInv
  <2>3. Loading(t)' /\ Asked(t)'
    BY <2>2 DEF ThreadOK, Loading, Asked
  <2>4. Asking(t)'
    BY DEF Asking, Asks
  <2>5. Top(t)' = Top(t)
    BY DEF Top
  <2>6. \A i \in 2 .. n : Hopeful(t, i)' => Hopeful(t, i)
    BY <2>5 DEF Hopeful, Running, Asks
  <2>7. \A i \in 2 .. n : Met(t, i) => Met(t, i)'
    BY <1>7, <2>1 DEF Met
  <2>8. Progress(t)'
    BY <2>2, <2>6, <2>7 DEF ThreadOK, Progress
  <2> QED
    BY <2>3, <2>4, <2>8 DEF ThreadOK
<1> QED
  BY <1>4, <1>5, <1>6, <1>8, <1>9 DEF LoaderInv

\* The module of the topmost script has its entry.
LEMMA TopLoading ==
    ASSUME LoaderInv, NEW t \in Threads, Len(stack[t]) > 1
    PROVE  Top(t).url \in DOMAIN cache /\ ~cache[Top(t).url].ready
<1>1. Len(stack[t]) \in 2 .. Len(stack[t]) /\ Top(t) = stack[t][Len(stack[t])]
  BY TopFacts DEF LoaderInv, Typed
<1> QED
  BY <1>1 DEF LoaderInv, ThreadOK, Loading

LEMMA OwnOK ==
    ASSUME LoaderInv, NEW t \in Threads, Own(t)
    PROVE  LoaderInv'
<1>1. Typed /\ Len(stack[t]) > 1
  BY DEF LoaderInv, Typed, Known, Own
<1>2. Top(t).url \in DOMAIN cache
  BY <1>1, TopLoading
<1>3. /\ th' \in [Threads -> Places] /\ OthersStay(t)
      /\ th[t].pc = "own" /\ th'[t].pc = "open"
      /\ DOMAIN cache' = DOMAIN cache /\ cache' \in [DOMAIN cache' -> Entries]
      /\ \A k \in DOMAIN cache : /\ cache'[k].ready = cache[k].ready
                                 /\ cache'[k].result = cache[k].result
      /\ UNCHANGED <<world, waits, stack>>
  BY <1>1, <1>2, OwnDoes
<1>4. Decided(t)'
  BY <1>3 DEF Decided
<1> QED
  BY <1>1, <1>3, <1>4, EntryOK

LEMMA ResultOK ==
    ASSUME LoaderInv, NEW t \in Threads, Result(t)
    PROVE  LoaderInv'
<1>1. Typed /\ Len(stack[t]) > 1
  BY DEF LoaderInv, Result
<1>2. Top(t).url \in DOMAIN cache
  BY <1>1, TopLoading
<1>3. /\ th' \in [Threads -> Places] /\ OthersStay(t) /\ th'[t].pc = "close"
      /\ DOMAIN cache' = DOMAIN cache /\ cache' \in [DOMAIN cache' -> Entries]
      /\ \A k \in DOMAIN cache : /\ cache'[k].ready = cache[k].ready
                                 /\ k # Top(t).url => cache'[k] = cache[k]
      /\ \/ cache'[Top(t).url].result = "ok" /\ th[t].pc = "run" /\ Items(t) = <<>>
         \/ cache'[Top(t).url].result = "failed"
      /\ UNCHANGED <<world, waits, stack>>
  BY <1>1, <1>2, ResultDoes
<1>4. Top(t)' = Top(t) /\ Items(t)' = Items(t)
  BY <1>3 DEF Top, Items
<1>5. Decided(t)'
  BY <1>3, <1>4 DEF Decided
<1>6. cache'[Top(t).url].result = "ok" => th[t].pc \in Running
  BY <1>3 DEF Running
<1> QED
  BY <1>1, <1>3, <1>5, <1>6, EntryOK

\* The thread that loaded a module tells everybody, and goes on with it or
\* fails with it.
LEMMA CloseOK ==
    ASSUME LoaderInv, NEW t \in Threads, Close(t)
    PROVE  LoaderInv'
<1> DEFINE n == Len(stack[t])
           u == Top(t).url
           old == stack[t][n - 1]
<1>1. Typed /\ TypedThreads /\ TypedCache
  BY DEF LoaderInv, Typed
<1>2. n \in 2 .. n /\ Top(t) = stack[t][n] /\ n - 1 \in 1 .. n /\ n - 1 \in 1 .. n - 1
  <2>1. n > 1
    BY <1>1 DEF Typed, Known, Close
  <2> QED
    BY <1>1, <2>1, TopFacts
<1>3. u \in DOMAIN cache /\ ~cache[u].ready
  BY <1>2, TopLoading
<1>4. /\ old.todo # <<>> /\ Head(old.todo).op = "load"
      /\ u = resolveModuleName(old.url, Head(old.todo).name)
  <2>1. /\ old.todo # <<>> /\ Head(old.todo).op = "load"
        /\ stack[t][(n - 1) + 1].url = resolveModuleName(old.url, Head(old.todo).name)
    BY <1>2 DEF LoaderInv, ThreadOK, Asked
  <2>2. (n - 1) + 1 = n
    BY <1>2
  <2> QED
    BY <1>2, <2>1, <2>2
<1>5. old \in Frames /\ old.todo \in Seq(ScriptItems)
  BY <1>1, <1>2, TopFacts
<1>6. /\ th' \in [Threads -> Places] /\ OthersStay(t) /\ th[t].pc = "close"
      /\ stack' \in [Threads -> Seq(Frames)] /\ \A o \in Threads : Len(stack'[o]) >= 1
      /\ Len(stack'[t]) = n - 1
      /\ \A i \in 1 .. n - 2 : stack'[t][i] = stack[t][i]
      /\ stack'[t][n - 1].url = old.url
      /\ \/ cache[u].result = "ok" /\ th'[t].pc = "run" /\ stack'[t][n - 1].todo = Tail(old.todo)
         \/ cache[u].result # "ok" /\ th'[t].pc = "failing"
      /\ DOMAIN cache' = DOMAIN cache /\ cache' \in [DOMAIN cache' -> Entries]
      /\ \A k \in DOMAIN cache : /\ cache'[k].result = cache[k].result
                                 /\ k # u => cache'[k] = cache[k]
      /\ cache'[u].ready
      /\ UNCHANGED <<world, waits>>
  BY <1>1, <1>3, <1>4, CloseDoes
<1>7. \A i \in 1 .. n - 1 : stack'[t][i].url = stack[t][i].url
  <2> TAKE i \in 1 .. n - 1
  <2>1. i = n - 1 \/ i \in 1 .. n - 2
    BY <1>2
  <2> QED
    BY <1>6, <2>1
<1>8. \A o \in Threads : \A i \in 2 .. Len(stack[o]) :
         stack[o][i].url = u => o = t /\ i = n
  BY <1>2 DEF LoaderInv, Apart
<1>9. \A o \in Threads : \A i \in 2 .. Len(stack[o]) :
         stack[o][i].url \in DOMAIN cache /\ ~cache[stack[o][i].url].ready
  BY DEF LoaderInv, ThreadOK, Loading
<1> HIDE DEF u, old
<1>10. Typed'
  <2>1. TypedThreads' /\ TypedCache'
    BY <1>1, <1>6 DEF TypedThreads, TypedCache
  <2>2. Known(t)'
    BY <1>6 DEF Known
  <2>3. \A o \in Threads \ {t} : Known(o)'
    <3> TAKE o \in Threads \ {t}
    <3> QED
      BY <1>1, <1>6, OthersKnown DEF Typed, OthersStay
  <2> QED
    BY <1>1, <1>6, <2>1, <2>2, <2>3 DEF Typed
<1>11. Apart'
  <2>1. \A q \in Threads : \A m \in 2 .. Len(stack'[q]) :
           m \in 2 .. Len(stack[q]) /\ stack'[q][m].url = stack[q][m].url
    <3> TAKE q \in Threads
    <3> TAKE m \in 2 .. Len(stack'[q])
    <3>1. CASE q = t
      <4>1. m \in 2 .. n /\ m \in 1 .. n - 1
        BY <1>2, <1>6, <3>1
      <4> QED
        BY <1>7, <3>1, <4>1
    <3>2. CASE q # t
      <4>1. stack'[q] = stack[q]
        BY <1>6, <3>2 DEF OthersStay
      <4> QED
        BY <4>1
    <3> QED
      BY <3>1, <3>2
  <2>2. \A q, r \in Threads : \A a \in 2 .. Len(stack[q]), b \in 2 .. Len(stack[r]) :
           stack[q][a].url = stack[r][b].url => q = r /\ a = b
    BY DEF LoaderInv, Apart
  <2> QED
    BY <2>1, <2>2 DEF Apart
<1>12. Stored'
  <2>1. cache[u].result \in {"ok", "failed"}
    BY <1>6 DEF LoaderInv, ThreadOK, Decided, u
  <2> QED
    BY <1>3, <1>6, <2>1 DEF LoaderInv, Stored
<1>13. \A k : Good(k) => Good(k)'
  BY <1>3, <1>6 DEF Good
<1>14. ASSUME NEW o \in Threads \ {t}
       PROVE  ThreadOK(o)'
  <2>1. ThreadOK(o) /\ (th[o].pc = "close" => Len(stack[o]) > 1)
    BY DEF LoaderInv, Typed, Known
  <2>2. stack'[o] = stack[o] /\ th'[o] = th[o]
    BY <1>6 DEF OthersStay
  <2>3. \A i \in 2 .. Len(stack[o]) :
           /\ cache'[stack[o][i].url].ready = cache[stack[o][i].url].ready
           /\ cache'[stack[o][i].url].result = cache[stack[o][i].url].result
    BY <1>6, <1>8, <1>9
  <2>4. world' = world /\ DOMAIN cache \subseteq DOMAIN cache'
    BY <1>6
  <2> QED
    BY <1>1, <1>13, <2>1, <2>2, <2>3, <2>4, OthersOK
<1>15. ThreadOK(t)'
  <2>1. \A v : Needs(v)' = Needs(v)
    BY <1>6 DEF Needs, ItemsOf, Locations
  <2>2. ThreadOK(t)
    BY DEF LoaderInv
  <2>3. Loading(t)'
    <3> SUFFICES ASSUME NEW i \in 2 .. n - 1
                 PROVE  stack'[t][i].url \in DOMAIN cache' /\ ~cache'[stack'[t][i].url].ready
      BY <1>6 DEF Loading
    <3>1. i \in 2 .. n /\ i # n /\ i \in 1 .. n - 1
      BY <1>2
    <3>2. stack'[t][i].url = stack[t][i].url /\ stack[t][i].url # u
      BY <1>7, <1>8, <3>1
    <3> QED
      BY <1>6, <1>9, <3>1, <3>2
  <2>4. Decided(t)' /\ Asking(t)'
    <3>1. th'[t].pc \notin Asks => Asking(t)'
      BY DEF Asking
    <3> QED
      BY <1>2, <1>6, <3>1 DEF Decided, Asks, Asking
  <2>5. Asked(t)'
    <3> SUFFICES ASSUME NEW i \in 1 .. (n - 1) - 1
                 PROVE  /\ stack'[t][i].todo # <<>> /\ Head(stack'[t][i].todo).op = "load"
                        /\ stack'[t][i + 1].url =
                             resolveModuleName(stack'[t][i].url, Head(stack'[t][i].todo).name)
      BY <1>6 DEF Asked
    <3>1. i \in 1 .. n - 2 /\ i \in 1 .. n - 1 /\ i + 1 \in 1 .. n - 1
      BY <1>2
    <3>2. stack'[t][i] = stack[t][i] /\ stack'[t][i + 1].url = stack[t][i + 1].url
      BY <1>6, <1>7, <3>1
    <3> QED
      BY <2>2, <3>1, <3>2 DEF ThreadOK, Asked
  <2>6. Progress(t)'
    <3> SUFFICES ASSUME NEW i \in 2 .. n - 1, Hopeful(t, i)'
                 PROVE  Met(t, i)'
      BY <1>6 DEF Progress
    <3>1. i \in 2 .. n /\ i < n /\ (i \in 1 .. n - 2 \/ i = n - 1)
      BY <1>2
    <3>2. Met(t, i)
      BY <2>2, <3>1 DEF ThreadOK, Progress, Hopeful
    <3>3. CASE i \in 1 .. n - 2
      <4>1. stack'[t][i] = stack[t][i]
        BY <1>6, <3>3
      <4> QED
        BY <1>13, <2>1, <3>2, <4>1 DEF Met
    <3>4. CASE i = n - 1
      <4>1. th'[t].pc # "failing"
        BY <1>2, <1>6, <3>4 DEF Hopeful, Running, Asks
      <4>2. cache[u].result = "ok" /\ stack'[t][i].todo = Tail(old.todo) /\ stack'[t][i].url = old.url
        BY <1>6, <3>4, <4>1
      <4>3. \A k : k = u => Good(k)'
        BY <1>3, <1>6, <4>2 DEF Good
      <4>4. ASSUME NEW m \in Needs(old.url)
            PROVE  m \in ToLoad(stack'[t][i]) \/ Good(m)'
        <5>1. m \in ToLoad(old) \/ Good(m)
          BY <3>2, <3>4 DEF Met, old
        <5>2. ASSUME m \in ToLoad(old)
              PROVE  m \in ToLoad(stack'[t][i]) \/ m = u
          <6> DEFINE list == old.todo
                     v == old.url
          <6>1. old = [url |-> v, todo |-> list]
            BY <1>5 DEF Frames
          <6>2. m \in ToLoad([url |-> v, todo |-> list]) /\ list \in Seq(ScriptItems) /\ list # <<>>
            BY <1>4, <1>5, <5>2, <6>1
          <6>3. /\ u = resolveModuleName(v, Head(list).name)
                /\ stack'[t][i].todo = Tail(list) /\ stack'[t][i].url = v
            BY <1>4, <4>2
          <6>4. ToLoad([url |-> v, todo |-> Tail(list)]) = ToLoad(stack'[t][i])
            BY <6>3 DEF ToLoad
          <6> HIDE DEF v, list
          <6>5. \/ m \in ToLoad([url |-> v, todo |-> Tail(list)])
                \/ m = resolveModuleName(v, Head(list).name)
            BY <6>2, TailToLoad
          <6> QED
            BY <6>3, <6>4, <6>5
        <5> QED
          BY <1>13, <4>3, <5>1, <5>2
      <4>5. stack[t][i].url = old.url /\ stack'[t][i].url = stack[t][i].url
        BY <3>4, <4>2 DEF old
      <4> QED
        BY <2>1, <4>4, <4>5 DEF Met
    <3> QED
      BY <3>1, <3>3, <3>4
  <2> QED
    BY <2>3, <2>4, <2>5, <2>6 DEF ThreadOK
<1> QED
  BY <1>10, <1>11, <1>12, <1>14, <1>15 DEF LoaderInv

LEMMA LoaderInit ==
    ASSUME Init
    PROVE  LoaderInv
<1>1. world \in Worlds /\ cache = [k \in {} |-> 0] /\ DOMAIN cache = {}
  BY DEF Init
<1>2. \A t \in Threads :
         /\ Frame(Main(t), world.files[Main(t)]) \in Frames
         /\ stack[t] = <<Frame(Main(t), world.files[Main(t)])>>
         /\ Len(stack[t]) = 1
         /\ th[t].pc = "run"
  BY <1>1, WorldFacts DEF Frame, Frames, Init
<1>3. stack \in [Threads -> Seq(Frames)]
  <2> HIDE DEF Frames
  <2>1. \A t \in Threads : <<Frame(Main(t), world.files[Main(t)])>> \in Seq(Frames)
    BY <1>2
  <2> QED
    BY <2>1 DEF Init
<1>4. th \in [Threads -> Places]
  <2>1. \A t \in Threads :
           [pc |-> "run", want |-> Main(t), at |-> Main(t), holder |-> {}, loads |-> 0] \in Places
    BY <1>1, WorldFacts DEF Places, Points, Owners, Wanted
  <2> HIDE DEF Places
  <2> QED
    BY <2>1 DEF Init
<1>5. Typed
  <2>1. waits \in [Threads -> SUBSET DOMAIN cache]
    BY DEF Init
  <2>2. TypedCache
    BY <1>1, <2>1 DEF TypedCache
  <2>3. TypedThreads
    <3> HIDE DEF Frames, Places
    <3>1. \A t \in Threads : Len(stack[t]) >= 1
      BY <1>2
    <3> QED
      BY <1>3, <1>4, <3>1 DEF TypedThreads
  <2> QED
    BY <1>1, <1>2, <2>2, <2>3 DEF Typed, Known
<1>6. Apart
  BY <1>2 DEF Apart
<1>7. \A t \in Threads : ThreadOK(t)
  <2> TAKE t \in Threads
  <2>1. Len(stack[t]) = 1 /\ th[t].pc = "run"
    BY <1>2
  <2>2. Loading(t) /\ Asked(t) /\ Progress(t)
    BY <2>1 DEF Loading, Asked, Progress
  <2>3. Decided(t) /\ Asking(t)
    BY <2>1 DEF Decided, Asking, Asks
  <2> QED
    BY <2>2, <2>3 DEF ThreadOK
<1> QED
  BY <1>1, <1>5, <1>6, <1>7 DEF LoaderInv, Stored

LEMMA LoaderNext ==
    ASSUME LoaderInv, [Next]_vars
    PROVE  LoaderInv'
<1>1. CASE UNCHANGED vars
  <2>1. \A v : Needs(v)' = Needs(v)
    BY <1>1 DEF vars, Needs, ItemsOf, Locations
  <2>2. \A t \in Threads : Top(t)' = Top(t) /\ Items(t)' = Items(t)
    BY <1>1 DEF vars, Top, Items
  <2>3. Typed' /\ Apart' /\ Stored'
    BY <1>1 DEF vars, LoaderInv, Typed, TypedCache, TypedThreads, Known, Apart, Stored
  <2>4. ASSUME NEW t \in Threads
        PROVE  ThreadOK(t)'
    <3>1. ThreadOK(t) /\ TypedThreads /\ (th[t].pc = "close" => Len(stack[t]) > 1)
      BY DEF LoaderInv, Typed, Known
    <3>2. \A k : Good(k) => Good(k)'
      BY <1>1 DEF vars, Good
    <3> QED
      BY <1>1, <3>1, <3>2, OthersOK DEF vars
  <2> QED
    BY <2>3, <2>4 DEF LoaderInv
<1>2. ASSUME NEW t \in Threads, Step(t)
      PROVE  LoaderInv'
  BY <1>2, LoadOK, LoadFileOK, EndOK, FirstOK, FoundOK, OwnOK, OpenOK, ResultOK, CloseOK,
     CheckOwnerOK, CheckWaitsOK, WaitOK, WakeOK DEF Step
<1> QED
  BY <1>1, <1>2 DEF Next

-----------------------------------------------------------------------------
(* The theorems.                                                           *)

LEMMA LoaderAlways == Spec => []LoaderInv
BY LoaderInit, LoaderNext, PTL DEF Spec

\* Entries have at most one owner, and a result once anybody may read it; a
\* thread waits only for modules that have an entry (get, setOwner).
THEOREM LoaderTypeCorrect == Spec => []TypeOK
<1>1. LoaderInv => TypeOK
  <2> SUFFICES ASSUME LoaderInv PROVE TypeOK
    OBVIOUS
  <2>1. TypedCache /\ TypedThreads
    BY DEF LoaderInv, Typed
  <2>2. ASSUME NEW k \in DOMAIN cache
        PROVE  /\ cache[k].owner \in SUBSET Checkers /\ Cardinality(cache[k].owner) <= 1
               /\ cache[k].ready \in BOOLEAN /\ cache[k].result \in Outcomes
               /\ cache[k].ready => cache[k].result # "none"
    <3>1. cache[k] \in Entries
      <4> HIDE DEF Entries
      <4> QED
        BY <2>1 DEF TypedCache
    <3>2. \A o \in Owners : o \in SUBSET Checkers /\ Cardinality(o) <= 1
      <4>1. Cardinality({}) = 0
        BY FS_EmptySet
      <4>2. \A c \in Checkers : Cardinality({c}) = 1
        BY FS_Singleton
      <4> QED
        BY <4>1, <4>2 DEF Owners
    <3>3. cache[k].ready => cache[k].result # "none"
      BY DEF LoaderInv, Stored
    <3>4. cache[k].owner \in Owners /\ cache[k].ready \in BOOLEAN /\ cache[k].result \in Outcomes
      BY <3>1 DEF Entries
    <3> QED
      BY <3>2, <3>3, <3>4
  <2>3. ASSUME NEW t \in Threads
        PROVE  /\ waits[t] \subseteq DOMAIN cache
               /\ th[t].pc \in Points /\ th[t].loads \in Nat
               /\ \A i \in 2 .. Len(stack[t]) : stack[t][i].url \in DOMAIN cache
    <3>1. th[t] \in Places /\ waits[t] \in SUBSET DOMAIN cache
      <4> HIDE DEF Places
      <4> QED
        BY <2>1 DEF TypedCache, TypedThreads
    <3>2. Loading(t)
      BY DEF LoaderInv, ThreadOK
    <3> QED
      BY <3>1, <3>2 DEF Places, Loading
  <2> QED
    BY <2>2, <2>3 DEF TypeOK
<1> QED
  BY <1>1, LoaderAlways, PTL

\* What a step of a thread is to the cache that LoadOnce describes: a module
\* is begun, finished, or nothing that shows.
LEMMA OnceStep ==
    ASSUME LoaderInv, [Next]_vars
    PROVE  [Once!OnceNext]_Results
<1> DEFINE At(c, k) == IF c[k].ready THEN c[k].result ELSE "loading"
<1>1. UNCHANGED world
  <2>1. ASSUME NEW t \in Threads, Step(t)
        PROVE  UNCHANGED world
    <3>1. CASE Load(t) \/ LoadFile(t) \/ End(t) \/ First(t) \/ Found(t) \/ Own(t) \/ Open(t)
      BY <3>1 DEF Load, LoadFile, End, First, Found, Own, Open
    <3>2. CASE Result(t) \/ Close(t) \/ CheckOwner(t) \/ CheckWaits(t) \/ Wait(t) \/ Wake(t)
      BY <3>2 DEF Result, Close, CheckOwner, CheckWaits, Wait, Wake
    <3> QED
      BY <2>1, <3>1, <3>2 DEF Step
  <2> QED
    BY <2>1 DEF Next, vars
<1>2. \A v : Needs(v)' = Needs(v)
  BY <1>1 DEF Needs, ItemsOf, Locations
<1>3. Results = [k \in DOMAIN cache |-> [state |-> At(cache, k), needs |-> Needs(k)]]
  BY DEF Results
<1>4. Results' = [k \in DOMAIN cache' |-> [state |-> At(cache', k), needs |-> Needs(k)]]
  BY <1>2 DEF Results
<1>5. Typed
  BY DEF LoaderInv
<1>6. ASSUME DOMAIN cache' = DOMAIN cache, \A k \in DOMAIN cache : At(cache', k) = At(cache, k)
      PROVE  UNCHANGED Results
  <2> HIDE DEF At
  <2> QED
    BY <1>3, <1>4, <1>6
<1>7. ASSUME NEW t \in Threads, First(t)
      PROVE  Once!Begin
  <2> DEFINE u == th[t].want
  <2>1. /\ u \notin DOMAIN cache /\ DOMAIN cache' = DOMAIN cache \cup {u}
        /\ \A k \in DOMAIN cache : cache'[k] = cache[k]
        /\ ~cache'[u].ready
    BY <1>5, <1>7, FirstDoes
  <2> HIDE DEF u
  <2>2. DOMAIN Results = DOMAIN cache /\ DOMAIN Results' = DOMAIN cache \cup {u}
    BY <1>3, <1>4, <2>1
  <2>3. Results'[u].state = "loading"
    BY <1>4, <2>1
  <2>4. \A k \in DOMAIN cache : Results'[k] = Results[k]
    BY <1>3, <1>4, <2>1
  <2> QED
    BY <2>1, <2>2, <2>3, <2>4 DEF Once!Begin
<1>8. ASSUME NEW t \in Threads, Close(t)
      PROVE  Once!Finish
  <2> DEFINE u == Top(t).url
             end == cache[u].result
  <2>1. Len(stack[t]) > 1 /\ th[t].pc = "close"
    BY <1>5, <1>8 DEF Typed, Known, Close
  <2>2. u \in DOMAIN cache /\ ~cache[u].ready
    BY <2>1, TopLoading
  <2>3. end \in {"ok", "failed"} /\ (end = "ok" => Items(t) = <<>>)
    BY <2>1 DEF LoaderInv, ThreadOK, Decided
  <2>4. /\ DOMAIN cache' = DOMAIN cache /\ cache'[u].ready /\ cache'[u].result = end
        /\ \A k \in DOMAIN cache : k # u => cache'[k] = cache[k]
    <3>1. cache' = [cache EXCEPT ![u].ready = TRUE]
      BY <1>8 DEF Close
    <3> HIDE DEF u
    <3>2. DOMAIN cache' = DOMAIN cache /\ \A k \in DOMAIN cache : k # u => cache'[k] = cache[k]
      BY <3>1, <2>2
    <3>3. cache[u] \in Entries
      <4> HIDE DEF Entries
      <4> QED
        BY <1>5, <2>2 DEF Typed, TypedCache
    <3>4. cache'[u] = [cache[u] EXCEPT !.ready = TRUE]
      BY <2>2, <3>1
    <3> QED
      BY <3>2, <3>3, <3>4 DEF Entries
  <2>5. ASSUME end = "ok", NEW m \in Needs(u)
        PROVE  Good(m)
    <3>1. Len(stack[t]) \in 2 .. Len(stack[t]) /\ Top(t) = stack[t][Len(stack[t])] /\ Top(t) \in Frames
      BY <1>5, <2>1, TopFacts DEF Typed
    <3>2. Met(t, Len(stack[t]))
      BY <2>1, <2>5, <3>1 DEF LoaderInv, ThreadOK, Progress, Hopeful
    <3>3. m \in ToLoad(Top(t)) \/ Good(m)
      BY <3>1, <3>2 DEF Met
    <3>4. Top(t) = [url |-> u, todo |-> <<>>]
      BY <2>3, <2>5, <3>1 DEF Frames, Items
    <3>5. ToLoad(Top(t)) = {}
      BY <3>4, NothingToLoad
    <3> QED
      BY <3>3, <3>5
  <2> HIDE DEF u, end
  <2>6. /\ u \in DOMAIN Results /\ DOMAIN Results = DOMAIN cache /\ Results[u].state = "loading"
        /\ Results[u].needs = Needs(u)
    BY <1>3, <2>2
  <2>7. end = "ok" => \A m \in Needs(u) : m \in DOMAIN Results /\ Results[m].state = "ok"
    BY <1>3, <2>5 DEF Good
  <2>8. Results' = [Results EXCEPT ![u].state = end]
    <3> DEFINE R == [Results EXCEPT ![u].state = end]
    <3>1. DOMAIN R = DOMAIN cache /\ DOMAIN Results' = DOMAIN cache
      BY <1>3, <1>4, <2>4
    <3>2. \A k \in DOMAIN cache : R[k] = Results'[k]
      BY <1>3, <1>4, <2>2, <2>4
    <3>3. R = [k \in DOMAIN cache |-> R[k]] /\ Results' = [k \in DOMAIN cache |-> Results'[k]]
      BY <1>3, <1>4, <2>4
    <3> HIDE DEF R
    <3>4. Results' = R
      BY <3>2, <3>3
    <3> QED
      BY <3>4 DEF R
  <2> QED
    BY <2>3, <2>6, <2>7, <2>8 DEF Once!Finish
<1>9. ASSUME NEW t \in Threads, Own(t)
      PROVE  UNCHANGED Results
  <2>1. Len(stack[t]) > 1
    BY <1>5, <1>9 DEF Typed, Known, Own
  <2>2. /\ DOMAIN cache' = DOMAIN cache
        /\ \A k \in DOMAIN cache : /\ cache'[k].ready = cache[k].ready
                                   /\ cache'[k].result = cache[k].result
    BY <1>5, <1>9, <2>1, TopLoading, OwnDoes
  <2> QED
    BY <1>6, <2>2
<1>10. ASSUME NEW t \in Threads, Result(t)
       PROVE  UNCHANGED Results
  <2>1. Len(stack[t]) > 1
    BY <1>10 DEF Result
  <2>2. Top(t).url \in DOMAIN cache /\ ~cache[Top(t).url].ready
    BY <2>1, TopLoading
  <2>3. /\ DOMAIN cache' = DOMAIN cache
        /\ \A k \in DOMAIN cache : /\ cache'[k].ready = cache[k].ready
                                   /\ k # Top(t).url => cache'[k] = cache[k]
    BY <1>5, <1>10, <2>2, ResultDoes
  <2> QED
    BY <1>6, <2>2, <2>3
<1>11. ASSUME UNCHANGED cache
       PROVE  UNCHANGED Results
  BY <1>6, <1>11
<1>12. ASSUME NEW t \in Threads, Step(t)
       PROVE  Once!Begin \/ Once!Finish \/ UNCHANGED Results
  <2>1. CASE First(t)
    BY <1>7, <2>1
  <2>2. CASE Close(t)
    BY <1>8, <2>2
  <2>3. CASE Own(t)
    BY <1>9, <2>3
  <2>4. CASE Result(t)
    BY <1>10, <2>4
  <2>5. CASE ~(First(t) \/ Close(t) \/ Own(t) \/ Result(t))
    <3>1. UNCHANGED cache
      BY <1>12, <2>5 DEF Step, Load, LoadFile, End, Found, Open, CheckOwner, CheckWaits, Wait, Wake
    <3> QED
      BY <1>11, <3>1
  <2> QED
    BY <2>1, <2>2, <2>3, <2>4, <2>5
<1> QED
  BY <1>11, <1>12 DEF Next, vars, Once!OnceNext

\* The cache implements LoadOnce: however the threads that share it
\* interleave, whatever the scripts load and however requests fail, a module
\* is loaded once, is good only after everything it needs was, and keeps its
\* result (modCache.get).
THEOREM LoadedOnce == Spec => ImplementsLoadOnce
<1>1. Init => Once!OnceInit
  BY DEF Init, Results, Once!OnceInit
<1>2. LoaderInv /\ [Next]_vars => [Once!OnceNext]_Results
  BY OnceStep
<1> QED
  BY <1>1, <1>2, LoaderAlways, PTL DEF Spec, ImplementsLoadOnce, Once!OnceSpec

-----------------------------------------------------------------------------
(* What loading comes to: sets of modules that are good, and at fault.     *)

\* While the files stay, so does what a script comes to.
LEMMA SameScripts ==
    ASSUME world' = world
    PROVE  /\ \A t : Main(t)' = Main(t)
           /\ \A l : ItemsOf(l)' = ItemsOf(l)
           /\ \A u : ModOpen(Locations, u)' = ModOpen(Locations, u)
           /\ \A u, i, good : Fine(u, i, good)' <=> Fine(u, i, good)
           /\ \A u, good : Runs(u, good)' <=> Runs(u, good)
           /\ \A t, good : ScriptRuns(t, good)' <=> ScriptRuns(t, good)
<1>1. Locations' = Locations
  BY DEF Locations
<1>2. \A l : ItemsOf(l)' = ItemsOf(l)
  BY DEF ItemsOf
<1>3. \A u, i, good : Fine(u, i, good)' <=> Fine(u, i, good)
  BY <1>1 DEF Fine
<1>4. \A t : Main(t)' = Main(t)
  BY DEF Main
<1>5. \A u : ModOpen(Locations, u)' = ModOpen(Locations, u)
  BY <1>1
<1>6. \A u, good : Runs(u, good)' <=> Runs(u, good)
  BY <1>1, <1>2, <1>3 DEF Runs
<1>7. \A t, good : ScriptRuns(t, good)' <=> ScriptRuns(t, good)
  BY <1>2, <1>3, <1>4 DEF ScriptRuns
<1> QED
  BY <1>2, <1>3, <1>4, <1>5, <1>6, <1>7

\* What works with some modules works with more of them.
LEMMA FineMore ==
    ASSUME NEW u, NEW i, NEW good, NEW more, good \subseteq more, Fine(u, i, good)
    PROVE  Fine(u, i, more)
BY DEF Fine

LEMMA RunsMore ==
    ASSUME NEW u, NEW good, NEW more, good \subseteq more, Runs(u, good)
    PROVE  Runs(u, more)
BY FineMore DEF Runs

LEMMA ScriptRunsMore ==
    ASSUME NEW t, NEW good, NEW more, good \subseteq more, ScriptRuns(t, good)
    PROVE  ScriptRuns(t, more)
BY FineMore DEF ScriptRuns

\* A module that loads only good modules is good.
LEMMA SoundUp ==
    ASSUME NEW k \in DOMAIN cache, Runs(k, SoundModules)
    PROVE  Sound(k)
<1> SUFFICES ASSUME NEW S \in SUBSET DOMAIN cache,
                    \A m \in DOMAIN cache : Runs(m, S) => m \in S
             PROVE  k \in S
  BY DEF Sound
<1>1. SoundModules \subseteq S
  BY DEF SoundModules, Sound
<1> QED
  BY <1>1, RunsMore

\* A module that is good stays good, as more of them are asked for.
LEMMA SoundStays ==
    ASSUME world' = world, DOMAIN cache \subseteq DOMAIN cache', NEW k, Sound(k)
    PROVE  Sound(k)'
<1> SUFFICES ASSUME NEW S \in SUBSET DOMAIN cache',
                    \A m \in DOMAIN cache' : Runs(m, S) => m \in S
             PROVE  k \in S
  BY SameScripts DEF Sound
<1> DEFINE T == S \cap DOMAIN cache
<1>1. ASSUME NEW m \in DOMAIN cache, Runs(m, T)
      PROVE  m \in T
  <2>1. T \subseteq S
    OBVIOUS
  <2> HIDE DEF T
  <2>2. Runs(m, S)
    BY <1>1, <2>1, RunsMore
  <2> QED
    BY <2>2 DEF T
<1>2. T \in SUBSET DOMAIN cache
  OBVIOUS
<1> HIDE DEF T
<1>3. k \in T
  BY <1>1, <1>2 DEF Sound
<1> QED
  BY <1>3 DEF T

LEMMA SoundModulesGrow ==
    ASSUME world' = world, DOMAIN cache \subseteq DOMAIN cache'
    PROVE  SoundModules \subseteq SoundModules'
BY SoundStays DEF SoundModules

\* A module at fault stays at fault, and puts those that load it at fault.
LEMMA BrokenStays ==
    ASSUME world' = world, DOMAIN cache \subseteq DOMAIN cache', NEW k, Broken(k)
    PROVE  Broken(k)'
<1>1. PICK B \in SUBSET DOMAIN cache : k \in B /\ \A m \in B : ~Runs(m, URLs \ B)
  BY DEF Broken
<1>2. \A m \in B : ~Runs(m, URLs \ B)'
  BY <1>1, SameScripts
<1> QED
  BY <1>1, <1>2 DEF Broken

LEMMA BrokenModulesGrow ==
    ASSUME world' = world, DOMAIN cache \subseteq DOMAIN cache'
    PROVE  BrokenModules \subseteq BrokenModules'
BY BrokenStays DEF BrokenModules

\* A module that does not run whatever it loads is at fault.
LEMMA BrokenAlone ==
    ASSUME NEW k \in DOMAIN cache, ~Runs(k, URLs)
    PROVE  Broken(k)
<1> DEFINE B == {k}
<1>1. B \in SUBSET DOMAIN cache /\ k \in B /\ URLs \ B \subseteq URLs
  OBVIOUS
<1>2. \A m \in B : m = k
  OBVIOUS
<1> HIDE DEF B, URLs
<1>3. \A m \in B : ~Runs(m, URLs \ B)
  BY <1>1, <1>2, RunsMore
<1> QED
  BY <1>1, <1>3 DEF Broken

\* An import that names a module of a set is not fine without the set.
LEMMA NotFine ==
    ASSUME NEW u, NEW x, NEW B, x.op = "load", resolveModuleName(u, x.name) \in B
    PROVE  ~Fine(u, x, URLs \ B)
<1> HIDE DEF URLs
<1> QED
  BY DEF Fine

LEMMA BrokenUp ==
    ASSUME NEW k \in DOMAIN cache, NEW x \in ItemsOf(ModOpen(Locations, k)), x.op = "load",
           Broken(resolveModuleName(k, x.name))
    PROVE  Broken(k)
<1> DEFINE n == resolveModuleName(k, x.name)
<1>1. PICK B \in SUBSET DOMAIN cache : n \in B /\ \A m \in B : ~Runs(m, URLs \ B)
  BY DEF Broken
<1> DEFINE C == B \cup {k}
<1>2. C \in SUBSET DOMAIN cache /\ k \in C /\ n \in C /\ URLs \ C \subseteq URLs \ B
  BY <1>1
<1>3. \A m \in C : m \in B \/ m = k
  OBVIOUS
<1> HIDE DEF C, URLs
<1>4. ~Fine(k, x, URLs \ C)
  BY <1>2, NotFine
<1>5. ~Runs(k, URLs \ C)
  BY <1>4 DEF Runs
<1>6. \A m \in B : ~Runs(m, URLs \ C)
  BY <1>1, <1>2, RunsMore
<1>7. \A m \in C : ~Runs(m, URLs \ C)
  BY <1>3, <1>5, <1>6
<1> QED
  BY <1>2, <1>7 DEF Broken

\* No module is both: that it is at fault is more than that it is not good.
LEMMA SoundOrBroken ==
    ASSUME NEW k, DOMAIN cache \subseteq URLs, Sound(k)
    PROVE  ~Broken(k)
<1> SUFFICES ASSUME NEW B \in SUBSET DOMAIN cache, k \in B, \A m \in B : ~Runs(m, URLs \ B)
             PROVE  FALSE
  BY DEF Broken
<1> DEFINE S == DOMAIN cache \ B
<1>1. S \in SUBSET DOMAIN cache /\ S \subseteq URLs \ B /\ k \notin S
  OBVIOUS
<1>2. \A m \in DOMAIN cache : m \in B \/ m \in S
  OBVIOUS
<1> HIDE DEF S, URLs
<1>3. \A m \in DOMAIN cache : Runs(m, S) => m \in S
  BY <1>1, <1>2, RunsMore
<1>4. k \in S
  BY <1>1, <1>3 DEF Sound
<1> QED
  BY <1>1, <1>4

-----------------------------------------------------------------------------
(* Nothing is handed out that is broken somewhere below.                   *)

\* The file of script i of the stack.
Source(t, i) == IF i = 1 THEN Main(t) ELSE ModOpen(Locations, stack[t][i].url)

\* A script that has not failed.
Alive(t, i) == i < Len(stack[t]) \/ th[t].pc \in Running \cup {"done"}

\* A script does what its file says, one import after another ...
Listed(t) ==
    \A i \in 1 .. Len(stack[t]) : Range(stack[t][i].todo) \subseteq ItemsOf(Source(t, i))

\* ... and those it is past were fine.
Past(l, f) == \A x \in ItemsOf(l) : x \in Range(f.todo) \/ Fine(f.url, x, SoundModules)

Passed(t) ==
    \A i \in 1 .. Len(stack[t]) :
        Alive(t, i) => (i > 1 => ~Stops(Source(t, i))) /\ Past(Source(t, i), stack[t][i])

Ends(t) == th[t].pc = "done" => Len(stack[t]) = 1 /\ Items(t) = <<>>

ScriptOK(t) == stack[t][1].url = Main(t) /\ Listed(t) /\ Passed(t) /\ Ends(t)

OkSound == \A k \in DOMAIN cache : cache[k].result = "ok" => Sound(k)

ScriptInv == OkSound /\ \A t \in Threads : ScriptOK(t)

\* What holds of a thread holds while its scripts stay where they are.
LEMMA ScriptStays ==
    ASSUME TypedThreads, NEW t \in Threads, ScriptOK(t), stack'[t] = stack[t], world' = world,
           DOMAIN cache \subseteq DOMAIN cache',
           th'[t].pc \in Running \cup {"done"} => th[t].pc \in Running \cup {"done"},
           Ends(t)'
    PROVE  ScriptOK(t)'
<1>1. \A i : Source(t, i)' = Source(t, i)
  BY SameScripts DEF Source, Locations
<1>2. \A i \in 1 .. Len(stack[t]) : Alive(t, i)' => Alive(t, i)
  BY DEF Alive
<1>3. Listed(t)'
  BY <1>1, SameScripts DEF ScriptOK, Listed
<1>4. \A l, f : Past(l, f) => Past(l, f)'
  <2> TAKE l, f
  <2>1. \A x : Fine(f.url, x, SoundModules) => Fine(f.url, x, SoundModules')
    BY SoundModulesGrow, FineMore
  <2>2. \A x : Fine(f.url, x, SoundModules)' <=> Fine(f.url, x, SoundModules')
    BY DEF Fine, Locations
  <2> QED
    BY <2>1, <2>2, SameScripts DEF Past
<1>5. Passed(t)'
  <2> SUFFICES ASSUME NEW i \in 1 .. Len(stack[t]), Alive(t, i)'
               PROVE  (i > 1 => ~Stops(Source(t, i)')) /\ Past(Source(t, i), stack[t][i])'
    BY <1>1 DEF Passed
  <2>1. (i > 1 => ~Stops(Source(t, i))) /\ Past(Source(t, i), stack[t][i])
    BY <1>2 DEF ScriptOK, Passed
  <2> QED
    BY <1>1, <1>4, <2>1
<1>6. stack'[t][1].url = Main(t)'
  BY SameScripts DEF ScriptOK
<1> QED
  BY <1>3, <1>5, <1>6 DEF ScriptOK

\* What a list has in it.
LEMMA ListFacts ==
    ASSUME NEW todo \in Seq(ScriptItems), todo # <<>>
    PROVE  Range(todo) = {Head(todo)} \cup Range(Tail(todo))
<1>1. /\ Len(todo) \in Nat \ {0} /\ Head(todo) = todo[1] /\ Tail(todo) \in Seq(ScriptItems)
      /\ Len(Tail(todo)) = Len(todo) - 1
      /\ \A i \in 1 .. Len(Tail(todo)) : Tail(todo)[i] = todo[i + 1]
  <2> HIDE DEF ScriptItems
  <2> QED
    BY HeadTailProperties, LenProperties, EmptySeq
<1>2. Range(todo) = {todo[i] : i \in 1 .. Len(todo)}
  BY LenProperties DEF Range
<1>3. Range(Tail(todo)) = {Tail(todo)[i] : i \in 1 .. Len(Tail(todo))}
  BY <1>1, LenProperties DEF Range
<1>4. Range(todo) \subseteq {Head(todo)} \cup Range(Tail(todo))
  <2> SUFFICES ASSUME NEW i \in 1 .. Len(todo), todo[i] # Head(todo)
               PROVE  todo[i] \in Range(Tail(todo))
    BY <1>2
  <2>1. i - 1 \in 1 .. Len(Tail(todo)) /\ (i - 1) + 1 = i
    BY <1>1
  <2> QED
    BY <1>1, <1>3, <2>1
<1>5. {Head(todo)} \cup Range(Tail(todo)) \subseteq Range(todo)
  <2>1. Head(todo) \in Range(todo)
    BY <1>1, <1>2
  <2>2. ASSUME NEW i \in 1 .. Len(Tail(todo))
        PROVE  Tail(todo)[i] \in Range(todo)
    <3>1. i + 1 \in 1 .. Len(todo)
      BY <1>1
    <3> QED
      BY <1>1, <1>2, <3>1
  <2> QED
    BY <1>3, <2>1, <2>2
<1> QED
  BY <1>4, <1>5

LEMMA NothingInIt == Range(<<>>) = {}
BY DEF Range

\* A step that changes the topmost script, or has another one on top.
LEMMA TopScript ==
    ASSUME TypedThreads, NEW t \in Threads, ScriptOK(t), world' = world,
           DOMAIN cache \subseteq DOMAIN cache', NEW n \in Nat \ {0}, Len(stack'[t]) = n,
           \A i \in 1 .. n - 1 :
               i \in 1 .. Len(stack[t]) /\ Alive(t, i) /\ stack'[t][i] = stack[t][i],
           stack'[t][1].url = stack[t][1].url,
           Range(stack'[t][n].todo) \subseteq ItemsOf(Source(t, n)'),
           th'[t].pc \in Running =>
               (n > 1 => ~Stops(Source(t, n)')) /\ Past(Source(t, n)', stack'[t][n]),
           th'[t].pc # "done"
    PROVE  ScriptOK(t)'
<1>1. \A i \in 1 .. n - 1 : Source(t, i)' = Source(t, i)
  BY SameScripts DEF Source, Locations
<1>2. \A l, f : Past(l, f) => Past(l, f)'
  <2> TAKE l, f
  <2>1. \A x : Fine(f.url, x, SoundModules) => Fine(f.url, x, SoundModules')
    BY SoundModulesGrow, FineMore
  <2>2. \A x : Fine(f.url, x, SoundModules)' <=> Fine(f.url, x, SoundModules')
    BY DEF Fine, Locations
  <2> QED
    BY <2>1, <2>2, SameScripts DEF Past
<1>3. \A i \in 1 .. n : i \in 1 .. n - 1 \/ i = n
  OBVIOUS
<1>4. Listed(t)'
  <2> SUFFICES ASSUME NEW i \in 1 .. n
               PROVE  Range(stack'[t][i].todo) \subseteq ItemsOf(Source(t, i))'
    BY DEF Listed
  <2>1. CASE i \in 1 .. n - 1
    BY <1>1, <2>1, SameScripts DEF ScriptOK, Listed
  <2>2. CASE i = n
    BY <2>2, SameScripts
  <2> QED
    BY <1>3, <2>1, <2>2
<1>5. Passed(t)'
  <2> SUFFICES ASSUME NEW i \in 1 .. n, Alive(t, i)'
               PROVE  (i > 1 => ~Stops(Source(t, i)')) /\ Past(Source(t, i), stack[t][i])'
    BY DEF Passed
  <2>1. CASE i \in 1 .. n - 1
    <3>1. (i > 1 => ~Stops(Source(t, i))) /\ Past(Source(t, i), stack[t][i])
      BY <2>1 DEF ScriptOK, Passed
    <3> QED
      BY <1>1, <1>2, <2>1, <3>1
  <2>2. CASE i = n
    <3>1. th'[t].pc \in Running
      BY <2>2 DEF Alive
    <3> QED
      BY <1>2, <2>2, <3>1
  <2> QED
    BY <1>3, <2>1, <2>2
<1>6. stack'[t][1].url = Main(t)' /\ Ends(t)'
  BY SameScripts DEF ScriptOK, Ends
<1> QED
  BY <1>4, <1>5, <1>6 DEF ScriptOK

\* A step of a thread leaves the scripts of the others alone.
LEMMA ScriptNext ==
    ASSUME LoaderInv, ScriptInv, NEW t \in Threads, world' = world,
           DOMAIN cache \subseteq DOMAIN cache',
           \A o \in Threads \ {t} : stack'[o] = stack[o] /\ th'[o] = th[o],
           \A k \in DOMAIN cache' :
               cache'[k].result = "ok" => Sound(k) \/ (k \in DOMAIN cache /\ cache[k].result = "ok"),
           ScriptOK(t)'
    PROVE  ScriptInv'
<1>1. TypedThreads
  BY DEF LoaderInv, Typed
<1>2. OkSound'
  BY SoundStays DEF ScriptInv, OkSound
<1>3. ASSUME NEW o \in Threads \ {t}
      PROVE  ScriptOK(o)'
  <2>1. ScriptOK(o) /\ stack'[o] = stack[o] /\ th'[o] = th[o]
    BY DEF ScriptInv
  <2>2. Ends(o)'
    BY <2>1 DEF ScriptOK, Ends, Items, Top
  <2> QED
    BY <1>1, <2>1, <2>2, ScriptStays
<1> QED
  BY <1>2, <1>3 DEF ScriptInv

\* A step of a thread that leaves its scripts where they are.
LEMMA QuietScript ==
    ASSUME LoaderInv, ScriptInv, NEW t \in Threads, UNCHANGED <<world, stack>>,
           DOMAIN cache' = DOMAIN cache,
           \A o \in Threads \ {t} : th'[o] = th[o],
           \A k \in DOMAIN cache :
               cache'[k].result = "ok" => Sound(k) \/ cache[k].result = "ok",
           th'[t].pc \in Running \cup {"done"} => th[t].pc \in Running \cup {"done"},
           Ends(t)'
    PROVE  ScriptInv'
<1>1. TypedThreads /\ ScriptOK(t)
  BY DEF LoaderInv, Typed, ScriptInv
<1>2. ScriptOK(t)'
  BY <1>1, ScriptStays
<1> QED
  BY <1>2, ScriptNext

\* A script goes on after an import that is fine.
LEMMA AdvanceScript ==
    ASSUME LoaderInv, ScriptInv, NEW t \in Threads, UNCHANGED <<world, cache>>,
           \A o \in Threads \ {t} : th'[o] = th[o],
           Items(t) # <<>>, Advance(t), th[t].pc \in Running, th'[t].pc = "run",
           Fine(Top(t).url, Head(Items(t)), SoundModules)
    PROVE  ScriptInv'
<1>1. TypedThreads /\ ScriptOK(t)
  BY DEF LoaderInv, Typed, ScriptInv
<1>0. PICK n : n = Len(stack[t])
  OBVIOUS
<1> DEFINE l == Source(t, n)
           f == stack'[t][n]
<1>2. /\ \A o \in Threads \ {t} : stack'[o] = stack[o]
      /\ Len(stack'[t]) = n
      /\ \A i \in 1 .. n : i # n => stack'[t][i] = stack[t][i]
      /\ f.url = Top(t).url /\ f.todo = Tail(Items(t))
  BY <1>0, <1>1, AdvanceFacts
<1>3. /\ n \in Nat \ {0} /\ n = Len(stack[t]) /\ Top(t) = stack[t][n]
      /\ Items(t) \in Seq(ScriptItems)
  BY <1>0, <1>1, TopFacts
<1>4. Range(Items(t)) = {Head(Items(t))} \cup Range(Tail(Items(t)))
  BY <1>3, ListFacts
<1>5. Range(Items(t)) \subseteq ItemsOf(l)
  BY <1>1, <1>3 DEF ScriptOK, Listed, Items
<1>6. (n > 1 => ~Stops(l)) /\ Past(l, stack[t][n])
  BY <1>1, <1>3 DEF ScriptOK, Passed, Alive
<1>7. Past(l, f)
  BY <1>2, <1>3, <1>4, <1>6 DEF Past, Items
<1>8. Source(t, n)' = l
  BY <1>2, <1>3, SameScripts DEF Source, Locations
<1>9. \A i \in 1 .. n - 1 :
         i \in 1 .. Len(stack[t]) /\ Alive(t, i) /\ stack'[t][i] = stack[t][i]
  BY <1>2, <1>3 DEF Alive
<1>10. stack'[t][1].url = stack[t][1].url
  <2>1. 1 \in 1 .. n /\ (n = 1 \/ 1 # n)
    BY <1>3
  <2>2. CASE n = 1
    BY <1>2, <1>3, <2>2
  <2>3. CASE 1 # n
    BY <1>2, <2>1, <2>3
  <2> QED
    BY <2>2, <2>3
<1>11. Range(f.todo) \subseteq ItemsOf(l)
  BY <1>2, <1>4, <1>5
<1> HIDE DEF l, f
<1>12. ScriptOK(t)'
  <2>1. /\ Len(stack'[t]) = n /\ n \in Nat \ {0} /\ th'[t].pc # "done"
        /\ Range(stack'[t][n].todo) \subseteq ItemsOf(Source(t, n)')
        /\ (n > 1 => ~Stops(Source(t, n)')) /\ Past(Source(t, n)', stack'[t][n])
    BY <1>2, <1>3, <1>6, <1>7, <1>8, <1>11 DEF f
  <2> QED
    BY <1>1, <1>9, <1>10, <2>1, TopScript
<1> QED
  BY <1>2, <1>12, ScriptNext

\* A file that is read is there, or the script can do without.
LEMMA ReadFine ==
    ASSUME Typed, NEW t \in Threads, LoadFile(t), th' = th, NEW good
    PROVE  Fine(Top(t).url, Head(Items(t)), good)
<1> DEFINE i == Head(Items(t))
           f == builtInLoadFile(Locations, Top(t).url, i.name)
<1>1. th[t].pc = "run" /\ i.op = "loadFile"
  BY DEF LoadFile
<1>2. ASSUME NEW pc \in {"panicked", "failing"}, Goto(t, pc)
      PROVE  FALSE
  <2>1. pc \in Points /\ TypedThreads
    BY DEF Points, Typed
  <2>2. th'[t].pc = pc
    BY <1>2, <2>1, GotoFacts
  <2> QED
    BY <1>1, <2>2
<1>3. ~Stops(f) \/ (f = Missing /\ i.optional)
  BY <1>2 DEF LoadFile, Lose
<1> QED
  BY <1>1, <1>3 DEF Fine

LEMMA LoadFileScript ==
    ASSUME LoaderInv, ScriptInv, NEW t \in Threads, LoadFile(t)
    PROVE  ScriptInv'
<1>1. Typed
  BY DEF LoaderInv
<1>2. /\ th[t].pc = "run" /\ Items(t) # <<>>
      /\ \A o \in Threads \ {t} : th'[o] = th[o]
      /\ UNCHANGED <<world, cache, waits>>
  BY <1>1, LoadFileDoes
<1>3. CASE th'[t].pc \in {"panicked", "failing"} /\ UNCHANGED stack
  <2>1. th'[t].pc \notin Running \cup {"done"} /\ Ends(t)'
    BY <1>3 DEF Running, Asks, Ends
  <2> QED
    BY <1>2, <1>3, <2>1, QuietScript
<1>4. CASE th' = th /\ Advance(t)
  <2>1. Fine(Top(t).url, Head(Items(t)), SoundModules)
    BY <1>1, <1>4, ReadFine
  <2>2. th[t].pc \in Running /\ th'[t].pc = "run"
    BY <1>2, <1>4 DEF Running
  <2> QED
    BY <1>2, <1>4, <2>1, <2>2, AdvanceScript
<1> QED
  BY <1>1, <1>3, <1>4, LoadFileDoes

\* The module that was waited for is good.
LEMMA WakeScript ==
    ASSUME LoaderInv, ScriptInv, NEW t \in Threads, Wake(t)
    PROVE  ScriptInv'
<1>1. Typed /\ Asking(t)
  BY DEF LoaderInv, ThreadOK
<1>2. /\ \A o \in Threads \ {t} : th'[o] = th[o]
      /\ th[t].pc = "waiting" /\ th[t].want \in DOMAIN cache
      /\ UNCHANGED <<world, cache>>
  BY <1>1, WakeDoes
<1>3. CASE th'[t].pc = "failing" /\ UNCHANGED stack
  <2>1. th'[t].pc \notin Running \cup {"done"} /\ Ends(t)'
    BY <1>3 DEF Running, Asks, Ends
  <2> QED
    BY <1>2, <1>3, <2>1, QuietScript
<1>4. CASE th'[t].pc = "run" /\ cache[th[t].want].result = "ok" /\ Advance(t)
  <2>1. th[t].want \in SoundModules
    BY <1>2, <1>4 DEF ScriptInv, OkSound, SoundModules
  <2>2. /\ Items(t) # <<>> /\ Head(Items(t)).op = "load" /\ th[t].pc \in Running
        /\ th[t].want = resolveModuleName(Top(t).url, Head(Items(t)).name)
    BY <1>1, <1>2 DEF Asking, Asks, Running
  <2>3. Fine(Top(t).url, Head(Items(t)), SoundModules)
    BY <2>1, <2>2 DEF Fine
  <2> QED
    BY <1>2, <1>4, <2>2, <2>3, AdvanceScript
<1> QED
  BY <1>1, <1>3, <1>4, WakeDoes

LEMMA EndScript ==
    ASSUME LoaderInv, ScriptInv, NEW t \in Threads, End(t)
    PROVE  ScriptInv'
<1>1. Typed /\ TypedThreads
  BY DEF LoaderInv, Typed
<1>2. /\ \A o \in Threads \ {t} : th'[o] = th[o]
      /\ UNCHANGED <<world, cache, stack>>
  BY <1>1, EndDoes DEF OthersStay
<1>3. CASE th[t].pc = "run" /\ Items(t) = <<>> /\ Goto(t, "done")
  <2>1. th'[t].pc = "done"
    BY <1>1, <1>3, GotoFacts DEF Points
  <2>2. Ends(t)' /\ th[t].pc \in Running
    BY <1>2, <1>3 DEF End, Ends, Items, Top, Running
  <2> QED
    BY <1>2, <2>2, QuietScript
<1>4. CASE th[t].pc = "failing" /\ Goto(t, "failed")
  <2>1. th'[t].pc = "failed"
    BY <1>1, <1>4, GotoFacts DEF Points
  <2>2. Ends(t)' /\ th'[t].pc \notin Running \cup {"done"}
    BY <2>1 DEF Ends, Running, Asks
  <2> QED
    BY <1>2, <2>2, QuietScript
<1> QED
  BY <1>3, <1>4 DEF End

\* Looking for a module, and waiting for one.
LEMMA AskScript ==
    ASSUME LoaderInv, ScriptInv, NEW t \in Threads,
           Load(t) \/ Found(t) \/ CheckOwner(t) \/ CheckWaits(t) \/ Wait(t)
    PROVE  ScriptInv'
<1>1. Typed
  BY DEF LoaderInv
<1>2. /\ \A o \in Threads \ {t} : th'[o] = th[o]
      /\ UNCHANGED <<world, cache, stack>>
      /\ th'[t].pc # "done"
  BY <1>1, LoadDoes, FoundDoes, CheckOwnerDoes, CheckWaitsDoes, WaitDoes DEF OthersStay
<1>3. th[t].pc \in Running
  BY DEF Load, Found, CheckOwner, CheckWaits, Wait, Running, Asks
<1>4. Ends(t)'
  BY <1>2 DEF Ends
<1> QED
  BY <1>2, <1>3, <1>4, QuietScript

LEMMA FirstScript ==
    ASSUME LoaderInv, ScriptInv, NEW t \in Threads, First(t)
    PROVE  ScriptInv'
<1> DEFINE u == th[t].want
<1>1. Typed /\ TypedThreads /\ ScriptOK(t)
  BY DEF LoaderInv, Typed, ScriptInv
<1>0. PICK n : n = Len(stack[t]) + 1
  OBVIOUS
<1>2. /\ \A o \in Threads \ {t} : stack'[o] = stack[o] /\ th'[o] = th[o]
      /\ th[t].pc = "get" /\ th'[t].pc = "own"
      /\ Len(stack'[t]) = n
      /\ \A i \in 1 .. Len(stack[t]) : stack'[t][i] = stack[t][i]
      /\ DOMAIN cache \subseteq DOMAIN cache' /\ DOMAIN cache' = DOMAIN cache \cup {u}
      /\ \A k \in DOMAIN cache : cache'[k] = cache[k]
      /\ world' = world
  BY <1>0, <1>1, FirstDoes DEF OthersStay
<1>3. cache'[u].result = "none" /\ stack'[t][n].todo = <<>>
  <2>1. /\ u \notin DOMAIN cache
        /\ cache' = [k \in DOMAIN cache \cup {u} |->
                       IF k \in DOMAIN cache THEN cache[k]
                       ELSE [owner |-> {}, ready |-> FALSE, result |-> "none"]]
        /\ stack' = [stack EXCEPT ![t] = Append(@, Frame(u, <<>>))]
    BY DEF First
  <2>2. stack[t] \in Seq(Frames)
    BY <1>1, TopFacts
  <2>3. stack'[t] = Append(stack[t], Frame(u, <<>>))
    BY <1>1, <2>1 DEF TypedThreads
  <2>4. stack'[t][n] = Frame(u, <<>>)
    BY <1>0, <2>2, <2>3
  <2>5. stack'[t][n].todo = <<>>
    BY <2>4 DEF Frame
  <2>6. cache'[u].result = "none"
    BY <2>1
  <2> QED
    BY <2>5, <2>6
<1>4. n \in Nat \ {0} /\ n = Len(stack[t]) + 1 /\ 1 \in 1 .. Len(stack[t])
  BY <1>0, <1>1, TopFacts
<1>5. \A i \in 1 .. n - 1 :
         i \in 1 .. Len(stack[t]) /\ Alive(t, i) /\ stack'[t][i] = stack[t][i]
  BY <1>2, <1>4 DEF Alive, Running, Asks
<1>6. stack'[t][1].url = stack[t][1].url
  BY <1>2, <1>4
<1>7. Range(stack'[t][n].todo) \subseteq ItemsOf(Source(t, n)')
  BY <1>3, NothingInIt
<1>8. th'[t].pc \notin Running /\ th'[t].pc # "done"
  BY <1>2 DEF Running, Asks
<1> HIDE DEF u
<1>9. ScriptOK(t)'
  BY <1>1, <1>2, <1>4, <1>5, <1>6, <1>7, <1>8, TopScript
<1>10. \A k \in DOMAIN cache' :
          cache'[k].result = "ok" => k \in DOMAIN cache /\ cache[k].result = "ok"
  BY <1>2, <1>3
<1> QED
  BY <1>2, <1>9, <1>10, ScriptNext

LEMMA OwnScript ==
    ASSUME LoaderInv, ScriptInv, NEW t \in Threads, Own(t)
    PROVE  ScriptInv'
<1>1. Typed /\ Len(stack[t]) > 1
  BY DEF LoaderInv, Typed, Known, Own
<1>2. /\ \A o \in Threads \ {t} : th'[o] = th[o]
      /\ th'[t].pc = "open" /\ DOMAIN cache' = DOMAIN cache
      /\ \A k \in DOMAIN cache : cache'[k].result = cache[k].result
      /\ UNCHANGED <<world, stack>>
  BY <1>1, TopLoading, OwnDoes DEF OthersStay
<1>3. Ends(t)' /\ th'[t].pc \notin Running \cup {"done"}
  BY <1>2 DEF Ends, Running, Asks
<1> QED
  BY <1>2, <1>3, QuietScript

\* A script that starts has all its file says before it.
LEMMA OpenScript ==
    ASSUME LoaderInv, ScriptInv, NEW t \in Threads, Open(t)
    PROVE  ScriptInv'
<1> DEFINE l == ModOpen(Locations, Top(t).url)
<1>1. Typed /\ TypedThreads /\ ScriptOK(t)
  BY DEF LoaderInv, Typed, ScriptInv
<1>0. PICK n : n = Len(stack[t])
  OBVIOUS
<1>2. /\ \A o \in Threads \ {t} : th'[o] = th[o]
      /\ th[t].pc = "open" /\ UNCHANGED <<world, cache, waits>>
  BY <1>1, OpenDoes
<1>3. CASE th'[t].pc \in {"panicked", "failing"} /\ UNCHANGED stack
  <2>1. th'[t].pc \notin Running \cup {"done"} /\ Ends(t)'
    BY <1>3 DEF Running, Asks, Ends
  <2> QED
    BY <1>2, <1>3, <2>1, QuietScript
<1>4. CASE /\ th'[t].pc = "run" /\ ~Stops(l) /\ world.files[l] \in Seq(ScriptItems)
           /\ stack' = [stack EXCEPT ![t][Len(stack[t])].todo = world.files[l]]
  <2> DEFINE todo == world.files[l]
  <2>1. n \in Nat \ {0} /\ n > 1 /\ n = Len(stack[t]) /\ Top(t) = stack[t][n]
    BY <1>0, <1>1, <1>2, TopFacts DEF Typed, Known
  <2>2. /\ \A o \in Threads \ {t} : stack'[o] = stack[o]
        /\ Len(stack'[t]) = n
        /\ \A i \in 1 .. n : i # n => stack'[t][i] = stack[t][i]
        /\ stack'[t][n].url = Top(t).url /\ stack'[t][n].todo = todo
    <3>1. /\ todo \in Seq(ScriptItems)
          /\ stack' = [stack EXCEPT ![t][Len(stack[t])].todo = todo]
      BY <1>4
    <3> HIDE DEF todo, ScriptItems
    <3>2. /\ \A o \in Threads \ {t} : stack'[o] = stack[o]
          /\ Len(stack'[t]) = Len(stack[t])
          /\ \A i \in 1 .. Len(stack[t]) : i # Len(stack[t]) => stack'[t][i] = stack[t][i]
          /\ stack'[t][Len(stack[t])].url = Top(t).url
          /\ stack'[t][Len(stack[t])].todo = todo
      BY <1>1, <3>1, TopTodoFacts
    <3> QED
      BY <1>0, <3>2
  <2>3. Source(t, n)' = l
    BY <1>2, <2>1, <2>2 DEF Source, Locations
  <2>4. Range(todo) = ItemsOf(l)
    BY DEF Range, ItemsOf
  <2>5. \A i \in 1 .. n - 1 :
           i \in 1 .. Len(stack[t]) /\ Alive(t, i) /\ stack'[t][i] = stack[t][i]
    BY <2>1, <2>2 DEF Alive
  <2>6. 1 \in 1 .. n - 1
    BY <2>1
  <2>7. Past(l, stack'[t][n])
    BY <2>2, <2>4 DEF Past
  <2> HIDE DEF l, todo
  <2>8. /\ th'[t].pc # "done" /\ Range(stack'[t][n].todo) \subseteq ItemsOf(Source(t, n)')
        /\ ~Stops(Source(t, n)') /\ Past(Source(t, n)', stack'[t][n])
    BY <1>4, <2>2, <2>3, <2>4, <2>7
  <2>9. ScriptOK(t)'
    <3>1. stack'[t][1].url = stack[t][1].url
      BY <2>5, <2>6
    <3> QED
      BY <1>1, <1>2, <2>1, <2>2, <2>5, <2>8, <3>1, TopScript
  <2> QED
    BY <1>2, <2>2, <2>9, ScriptNext
<1> QED
  BY <1>1, <1>3, <1>4, OpenDoes

\* A module is good only after all it loads.
LEMMA ResultScript ==
    ASSUME LoaderInv, ScriptInv, NEW t \in Threads, Result(t)
    PROVE  ScriptInv'
<1> DEFINE u == Top(t).url
           n == Len(stack[t])
<1>1. Typed /\ TypedThreads /\ ScriptOK(t) /\ n > 1
  BY DEF LoaderInv, Typed, ScriptInv, Result
<1>2. u \in DOMAIN cache
  BY <1>1, TopLoading
<1>3. /\ \A o \in Threads \ {t} : th'[o] = th[o]
      /\ th'[t].pc = "close" /\ DOMAIN cache' = DOMAIN cache
      /\ \A k \in DOMAIN cache : k # u => cache'[k] = cache[k]
      /\ \/ cache'[u].result = "ok" /\ th[t].pc = "run" /\ Items(t) = <<>>
         \/ cache'[u].result = "failed"
      /\ UNCHANGED <<world, stack>>
  BY <1>1, <1>2, ResultDoes DEF OthersStay
<1>4. ASSUME th[t].pc = "run", Items(t) = <<>>
      PROVE  Sound(u)
  <2>1. n \in 2 .. n /\ n \in 1 .. n /\ Top(t) = stack[t][n]
    BY <1>1, TopFacts
  <2>2. Source(t, n) = ModOpen(Locations, u) /\ Alive(t, n)
    BY <1>4, <2>1 DEF Source, Alive, Running
  <2>3. ~Stops(ModOpen(Locations, u)) /\ Past(ModOpen(Locations, u), Top(t))
    BY <1>1, <2>1, <2>2 DEF ScriptOK, Passed
  <2>4. \A x \in ItemsOf(ModOpen(Locations, u)) : Fine(u, x, SoundModules)
    BY <1>4, <2>3, NothingInIt DEF Past, Items
  <2>5. Runs(u, SoundModules)
    BY <2>3, <2>4 DEF Runs
  <2> QED
    BY <1>2, <2>5, SoundUp
<1>5. \A k \in DOMAIN cache : cache'[k].result = "ok" => Sound(k) \/ cache[k].result = "ok"
  BY <1>3, <1>4
<1>6. Ends(t)' /\ th'[t].pc \notin Running \cup {"done"}
  BY <1>3 DEF Ends, Running, Asks
<1> QED
  BY <1>3, <1>5, <1>6, QuietScript

LEMMA CloseScript ==
    ASSUME LoaderInv, ScriptInv, NEW t \in Threads, Close(t)
    PROVE  ScriptInv'
<1> DEFINE u == Top(t).url
<1>1. Typed /\ TypedThreads /\ ScriptOK(t)
  BY DEF LoaderInv, Typed, ScriptInv
<1>2. PICK n \in Nat \ {0} : n + 1 = Len(stack[t])
  <2>1. Len(stack[t]) > 1 /\ Len(stack[t]) \in Nat
    BY <1>1, TopFacts DEF Typed, Known, Close
  <2>2. PICK m : m = Len(stack[t])
    OBVIOUS
  <2>3. m \in Nat /\ m > 1
    BY <2>1, <2>2
  <2>4. m - 1 \in Nat \ {0} /\ (m - 1) + 1 = m
    BY <2>3
  <2> QED
    BY <2>2, <2>4
<1> DEFINE old == stack[t][n]
           f == stack'[t][n]
           l == Source(t, n)
<1>3. u \in DOMAIN cache
  BY <1>2, TopLoading
<1>4. n = Len(stack[t]) - 1 /\ n \in 1 .. Len(stack[t]) - 1 /\ n \in 1 .. Len(stack[t])
  BY <1>2
<1>5. /\ old.todo # <<>> /\ Head(old.todo).op = "load"
      /\ u = resolveModuleName(old.url, Head(old.todo).name)
  <2>1. /\ old.todo # <<>> /\ Head(old.todo).op = "load"
        /\ stack[t][n + 1].url = resolveModuleName(old.url, Head(old.todo).name)
    BY <1>4 DEF LoaderInv, ThreadOK, Asked
  <2> QED
    BY <1>1, <1>2, <2>1, TopFacts
<1>6. old.todo \in Seq(ScriptItems)
  BY <1>1, <1>4, TopFacts
<1>7. /\ \A o \in Threads \ {t} : stack'[o] = stack[o] /\ th'[o] = th[o]
      /\ Len(stack'[t]) = n
      /\ \A i \in 1 .. n - 1 : stack'[t][i] = stack[t][i]
      /\ f.url = old.url
      /\ \/ cache[u].result = "ok" /\ th'[t].pc = "run" /\ f.todo = Tail(old.todo)
         \/ cache[u].result # "ok" /\ th'[t].pc = "failing"
      /\ DOMAIN cache' = DOMAIN cache
      /\ \A k \in DOMAIN cache : cache'[k].result = cache[k].result
      /\ UNCHANGED <<world, waits>>
  <2>1. stack[t][Len(stack[t]) - 1].todo # <<>>
    BY <1>4, <1>5
  <2>2. n - 1 = Len(stack[t]) - 2
    BY <1>2
  <2>3. /\ \A o \in Threads \ {t} : stack'[o] = stack[o] /\ th'[o] = th[o]
        /\ DOMAIN cache' = DOMAIN cache
        /\ \A k \in DOMAIN cache : cache'[k].result = cache[k].result
        /\ UNCHANGED <<world, waits>>
    BY <1>1, <1>3, <2>1, CloseDoes DEF OthersStay
  <2>4. /\ Len(stack'[t]) = Len(stack[t]) - 1
        /\ \A i \in 1 .. Len(stack[t]) - 2 : stack'[t][i] = stack[t][i]
        /\ stack'[t][Len(stack[t]) - 1].url = stack[t][Len(stack[t]) - 1].url
        /\ \/ /\ cache[u].result = "ok" /\ th'[t].pc = "run"
              /\ stack'[t][Len(stack[t]) - 1].todo = Tail(stack[t][Len(stack[t]) - 1].todo)
           \/ cache[u].result # "ok" /\ th'[t].pc = "failing"
    BY <1>1, <1>3, <2>1, CloseDoes
  <2> QED
    BY <1>4, <2>2, <2>3, <2>4
<1>8. Range(old.todo) = {Head(old.todo)} \cup Range(Tail(old.todo))
  BY <1>5, <1>6, ListFacts
<1>9. Range(old.todo) \subseteq ItemsOf(l)
  BY <1>1, <1>4 DEF ScriptOK, Listed
<1>10. (n > 1 => ~Stops(l)) /\ Past(l, old)
  <2>1. Alive(t, n)
    BY <1>2 DEF Alive
  <2> QED
    BY <1>1, <1>4, <2>1 DEF ScriptOK, Passed
<1>11. stack'[t][1].url = stack[t][1].url
  <2>1. CASE n = 1
    BY <1>7, <2>1
  <2>2. CASE n # 1
    <3>1. 1 \in 1 .. n - 1
      BY <2>2
    <3> QED
      BY <1>7, <3>1
  <2> QED
    BY <2>1, <2>2
<1>12. Source(t, n)' = l
  BY <1>7, SameScripts DEF Source, Locations
<1>13. \A i \in 1 .. n - 1 :
          i \in 1 .. Len(stack[t]) /\ Alive(t, i) /\ stack'[t][i] = stack[t][i]
  BY <1>2, <1>7 DEF Alive
<1>14. CASE cache[u].result = "ok" /\ th'[t].pc = "run" /\ f.todo = Tail(old.todo)
  <2>1. u \in SoundModules
    BY <1>3, <1>14 DEF ScriptInv, OkSound, SoundModules
  <2>2. Fine(old.url, Head(old.todo), SoundModules)
    BY <1>5, <2>1 DEF Fine
  <2>3. Past(l, f)
    BY <1>7, <1>8, <1>10, <1>14, <2>2 DEF Past
  <2>4. Range(f.todo) \subseteq ItemsOf(l)
    BY <1>8, <1>9, <1>14
  <2> HIDE DEF l, u, old
  <2>5. /\ th'[t].pc # "done" /\ Range(stack'[t][n].todo) \subseteq ItemsOf(Source(t, n)')
        /\ (n > 1 => ~Stops(Source(t, n)')) /\ Past(Source(t, n)', stack'[t][n])
    BY <1>10, <1>12, <1>14, <2>3, <2>4
  <2> HIDE DEF f
  <2>6. ScriptOK(t)'
    BY <1>1, <1>7, <1>11, <1>13, <2>5, TopScript
  <2> QED
    BY <1>7, <2>6, ScriptNext
<1>15. CASE cache[u].result # "ok" /\ th'[t].pc = "failing"
  <2>1. f = old
    <3>1. stack' = [stack EXCEPT ![t] = SubSeq(stack[t], 1, n)]
      BY <1>4, <1>15 DEF Close
    <3>2. stack[t] \in Seq(Frames) /\ n \in 1 .. n
      BY <1>1, <1>2, TopFacts
    <3>3. stack'[t] = SubSeq(stack[t], 1, n)
      BY <1>1, <3>1 DEF TypedThreads
    <3>4. SubSeq(stack[t], 1, Len(stack[t]) - 1)[n] = stack[t][n]
      BY <1>4, <3>2, PopFacts
    <3> QED
      BY <1>4, <3>3, <3>4
  <2> HIDE DEF l, u, old
  <2>2. /\ th'[t].pc # "done" /\ th'[t].pc \notin Running
        /\ Range(stack'[t][n].todo) \subseteq ItemsOf(Source(t, n)')
    BY <1>9, <1>12, <1>15, <2>1 DEF Running, Asks
  <2> HIDE DEF f
  <2>3. ScriptOK(t)'
    BY <1>1, <1>7, <1>11, <1>13, <2>2, TopScript
  <2> QED
    BY <1>7, <2>3, ScriptNext
<1> QED
  BY <1>7, <1>14, <1>15

LEMMA ScriptInit ==
    ASSUME Init
    PROVE  ScriptInv
<1>1. OkSound
  BY DEF Init, OkSound
<1>2. ASSUME NEW t \in Threads
      PROVE  ScriptOK(t)
  <2>1. /\ stack[t] = <<Frame(Main(t), world.files[Main(t)])>> /\ th[t].pc = "run"
        /\ stack[t][1].url = Main(t) /\ stack[t][1].todo = world.files[Main(t)]
        /\ Len(stack[t]) = 1 /\ \A i \in 1 .. 1 : i = 1
    BY DEF Init, Frame
  <2>2. Range(world.files[Main(t)]) = ItemsOf(Main(t))
    BY DEF Range, ItemsOf
  <2>3. Source(t, 1) = Main(t)
    BY DEF Source
  <2>4. Listed(t) /\ Passed(t)
    BY <2>1, <2>2, <2>3 DEF Listed, Passed, Past
  <2> QED
    BY <2>1, <2>4 DEF ScriptOK, Ends
<1> QED
  BY <1>1, <1>2 DEF ScriptInv

LEMMA ScriptAlways == Spec => []ScriptInv
<1>1. ASSUME LoaderInv, ScriptInv, [Next]_vars
      PROVE  ScriptInv'
  <2>1. CASE UNCHANGED vars
    <3>1. TypedThreads /\ UNCHANGED <<world, cache, stack, th>>
      BY <1>1, <2>1 DEF LoaderInv, Typed, vars
    <3>2. ASSUME NEW t \in Threads
          PROVE  ScriptOK(t)'
      <4>1. ScriptOK(t)
        BY <1>1 DEF ScriptInv
      <4>2. Ends(t)'
        BY <3>1, <4>1 DEF ScriptOK, Ends, Items, Top
      <4> QED
        BY <3>1, <4>1, <4>2, ScriptStays
    <3>3. OkSound'
      BY <1>1, <3>1, SoundStays DEF ScriptInv, OkSound
    <3> QED
      BY <3>2, <3>3 DEF ScriptInv
  <2>2. ASSUME NEW t \in Threads, Step(t)
        PROVE  ScriptInv'
    BY <1>1, <2>2, AskScript, LoadFileScript, EndScript, FirstScript, OwnScript, OpenScript,
       ResultScript, CloseScript, WakeScript DEF Step
  <2> QED
    BY <1>1, <2>1, <2>2 DEF Next
<1> QED
  BY <1>1, ScriptInit, LoaderAlways, PTL DEF Spec

-----------------------------------------------------------------------------
(* A thread that has the cache for itself waits for nobody.                *)

\* Only thread t has anything to load.
Sole(t) == \A o \in Threads \ {t} : world.files[Main(o)] = <<>>

Idle(t) ==
    \A o \in Threads \ {t} :
        Len(stack[o]) = 1 /\ Items(o) = <<>> /\ th[o].pc \in {"run", "done"}

\* An entry is filled, or t is in the middle of it, and owns it but for the
\* first step and the last.
Held(t) ==
    \A k \in DOMAIN cache :
        \/ cache[k].ready /\ cache[k].owner = {}
        \/ \E i \in 2 .. Len(stack[t]) :
              /\ stack[t][i].url = k
              /\ cache[k].owner = IF i = Len(stack[t]) /\ th[t].pc \in {"own", "close"}
                                  THEN {} ELSE {Me(t)}

\* Its checks look no further than at the module it asks for.
Looks(t) == th[t].pc # "checkWaits" /\ (th[t].pc = "checkOwner" => th[t].at = th[t].want)

Sure(t) == th[t].pc \in {"wait", "waiting"} => cache[th[t].want].ready

SoleOK(t) == Idle(t) /\ Held(t) /\ Looks(t) /\ Sure(t)

\* An entry that is not filled is being loaded.
Taken ==
    \A k \in DOMAIN cache :
        cache[k].ready \/ \E t \in Threads : \E i \in 2 .. Len(stack[t]) : stack[t][i].url = k

SoleInv == Taken /\ \A t \in Threads : Sole(t) => SoleOK(t)

\* The cycleChecker of a thread is another only after a load of the main
\* script.
LEMMA MeStays ==
    ASSUME LoaderInv, NEW t \in Threads, NEW o \in Threads, Step(t),
           Load(t) => Len(stack[t]) # 1
    PROVE  Me(o)' = Me(o)
<1>1. th \in [Threads -> Places]
  BY DEF LoaderInv, Typed, TypedThreads
<1>2. ASSUME NEW pc, Goto(t, pc)
      PROVE  th'[o].loads = th[o].loads
  <2>1. th' = [th EXCEPT ![t] = [th[t] EXCEPT !.pc = pc]] /\ th[t] \in Places
    BY <1>1, <1>2 DEF Goto
  <2>2. [th[t] EXCEPT !.pc = pc].loads = th[t].loads
    BY <2>1 DEF Places
  <2> HIDE DEF Places
  <2> QED
    BY <1>1, <2>1, <2>2
<1>3. ASSUME NEW p, p.loads = th[t].loads, th' = [th EXCEPT ![t] = p]
      PROVE  th'[o].loads = th[o].loads
  <2> HIDE DEF Places
  <2> QED
    BY <1>1, <1>3
<1>4. th[t] \in Places
  BY <1>1
<1>5. CASE Load(t)
  <2> DEFINE u == resolveModuleName(Top(t).url, Head(Items(t)).name)
             pc == IF Stops(u) THEN "panicked" ELSE "get"
             q == [th[t] EXCEPT !.pc = pc, !.want = u, !.loads = th[t].loads]
  <2>1. th' = [th EXCEPT ![t] = q]
    BY <1>5 DEF Load
  <2> HIDE DEF u, pc
  <2>2. q.loads = th[t].loads
    BY <1>4 DEF Places
  <2> HIDE DEF q
  <2>3. th'[o].loads = th[o].loads
    BY <1>3, <2>1, <2>2
  <2> QED
    BY <2>3 DEF Me
<1>6. CASE Found(t)
  <2> DEFINE q == [th[t] EXCEPT !.pc = "checkOwner", !.at = th[t].want]
  <2>1. th' = [th EXCEPT ![t] = q]
    BY <1>6 DEF Found
  <2>2. q.loads = th[t].loads
    BY <1>4 DEF Places
  <2> HIDE DEF q
  <2>3. th'[o].loads = th[o].loads
    BY <1>3, <2>1, <2>2
  <2> QED
    BY <2>3 DEF Me
<1>7. CASE CheckOwner(t)
  <2> DEFINE e == cache[th[t].at].owner
             pc == IF e = {} THEN "wait" ELSE IF e = {Me(t)} THEN "failing" ELSE "checkWaits"
             q == [th[t] EXCEPT !.pc = pc, !.holder = e]
  <2>1. th' = [th EXCEPT ![t] = q]
    BY <1>7 DEF CheckOwner
  <2> HIDE DEF e, pc
  <2>2. q.loads = th[t].loads
    BY <1>4 DEF Places
  <2> HIDE DEF q
  <2>3. th'[o].loads = th[o].loads
    BY <1>3, <2>1, <2>2
  <2> QED
    BY <2>3 DEF Me
<1>8. CASE CheckWaits(t)
  <2> DEFINE cc == CHOOSE c \in th[t].holder : TRUE
             e == IF Me(cc[1]) = cc THEN waits[cc[1]] ELSE {}
             pc == IF e = {} THEN "wait" ELSE "checkOwner"
             at == IF e = {} THEN th[t].at ELSE CHOOSE k \in e : TRUE
             q == [th[t] EXCEPT !.pc = pc, !.at = at]
  <2>1. th' = [th EXCEPT ![t] = q]
    BY <1>8 DEF CheckWaits
  <2> HIDE DEF cc, e, pc, at
  <2>2. q.loads = th[t].loads
    BY <1>4 DEF Places
  <2> HIDE DEF q
  <2>3. th'[o].loads = th[o].loads
    BY <1>3, <2>1, <2>2
  <2> QED
    BY <2>3 DEF Me
<1>9. CASE ~(Load(t) \/ Found(t) \/ CheckOwner(t) \/ CheckWaits(t))
  <2>1. UNCHANGED th \/ \E pc : Goto(t, pc)
    BY <1>9 DEF Step, LoadFile, Lose, End, First, Own, Open, Result, Close, Wait, Wake
  <2> QED
    BY <1>2, <2>1 DEF Me
<1> QED
  BY <1>5, <1>6, <1>7, <1>8, <1>9

\* Only a module that gets its entry, and one that is loaded, change which
\* scripts are on the stacks, and which entries are filled.
LEMMA ShapeStays ==
    ASSUME LoaderInv, NEW t \in Threads, Step(t), ~First(t), ~Close(t)
    PROVE  /\ \A o \in Threads : Len(stack'[o]) = Len(stack[o])
           /\ \A o \in Threads : \A i \in 1 .. Len(stack[o]) :
                 stack'[o][i].url = stack[o][i].url
           /\ DOMAIN cache' = DOMAIN cache
           /\ \A k \in DOMAIN cache : cache'[k].ready = cache[k].ready
<1>1. Typed /\ TypedThreads
  BY DEF LoaderInv, Typed
<1>2. CASE Own(t)
  <2>1. Len(stack[t]) > 1
    BY <1>1, <1>2 DEF Typed, Known, Own
  <2> QED
    BY <1>1, <1>2, <2>1, TopLoading, OwnDoes
<1>3. CASE Result(t)
  <2>1. Len(stack[t]) > 1
    BY <1>3 DEF Result
  <2> QED
    BY <1>1, <1>3, <2>1, TopLoading, ResultDoes
<1>4. ASSUME NEW todo \in Seq(ScriptItems), UNCHANGED cache,
             stack' = [stack EXCEPT ![t][Len(stack[t])].todo = todo]
      PROVE  /\ \A o \in Threads : Len(stack'[o]) = Len(stack[o])
             /\ \A o \in Threads : \A i \in 1 .. Len(stack[o]) :
                   stack'[o][i].url = stack[o][i].url
  <2>1. /\ \A o \in Threads \ {t} : stack'[o] = stack[o]
        /\ Len(stack'[t]) = Len(stack[t])
        /\ \A i \in 1 .. Len(stack[t]) : i # Len(stack[t]) => stack'[t][i] = stack[t][i]
        /\ stack'[t][Len(stack[t])].url = Top(t).url
    BY <1>1, <1>4, TopTodoFacts
  <2> QED
    BY <2>1 DEF Top
<1>5. CASE LoadFile(t) \/ Wake(t)
  <2>1. UNCHANGED cache /\ (UNCHANGED stack \/ (Items(t) # <<>> /\ Advance(t)))
    <3>1. CASE LoadFile(t)
      BY <1>1, <3>1, LoadFileDoes
    <3>2. CASE Wake(t)
      <4>1. Asking(t) /\ th[t].pc \in Asks
        BY <3>2 DEF LoaderInv, ThreadOK, Wake, Asks
      <4> QED
        BY <1>1, <3>2, <4>1, WakeDoes DEF Asking
    <3> QED
      BY <1>5, <3>1, <3>2
  <2>2. CASE UNCHANGED stack
    BY <2>1, <2>2
  <2>3. CASE Items(t) # <<>> /\ Advance(t)
    <3> DEFINE todo == Tail(Items(t))
    <3>1. todo \in Seq(ScriptItems) /\ stack' = [stack EXCEPT ![t][Len(stack[t])].todo = todo]
      BY <1>1, <2>3, TopFacts DEF Advance, Items, Top
    <3> HIDE DEF todo
    <3> QED
      BY <1>4, <2>1, <3>1
  <2> QED
    BY <2>1, <2>2, <2>3
<1>6. CASE Open(t)
  <2> DEFINE todo == world.files[ModOpen(Locations, Top(t).url)]
  <2>1. /\ UNCHANGED cache
        /\ \/ UNCHANGED stack
           \/ /\ todo \in Seq(ScriptItems)
              /\ stack' = [stack EXCEPT ![t][Len(stack[t])].todo = todo]
    BY <1>1, <1>6, OpenDoes
  <2> HIDE DEF todo
  <2>2. CASE UNCHANGED stack
    BY <2>1, <2>2
  <2> QED
    BY <1>4, <2>1, <2>2
<1>7. CASE Load(t) \/ End(t) \/ Found(t) \/ CheckOwner(t) \/ CheckWaits(t) \/ Wait(t)
  BY <1>7 DEF Load, End, Found, CheckOwner, CheckWaits, Wait
<1> QED
  BY <1>2, <1>3, <1>5, <1>6, <1>7 DEF Step

\* What First and Close do to the stacks.
LEMMA FirstShape ==
    ASSUME LoaderInv, NEW t \in Threads, First(t)
    PROVE  /\ \A o \in Threads \ {t} : stack'[o] = stack[o] /\ th'[o] = th[o]
           /\ th[t].pc = "get" /\ th'[t].pc = "own"
           /\ Len(stack[t]) \in Nat \ {0} /\ Len(stack'[t]) = Len(stack[t]) + 1
           /\ \A i \in 1 .. Len(stack[t]) : stack'[t][i].url = stack[t][i].url
           /\ stack'[t][Len(stack[t]) + 1].url = th[t].want
           /\ th[t].want \notin DOMAIN cache
           /\ DOMAIN cache' = DOMAIN cache \cup {th[t].want}
           /\ \A k \in DOMAIN cache : cache'[k] = cache[k]
           /\ ~cache'[th[t].want].ready /\ cache'[th[t].want].owner = {}
           /\ cache'[th[t].want].result = "none" /\ world' = world
<1>1. Typed /\ TypedThreads
  BY DEF LoaderInv, Typed
<1>2. /\ cache'[th[t].want].owner = {} /\ cache'[th[t].want].result = "none"
  <2>1. cache'[th[t].want] = [owner |-> {}, ready |-> FALSE, result |-> "none"]
    BY DEF First
  <2> QED
    BY <2>1
<1>3. Len(stack[t]) \in Nat \ {0}
  BY <1>1, TopFacts
<1>4. /\ \A o \in Threads \ {t} : stack'[o] = stack[o] /\ th'[o] = th[o]
      /\ th[t].pc = "get" /\ th'[t].pc = "own" /\ th[t].want \notin DOMAIN cache
      /\ DOMAIN cache' = DOMAIN cache \cup {th[t].want}
      /\ \A k \in DOMAIN cache : cache'[k] = cache[k]
      /\ ~cache'[th[t].want].ready /\ world' = world
  BY <1>1, FirstDoes DEF OthersStay
<1>5. /\ Len(stack'[t]) = Len(stack[t]) + 1
      /\ \A i \in 1 .. Len(stack[t]) : stack'[t][i].url = stack[t][i].url
      /\ stack'[t][Len(stack[t]) + 1].url = th[t].want
  BY <1>1, FirstDoes
<1> QED
  BY <1>2, <1>3, <1>4, <1>5

LEMMA CloseShape ==
    ASSUME LoaderInv, NEW t \in Threads, Close(t)
    PROVE  /\ \A o \in Threads \ {t} : stack'[o] = stack[o] /\ th'[o] = th[o]
           /\ th[t].pc = "close" /\ th'[t].pc \in {"run", "failing"}
           /\ th'[t].pc = "failing" => cache[Top(t).url].result = "failed"
           /\ Len(stack[t]) \in Nat /\ Len(stack[t]) > 1 /\ Len(stack'[t]) = Len(stack[t]) - 1
           /\ \A i \in 1 .. Len(stack[t]) - 1 : stack'[t][i].url = stack[t][i].url
           /\ Top(t).url \in DOMAIN cache /\ DOMAIN cache' = DOMAIN cache
           /\ \A k \in DOMAIN cache : k # Top(t).url => cache'[k] = cache[k]
           /\ cache'[Top(t).url].ready
           /\ \A k \in DOMAIN cache : /\ cache'[k].owner = cache[k].owner
                                      /\ cache'[k].result = cache[k].result
           /\ world' = world
<1>1. Typed /\ TypedThreads /\ TypedCache
  BY DEF LoaderInv, Typed
<1>2. th[t].pc = "close" /\ Len(stack[t]) > 1 /\ Len(stack[t]) \in Nat
  BY <1>1, TopFacts DEF Close, Typed, Known
<1>3. PICK n \in Nat \ {0} : n + 1 = Len(stack[t])
  <2>1. PICK m : m = Len(stack[t])
    OBVIOUS
  <2>2. m \in Nat /\ m > 1
    BY <1>2, <2>1
  <2>3. m - 1 \in Nat \ {0} /\ (m - 1) + 1 = m
    BY <2>2
  <2> QED
    BY <2>1, <2>3
<1>4. n = Len(stack[t]) - 1 /\ n \in 1 .. Len(stack[t]) - 1
  BY <1>3
<1>5. stack[t][Len(stack[t]) - 1].todo # <<>>
  <2>1. stack[t][n].todo # <<>>
    BY <1>4 DEF LoaderInv, ThreadOK, Asked
  <2> QED
    BY <1>4, <2>1
<1>6. Top(t).url \in DOMAIN cache
  BY <1>2, TopLoading
<1>7. /\ \A o \in Threads \ {t} : stack'[o] = stack[o] /\ th'[o] = th[o]
      /\ DOMAIN cache' = DOMAIN cache
      /\ \A k \in DOMAIN cache : /\ cache'[k].result = cache[k].result
                                 /\ k # Top(t).url => cache'[k] = cache[k]
      /\ cache' = [cache EXCEPT ![Top(t).url].ready = TRUE] /\ cache'[Top(t).url].ready
      /\ world' = world
  BY <1>1, <1>5, <1>6, CloseDoes DEF OthersStay
<1>8. /\ Len(stack'[t]) = Len(stack[t]) - 1
      /\ \A i \in 1 .. Len(stack[t]) - 2 : stack'[t][i] = stack[t][i]
      /\ stack'[t][Len(stack[t]) - 1].url = stack[t][Len(stack[t]) - 1].url
      /\ \/ cache[Top(t).url].result = "ok" /\ th'[t].pc = "run"
         \/ cache[Top(t).url].result # "ok" /\ th'[t].pc = "failing"
  BY <1>1, <1>5, <1>6, CloseDoes
<1>9. cache[Top(t).url].result \in {"ok", "failed"}
  BY <1>2 DEF LoaderInv, ThreadOK, Decided
<1>10. cache'[Top(t).url].owner = cache[Top(t).url].owner
  <2> DEFINE u == Top(t).url
             e == [cache[u] EXCEPT !.ready = TRUE]
  <2> HIDE DEF u
  <2>1. cache[u] \in Entries
    <3> HIDE DEF Entries
    <3> QED
      BY <1>1, <1>6 DEF TypedCache, u
  <2>2. e.owner = cache[u].owner
    BY <2>1 DEF Entries
  <2>3. cache' = [cache EXCEPT ![u] = e]
    BY <1>7 DEF u
  <2> HIDE DEF e
  <2>4. cache'[u] = e
    BY <1>6, <2>3 DEF u
  <2> QED
    BY <2>2, <2>4 DEF u
<1>11. \A i \in 1 .. Len(stack[t]) - 1 : stack'[t][i].url = stack[t][i].url
  <2> TAKE i \in 1 .. Len(stack[t]) - 1
  <2>1. i = Len(stack[t]) - 1 \/ i \in 1 .. Len(stack[t]) - 2
    BY <1>3
  <2> QED
    BY <1>8, <2>1
<1>12. \A k \in DOMAIN cache : cache'[k].owner = cache[k].owner
  BY <1>7, <1>10
<1> QED
  BY <1>2, <1>6, <1>7, <1>8, <1>9, <1>11, <1>12

\* A step of a thread leaves the others where they are, and the files.
LEMMA OneSteps ==
    ASSUME LoaderInv, NEW t \in Threads, Step(t)
    PROVE  /\ \A o \in Threads \ {t} : stack'[o] = stack[o] /\ th'[o] = th[o]
           /\ world' = world
<1>1. Typed
  BY DEF LoaderInv
<1>2. CASE Load(t) \/ End(t) \/ Found(t) \/ CheckOwner(t) \/ CheckWaits(t) \/ Wait(t)
  BY <1>1, <1>2, LoadDoes, EndDoes, FoundDoes, CheckOwnerDoes, CheckWaitsDoes, WaitDoes DEF OthersStay
<1>3. CASE First(t)
  BY <1>3, FirstShape
<1>4. CASE Close(t)
  BY <1>4, CloseShape
<1>5. CASE Own(t)
  <2>1. Len(stack[t]) > 1
    BY <1>1, <1>5 DEF Typed, Known, Own
  <2> QED
    BY <1>1, <1>5, <2>1, TopLoading, OwnDoes DEF OthersStay
<1>6. CASE Result(t)
  <2>1. Len(stack[t]) > 1
    BY <1>6 DEF Result
  <2> QED
    BY <1>1, <1>6, <2>1, TopLoading, ResultDoes DEF OthersStay
<1>7. ASSUME UNCHANGED stack \/ (\E todo : stack' = [stack EXCEPT ![t][Len(stack[t])].todo = todo])
      PROVE  \A o \in Threads \ {t} : stack'[o] = stack[o]
  <2>1. stack \in [Threads -> Seq(Frames)]
    BY <1>1 DEF Typed, TypedThreads
  <2> HIDE DEF Frames
  <2> QED
    BY <1>7, <2>1
<1>8. CASE LoadFile(t)
  <2>1. UNCHANGED stack \/ Advance(t)
    BY <1>1, <1>8, LoadFileDoes
  <2>2. UNCHANGED stack \/ (\E todo : stack' = [stack EXCEPT ![t][Len(stack[t])].todo = todo])
    BY <2>1 DEF Advance
  <2> QED
    BY <1>1, <1>7, <1>8, <2>2, LoadFileDoes
<1>9. CASE Wake(t)
  <2>1. UNCHANGED stack \/ Advance(t)
    BY <1>1, <1>9, WakeDoes
  <2>2. UNCHANGED stack \/ (\E todo : stack' = [stack EXCEPT ![t][Len(stack[t])].todo = todo])
    BY <2>1 DEF Advance
  <2> QED
    BY <1>1, <1>7, <1>9, <2>2, WakeDoes
<1>10. CASE Open(t)
  <2>1. UNCHANGED stack \/ (\E todo : stack' = [stack EXCEPT ![t][Len(stack[t])].todo = todo])
    BY <1>1, <1>10, OpenDoes
  <2> QED
    BY <1>1, <1>7, <1>10, <2>1, OpenDoes
<1> QED
  BY <1>2, <1>3, <1>4, <1>5, <1>6, <1>8, <1>9, <1>10 DEF Step

LEMMA TakenNext ==
    ASSUME LoaderInv, Taken, NEW t \in Threads, Step(t)
    PROVE  Taken'
<1>1. \A o \in Threads \ {t} : stack'[o] = stack[o]
  BY OneSteps
<1> SUFFICES ASSUME NEW k \in DOMAIN cache', ~cache'[k].ready
             PROVE  \E o \in Threads : \E i \in 2 .. Len(stack'[o]) : stack'[o][i].url = k
  BY DEF Taken
<1>2. CASE First(t)
  <2> PICK n : n = Len(stack[t])
    OBVIOUS
  <2>1. /\ n \in Nat \ {0} /\ Len(stack'[t]) = n + 1
        /\ \A i \in 1 .. n : stack'[t][i].url = stack[t][i].url
        /\ stack'[t][n + 1].url = th[t].want
        /\ DOMAIN cache' = DOMAIN cache \cup {th[t].want}
        /\ \A m \in DOMAIN cache : cache'[m] = cache[m]
    BY <1>2, FirstShape
  <2>2. CASE k = th[t].want
    <3>1. n + 1 \in 2 .. Len(stack'[t])
      BY <2>1
    <3> QED
      BY <2>1, <2>2, <3>1
  <2>3. CASE k # th[t].want
    <3>1. k \in DOMAIN cache /\ ~cache[k].ready
      BY <2>1, <2>3
    <3>2. PICK o \in Threads : \E i \in 2 .. Len(stack[o]) : stack[o][i].url = k
      BY <3>1 DEF Taken
    <3>3. PICK i \in 2 .. Len(stack[o]) : stack[o][i].url = k
      BY <3>2
    <3>4. CASE o = t
      <4>1. i \in 2 .. Len(stack'[t]) /\ i \in 1 .. n
        BY <2>1, <3>3, <3>4
      <4>2. stack'[t][i].url = k
        BY <2>1, <3>3, <3>4, <4>1
      <4> QED
        BY <4>1, <4>2
    <3>5. CASE o # t
      BY <1>1, <3>3, <3>5
    <3> QED
      BY <3>4, <3>5
  <2> QED
    BY <2>2, <2>3
<1>3. CASE Close(t)
  <2> PICK n : n = Len(stack[t])
    OBVIOUS
  <2>1. /\ n \in Nat /\ n > 1 /\ Len(stack'[t]) = n - 1
        /\ \A i \in 1 .. n - 1 : stack'[t][i].url = stack[t][i].url
        /\ DOMAIN cache' = DOMAIN cache
        /\ \A m \in DOMAIN cache : m # Top(t).url => cache'[m] = cache[m]
        /\ cache'[Top(t).url].ready
        /\ Top(t).url = stack[t][n].url
    BY <1>3, CloseShape DEF Top
  <2>2. k \in DOMAIN cache /\ ~cache[k].ready /\ k # Top(t).url
    BY <2>1
  <2>3. PICK o \in Threads : \E i \in 2 .. Len(stack[o]) : stack[o][i].url = k
    BY <2>2 DEF Taken
  <2>4. PICK i \in 2 .. Len(stack[o]) : stack[o][i].url = k
    BY <2>3
  <2>5. CASE o = t
    <3>1. i # n
      BY <2>1, <2>2, <2>4, <2>5
    <3>2. i \in 2 .. Len(stack'[t]) /\ i \in 1 .. n - 1
      BY <2>1, <2>4, <2>5, <3>1
    <3>3. stack'[t][i].url = k
      BY <2>1, <2>4, <2>5, <3>2
    <3> QED
      BY <3>2, <3>3
  <2>6. CASE o # t
    BY <1>1, <2>4, <2>6
  <2> QED
    BY <2>5, <2>6
<1>4. CASE ~First(t) /\ ~Close(t)
  <2>1. /\ \A o \in Threads : Len(stack'[o]) = Len(stack[o])
        /\ \A o \in Threads : \A i \in 1 .. Len(stack[o]) : stack'[o][i].url = stack[o][i].url
        /\ k \in DOMAIN cache /\ ~cache[k].ready
    BY <1>4, ShapeStays
  <2>2. PICK o \in Threads : \E i \in 2 .. Len(stack[o]) : stack[o][i].url = k
    BY <2>1 DEF Taken
  <2>3. PICK i \in 2 .. Len(stack[o]) : stack[o][i].url = k
    BY <2>2
  <2>4. i \in 1 .. Len(stack[o]) /\ i \in 2 .. Len(stack'[o])
    BY <2>1, <2>3
  <2> QED
    BY <2>1, <2>3, <2>4
<1> QED
  BY <1>2, <1>3, <1>4

\* A thread that has nothing to load only comes to its end.
LEMMA IdleEnds ==
    ASSUME LoaderInv, NEW t \in Threads, Idle(t), NEW p \in Threads \ {t}, Step(p)
    PROVE  /\ UNCHANGED <<world, lost, cache, stack>> /\ th'[p].pc = "done"
           /\ \A o \in Threads \ {p} : th'[o] = th[o]
<1>1. Len(stack[p]) = 1 /\ Items(p) = <<>> /\ th[p].pc \in {"run", "done"}
  BY DEF Idle
<1>2. Typed /\ TypedThreads
  BY DEF LoaderInv, Typed
<1>3. End(p)
  <2>1. ~Load(p) /\ ~LoadFile(p)
    BY <1>1 DEF Load, LoadFile
  <2>2. ~First(p) /\ ~Found(p) /\ ~Own(p) /\ ~Open(p) /\ ~Result(p) /\ ~Close(p)
    BY <1>1 DEF First, Found, Own, Open, Result, Close
  <2>3. ~CheckOwner(p) /\ ~CheckWaits(p) /\ ~Wait(p) /\ ~Wake(p)
    BY <1>1 DEF CheckOwner, CheckWaits, Wait, Wake
  <2> QED
    BY <2>1, <2>2, <2>3 DEF Step
<1>4. Goto(p, "done") /\ UNCHANGED <<world, lost, cache, stack>>
  BY <1>1, <1>3 DEF End
<1>5. "done" \in Points
  BY DEF Points
<1> QED
  BY <1>2, <1>4, <1>5, GotoFacts

LEMMA IdleNext ==
    ASSUME LoaderInv, NEW t \in Threads, Idle(t), NEW p \in Threads, Step(p)
    PROVE  Idle(t)'
<1> SUFFICES ASSUME NEW o \in Threads \ {t}
             PROVE  Len(stack'[o]) = 1 /\ Items(o)' = <<>> /\ th'[o].pc \in {"run", "done"}
  BY DEF Idle
<1>1. Len(stack[o]) = 1 /\ Items(o) = <<>> /\ th[o].pc \in {"run", "done"}
  BY DEF Idle
<1>2. CASE p = t
  <2>1. stack'[o] = stack[o] /\ th'[o] = th[o]
    BY <1>2, OneSteps
  <2> QED
    BY <1>1, <2>1 DEF Items, Top
<1>3. CASE p # t
  <2>1. UNCHANGED stack /\ (th'[p].pc = "done") /\ (o # p => th'[o] = th[o])
    BY <1>3, IdleEnds
  <2> QED
    BY <1>1, <2>1 DEF Items, Top
<1> QED
  BY <1>2, <1>3

\* The entries a thread holds while its scripts and the entries stay.
LEMMA HeldStays ==
    ASSUME LoaderInv, NEW t \in Threads, Held(t), cache' = cache,
           Len(stack'[t]) = Len(stack[t]),
           \A i \in 1 .. Len(stack[t]) : stack'[t][i].url = stack[t][i].url,
           th'[t].pc \in {"own", "close"} <=> th[t].pc \in {"own", "close"},
           Len(stack[t]) # 1 => Me(t)' = Me(t)
    PROVE  Held(t)'
<1> SUFFICES ASSUME NEW k \in DOMAIN cache, ~(cache[k].ready /\ cache[k].owner = {})
             PROVE  \E i \in 2 .. Len(stack'[t]) :
                       /\ stack'[t][i].url = k
                       /\ cache'[k].owner = IF i = Len(stack'[t]) /\ th'[t].pc \in {"own", "close"}
                                            THEN {} ELSE {Me(t)'}
  BY DEF Held
<1>1. PICK i \in 2 .. Len(stack[t]) :
         /\ stack[t][i].url = k
         /\ cache[k].owner = IF i = Len(stack[t]) /\ th[t].pc \in {"own", "close"}
                             THEN {} ELSE {Me(t)}
  BY DEF Held
<1>2. i \in 2 .. Len(stack'[t]) /\ i \in 1 .. Len(stack[t]) /\ Len(stack[t]) # 1
  BY <1>1
<1> QED
  BY <1>1, <1>2

\* The steps that change neither an entry nor which scripts are on the stack.
LEMMA HeldAsks ==
    ASSUME LoaderInv, NEW t \in Threads, Held(t), Step(t),
           ~First(t), ~Close(t), ~Own(t), ~Result(t)
    PROVE  Held(t)' /\ cache' = cache
<1>1. cache' = cache
  BY DEF Step, Load, LoadFile, End, Found, Open, CheckOwner, CheckWaits, Wait, Wake
<1>2. /\ Len(stack'[t]) = Len(stack[t])
      /\ \A i \in 1 .. Len(stack[t]) : stack'[t][i].url = stack[t][i].url
  BY ShapeStays
<1>3. Typed
  BY DEF LoaderInv
<1>4. th[t].pc \notin {"own", "close"}
  BY DEF Step, Load, LoadFile, End, Found, Open, CheckOwner, CheckWaits, Wait, Wake
<1>5. th'[t].pc \notin {"own", "close"}
  <2>1. CASE Load(t) \/ LoadFile(t) \/ End(t) \/ Found(t)
    BY <1>3, <2>1, LoadDoes, LoadFileDoes, EndDoes, FoundDoes
  <2>2. CASE Open(t) \/ CheckOwner(t) \/ CheckWaits(t) \/ Wait(t) \/ Wake(t)
    BY <1>3, <2>2, OpenDoes, CheckOwnerDoes, CheckWaitsDoes, WaitDoes, WakeDoes
  <2> QED
    BY <2>1, <2>2 DEF Step
<1>6. Len(stack[t]) # 1 => Me(t)' = Me(t)
  BY MeStays
<1> QED
  BY <1>1, <1>2, <1>4, <1>5, <1>6, HeldStays

LEMMA HeldFirst ==
    ASSUME LoaderInv, NEW t \in Threads, Held(t), First(t)
    PROVE  Held(t)'
<1>0. PICK n : n = Len(stack[t])
  OBVIOUS
<1>1. /\ th[t].pc = "get" /\ th'[t].pc = "own"
      /\ n \in Nat \ {0} /\ Len(stack'[t]) = n + 1
      /\ \A i \in 1 .. n : stack'[t][i].url = stack[t][i].url
      /\ stack'[t][n + 1].url = th[t].want
      /\ DOMAIN cache' = DOMAIN cache \cup {th[t].want}
      /\ \A k \in DOMAIN cache : cache'[k] = cache[k]
      /\ cache'[th[t].want].owner = {}
  BY <1>0, FirstShape
<1>2. Me(t)' = Me(t)
  <2>1. ~Load(t)
    BY <1>1 DEF Load
  <2> QED
    BY <2>1, MeStays DEF Step
<1> SUFFICES ASSUME NEW k \in DOMAIN cache', ~(cache'[k].ready /\ cache'[k].owner = {})
             PROVE  \E i \in 2 .. Len(stack'[t]) :
                       /\ stack'[t][i].url = k
                       /\ cache'[k].owner = IF i = Len(stack'[t]) /\ th'[t].pc \in {"own", "close"}
                                            THEN {} ELSE {Me(t)'}
  BY DEF Held
<1>3. CASE k = th[t].want
  <2>1. n + 1 \in 2 .. Len(stack'[t])
    BY <1>1
  <2> QED
    BY <1>1, <1>3, <2>1
<1>4. CASE k # th[t].want
  <2>1. k \in DOMAIN cache /\ cache'[k] = cache[k]
    BY <1>1, <1>4
  <2>2. PICK i \in 2 .. Len(stack[t]) :
           /\ stack[t][i].url = k
           /\ cache[k].owner = IF i = Len(stack[t]) /\ th[t].pc \in {"own", "close"}
                               THEN {} ELSE {Me(t)}
    BY <2>1 DEF Held
  <2>3. i \in 1 .. n /\ i \in 2 .. Len(stack'[t]) /\ i # Len(stack'[t]) /\ cache[k].owner = {Me(t)}
    BY <1>0, <1>1, <2>2
  <2> QED
    BY <1>1, <1>2, <2>1, <2>2, <2>3
<1> QED
  BY <1>3, <1>4

\* The owner of the entry of the topmost script is set, or taken back.
LEMMA HeldOwner ==
    ASSUME LoaderInv, NEW t \in Threads, Held(t), Own(t) \/ Result(t)
    PROVE  Held(t)'
<1> DEFINE u == Top(t).url
<1>1. Typed /\ TypedThreads /\ TypedCache
  BY DEF LoaderInv, Typed
<1>2. Len(stack[t]) > 1 /\ Len(stack[t]) \in 2 .. Len(stack[t]) /\ u = stack[t][Len(stack[t])].url
  <2>1. Len(stack[t]) > 1
    BY <1>1 DEF Typed, Known, Own, Result
  <2> QED
    BY <1>1, <2>1, TopFacts
<1>3. u \in DOMAIN cache
  BY <1>2, TopLoading
<1>4. /\ DOMAIN cache' = DOMAIN cache /\ UNCHANGED stack
      /\ \A k \in DOMAIN cache : cache'[k].ready = cache[k].ready
  BY <1>1, <1>3, OwnDoes, ResultDoes
<1>5. \A k \in DOMAIN cache : k # u => cache'[k].owner = cache[k].owner
  <2>1. CASE Own(t)
    <3>1. cache' = [cache EXCEPT ![u] = [cache[u] EXCEPT !.owner = {Me(t)}]]
      BY <2>1 DEF Own
    <3> QED
      BY <1>3, <3>1
  <2>2. CASE Result(t)
    BY <1>1, <1>3, <2>2, ResultDoes
  <2> QED
    BY <2>1, <2>2
<1>6. cache[u] \in Entries
  <2> HIDE DEF Entries, u
  <2> QED
    BY <1>1, <1>3 DEF TypedCache
<1>7. /\ th'[t].pc \in {"open", "close"} /\ Me(t)' = Me(t)
      /\ cache'[u].owner = IF th'[t].pc = "close" THEN {} ELSE {Me(t)}
  <2>1. Me(t)' = Me(t)
    <3>1. ~Load(t)
      BY <1>2 DEF Load, Own, Result
    <3> QED
      BY <1>2, MeStays DEF Step
  <2>2. CASE Own(t)
    <3> DEFINE e == [cache[u] EXCEPT !.owner = {Me(t)}]
    <3>1. cache' = [cache EXCEPT ![u] = e]
      BY <2>2 DEF Own
    <3>2. e.owner = {Me(t)}
      BY <1>6 DEF Entries
    <3> HIDE DEF e, u
    <3>3. cache'[u] = e
      BY <1>3, <3>1
    <3>4. th'[t].pc = "open"
      BY <1>1, <1>3, <2>2, OwnDoes DEF u
    <3> QED
      BY <2>1, <3>2, <3>3, <3>4
  <2>3. CASE Result(t)
    <3>1. th'[t].pc = "close"
      BY <1>1, <1>3, <2>3, ResultDoes
    <3>2. PICK r \in {"ok", "failed"} :
             cache' = [cache EXCEPT ![u] = [[cache[u] EXCEPT !.result = r] EXCEPT !.owner = {}]]
      <4>1. [cache EXCEPT ![u].result = "ok", ![u].owner = {}] =
            [cache EXCEPT ![u] = [[cache[u] EXCEPT !.result = "ok"] EXCEPT !.owner = {}]]
        OBVIOUS
      <4>2. [cache EXCEPT ![u].result = "failed", ![u].owner = {}] =
            [cache EXCEPT ![u] = [[cache[u] EXCEPT !.result = "failed"] EXCEPT !.owner = {}]]
        OBVIOUS
      <4> QED
        BY <2>3, <4>1, <4>2 DEF Result
    <3> DEFINE e == [[cache[u] EXCEPT !.result = r] EXCEPT !.owner = {}]
    <3>3. e.owner = {}
      BY <1>6 DEF Entries
    <3>4. cache' = [cache EXCEPT ![u] = e]
      BY <3>2
    <3> HIDE DEF e, u
    <3>5. cache'[u] = e
      BY <1>3, <3>4
    <3> QED
      BY <2>1, <3>1, <3>3, <3>5
  <2> QED
    BY <2>2, <2>3
<1> HIDE DEF u
<1> SUFFICES ASSUME NEW k \in DOMAIN cache, ~(cache'[k].ready /\ cache'[k].owner = {})
             PROVE  \E i \in 2 .. Len(stack[t]) :
                       /\ stack[t][i].url = k
                       /\ cache'[k].owner = IF i = Len(stack[t]) /\ th'[t].pc \in {"own", "close"}
                                            THEN {} ELSE {Me(t)'}
  <2>1. stack'[t] = stack[t] /\ DOMAIN cache' = DOMAIN cache
    BY <1>4
  <2> SUFFICES ASSUME NEW k \in DOMAIN cache', ~(cache'[k].ready /\ cache'[k].owner = {})
               PROVE  \E i \in 2 .. Len(stack'[t]) :
                         /\ stack'[t][i].url = k
                         /\ cache'[k].owner = IF i = Len(stack'[t]) /\ th'[t].pc \in {"own", "close"}
                                              THEN {} ELSE {Me(t)'}
    BY DEF Held
  <2>2. PICK i \in 2 .. Len(stack[t]) :
           /\ stack[t][i].url = k
           /\ cache'[k].owner = IF i = Len(stack[t]) /\ th'[t].pc \in {"own", "close"}
                                THEN {} ELSE {Me(t)'}
    BY <2>1
  <2> QED
    BY <2>1, <2>2
<1>8. CASE k = u
  BY <1>2, <1>7, <1>8
<1>9. CASE k # u
  <2>1. ~(cache[k].ready /\ cache[k].owner = {})
    BY <1>4, <1>5, <1>9
  <2>2. PICK i \in 2 .. Len(stack[t]) :
           /\ stack[t][i].url = k
           /\ cache[k].owner = IF i = Len(stack[t]) /\ th[t].pc \in {"own", "close"}
                               THEN {} ELSE {Me(t)}
    BY <2>1 DEF Held
  <2>3. i # Len(stack[t])
    BY <1>2, <1>9, <2>2
  <2> QED
    BY <1>5, <1>7, <1>9, <2>2, <2>3
<1> QED
  BY <1>8, <1>9

LEMMA HeldClose ==
    ASSUME LoaderInv, NEW t \in Threads, Held(t), Close(t)
    PROVE  Held(t)'
<1>0. PICK n : n = Len(stack[t])
  OBVIOUS
<1> DEFINE u == Top(t).url
<1>1. /\ th[t].pc = "close" /\ th'[t].pc \in {"run", "failing"}
      /\ n \in Nat /\ n > 1 /\ Len(stack'[t]) = n - 1
      /\ \A i \in 1 .. n - 1 : stack'[t][i].url = stack[t][i].url
      /\ u \in DOMAIN cache /\ DOMAIN cache' = DOMAIN cache /\ u = stack[t][n].url
      /\ \A k \in DOMAIN cache : k # u => cache'[k] = cache[k]
      /\ cache'[u].ready
      /\ \A k \in DOMAIN cache : cache'[k].owner = cache[k].owner
  BY <1>0, CloseShape DEF Top
<1>2. Me(t)' = Me(t)
  <2>1. ~Load(t)
    BY <1>1 DEF Load
  <2> QED
    BY <2>1, MeStays DEF Step
<1>3. ~cache[u].ready
  BY <1>0, <1>1, TopLoading
<1>4. \A i \in 2 .. n : stack[t][i].url = u => i = n
  <2>1. n \in 2 .. n
    BY <1>1
  <2> QED
    BY <1>0, <1>1, <2>1 DEF LoaderInv, Apart
<1> HIDE DEF u
<1>5. cache[u].owner = {}
  BY <1>0, <1>1, <1>3, <1>4 DEF Held
<1> SUFFICES ASSUME NEW k \in DOMAIN cache', ~(cache'[k].ready /\ cache'[k].owner = {})
             PROVE  \E i \in 2 .. Len(stack'[t]) :
                       /\ stack'[t][i].url = k
                       /\ cache'[k].owner = IF i = Len(stack'[t]) /\ th'[t].pc \in {"own", "close"}
                                            THEN {} ELSE {Me(t)'}
  BY DEF Held
<1>6. k \in DOMAIN cache /\ k # u
  BY <1>1, <1>5
<1>7. ~(cache[k].ready /\ cache[k].owner = {})
  BY <1>1, <1>6
<1>8. PICK i \in 2 .. n :
         /\ stack[t][i].url = k
         /\ cache[k].owner = IF i = n /\ th[t].pc \in {"own", "close"} THEN {} ELSE {Me(t)}
  BY <1>0, <1>6, <1>7 DEF Held
<1>9. i # n
  BY <1>1, <1>6, <1>8
<1>10. i \in 2 .. n - 1 /\ i \in 1 .. n - 1
  BY <1>1, <1>8, <1>9
<1> QED
  BY <1>1, <1>2, <1>6, <1>8, <1>9, <1>10

\* What a thread that has the cache for itself finds when it asks for a
\* module: its own checker, or nobody where the module is loaded.
LEMMA SoleNext ==
    ASSUME LoaderInv, NEW t \in Threads, SoleOK(t), NEW p \in Threads, Step(p)
    PROVE  SoleOK(t)'
<1>1. Typed /\ Idle(t) /\ Held(t) /\ Looks(t) /\ Sure(t)
  BY DEF LoaderInv, SoleOK
<1>2. Idle(t)'
  BY <1>1, IdleNext
<1>3. CASE p # t
  <2>1. UNCHANGED <<cache, stack>> /\ th'[t] = th[t]
    BY <1>1, <1>3, IdleEnds
  <2>2. Me(t)' = Me(t)
    BY <2>1 DEF Me
  <2>3. Held(t)'
    BY <1>1, <2>1, <2>2, HeldStays
  <2>4. Looks(t)' /\ Sure(t)'
    BY <1>1, <2>1 DEF Looks, Sure
  <2> QED
    BY <1>2, <2>3, <2>4 DEF SoleOK
<1>4. CASE p = t
  <2>1. Step(t)
    BY <1>4
  <2>2. Held(t)'
    BY <1>1, <2>1, HeldAsks, HeldFirst, HeldOwner, HeldClose
  <2>3. CASE CheckOwner(t)
    <3>1. th[t].pc = "checkOwner" /\ th[t].at = th[t].want /\ th[t].want \in DOMAIN cache
      BY <1>1, <2>3 DEF CheckOwner, Looks, Typed, Known
    <3>2. \/ cache[th[t].want].ready /\ cache[th[t].want].owner = {}
          \/ cache[th[t].want].owner = {Me(t)}
      BY <1>1, <3>1 DEF Held
    <3> DEFINE o == cache[th[t].at].owner
               pc == IF o = {} THEN "wait" ELSE IF o = {Me(t)} THEN "failing" ELSE "checkWaits"
               q == [th[t] EXCEPT !.pc = pc, !.holder = o]
    <3>3. th' = [th EXCEPT ![t] = q] /\ UNCHANGED cache
      BY <2>3 DEF CheckOwner
    <3>4. pc = "failing" \/ (pc = "wait" /\ cache[th[t].want].ready)
      BY <3>1, <3>2
    <3> HIDE DEF o, pc
    <3>5. th[t] \in Places /\ th \in [Threads -> Places]
      BY <1>1 DEF Typed, TypedThreads
    <3>6. q.pc = pc /\ q.want = th[t].want
      BY <3>5 DEF Places
    <3> HIDE DEF q, Places
    <3>7. th'[t] = q
      BY <3>3, <3>5
    <3>8. Looks(t)' /\ Sure(t)'
      BY <3>3, <3>4, <3>6, <3>7 DEF Looks, Sure
    <3> QED
      BY <1>2, <2>2, <3>8 DEF SoleOK
  <2>4. CASE Found(t)
    <3>1. Looks(t)' /\ Sure(t)'
      BY <1>1, <2>4, FoundDoes DEF Looks, Sure
    <3> QED
      BY <1>2, <2>2, <3>1 DEF SoleOK
  <2>5. CASE Wait(t)
    <3>1. Looks(t)' /\ Sure(t)'
      BY <1>1, <2>5, WaitDoes DEF Looks, Sure
    <3> QED
      BY <1>2, <2>2, <3>1 DEF SoleOK
  <2>6. CASE ~(CheckOwner(t) \/ Found(t) \/ Wait(t))
    <3>1. ~CheckWaits(t)
      BY <1>1 DEF CheckWaits, Looks
    <3>2. th'[t].pc \notin {"checkOwner", "checkWaits", "wait", "waiting"}
      <4>1. CASE Load(t) \/ LoadFile(t) \/ End(t) \/ Open(t) \/ Wake(t)
        BY <1>1, <4>1, LoadDoes, LoadFileDoes, EndDoes, OpenDoes, WakeDoes
      <4>2. CASE First(t) \/ Close(t)
        BY <4>2, FirstShape, CloseShape
      <4>3. CASE Own(t) \/ Result(t)
        <5>1. Len(stack[t]) > 1
          BY <1>1, <4>3 DEF Typed, Known, Own, Result
        <5> QED
          BY <1>1, <4>3, <5>1, TopLoading, OwnDoes, ResultDoes
      <4> QED
        BY <2>1, <2>6, <3>1, <4>1, <4>2, <4>3 DEF Step
    <3>3. Looks(t)' /\ Sure(t)'
      BY <3>2 DEF Looks, Sure
    <3> QED
      BY <1>2, <2>2, <3>3 DEF SoleOK
  <2> QED
    BY <2>3, <2>4, <2>5, <2>6
<1> QED
  BY <1>3, <1>4

LEMMA SoleAlways == Spec => []SoleInv
<1>1. ASSUME Init
      PROVE  SoleInv
  <2>1. DOMAIN cache = {}
    BY <1>1 DEF Init
  <2>2. Taken
    BY <2>1 DEF Taken
  <2>3. ASSUME NEW t \in Threads, Sole(t)
        PROVE  SoleOK(t)
    <3>1. \A o \in Threads :
             /\ stack[o] = <<Frame(Main(o), world.files[Main(o)])>> /\ Len(stack[o]) = 1
             /\ Items(o) = world.files[Main(o)] /\ th[o].pc = "run"
      BY <1>1 DEF Init, Frame, Items, Top
    <3>2. Idle(t)
      BY <2>3, <3>1 DEF Idle, Sole
    <3>3. Held(t)
      BY <2>1 DEF Held
    <3>4. Looks(t) /\ Sure(t)
      BY <3>1 DEF Looks, Sure
    <3> QED
      BY <3>2, <3>3, <3>4 DEF SoleOK
  <2> QED
    BY <2>2, <2>3 DEF SoleInv
<1>2. ASSUME LoaderInv, SoleInv, [Next]_vars
      PROVE  SoleInv'
  <2>1. CASE UNCHANGED vars
    <3>1. UNCHANGED <<world, cache, stack, th>>
      BY <2>1 DEF vars
    <3>2. \A t \in Threads : Sole(t)' => Sole(t)
      BY <3>1 DEF Sole, Main
    <3>3. \A t \in Threads : Me(t)' = Me(t) /\ Items(t)' = Items(t)
      BY <3>1 DEF Me, Items, Top
    <3>4. ASSUME NEW t \in Threads, SoleOK(t)
          PROVE  SoleOK(t)'
      <4>1. Idle(t)'
        BY <3>1, <3>3, <3>4 DEF SoleOK, Idle
      <4>2. Held(t)'
        BY <3>1, <3>3, <3>4 DEF SoleOK, Held
      <4>3. Looks(t)' /\ Sure(t)'
        BY <3>1, <3>4 DEF SoleOK, Looks, Sure
      <4> QED
        BY <4>1, <4>2, <4>3 DEF SoleOK
    <3>5. Taken'
      BY <1>2, <3>1 DEF SoleInv, Taken
    <3> QED
      BY <1>2, <3>2, <3>4, <3>5 DEF SoleInv
  <2>2. ASSUME NEW p \in Threads, Step(p)
        PROVE  SoleInv'
    <3>1. world' = world
      BY <1>2, <2>2, OneSteps
    <3>2. \A t \in Threads : Sole(t)' => Sole(t)
      BY <3>1 DEF Sole, Main
    <3>3. \A t \in Threads : SoleOK(t) => SoleOK(t)'
      BY <1>2, <2>2, SoleNext
    <3>4. Taken'
      BY <1>2, <2>2, TakenNext DEF SoleInv
    <3> QED
      BY <1>2, <3>2, <3>3, <3>4 DEF SoleInv
  <2> QED
    BY <1>2, <2>1, <2>2 DEF Next
<1> QED
  BY <1>1, <1>2, LoaderAlways, PTL DEF Spec

-----------------------------------------------------------------------------
(* Nothing is refused but what cannot be loaded.                           *)

\* What a thread that fails has come upon, when no request fails.
Refused(t) ==
    /\ \A k \in DOMAIN cache : cache[k].result = "failed" => Broken(k)
    /\ th[t].pc = "failing" /\ Len(stack[t]) > 1 => Broken(Top(t).url)
    /\ th[t].pc \in {"failing", "failed"} /\ Len(stack[t]) = 1 =>
          ~ScriptRuns(t, URLs \ BrokenModules)
    /\ th[t].pc = "failed" => Len(stack[t]) = 1

RefusedInv == lost \in Nat /\ \A t \in Threads : Sole(t) /\ lost = 0 => Refused(t)

\* What a script is at is in its file.
LEMMA AtItem ==
    ASSUME LoaderInv, ScriptInv, NEW t \in Threads, NEW i \in 1 .. Len(stack[t]),
           stack[t][i].todo # <<>>
    PROVE  Head(stack[t][i].todo) \in ItemsOf(Source(t, i))
<1>1. stack[t][i].todo \in Seq(ScriptItems)
  BY TopFacts DEF LoaderInv, Typed
<1> DEFINE todo == stack[t][i].todo
<1>2. todo \in Seq(ScriptItems) /\ todo # <<>>
  BY <1>1
<1>3. Range(todo) \subseteq ItemsOf(Source(t, i))
  BY DEF ScriptInv, ScriptOK, Listed
<1> HIDE DEF todo
<1>4. Head(todo) \in Range(todo)
  BY <1>2, ListFacts
<1> QED
  BY <1>3, <1>4 DEF todo

\* A module that is at the load of one of a set does not run without it.
LEMMA Blocked ==
    ASSUME LoaderInv, ScriptInv, NEW t \in Threads, NEW i \in 2 .. Len(stack[t]), NEW B,
           stack[t][i].todo # <<>>, Head(stack[t][i].todo).op = "load",
           resolveModuleName(stack[t][i].url, Head(stack[t][i].todo).name) \in B
    PROVE  ~Runs(stack[t][i].url, URLs \ B)
<1> DEFINE u == stack[t][i].url
           x == Head(stack[t][i].todo)
<1>1. i \in 1 .. Len(stack[t]) /\ Source(t, i) = ModOpen(Locations, u)
  BY DEF Source
<1>2. x \in ItemsOf(ModOpen(Locations, u))
  BY <1>1, AtItem
<1> HIDE DEF u, x, URLs
<1>3. ~Fine(u, x, URLs \ B)
  BY NotFine DEF u, x
<1> QED
  BY <1>2, <1>3 DEF Runs, u

\* A script that is at the load of a module at fault is at fault itself.
LEMMA FailsUp ==
    ASSUME LoaderInv, ScriptInv, NEW t \in Threads, NEW i \in 1 .. Len(stack[t]),
           stack[t][i].todo # <<>>, Head(stack[t][i].todo).op = "load",
           NEW n \in DOMAIN cache, Broken(n),
           n = resolveModuleName(stack[t][i].url, Head(stack[t][i].todo).name)
    PROVE  /\ i > 1 => Broken(stack[t][i].url)
           /\ i = 1 => ~ScriptRuns(t, URLs \ BrokenModules)
<1> DEFINE u == stack[t][i].url
           x == Head(stack[t][i].todo)
<1>1. x \in ItemsOf(Source(t, i))
  BY AtItem
<1>2. ASSUME i > 1
      PROVE  Broken(u)
  <2>1. i \in 2 .. Len(stack[t])
    BY <1>2
  <2>2. u \in DOMAIN cache
    BY <2>1 DEF LoaderInv, ThreadOK, Loading
  <2>3. x \in ItemsOf(ModOpen(Locations, u))
    BY <1>1, <1>2 DEF Source
  <2>4. x.op = "load" /\ Broken(resolveModuleName(u, x.name))
    OBVIOUS
  <2> HIDE DEF u, x
  <2> QED
    BY <2>2, <2>3, <2>4, BrokenUp
<1>3. ASSUME i = 1
      PROVE  ~ScriptRuns(t, URLs \ BrokenModules)
  <2>1. u = Main(t) /\ x \in ItemsOf(Main(t))
    BY <1>1, <1>3 DEF ScriptInv, ScriptOK, Source
  <2>2. n \in BrokenModules /\ n = resolveModuleName(u, x.name) /\ x.op = "load"
    BY DEF BrokenModules
  <2> HIDE DEF u, x, URLs
  <2>3. ~Fine(u, x, URLs \ BrokenModules)
    BY <2>2, NotFine
  <2> QED
    BY <2>1, <2>3 DEF ScriptRuns
<1> QED
  BY <1>2, <1>3

\* A script that asks for a module it is being loaded for.
LEMMA CycleBroken ==
    ASSUME LoaderInv, ScriptInv, NEW t \in Threads, th[t].pc \in Asks,
           NEW j \in 2 .. Len(stack[t]), stack[t][j].url = th[t].want
    PROVE  Len(stack[t]) > 1 /\ Broken(Top(t).url)
<1> DEFINE n == Len(stack[t])
           B == {stack[t][i].url : i \in j .. n}
<1>1. n \in Nat /\ n > 1 /\ Top(t) = stack[t][n] /\ n \in j .. n
  BY TopFacts DEF LoaderInv, Typed
<1>2. \A i \in j .. n : i \in 2 .. n /\ stack[t][i].url \in DOMAIN cache
  BY <1>1 DEF LoaderInv, ThreadOK, Loading
<1>3. B \in SUBSET DOMAIN cache /\ Top(t).url \in B
  BY <1>1, <1>2
<1>4. ASSUME NEW i \in j .. n
      PROVE  ~Runs(stack[t][i].url, URLs \ B)
  <2>1. /\ stack[t][i].todo # <<>> /\ Head(stack[t][i].todo).op = "load"
        /\ resolveModuleName(stack[t][i].url, Head(stack[t][i].todo).name) \in B
    <3>1. CASE i = n
      <4>1. th[t].want \in B
        BY <1>1
      <4>2. /\ Items(t) # <<>> /\ Head(Items(t)).op = "load"
            /\ th[t].want = resolveModuleName(Top(t).url, Head(Items(t)).name)
        BY DEF LoaderInv, ThreadOK, Asking
      <4> HIDE DEF B
      <4> QED
        BY <1>1, <3>1, <4>1, <4>2 DEF Items
    <3>2. CASE i # n
      <4>1. i \in 1 .. n - 1 /\ i + 1 \in j .. n
        BY <1>1, <3>2
      <4>2. /\ stack[t][i].todo # <<>> /\ Head(stack[t][i].todo).op = "load"
            /\ stack[t][i + 1].url =
                 resolveModuleName(stack[t][i].url, Head(stack[t][i].todo).name)
        BY <4>1 DEF LoaderInv, ThreadOK, Asked
      <4>3. stack[t][i + 1].url \in B
        BY <4>1
      <4> QED
        BY <4>2, <4>3
    <3> QED
      BY <3>1, <3>2
  <2>2. i \in 2 .. n
    BY <1>2
  <2> HIDE DEF B, URLs
  <2> QED
    BY <2>1, <2>2, Blocked
<1>5. \A m \in B : ~Runs(m, URLs \ B)
  <2> SUFFICES ASSUME NEW m \in B
               PROVE  ~Runs(m, URLs \ B)
    OBVIOUS
  <2>1. PICK i \in j .. n : m = stack[t][i].url
    OBVIOUS
  <2> HIDE DEF B
  <2> QED
    BY <1>4, <2>1
<1> HIDE DEF B
<1> QED
  BY <1>1, <1>3, <1>5 DEF Broken

\* A thread that has no way on has come upon a module at fault, or a file
\* that is missing.
LEMMA FailingNow ==
    ASSUME LoaderInv, ScriptInv, NEW t \in Threads, SoleOK(t), Refused(t), Step(t),
           lost \in Nat, lost' = lost, th'[t].pc = "failing"
    PROVE  /\ Len(stack'[t]) > 1 => Broken(stack'[t][Len(stack'[t])].url)
           /\ Len(stack'[t]) = 1 => ~ScriptRuns(t, URLs \ BrokenModules)
<1>1. Typed /\ TypedThreads
  BY DEF LoaderInv, Typed
<1>0. PICK n : n = Len(stack[t])
  OBVIOUS
<1>2. n \in Nat \ {0} /\ n \in 1 .. n /\ Top(t) = stack[t][n] /\ Items(t) = stack[t][n].todo
  BY <1>0, <1>1, TopFacts DEF Items
<1>3. ASSUME UNCHANGED stack, n > 1 => Broken(Top(t).url),
             n = 1 => ~ScriptRuns(t, URLs \ BrokenModules)
      PROVE  /\ Len(stack'[t]) > 1 => Broken(stack'[t][Len(stack'[t])].url)
             /\ Len(stack'[t]) = 1 => ~ScriptRuns(t, URLs \ BrokenModules)
  BY <1>0, <1>2, <1>3
<1>4. CASE LoadFile(t)
  <2> DEFINE x == Head(Items(t))
             f == builtInLoadFile(Locations, Top(t).url, x.name)
  <2>1. th[t].pc = "run" /\ Items(t) # <<>> /\ x.op = "loadFile"
    BY <1>4 DEF LoadFile
  <2>2. UNCHANGED stack /\ f # Panic /\ ~(~Stops(f) \/ (f = Missing /\ x.optional))
    <3>1. ASSUME Goto(t, "panicked") \/ UNCHANGED th
          PROVE  FALSE
      <4>1. UNCHANGED th => th'[t].pc = "run"
        BY <2>1
      <4>2. Goto(t, "panicked") => th'[t].pc = "panicked"
        BY <1>1, GotoFacts DEF Points
      <4> QED
        BY <3>1, <4>1, <4>2
    <3>2. lost' # lost + 1
      OBVIOUS
    <3> QED
      BY <1>4, <3>1, <3>2 DEF LoadFile, Lose
  <2>3. \A good : ~Fine(Top(t).url, x, good)
    BY <2>1, <2>2 DEF Fine
  <2>4. x \in ItemsOf(Source(t, n))
    BY <1>0, <1>2, <2>1, AtItem
  <2> HIDE DEF x, f
  <2>5. ASSUME n > 1
        PROVE  Broken(Top(t).url)
    <3>1. Source(t, n) = ModOpen(Locations, Top(t).url)
      BY <1>2, <2>5 DEF Source
    <3>2. ~Runs(Top(t).url, URLs)
      BY <2>3, <2>4, <3>1 DEF Runs
    <3> QED
      BY <1>0, <2>5, <3>2, TopLoading, BrokenAlone
  <2>6. ASSUME n = 1
        PROVE  ~ScriptRuns(t, URLs \ BrokenModules)
    <3>1. Source(t, n) = Main(t) /\ Top(t).url = Main(t)
      BY <1>2, <2>6 DEF Source, ScriptInv, ScriptOK
    <3> QED
      BY <2>3, <2>4, <3>1 DEF ScriptRuns
  <2> QED
    BY <1>3, <2>2, <2>5, <2>6
<1>5. CASE Open(t)
  <2> DEFINE l == ModOpen(Locations, Top(t).url)
  <2>1. n > 1
    BY <1>0, <1>1, <1>5 DEF Typed, Known, Open
  <2>2. Stops(l) /\ UNCHANGED stack
    <3>1. Goto(t, "run") => th'[t].pc = "run"
      BY <1>1, GotoFacts DEF Points
    <3>2. l \in {Error, Missing, Panic} => Stops(l)
      BY DEF Stops
    <3>3. lost' # lost + 1
      OBVIOUS
    <3>4. ASSUME Goto(t, "panicked")
          PROVE  FALSE
      BY <1>1, <3>4, GotoFacts DEF Points
    <3>5. \/ ~Stops(l) /\ Goto(t, "run")
          \/ l \in {Error, Missing} /\ UNCHANGED stack
          \/ Goto(t, "panicked")
      BY <1>5, <3>3 DEF Open, Lose
    <3> QED
      BY <3>1, <3>2, <3>4, <3>5
  <2>3. ~Runs(Top(t).url, URLs)
    BY <2>2 DEF Runs
  <2>4. Broken(Top(t).url)
    BY <1>0, <2>1, <2>3, TopLoading, BrokenAlone
  <2> QED
    BY <1>3, <2>1, <2>2, <2>4
<1>6. CASE CheckOwner(t)
  <2>1. UNCHANGED stack /\ th[t].pc \in Asks /\ th[t].pc = "checkOwner"
    BY <1>6 DEF CheckOwner, Asks
  <2>2. th[t].at = th[t].want /\ th[t].want \in DOMAIN cache
    BY <1>1, <2>1 DEF SoleOK, Looks, Typed, Known
  <2>3. cache[th[t].want].owner # {}
    <3>1. ASSUME cache[th[t].at].owner = {}
          PROVE  FALSE
      <4> DEFINE q == [[th[t] EXCEPT !.pc = "wait"] EXCEPT !.holder = {}]
      <4>1. th' = [th EXCEPT ![t] = q]
        BY <1>6, <3>1 DEF CheckOwner
      <4>2. th[t] \in Places /\ th \in [Threads -> Places]
        BY <1>1 DEF TypedThreads
      <4>3. q.pc = "wait"
        BY <4>2 DEF Places
      <4> HIDE DEF q, Places
      <4>4. th'[t] = q
        BY <4>1, <4>2
      <4> QED
        BY <4>3, <4>4
    <3> QED
      BY <2>2, <3>1
  <2>4. PICK j \in 2 .. Len(stack[t]) : stack[t][j].url = th[t].want
    BY <2>2, <2>3 DEF SoleOK, Held
  <2>5. n > 1 /\ Broken(Top(t).url)
    BY <1>0, <2>1, <2>4, CycleBroken
  <2> QED
    BY <1>2, <1>3, <2>1, <2>5
<1>7. CASE Wake(t)
  <2>1. /\ UNCHANGED stack /\ th[t].pc \in Asks
        /\ th[t].want \in DOMAIN cache /\ cache[th[t].want].ready
    BY <1>1, <1>7, WakeDoes DEF Asks
  <2>2. cache[th[t].want].result # "ok"
    <3>1. Goto(t, "run") => th'[t].pc = "run"
      BY <1>1, GotoFacts DEF Points
    <3> QED
      BY <1>7, <3>1 DEF Wake
  <2>3. Broken(th[t].want)
    BY <2>1, <2>2 DEF LoaderInv, Stored, Refused
  <2>4. /\ stack[t][n].todo # <<>> /\ Head(stack[t][n].todo).op = "load"
        /\ th[t].want = resolveModuleName(stack[t][n].url, Head(stack[t][n].todo).name)
    BY <1>2, <2>1 DEF LoaderInv, ThreadOK, Asking
  <2>5. /\ n > 1 => Broken(stack[t][n].url)
        /\ n = 1 => ~ScriptRuns(t, URLs \ BrokenModules)
    BY <1>0, <1>2, <2>1, <2>3, <2>4, FailsUp
  <2> QED
    BY <1>2, <1>3, <2>1, <2>5
<1>8. CASE Close(t)
  <2>1. /\ cache[Top(t).url].result = "failed" /\ n > 1 /\ Len(stack'[t]) = n - 1
        /\ \A i \in 1 .. n - 1 : stack'[t][i].url = stack[t][i].url
        /\ Top(t).url \in DOMAIN cache
    BY <1>0, <1>8, CloseShape
  <2>2. PICK m : m = n - 1
    OBVIOUS
  <2>3. m \in Nat /\ m \in 1 .. n - 1 /\ m \in 1 .. n /\ m + 1 = n /\ m >= 1
    BY <1>2, <2>1, <2>2
  <2>4. Broken(Top(t).url)
    BY <2>1 DEF Refused
  <2>5. /\ stack[t][m].todo # <<>> /\ Head(stack[t][m].todo).op = "load"
        /\ Top(t).url = resolveModuleName(stack[t][m].url, Head(stack[t][m].todo).name)
    <3>1. /\ stack[t][m].todo # <<>> /\ Head(stack[t][m].todo).op = "load"
          /\ stack[t][m + 1].url = resolveModuleName(stack[t][m].url, Head(stack[t][m].todo).name)
      BY <1>0, <2>3 DEF LoaderInv, ThreadOK, Asked
    <3> QED
      BY <1>2, <2>3, <3>1
  <2>6. /\ m > 1 => Broken(stack[t][m].url)
        /\ m = 1 => ~ScriptRuns(t, URLs \ BrokenModules)
    BY <1>0, <2>1, <2>3, <2>4, <2>5, FailsUp
  <2> QED
    BY <2>1, <2>2, <2>3, <2>6
<1>9. CASE ~(LoadFile(t) \/ Open(t) \/ CheckOwner(t) \/ Wake(t) \/ Close(t))
  <2>1. ~First(t)
    BY FirstShape
  <2>2. ~Own(t) /\ ~Result(t)
    <3>1. Own(t) \/ Result(t) => Len(stack[t]) > 1
      BY <1>1 DEF Typed, Known, Own, Result
    <3>2. Own(t) \/ Result(t) => th'[t].pc \in {"open", "close"}
      BY <1>1, <3>1, TopLoading, OwnDoes, ResultDoes
    <3> QED
      BY <3>2
  <2> QED
    BY <1>1, <1>9, <2>1, <2>2, LoadDoes, EndDoes, FoundDoes, CheckWaitsDoes, WaitDoes DEF Step
<1> QED
  BY <1>4, <1>5, <1>6, <1>7, <1>8, <1>9

\* What is at fault stays at fault.
LEMMA RefusedStays ==
    ASSUME world' = world, DOMAIN cache \subseteq DOMAIN cache', NEW t,
           ~ScriptRuns(t, URLs \ BrokenModules)
    PROVE  ~ScriptRuns(t, URLs \ BrokenModules)'
<1>1. URLs \ BrokenModules' \subseteq URLs \ BrokenModules
  BY BrokenModulesGrow
<1> HIDE DEF URLs
<1>2. ~ScriptRuns(t, URLs \ BrokenModules')
  BY <1>1, ScriptRunsMore
<1>3. \A u, x : Fine(u, x, URLs \ BrokenModules)' <=> Fine(u, x, URLs \ BrokenModules')
  BY DEF Fine, Locations
<1> QED
  BY <1>2, <1>3, SameScripts DEF ScriptRuns

\* The result of a module at fault is that its script failed.
LEMMA FailedNow ==
    ASSUME LoaderInv, ScriptInv, NEW t \in Threads, Refused(t), Step(t),
           NEW k \in DOMAIN cache', cache'[k].result = "failed"
    PROVE  Broken(k)
<1>1. Typed /\ TypedThreads
  BY DEF LoaderInv, Typed
<1>2. ASSUME k \in DOMAIN cache, cache[k].result = "failed"
      PROVE  Broken(k)
  BY <1>2 DEF Refused
<1>3. CASE First(t)
  <2>1. /\ DOMAIN cache' = DOMAIN cache \cup {th[t].want}
        /\ \A m \in DOMAIN cache : cache'[m] = cache[m]
        /\ cache'[th[t].want].result = "none"
    BY <1>3, FirstShape
  <2> QED
    BY <1>2, <2>1
<1>4. CASE Close(t)
  BY <1>2, <1>4, CloseShape
<1>5. CASE Own(t)
  <2>1. Len(stack[t]) > 1
    BY <1>1, <1>5 DEF Typed, Known, Own
  <2> QED
    BY <1>1, <1>2, <1>5, <2>1, TopLoading, OwnDoes
<1>6. CASE Result(t)
  <2>1. Len(stack[t]) > 1
    BY <1>6 DEF Result
  <2>2. Top(t).url \in DOMAIN cache
    BY <2>1, TopLoading
  <2>3. /\ DOMAIN cache' = DOMAIN cache
        /\ \A m \in DOMAIN cache : m # Top(t).url => cache'[m] = cache[m]
    BY <1>1, <1>6, <2>2, ResultDoes
  <2>4. CASE k # Top(t).url
    BY <1>2, <2>3, <2>4
  <2>5. CASE k = Top(t).url /\ th[t].pc = "failing"
    BY <2>1, <2>5 DEF Refused
  <2>6. CASE k = Top(t).url /\ th[t].pc # "failing"
    <3> DEFINE u == Top(t).url
               e == [[cache[u] EXCEPT !.result = "ok"] EXCEPT !.owner = {}]
    <3>1. cache' = [cache EXCEPT ![u] = e]
      <4>1. [cache EXCEPT ![u].result = "ok", ![u].owner = {}] = [cache EXCEPT ![u] = e]
        OBVIOUS
      <4> QED
        BY <1>6, <2>6, <4>1 DEF Result
    <3>2. cache[u] \in Entries
      <4> HIDE DEF Entries, u
      <4> QED
        BY <1>1, <2>2 DEF Typed, TypedCache, u
    <3>3. e.result = "ok"
      BY <3>2 DEF Entries
    <3> HIDE DEF e, u
    <3>4. cache'[u] = e
      BY <2>2, <3>1 DEF u
    <3> QED
      BY <2>6, <3>3, <3>4 DEF u
  <2> QED
    BY <2>4, <2>5, <2>6
<1>7. CASE ~(First(t) \/ Close(t) \/ Own(t) \/ Result(t))
  <2>1. UNCHANGED cache
    BY <1>7 DEF Step, Load, LoadFile, End, Found, Open, CheckOwner, CheckWaits, Wait, Wake
  <2> QED
    BY <1>2, <2>1
<1> QED
  BY <1>3, <1>4, <1>5, <1>6, <1>7

LEMMA CacheGrows ==
    ASSUME LoaderInv, NEW t \in Threads, Step(t)
    PROVE  DOMAIN cache \subseteq DOMAIN cache'
<1>1. CASE First(t)
  BY <1>1, FirstShape
<1>2. CASE Close(t)
  BY <1>2, CloseShape
<1>3. CASE ~First(t) /\ ~Close(t)
  BY <1>3, ShapeStays
<1> QED
  BY <1>1, <1>2, <1>3

LEMMA RefusedNext ==
    ASSUME LoaderInv, ScriptInv, NEW t \in Threads, SoleOK(t), Refused(t),
           lost \in Nat, lost' = lost, NEW p \in Threads, Step(p)
    PROVE  Refused(t)'
<1>1. Typed /\ TypedThreads
  BY DEF LoaderInv, Typed
<1>2. world' = world /\ DOMAIN cache \subseteq DOMAIN cache'
  BY OneSteps, CacheGrows
<1>3. \A k : Broken(k) => Broken(k)'
  BY <1>2, BrokenStays
<1>4. CASE p # t
  <2>1. UNCHANGED <<cache, stack>> /\ th'[t] = th[t]
    BY <1>4, IdleEnds DEF SoleOK
  <2>2. Top(t)' = Top(t)
    BY <2>1 DEF Top
  <2>3. \A k \in DOMAIN cache' : cache'[k].result = "failed" => Broken(k)'
    BY <1>3, <2>1 DEF Refused
  <2>4. th'[t].pc = "failing" /\ Len(stack'[t]) > 1 => Broken(Top(t).url)'
    <3>1. th'[t].pc = "failing" /\ Len(stack'[t]) > 1 => Broken(Top(t).url)
      BY <2>1 DEF Refused
    <3> QED
      BY <1>3, <2>2, <3>1
  <2>5. th'[t].pc \in {"failing", "failed"} /\ Len(stack'[t]) = 1 =>
           ~ScriptRuns(t, URLs \ BrokenModules)'
    BY <1>2, <2>1, RefusedStays DEF Refused
  <2>6. th'[t].pc = "failed" => Len(stack'[t]) = 1
    BY <2>1 DEF Refused
  <2> QED
    BY <2>3, <2>4, <2>5, <2>6 DEF Refused
<1>5. CASE p = t
  <2>1. Step(t)
    BY <1>5
  <2>2. \A k \in DOMAIN cache' : cache'[k].result = "failed" => Broken(k)'
    BY <1>3, <2>1, FailedNow
  <2>3. ASSUME th'[t].pc = "failing"
        PROVE  /\ Len(stack'[t]) > 1 => Broken(stack'[t][Len(stack'[t])].url)
               /\ Len(stack'[t]) = 1 => ~ScriptRuns(t, URLs \ BrokenModules)
    BY <2>1, <2>3, FailingNow
  <2>4. th'[t].pc = "failing" /\ Len(stack'[t]) > 1 => Broken(Top(t).url)'
    <3> SUFFICES ASSUME th'[t].pc = "failing", Len(stack'[t]) > 1
                 PROVE  Broken(Top(t).url)'
      OBVIOUS
    <3>1. PICK k : k = stack'[t][Len(stack'[t])].url
      OBVIOUS
    <3>2. Broken(k)'
      BY <1>3, <2>3, <3>1
    <3>3. Top(t).url' = k
      BY <3>1 DEF Top
    <3> QED
      BY <3>2, <3>3 DEF Broken
  <2>5. ASSUME th'[t].pc = "failed"
        PROVE  /\ th[t].pc = "failing" /\ Len(stack[t]) = 1 /\ stack' = stack
    <3>1. CASE End(t)
      <4>1. Goto(t, "done") => th'[t].pc = "done"
        BY <1>1, GotoFacts DEF Points
      <4> QED
        BY <2>5, <3>1, <4>1 DEF End
    <3>2. CASE Load(t) \/ LoadFile(t) \/ Found(t) \/ Open(t) \/ CheckOwner(t) \/ CheckWaits(t)
      BY <1>1, <2>5, <3>2, LoadDoes, LoadFileDoes, FoundDoes, OpenDoes, CheckOwnerDoes, CheckWaitsDoes
    <3>3. CASE Wait(t) \/ Wake(t) \/ First(t) \/ Close(t)
      BY <1>1, <2>5, <3>3, WaitDoes, WakeDoes, FirstShape, CloseShape
    <3>4. CASE Own(t) \/ Result(t)
      <4>1. Len(stack[t]) > 1
        BY <1>1, <3>4 DEF Typed, Known, Own, Result
      <4> QED
        BY <1>1, <2>5, <3>4, <4>1, TopLoading, OwnDoes, ResultDoes
    <3> QED
      BY <2>1, <3>1, <3>2, <3>3, <3>4 DEF Step
  <2>6. th'[t].pc \in {"failing", "failed"} /\ Len(stack'[t]) = 1 =>
           ~ScriptRuns(t, URLs \ BrokenModules)'
    <3>1. th'[t].pc \in {"failing", "failed"} /\ Len(stack'[t]) = 1 =>
             ~ScriptRuns(t, URLs \ BrokenModules)
      BY <2>3, <2>5 DEF Refused
    <3> QED
      BY <1>2, <3>1, RefusedStays
  <2>7. th'[t].pc = "failed" => Len(stack'[t]) = 1
    BY <2>5
  <2> QED
    BY <2>2, <2>4, <2>6, <2>7 DEF Refused
<1> QED
  BY <1>4, <1>5

LEMMA RefusedAlways == Spec => []RefusedInv
<1>1. ASSUME Init
      PROVE  RefusedInv
  <2>1. DOMAIN cache = {} /\ lost = 0 /\ \A t \in Threads : th[t].pc = "run"
    BY <1>1 DEF Init
  <2> QED
    BY <2>1 DEF RefusedInv, Refused
<1>2. ASSUME LoaderInv, ScriptInv, SoleInv, RefusedInv, [Next]_vars
      PROVE  RefusedInv'
  <2>1. CASE UNCHANGED vars
    <3>1. UNCHANGED <<world, lost, cache, stack, th>>
      BY <2>1 DEF vars
    <3>2. \A t \in Threads : Sole(t)' => Sole(t)
      BY <3>1 DEF Sole, Main
    <3>3. ASSUME NEW t \in Threads, Refused(t)
          PROVE  Refused(t)'
      <4>1. \A k : Broken(k) => Broken(k)'
        BY <3>1, BrokenStays
      <4>2. \A k \in DOMAIN cache' : cache'[k].result = "failed" => Broken(k)'
        BY <3>1, <3>3, <4>1 DEF Refused
      <4>3. th'[t].pc = "failing" /\ Len(stack'[t]) > 1 => Broken(Top(t).url)'
        <5>1. Top(t)' = Top(t)
          BY <3>1 DEF Top
        <5>2. th'[t].pc = "failing" /\ Len(stack'[t]) > 1 => Broken(Top(t).url)
          BY <3>1, <3>3 DEF Refused
        <5> QED
          BY <4>1, <5>1, <5>2
      <4>4. th'[t].pc \in {"failing", "failed"} /\ Len(stack'[t]) = 1 =>
               ~ScriptRuns(t, URLs \ BrokenModules)'
        BY <3>1, <3>3, RefusedStays DEF Refused
      <4>5. th'[t].pc = "failed" => Len(stack'[t]) = 1
        BY <3>1, <3>3 DEF Refused
      <4> QED
        BY <4>2, <4>3, <4>4, <4>5 DEF Refused
    <3> QED
      BY <1>2, <3>1, <3>2, <3>3 DEF RefusedInv
  <2>2. ASSUME NEW p \in Threads, Step(p)
        PROVE  RefusedInv'
    <3>1. lost \in Nat /\ (lost' = lost \/ lost' = lost + 1)
      <4>1. lost \in Nat
        BY <1>2 DEF RefusedInv
      <4>2. lost' = lost \/ lost' = lost + 1
        BY <2>2 DEF Step, Load, LoadFile, Lose, End, First, Found, Own, Open, Result, Close,
                    CheckOwner, CheckWaits, Wait, Wake
      <4> QED
        BY <4>1, <4>2
    <3>2. lost' \in Nat /\ (lost' = 0 => lost = 0 /\ lost' = lost)
      BY <3>1
    <3>3. world' = world
      BY <1>2, <2>2, OneSteps
    <3>4. \A t \in Threads : Sole(t)' => Sole(t)
      BY <3>3 DEF Sole, Main
    <3>5. ASSUME NEW t \in Threads, Sole(t), lost' = 0
          PROVE  Refused(t)'
      <4>1. SoleOK(t) /\ Refused(t) /\ lost' = lost /\ lost \in Nat
        BY <1>2, <3>1, <3>2, <3>5 DEF SoleInv, RefusedInv
      <4> QED
        BY <1>2, <2>2, <4>1, RefusedNext
    <3> QED
      BY <3>2, <3>4, <3>5 DEF RefusedInv
  <2> QED
    BY <1>2, <2>1, <2>2 DEF Next
<1> QED
  BY <1>1, <1>2, LoaderAlways, ScriptAlways, SoleAlways, PTL DEF Spec

-----------------------------------------------------------------------------
(* The theorems about what loading comes to.                               *)

\* The cache comes to what loading modules one after another comes to:
\* however the threads that share it interleave, nothing it hands out, and
\* no script that ends well, is broken somewhere below; and a thread that
\* has it for itself is refused only what cannot be loaded, unless a request
\* failed (get, cycleCheck).
THEOREM ResultsRight == Spec => []ResultsAreRight
<1>1. LoaderInv /\ ScriptInv /\ SoleInv /\ RefusedInv => ResultsAreRight
  <2> SUFFICES ASSUME LoaderInv, ScriptInv, SoleInv, RefusedInv
               PROVE  ResultsAreRight
    OBVIOUS
  <2>1. \A k \in DOMAIN cache : cache[k].result = "ok" => Sound(k)
    BY DEF ScriptInv, OkSound
  <2>2. ASSUME NEW t \in Threads, th[t].pc = "done"
        PROVE  ScriptRuns(t, SoundModules)
    <3>1. ScriptOK(t) /\ Len(stack[t]) = 1 /\ Items(t) = <<>>
      BY <2>2 DEF ScriptInv, ScriptOK, Ends
    <3>2. 1 \in 1 .. Len(stack[t]) /\ Alive(t, 1) /\ Source(t, 1) = Main(t)
      BY <2>2, <3>1 DEF Alive, Source
    <3>3. Past(Main(t), stack[t][1]) /\ stack[t][1].url = Main(t)
      BY <3>1, <3>2 DEF ScriptOK, Passed
    <3>4. stack[t][1].todo = <<>>
      BY <3>1 DEF Items, Top
    <3> QED
      BY <3>3, <3>4, NothingInIt DEF Past, ScriptRuns
  <2>3. ASSUME Alone, lost = 0
        PROVE  /\ \A k \in DOMAIN cache : cache[k].result = "failed" => Broken(k)
               /\ \A o \in Threads : th[o].pc = "failed" => ~ScriptRuns(o, URLs \ BrokenModules)
    <3>1. PICK t \in Threads : Sole(t)
      BY <2>3 DEF Alone, Sole
    <3>2. SoleOK(t) /\ Refused(t)
      BY <2>3, <3>1 DEF SoleInv, RefusedInv
    <3>3. \A o \in Threads \ {t} : th[o].pc # "failed"
      BY <3>2 DEF SoleOK, Idle
    <3> QED
      BY <3>2, <3>3 DEF Refused
  <2> QED
    BY <2>1, <2>2, <2>3 DEF ResultsAreRight
<1> QED
  BY <1>1, LoaderAlways, ScriptAlways, SoleAlways, RefusedAlways, PTL

\* A module that is at a load loads it.
LEMMA AtNeeds ==
    ASSUME LoaderInv, ScriptInv, NEW t \in Threads, NEW i \in 2 .. Len(stack[t]), Alive(t, i),
           stack[t][i].todo # <<>>, Head(stack[t][i].todo).op = "load"
    PROVE  resolveModuleName(stack[t][i].url, Head(stack[t][i].todo).name) \in Needs(stack[t][i].url)
<1> DEFINE u == stack[t][i].url
           x == Head(stack[t][i].todo)
<1>1. i \in 1 .. Len(stack[t]) /\ i > 1 /\ Source(t, i) = ModOpen(Locations, u)
  BY DEF Source
<1>2. x \in ItemsOf(ModOpen(Locations, u)) /\ x.op = "load"
  BY <1>1, AtItem
<1>3. ~Stops(ModOpen(Locations, u))
  BY <1>1 DEF ScriptInv, ScriptOK, Passed
<1> HIDE DEF u, x
<1>4. resolveModuleName(u, x.name) \in Needs(u)
  BY <1>2, <1>3 DEF Needs
<1> QED
  BY <1>4 DEF u, x

\* Whatever threads share the cache, those that wait for nobody but one
\* another ask for modules whose imports lead into a cycle; and a thread that
\* has the cache for itself does not wait (cycleCheck, close(e.ready)).
THEOREM StuckByCycle == Spec => []StuckOnlyByCycle
<1>1. LoaderInv /\ ScriptInv /\ SoleInv => StuckOnlyByCycle
  <2> SUFFICES ASSUME LoaderInv, ScriptInv, SoleInv
               PROVE  StuckOnlyByCycle
    OBVIOUS
  <2> SUFFICES ASSUME NEW W \in (SUBSET Threads) \ {{}}, Stuck(W)
               PROVE  ~Alone /\ \A t \in W : Circular(th[t].want)
    BY DEF StuckOnlyByCycle
  <2> W \in SUBSET Threads /\ W # {}
    OBVIOUS
  <2>1. \A t \in W : /\ th[t].pc = "waiting" /\ ~cache[th[t].want].ready
                     /\ th[t].want \in DOMAIN cache /\ Loaders(th[t].want) \subseteq W
    BY DEF Stuck, LoaderInv, Typed, Known
  <2>2. ~Alone
    <3> SUFFICES ASSUME NEW t \in Threads, Sole(t)
                 PROVE  FALSE
      BY DEF Alone, Sole
    <3>1. Idle(t) /\ Sure(t)
      BY DEF SoleInv, SoleOK
    <3>2. PICK o \in W : TRUE
      OBVIOUS
    <3> QED
      BY <2>1, <3>1, <3>2 DEF Idle, Sure
  <2> DEFINE B == UNION {{stack[o][i].url : i \in 2 .. Len(stack[o])} : o \in W}
  <2>3. B \in SUBSET DOMAIN cache
    BY DEF LoaderInv, ThreadOK, Loading
  <2>4. ASSUME NEW t \in W
        PROVE  th[t].want \in B
    <3>1. PICK o \in Threads : \E i \in 2 .. Len(stack[o]) : stack[o][i].url = th[t].want
      BY <2>1 DEF SoleInv, Taken
    <3>2. o \in W
      BY <2>1, <3>1 DEF Loaders
    <3> QED
      BY <3>1, <3>2
  <2>5. ASSUME NEW o \in W, NEW i \in 2 .. Len(stack[o])
        PROVE  Needs(stack[o][i].url) \cap B # {}
    <3>0. PICK n : n = Len(stack[o])
      OBVIOUS
    <3>1. n \in Nat /\ Top(o) = stack[o][n] /\ i \in 2 .. n
      BY <3>0, TopFacts DEF LoaderInv, Typed
    <3>2. /\ stack[o][i].todo # <<>> /\ Head(stack[o][i].todo).op = "load"
          /\ resolveModuleName(stack[o][i].url, Head(stack[o][i].todo).name) \in B
      <4>1. CASE i = n
        <5>1. /\ Items(o) # <<>> /\ Head(Items(o)).op = "load"
              /\ th[o].want = resolveModuleName(Top(o).url, Head(Items(o)).name)
          BY <2>1 DEF LoaderInv, ThreadOK, Asking, Asks
        <5>2. th[o].want \in B
          BY <2>4
        <5> HIDE DEF B
        <5> QED
          BY <3>1, <4>1, <5>1, <5>2 DEF Items
      <4>2. CASE i # n
        <5>1. i \in 1 .. Len(stack[o]) - 1 /\ i + 1 \in 2 .. Len(stack[o])
          BY <3>0, <3>1, <4>2
        <5>2. /\ stack[o][i].todo # <<>> /\ Head(stack[o][i].todo).op = "load"
              /\ stack[o][i + 1].url =
                   resolveModuleName(stack[o][i].url, Head(stack[o][i].todo).name)
          BY <5>1 DEF LoaderInv, ThreadOK, Asked
        <5>3. stack[o][i + 1].url \in B
          BY <5>1
        <5> HIDE DEF B
        <5> QED
          BY <5>2, <5>3
      <4> QED
        BY <4>1, <4>2
    <3>3. Alive(o, i)
      BY <2>1 DEF Alive, Running, Asks
    <3>4. resolveModuleName(stack[o][i].url, Head(stack[o][i].todo).name) \in Needs(stack[o][i].url)
      BY <3>2, <3>3, AtNeeds
    <3> HIDE DEF B
    <3> QED
      BY <3>2, <3>4
  <2>6. \A m \in B : Needs(m) \cap B # {}
    <3> SUFFICES ASSUME NEW m \in B
                 PROVE  Needs(m) \cap B # {}
      OBVIOUS
    <3>1. PICK o \in W : \E i \in 2 .. Len(stack[o]) : m = stack[o][i].url
      OBVIOUS
    <3>2. PICK i \in 2 .. Len(stack[o]) : m = stack[o][i].url
      BY <3>1
    <3> HIDE DEF B
    <3> QED
      BY <2>5, <3>2
  <2> HIDE DEF B
  <2>7. \A t \in W : Circular(th[t].want)
    BY <2>3, <2>4, <2>6 DEF Circular
  <2> QED
    BY <2>2, <2>7
<1> QED
  BY <1>1, LoaderAlways, ScriptAlways, SoleAlways, PTL
=============================================================================
