---------------------------- MODULE Webhooks_proofs ----------------------------
(***************************************************************************)
(* Proofs about Webhooks, for any refs, pull requests, CI files, remarks,  *)
(* deployments and numbers of acts.  What a delivery says agrees with the  *)
(* act it goes back to, and an act is in one place at a time: on its way   *)
(* in one delivery, in a setup between its calls, or in one build.         *)
(***************************************************************************)
EXTENDS Webhooks, FiniteSetTheorems, SequenceTheorems, WellFoundedInduction, TLAPS

-----------------------------------------------------------------------------
(* The inductive invariant.                                                *)

IsSeq(s) == s \in Seq({s[i] : i \in DOMAIN s})

Histories == IsSeq(asks) /\ IsSeq(commits) /\ commits # <<>>

\* A delivery that can never lead to a build.
Inert(d) ==
    \/ d.kind = "comment" /\ d.by = Bot
    \/ d.kind = "deployment" /\ ~d.run

Inbox == BagToSet(inbox)
Live == {d \in Inbox : ~Inert(d)}

\* What a delivery of each kind says, and the act that led to it.
SuiteOf(d, c) ==
    \E action \in {"requested", "rerequested"}, sha \in DOMAIN commits :
        /\ d = Suite("own", action, sha, c)
        /\ \/ asks[c].act \in {"push", "rerun"} /\ asks[c].sha = sha
           \/ asks[c].act = "comment" /\ asks[c].by \in Members /\ asks[c].cmd = "setup"

CheckRunOf(d, c) ==
    \E i \in DOMAIN checks :
        /\ \/ d = CheckRun("rerequested", i, "none", c) /\ asks[c].act = "rerun"
           \/ \E button \in Buttons :
                 /\ d = CheckRun("requested_action", i, button, c)
                 /\ asks[c].act = button /\ asks[c].check = i
                 /\ asks[c].task = checks[i].task
                 /\ asks[c].ref = commits[checks[i].sha].ref
                 /\ button = "run" => checks[i].task # NoEntry
        /\ asks[c].sha = checks[i].sha /\ checks[i].sha \in DOMAIN commits

DeploymentOf(d, c) ==
    \E sha \in DOMAIN commits, ref \in Refs, type \in PayloadTypes,
       task \in Templates \cup {NoEntry}, run \in BOOLEAN :
        /\ d = Deployment(sha, ref, type, task, run, c)
        /\ run => /\ asks[c].act = "deploy" /\ asks[c].run
                  /\ asks[c].sha = sha /\ asks[c].task = task /\ task # NoEntry

CommentOf(d, c) ==
    \E by \in {Bot} \cup {r.by : r \in Remarks}, cmd \in Cmds, prs \in SUBSET PRs :
        /\ d = Comment(by, cmd, prs, c)
        /\ by # Bot => asks[c].act = "comment" /\ asks[c].by = by /\ asks[c].cmd = cmd

PlainOf(d, c) ==
    \/ \E ref \in Refs : \/ d = Plain("create", ref, c) /\ asks[c].act = "create" /\ asks[c].ref = ref
                         \/ d = Plain("delete", ref, c) /\ asks[c].act = "delete" /\ asks[c].ref = ref
    \/ d = Plain("issue", NoRef, c)
    \/ d = Plain("repository", NoRef, c) /\ asks[c].act = "archive"

DeliveryOf(d, c) ==
    SuiteOf(d, c) \/ CheckRunOf(d, c) \/ DeploymentOf(d, c) \/ CommentOf(d, c) \/ PlainOf(d, c)

Deliveries == \A d \in Inbox : \E c \in DOMAIN asks : DeliveryOf(d, c)

\* Act c, or one after it, put this ref at this commit.
PutAt(c, ref, sha) == \E j \in c .. Len(asks) : asks[j] = PutRef(ref, sha)

\* What a tag points to while the event of its creation is on its way.
TagsArePut ==
    \A d \in Inbox :
        d.kind = "create" /\ d.ref \in Tags /\ head[d.ref] # 0 =>
            PutAt(d.cause, d.ref, head[d.ref])

\* An act is in one place at a time.
InOnePlace ==
    /\ \A d \in Live : inbox[d] = 1
    /\ \A d, e \in Live : d.cause = e.cause => d = e
    /\ \A s, u \in setups : s.cause = u.cause => s = u
    /\ \A i, j \in DOMAIN builds : builds[i].cause = builds[j].cause => i = j
    /\ \A s \in setups, d \in Live : s.cause # d.cause
    /\ \A i \in DOMAIN builds : \A d \in Live : builds[i].cause # d.cause
    /\ \A i \in DOMAIN builds : \A s \in setups : builds[i].cause # s.cause

ChecksExist ==
    \A k \in DOMAIN checks :
        /\ checks[k].sha \in DOMAIN commits
        /\ "run" \in checks[k].buttons => checks[k].task # NoEntry

\* The template a build starts with is named by whoever pressed the button, is
\* deployed, or is the default of its files.
BuildsAsked ==
    \A i \in DOMAIN builds :
        /\ MayBuild(asks[builds[i].cause])
        /\ \/ checks[builds[i].check].deploy
           \/ asks[builds[i].cause].act = "run"
           \/ commits[builds[i].files].files.def.main = checks[builds[i].check].task

SetupsAsked ==
    \A s \in setups :
        /\ s.ref \notin Tags
        /\ asks[s.cause].act = "comment" /\ asks[s.cause].by \in Members
        /\ asks[s.cause].cmd = "setup"

\* Somebody skipped the step of this check run, or had it built.
ByHand(k) ==
    \/ \E j \in DOMAIN asks : asks[j].act = "skip" /\ asks[j].check = k
    \/ \E i \in DOMAIN builds :
          /\ builds[i].check = k /\ ~builds[i].running
          /\ \/ asks[builds[i].cause].act = "run"
             \/ commits[builds[i].files].files.def.main = checks[k].task

EssentialByHand ==
    \A k \in DOMAIN checks :
        /\ checks[k].task \in EssentialTemplates /\ ~checks[k].deploy
        /\ checks[k].state \in {"success", "neutral"}
        => ByHand(k)

Inv ==
    /\ TypeOKHooks /\ Histories /\ Deliveries /\ TagsArePut /\ InOnePlace
    /\ ChecksExist /\ BuildsAsked /\ BuildIsAsAsked /\ SetupsAsked /\ CachesAsAsked
    /\ EssentialByHand

-----------------------------------------------------------------------------
(* Bags and sequences.                                                     *)

\* Adding a set to a bag.
LEMMA BagSent ==
    ASSUME NEW B, IsABag(B), NEW S
    PROVE  LET C == B (+) SetToBag(S)
           IN  /\ IsABag(C) /\ DOMAIN C = DOMAIN B \cup S
               /\ \A e \in DOMAIN B \ S : C[e] = B[e]
               /\ \A e \in S \ DOMAIN B : C[e] = 1
<1> DEFINE C == B (+) SetToBag(S)
<1>1. DOMAIN C = DOMAIN B \cup S
  BY DEF (+), SetToBag
<1>2. \A e \in DOMAIN C :
         C[e] = (IF e \in DOMAIN B THEN B[e] ELSE 0) + (IF e \in S THEN 1 ELSE 0)
  BY DEF (+), SetToBag
<1>3. \A e \in DOMAIN B : B[e] \in Nat /\ B[e] > 0
  BY DEF IsABag
<1>4. C = [e \in DOMAIN C |-> C[e]]
  BY DEF (+)
<1> HIDE DEF C
<1>5. \A e \in DOMAIN C : C[e] \in Nat /\ C[e] > 0
  BY <1>1, <1>2, <1>3
<1>6. IsABag(C)
  BY <1>4, <1>5 DEF IsABag
<1>7. /\ \A e \in DOMAIN B \ S : C[e] = B[e]
      /\ \A e \in S \ DOMAIN B : C[e] = 1
  BY <1>1, <1>2, <1>3
<1>. QED
  BY <1>1, <1>6, <1>7 DEF C

\* Taking one element from a bag.
LEMMA BagTaken ==
    ASSUME NEW B, IsABag(B), NEW d
    PROVE  LET C == B (-) SetToBag({d})
           IN  /\ IsABag(C) /\ DOMAIN C \subseteq DOMAIN B
               /\ DOMAIN B \ {d} \subseteq DOMAIN C
               /\ \A e \in DOMAIN C \ {d} : C[e] = B[e]
               /\ d \in DOMAIN B /\ B[d] = 1 => d \notin DOMAIN C
<1> DEFINE A == [e \in DOMAIN B |-> IF e \in DOMAIN SetToBag({d})
                                  THEN B[e] - SetToBag({d})[e] ELSE B[e]]
           C == [e \in {x \in DOMAIN A : A[x] > 0} |-> A[e]]
<1>1. \A e \in DOMAIN B : B[e] \in Nat /\ B[e] > 0
  BY DEF IsABag
<1>2. DOMAIN A = DOMAIN B
  OBVIOUS
<1>3. \A e \in DOMAIN B : A[e] = IF e = d THEN B[e] - 1 ELSE B[e]
  BY DEF SetToBag
<1>4. B (-) SetToBag({d}) = C
  BY DEF (-)
<1> HIDE DEF A
<1>5. /\ \A e \in DOMAIN C : e \in DOMAIN B /\ C[e] = A[e] /\ A[e] > 0
      /\ \A e \in DOMAIN B : A[e] > 0 => e \in DOMAIN C
  BY <1>2
<1>6. C = [e \in DOMAIN C |-> C[e]]
  OBVIOUS
<1> HIDE DEF C
<1>7. \A e \in DOMAIN C : C[e] \in Nat /\ C[e] > 0
  BY <1>1, <1>3, <1>5
<1>8. IsABag(C)
  BY <1>6, <1>7 DEF IsABag
<1>9. /\ DOMAIN C \subseteq DOMAIN B
      /\ DOMAIN B \ {d} \subseteq DOMAIN C
      /\ \A e \in DOMAIN C \ {d} : C[e] = B[e]
      /\ d \in DOMAIN B /\ B[d] = 1 => d \notin DOMAIN C
  BY <1>1, <1>3, <1>5
<1>. QED
  BY <1>4, <1>8, <1>9

LEMMA SeqFacts ==
    ASSUME NEW s, IsSeq(s)
    PROVE  Len(s) \in Nat /\ DOMAIN s = 1 .. Len(s)
<1> DEFINE S == {s[i] : i \in DOMAIN s}
<1>1. s \in Seq(S)
  BY DEF IsSeq
<1> HIDE DEF S
<1>. QED
  BY <1>1

LEMMA Appended ==
    ASSUME NEW s, IsSeq(s), NEW x
    PROVE  LET t == Append(s, x)
           IN  /\ IsSeq(t) /\ Len(t) = Len(s) + 1 /\ DOMAIN t = 1 .. Len(s) + 1
               /\ \A i \in DOMAIN s : t[i] = s[i]
               /\ t[Len(s) + 1] = x
<1> DEFINE S == {s[i] : i \in DOMAIN s} \cup {x}
           t == Append(s, x)
           T == {t[i] : i \in DOMAIN t}
<1>1. s \in Seq({s[i] : i \in DOMAIN s})
  BY DEF IsSeq
<1>2. s \in Seq(S)
  <2> DEFINE R == {s[i] : i \in DOMAIN s}
  <2>1. s \in Seq(R) /\ R \subseteq S
    BY <1>1
  <2> HIDE DEF R, S
  <2>. QED
    BY <2>1
<1>3. x \in S
  OBVIOUS
<1>4. /\ t \in Seq(S) /\ Len(t) = Len(s) + 1 /\ DOMAIN t = 1 .. Len(s) + 1
      /\ \A i \in 1 .. Len(s) : t[i] = s[i]
      /\ t[Len(s) + 1] = x
  <2> HIDE DEF S
  <2>. QED
    BY <1>2, <1>3
<1>5. \A i \in DOMAIN t : t[i] \in T
  OBVIOUS
<1>6. t \in Seq(T)
  <2>1. Len(t) \in Nat /\ DOMAIN t = 1 .. Len(t) /\ t = [i \in 1 .. Len(t) |-> t[i]]
    <3> HIDE DEF S, t, T
    <3>. QED
      BY <1>4
  <2> HIDE DEF S, t, T
  <2>. QED
    BY <1>5, <2>1
<1>. QED
  BY <1>4, <1>6, SeqFacts DEF IsSeq

\* A set of natural numbers has a least element.
LEMMA LeastOf ==
    ASSUME NEW T, T \subseteq Nat, T # {}
    PROVE  \E x \in T : \A y \in T : x <= y
<1> DEFINE R == {ss \in Nat \X Nat : ss[1] < ss[2]}
<1>1. R = OpToRel(<, Nat)
  BY Zenon DEF OpToRel
<1>2. IsWellFoundedOn(R, Nat)
  BY <1>1, NatLessThanWellFounded, Zenon
<1>3. \A x, y \in Nat : <<y, x>> \in R <=> y < x
  OBVIOUS
<1> HIDE DEF R
<1>4. PICK x \in T : \A y \in T : ~ (<<y, x>> \in R)
  BY <1>2, WFMin, Zenon
<1>5. \A y \in T : ~ (y < x)
  BY <1>3, <1>4
<1>. QED
  BY <1>5

\* One that is bounded has a greatest.
LEMMA GreatestOf ==
    ASSUME NEW n \in Nat, NEW I, I \subseteq 1 .. n, I # {}
    PROVE  Max(I) \in I
<1> DEFINE T == {n - i : i \in I}
<1>1. T \subseteq Nat /\ T # {}
  <2>1. PICK k \in I : TRUE
    OBVIOUS
  <2>2. n - k \in T
    BY <2>1
  <2>3. \A j \in 1 .. n : n - j \in Nat
    OBVIOUS
  <2>. QED
    BY <2>2, <2>3
<1>2. PICK x \in T : \A y \in T : x <= y
  <2> HIDE DEF T
  <2>. QED
    BY <1>1, LeastOf
<1>3. PICK i \in I : x = n - i
  OBVIOUS
<1>4. \A j \in I : i >= j
  <2>1. SUFFICES ASSUME NEW j \in I PROVE i >= j
    OBVIOUS
  <2>2. n - j \in T
    OBVIOUS
  <2>3. n - i <= n - j
    BY <1>2, <1>3, <2>2
  <2>4. i \in Nat /\ j \in Nat
    OBVIOUS
  <2> HIDE DEF T
  <2>. QED
    BY <2>3, <2>4
<1>. QED
  BY <1>4 DEF Max

LEMMA SetToSeqOf ==
    ASSUME NEW S, IsFiniteSet(S)
    PROVE  /\ Cardinality(S) \in Nat
           /\ SetToSeq(S) \in [1 .. Cardinality(S) -> S]
<1>1. Cardinality(S) \in Nat /\ ExistsBijection(1 .. Cardinality(S), S)
  BY FS_CardinalityType, Zenon
<1>2. \E f \in [1 .. Cardinality(S) -> S] : IsInjective(f)
  BY <1>1 DEF ExistsBijection, Bijection, Injection
<1>. QED
  BY <1>1, <1>2 DEF SetToSeq

-----------------------------------------------------------------------------
(* The initial state.                                                      *)

LEMMA SingletonBag ==
    ASSUME NEW x
    PROVE  LET B == SetToBag({x})
           IN  IsABag(B) /\ DOMAIN B = {x} /\ B[x] = 1
  BY DEF SetToBag, IsABag

LEMMA FirstHeads ==
    [r \in Refs |-> SelectLastInSeq(Branches, LAMBDA b : b.ref = r)]
        \in [Refs -> 0 .. Len(Branches)]
<1>1. Len(Branches) \in Nat
  BY HooksAssumption
<1>2. ASSUME NEW r \in Refs
      PROVE  SelectLastInSeq(Branches, LAMBDA b : b.ref = r) \in 0 .. Len(Branches)
  <2> DEFINE I == {i \in 1 .. Len(Branches) : Branches[i].ref = r}
  <2>1. SelectLastInSeq(Branches, LAMBDA b : b.ref = r) = IF I # {} THEN Max(I) ELSE 0
    BY DEF SelectLastInSeq
  <2>2. I # {} => Max(I) \in I
    BY <1>1, GreatestOf
  <2>3. I \subseteq 0 .. Len(Branches)
    BY <1>1
  <2> HIDE DEF I
  <2>. QED
    BY <1>1, <2>1, <2>2, <2>3
<1>. QED
  BY <1>2

LEMMA InitInv == InitHooks => Inv
<1> SUFFICES ASSUME InitHooks PROVE Inv
  OBVIOUS
<1> DEFINE n == Len(Branches)
<1>1. /\ n \in Nat \ {0} /\ DOMAIN Branches = 1 .. n
      /\ \A k \in 1 .. n : Branches[k].ref \in Refs /\ Branches[k].files \in AllFiles
  <2> DEFINE S == [ref: Refs \ Tags, files: AllFiles]
  <2>1. Branches \in Seq(S) /\ Branches # <<>>
    BY HooksAssumption
  <2>2. \A b \in S : b.ref \in Refs /\ b.files \in AllFiles
    OBVIOUS
  <2> HIDE DEF S
  <2>. QED
    BY <2>1, <2>2
<1>2. /\ asks = <<About("push", n, NoEntry)>> /\ Len(asks) = 1 /\ DOMAIN asks = {1}
      /\ asks[1].act = "push" /\ asks[1].sha = n
  BY DEF InitHooks, About
<1>3. /\ checks = <<>> /\ builds = <<>> /\ setups = {} /\ cleared = {}
      /\ commits = Branches
      /\ DOMAIN checks = {} /\ DOMAIN builds = {}
  BY DEF InitHooks
<1>4. head \in [Refs -> 0 .. n]
  BY FirstHeads DEF InitHooks
<1> DEFINE d == Suite("own", "requested", n, 1)
<1>5. /\ IsABag(inbox) /\ Inbox = {d} /\ inbox[d] = 1
      /\ d.kind = "check_suite"
  BY SingletonBag DEF InitHooks, Inbox, BagToSet, Suite
<1>6. TypeOKHooks
  <2>1. checks \in Seq(Checks)
    BY <1>3
  <2>2. builds \in Seq([check: DOMAIN checks, ref: Refs, files: DOMAIN commits,
                         cause: DOMAIN asks, ads: BOOLEAN, running: BOOLEAN])
    BY <1>3
  <2>. QED
    BY <1>1, <1>3, <1>4, <1>5, <2>1, <2>2 DEF TypeOKHooks
<1>7. Histories
  <2>1. IsSeq(asks)
    <3>1. asks[1] \in {asks[i] : i \in DOMAIN asks}
      BY <1>2
    <3>2. asks = <<asks[1]>>
      BY <1>2
    <3> DEFINE S == {asks[i] : i \in DOMAIN asks}
    <3> HIDE DEF S
    <3>3. \A x \in S : <<x>> \in Seq(S)
      OBVIOUS
    <3>. QED
      BY <3>1, <3>2, <3>3 DEF IsSeq, S
  <2>2. IsSeq(Branches)
    <3> DEFINE S == {Branches[i] : i \in DOMAIN Branches}
    <3>1. \A i \in DOMAIN Branches : Branches[i] \in S
      OBVIOUS
    <3>2. Branches = [i \in 1 .. n |-> Branches[i]]
      <4> DEFINE R == [ref: Refs \ Tags, files: AllFiles]
      <4>1. Branches \in Seq(R)
        BY HooksAssumption
      <4> HIDE DEF R
      <4>. QED
        BY <4>1
    <3> HIDE DEF S
    <3>3. Branches \in Seq(S)
      BY <1>1, <3>1, <3>2
    <3>. QED
      BY <3>3 DEF IsSeq, S
  <2>3. Branches # <<>>
    BY HooksAssumption
  <2>. QED
    BY <1>3, <2>1, <2>2, <2>3 DEF Histories
<1>8. Deliveries
  <2>1. SuiteOf(d, 1)
    BY <1>1, <1>2, <1>3 DEF SuiteOf
  <2>. QED
    BY <1>2, <1>5, <2>1 DEF Deliveries, DeliveryOf
<1>9. TagsArePut
  BY <1>5 DEF TagsArePut
<1>10. InOnePlace
  BY <1>3, <1>5 DEF InOnePlace, Live
<1>. QED
  BY <1>3, <1>6, <1>7, <1>8, <1>9, <1>10
     DEF Inv, ChecksExist, BuildsAsked, BuildIsAsAsked, SetupsAsked, CachesAsAsked,
         EssentialByHand

-----------------------------------------------------------------------------
(* What each part of the state is made of, and what only grows.            *)

BuildSet ==
    [check: DOMAIN checks, ref: Refs, files: DOMAIN commits, cause: DOMAIN asks,
     ads: BOOLEAN, running: BOOLEAN]

LEMMA Lengths ==
    ASSUME Histories
    PROVE  /\ Len(asks) \in Nat /\ DOMAIN asks = 1 .. Len(asks)
           /\ Len(commits) \in Nat \ {0} /\ DOMAIN commits = 1 .. Len(commits)
<1>1. /\ Len(asks) \in Nat /\ DOMAIN asks = 1 .. Len(asks)
      /\ Len(commits) \in Nat /\ DOMAIN commits = 1 .. Len(commits)
  BY SeqFacts DEF Histories
<1>2. Len(commits) # 0
  <2> DEFINE S == {commits[i] : i \in DOMAIN commits}
  <2>1. commits \in Seq(S) /\ commits # <<>>
    BY DEF Histories, IsSeq
  <2> HIDE DEF S
  <2>. QED
    BY <2>1
<1>. QED
  BY <1>1, <1>2

LEMMA Made ==
    ASSUME TypeOKHooks
    PROVE  /\ Len(checks) \in Nat /\ DOMAIN checks = 1 .. Len(checks)
           /\ \A k \in DOMAIN checks : checks[k] \in Checks
           /\ Len(builds) \in Nat /\ DOMAIN builds = 1 .. Len(builds)
           /\ \A i \in DOMAIN builds : builds[i] \in BuildSet
<1>1. checks \in Seq(Checks) /\ builds \in Seq(BuildSet)
  BY DEF TypeOKHooks, BuildSet
<1> HIDE DEF Checks, BuildSet
<1>. QED
  BY <1>1

LEMMA MadeOf ==
    ASSUME TypeOKHooks
    PROVE  /\ \A k \in DOMAIN checks :
                 /\ checks[k].task \in Templates \cup {NoEntry}
                 /\ checks[k].deploy \in BOOLEAN /\ checks[k].buttons \subseteq Buttons
           /\ \A i \in DOMAIN builds :
                 /\ builds[i].check \in DOMAIN checks /\ builds[i].ref \in Refs
                 /\ builds[i].files \in DOMAIN commits /\ builds[i].cause \in DOMAIN asks
                 /\ builds[i].ads \in BOOLEAN /\ builds[i].running \in BOOLEAN
<1>1. ASSUME NEW x \in Checks
      PROVE  /\ x.task \in Templates \cup {NoEntry} /\ x.deploy \in BOOLEAN
             /\ x.buttons \subseteq Buttons
  BY DEF Checks
<1>2. ASSUME NEW b \in BuildSet
      PROVE  /\ b.check \in DOMAIN checks /\ b.ref \in Refs /\ b.files \in DOMAIN commits
             /\ b.cause \in DOMAIN asks /\ b.ads \in BOOLEAN /\ b.running \in BOOLEAN
  BY DEF BuildSet
<1>. QED
  BY <1>1, <1>2, Made

\* What was done stays done; check runs keep what they are about.
Grows ==
    /\ DOMAIN asks \subseteq DOMAIN asks'
    /\ \A c \in DOMAIN asks : asks'[c] = asks[c]
    /\ DOMAIN commits \subseteq DOMAIN commits'
    /\ \A k \in DOMAIN commits : commits'[k] = commits[k]
    /\ DOMAIN checks \subseteq DOMAIN checks'
    /\ \A k \in DOMAIN checks :
          /\ checks'[k].task = checks[k].task /\ checks'[k].sha = checks[k].sha
          /\ checks'[k].deploy = checks[k].deploy

LEMMA CauseOf ==
    ASSUME NEW d, NEW c, DeliveryOf(d, c)
    PROVE  d.cause = c
<1>1. CASE SuiteOf(d, c)
  BY <1>1 DEF SuiteOf, Suite
<1>2. CASE CheckRunOf(d, c)
  BY <1>2 DEF CheckRunOf, CheckRun
<1>3. CASE DeploymentOf(d, c)
  BY <1>3 DEF DeploymentOf, Deployment
<1>4. CASE CommentOf(d, c)
  BY <1>4 DEF CommentOf, Comment
<1>5. CASE PlainOf(d, c)
  BY <1>5 DEF PlainOf, Plain
<1>. QED
  BY <1>1, <1>2, <1>3, <1>4, <1>5 DEF DeliveryOf

LEMMA DeliveryStays ==
    ASSUME Grows, NEW d, NEW c \in DOMAIN asks, DeliveryOf(d, c)
    PROVE  c \in DOMAIN asks' /\ DeliveryOf(d, c)'
<1>0. c \in DOMAIN asks' /\ asks'[c] = asks[c]
  BY DEF Grows
<1>1. SuiteOf(d, c) => SuiteOf(d, c)'
  BY <1>0 DEF SuiteOf, Grows, Suite
<1>2. CheckRunOf(d, c) => CheckRunOf(d, c)'
  <2> SUFFICES ASSUME CheckRunOf(d, c) PROVE CheckRunOf(d, c)'
    OBVIOUS
  <2>1. PICK i \in DOMAIN checks :
           /\ \/ d = CheckRun("rerequested", i, "none", c) /\ asks[c].act = "rerun"
              \/ \E button \in Buttons :
                    /\ d = CheckRun("requested_action", i, button, c)
                    /\ asks[c].act = button /\ asks[c].check = i
                    /\ asks[c].task = checks[i].task
                    /\ asks[c].ref = commits[checks[i].sha].ref
                    /\ button = "run" => checks[i].task # NoEntry
           /\ asks[c].sha = checks[i].sha /\ checks[i].sha \in DOMAIN commits
    BY DEF CheckRunOf
  <2>2. i \in DOMAIN checks' /\ checks'[i].task = checks[i].task /\ checks'[i].sha = checks[i].sha
    BY <2>1 DEF Grows
  <2>3. /\ checks'[i].sha \in DOMAIN commits'
        /\ commits'[checks'[i].sha].ref = commits[checks[i].sha].ref
    BY <2>1, <2>2 DEF Grows
  <2>. QED
    BY <1>0, <2>1, <2>2, <2>3 DEF CheckRunOf, CheckRun
<1>3. DeploymentOf(d, c) => DeploymentOf(d, c)'
  BY <1>0 DEF DeploymentOf, Grows, Deployment
<1>4. CommentOf(d, c) => CommentOf(d, c)'
  BY <1>0 DEF CommentOf, Comment
<1>5. PlainOf(d, c) => PlainOf(d, c)'
  BY <1>0 DEF PlainOf, Plain
<1>. QED
  BY <1>0, <1>1, <1>2, <1>3, <1>4, <1>5 DEF DeliveryOf

LEMMA DeliveriesStay ==
    ASSUME Deliveries, Grows, NEW out, Inbox' \subseteq Inbox \cup out,
           \A e \in out : \E c \in DOMAIN asks' : DeliveryOf(e, c)'
    PROVE  Deliveries'
<1> SUFFICES ASSUME NEW d \in Inbox' PROVE \E c \in DOMAIN asks' : DeliveryOf(d, c)'
  BY DEF Deliveries
<1>1. CASE d \in Inbox
  <2>1. PICK c \in DOMAIN asks : DeliveryOf(d, c)
    BY <1>1 DEF Deliveries
  <2>. QED
    BY <2>1, DeliveryStays
<1>. QED
  BY <1>1

LEMMA TagsStay ==
    ASSUME Histories, Histories', Deliveries, TagsArePut, Grows,
           NEW out, Inbox' \subseteq Inbox \cup out,
           \A e \in out : e.kind = "create" /\ e.ref \in Tags /\ head'[e.ref] # 0
                 => \E j \in e.cause .. Len(asks') : asks'[j] = PutRef(e.ref, head'[e.ref]),
           \A r \in Tags : \/ head'[r] = head[r]
                           \/ head'[r] = 0
                           \/ asks'[Len(asks')] = PutRef(r, head'[r])
    PROVE  TagsArePut'
<1> SUFFICES ASSUME NEW d \in Inbox', d.kind = "create", d.ref \in Tags, head'[d.ref] # 0
             PROVE  \E j \in d.cause .. Len(asks') : asks'[j] = PutRef(d.ref, head'[d.ref])
  BY DEF TagsArePut, PutAt
<1>1. CASE d \in out
  BY <1>1
<1>2. CASE d \in Inbox
  <2>1. d.cause \in DOMAIN asks
    BY <1>2, CauseOf DEF Deliveries
  <2>2. /\ Len(asks) \in Nat /\ DOMAIN asks = 1 .. Len(asks)
        /\ Len(asks') \in Nat /\ DOMAIN asks' = 1 .. Len(asks')
        /\ Len(asks) <= Len(asks')
    <3>1. /\ Len(asks) \in Nat /\ DOMAIN asks = 1 .. Len(asks)
          /\ Len(asks') \in Nat /\ DOMAIN asks' = 1 .. Len(asks')
      BY SeqFacts DEF Histories
    <3>2. Len(asks) = 0 \/ Len(asks) \in 1 .. Len(asks')
      BY <3>1 DEF Grows
    <3>. QED
      BY <3>1, <3>2
  <2>3. CASE head'[d.ref] = head[d.ref]
    <3>1. PICK j \in d.cause .. Len(asks) : asks[j] = PutRef(d.ref, head'[d.ref])
      BY <1>2, <2>3 DEF TagsArePut, PutAt
    <3>2. j \in DOMAIN asks /\ j \in d.cause .. Len(asks')
      BY <2>1, <2>2, <3>1
    <3>3. asks'[j] = asks[j]
      BY <3>2 DEF Grows
    <3>. QED
      BY <3>1, <3>2, <3>3
  <2>4. CASE asks'[Len(asks')] = PutRef(d.ref, head'[d.ref])
    <3>1. Len(asks') \in d.cause .. Len(asks')
      BY <2>1, <2>2
    <3>. QED
      BY <2>4, <3>1
  <2>. QED
    BY <2>3, <2>4
<1>. QED
  BY <1>1, <1>2

-----------------------------------------------------------------------------
(* The inbox.                                                              *)

LEMMA Answered ==
    ASSUME IsABag(inbox), InOnePlace, NEW d, NEW out, Answer(d, out),
           \A e \in out : Inert(e)
    PROVE  /\ IsABag(inbox') /\ Inbox' \subseteq Inbox \cup out
           /\ Live' \subseteq Live \ {d}
           /\ \A e \in Live' : inbox'[e] = 1
<1> DEFINE B == inbox (-) SetToBag({d})
<1>1. /\ IsABag(B) /\ DOMAIN B \subseteq DOMAIN inbox
      /\ \A e \in DOMAIN B \ {d} : B[e] = inbox[e]
      /\ d \in DOMAIN inbox /\ inbox[d] = 1 => d \notin DOMAIN B
  BY BagTaken
<1> HIDE DEF B
<1>2. /\ IsABag(inbox') /\ DOMAIN inbox' = DOMAIN B \cup out
      /\ \A e \in DOMAIN B \ out : inbox'[e] = B[e]
  <2>1. inbox' = B (+) SetToBag(out)
    BY DEF Answer, B
  <2>. QED
    BY <1>1, <2>1, BagSent
<1>3. ASSUME NEW e \in Live'
      PROVE  e \in Live /\ e # d /\ inbox'[e] = 1
  <2>1. e \in DOMAIN inbox' /\ ~Inert(e)
    BY DEF Live, Inbox, BagToSet, Inert
  <2>2. e \in DOMAIN B \ out
    BY <1>2, <2>1
  <2>3. e \in Live
    BY <1>1, <2>1, <2>2 DEF Live, Inbox, BagToSet
  <2>4. inbox[e] = 1
    BY <2>3 DEF InOnePlace
  <2>5. e # d
    BY <1>1, <2>2, <2>4
  <2>. QED
    BY <1>1, <1>2, <2>2, <2>3, <2>4, <2>5
<1>4. Inbox' \subseteq Inbox \cup out
  BY <1>1, <1>2 DEF Inbox, BagToSet
<1>. QED
  BY <1>2, <1>3, <1>4

\* Deliveries that can never lead to a build are sent.
LEMMA SentInert ==
    ASSUME IsABag(inbox), InOnePlace, NEW out, Send(out), \A e \in out : Inert(e)
    PROVE  /\ IsABag(inbox') /\ Inbox' \subseteq Inbox \cup out
           /\ Live' \subseteq Live
           /\ \A e \in Live' : inbox'[e] = 1
<1>1. /\ IsABag(inbox') /\ DOMAIN inbox' = DOMAIN inbox \cup out
      /\ \A e \in DOMAIN inbox \ out : inbox'[e] = inbox[e]
  <2>1. inbox' = inbox (+) SetToBag(out)
    BY DEF Send
  <2>. QED
    BY <2>1, BagSent, Zenon
<1>2. ASSUME NEW e \in Live'
      PROVE  e \in Live /\ inbox'[e] = 1
  <2>1. e \in DOMAIN inbox' /\ ~Inert(e)
    BY DEF Live, Inbox, BagToSet, Inert
  <2>2. e \in DOMAIN inbox \ out
    BY <1>1, <2>1
  <2>. QED
    BY <1>1, <2>1, <2>2 DEF Live, Inbox, BagToSet, InOnePlace
<1>. QED
  BY <1>1, <1>2 DEF Inbox, BagToSet

\* One delivery is sent that is not on its way already.
LEMMA SentNew ==
    ASSUME IsABag(inbox), InOnePlace, NEW e, e \notin Inbox, Send({e})
    PROVE  /\ IsABag(inbox') /\ Inbox' = Inbox \cup {e}
           /\ Live' \subseteq Live \cup {e}
           /\ \A x \in Live' : inbox'[x] = 1
<1>1. /\ IsABag(inbox') /\ DOMAIN inbox' = DOMAIN inbox \cup {e}
      /\ \A x \in DOMAIN inbox \ {e} : inbox'[x] = inbox[x]
      /\ \A x \in {e} \ DOMAIN inbox : inbox'[x] = 1
  <2> DEFINE S == {e}
  <2>1. inbox' = inbox (+) SetToBag(S)
    BY DEF Send
  <2> HIDE DEF S
  <2>2. /\ IsABag(inbox') /\ DOMAIN inbox' = DOMAIN inbox \cup S
        /\ \A x \in DOMAIN inbox \ S : inbox'[x] = inbox[x]
    BY <2>1, BagSent
  <2>3. \A x \in S \ DOMAIN inbox : inbox'[x] = 1
    BY <2>1 DEF (+), SetToBag
  <2>. QED
    BY <2>2, <2>3 DEF S
<1>2. ASSUME NEW x \in Live'
      PROVE  x \in Live \cup {e} /\ inbox'[x] = 1
  <2>1. x \in DOMAIN inbox' /\ ~Inert(x)
    BY DEF Live, Inbox, BagToSet, Inert
  <2>2. CASE x = e
    BY <1>1, <2>2 DEF Inbox, BagToSet
  <2>3. CASE x # e
    BY <1>1, <2>1, <2>3 DEF Live, Inbox, BagToSet, InOnePlace
  <2>. QED
    BY <2>2, <2>3
<1>. QED
  BY <1>1, <1>2 DEF Inbox, BagToSet

\* Nothing is where it was not before.
LEMMA PlacesKept ==
    ASSUME InOnePlace, Live' \subseteq Live, \A e \in Live' : inbox'[e] = 1,
           setups' \subseteq setups, DOMAIN builds' = DOMAIN builds,
           \A i \in DOMAIN builds : builds'[i].cause = builds[i].cause
    PROVE  InOnePlace'
<1>1. /\ \A d, e \in Live' : d.cause = e.cause => d = e
      /\ \A s, u \in setups' : s.cause = u.cause => s = u
      /\ \A s \in setups', d \in Live' : s.cause # d.cause
  BY DEF InOnePlace
<1>2. /\ \A i, j \in DOMAIN builds' : builds'[i].cause = builds'[j].cause => i = j
      /\ \A i \in DOMAIN builds' : \A d \in Live' : builds'[i].cause # d.cause
      /\ \A i \in DOMAIN builds' : \A s \in setups' : builds'[i].cause # s.cause
  BY DEF InOnePlace
<1>. QED
  BY <1>1, <1>2 DEF InOnePlace

-----------------------------------------------------------------------------
(* Steps that leave check runs, builds, setups and caches alone.           *)

LEMMA EffectsStay ==
    ASSUME Inv, Histories', Grows, UNCHANGED <<checks, builds, setups, cleared>>
    PROVE  /\ ChecksExist' /\ BuildsAsked' /\ BuildIsAsAsked' /\ SetupsAsked'
           /\ CachesAsAsked' /\ EssentialByHand'
<1>1. /\ \A i \in DOMAIN builds :
            /\ builds[i].check \in DOMAIN checks /\ builds[i].files \in DOMAIN commits
            /\ builds[i].cause \in DOMAIN asks
      /\ \A s \in setups : s.cause \in DOMAIN asks
      /\ \A c \in cleared : c.cause \in DOMAIN asks
  BY MadeOf DEF Inv, TypeOKHooks
<1>2. /\ Len(asks) \in Nat /\ DOMAIN asks = 1 .. Len(asks)
      /\ Len(asks') \in Nat /\ DOMAIN asks' = 1 .. Len(asks')
  BY SeqFacts DEF Inv, Histories
<1>3. ChecksExist'
  BY DEF Inv, ChecksExist, Grows
<1>4. BuildsAsked'
  BY <1>1 DEF Inv, BuildsAsked, Grows
<1>5. BuildIsAsAsked'
  <2> SUFFICES ASSUME NEW i \in DOMAIN builds
               PROVE  LET c == builds[i].cause
                          check == checks[builds[i].check]
                      IN  /\ asks'[c].act \in {"push", "rerun", "run", "deploy"}
                                => check.sha = asks'[c].sha
                          /\ asks'[c].act = "create" =>
                                \E j \in c .. Len(asks') :
                                    asks'[j] = PutRef(asks'[c].ref, check.sha)
                          /\ asks'[c].act \in {"run", "deploy"} => check.task = asks'[c].task
    BY DEF BuildIsAsAsked
  <2> DEFINE c == builds[i].cause
             check == checks[builds[i].check]
  <2>1. c \in DOMAIN asks /\ asks'[c] = asks[c]
    BY <1>1 DEF Grows
  <2>2. /\ asks[c].act \in {"push", "rerun", "run", "deploy"} => check.sha = asks[c].sha
        /\ asks[c].act = "create" =>
              \E j \in c .. Len(asks) : asks[j] = PutRef(asks[c].ref, check.sha)
        /\ asks[c].act \in {"run", "deploy"} => check.task = asks[c].task
    BY DEF Inv, BuildIsAsAsked
  <2>3. \A j \in c .. Len(asks) : j \in c .. Len(asks') /\ asks'[j] = asks[j]
    BY <1>2, <2>1 DEF Grows
  <2>. QED
    BY <2>1, <2>2, <2>3
<1>6. SetupsAsked' /\ CachesAsAsked'
  BY <1>1 DEF Inv, SetupsAsked, CachesAsAsked, Grows
<1>7. EssentialByHand'
  <2> SUFFICES ASSUME NEW k \in DOMAIN checks, checks[k].task \in EssentialTemplates,
                      ~checks[k].deploy, checks[k].state \in {"success", "neutral"}
               PROVE  ByHand(k)'
    BY DEF EssentialByHand
  <2>1. ByHand(k)
    BY DEF Inv, EssentialByHand
  <2>2. CASE \E j \in DOMAIN asks : asks[j].act = "skip" /\ asks[j].check = k
    BY <2>2 DEF ByHand, Grows
  <2>3. CASE \E i \in DOMAIN builds :
                /\ builds[i].check = k /\ ~builds[i].running
                /\ \/ asks[builds[i].cause].act = "run"
                   \/ commits[builds[i].files].files.def.main = checks[k].task
    BY <1>1, <2>3 DEF ByHand, Grows
  <2>. QED
    BY <2>1, <2>2, <2>3 DEF ByHand
<1>. QED
  BY <1>3, <1>4, <1>5, <1>6, <1>7

\* The types of what did not change.
LEMMA TypesStay ==
    ASSUME TypeOKHooks, Grows, UNCHANGED <<checks, builds, setups, cleared>>
    PROVE  /\ checks' \in Seq(Checks)
           /\ builds' \in Seq([check: DOMAIN checks', ref: Refs, files: DOMAIN commits',
                              cause: DOMAIN asks', ads: BOOLEAN, running: BOOLEAN])
           /\ setups' \subseteq [ref: Refs, seen: AllFiles, cause: DOMAIN asks']
           /\ cleared' \subseteq [ref: Refs \cup {NoRef}, cause: DOMAIN asks']
<1>1. checks' \in Seq(Checks)
  BY DEF TypeOKHooks
<1>2. builds' \in Seq(BuildSet')
  <2>1. builds \in Seq(BuildSet)
    BY DEF TypeOKHooks, BuildSet
  <2>2. BuildSet \subseteq BuildSet'
    BY DEF BuildSet, Grows
  <2> HIDE DEF BuildSet
  <2>. QED
    BY <2>1, <2>2
<1>3. setups' \subseteq [ref: Refs, seen: AllFiles, cause: DOMAIN asks']
  BY DEF TypeOKHooks, Grows
<1>4. cleared' \subseteq [ref: Refs \cup {NoRef}, cause: DOMAIN asks']
  BY DEF TypeOKHooks, Grows
<1>. QED
  BY <1>1, <1>2, <1>3, <1>4 DEF BuildSet

-----------------------------------------------------------------------------
(* Users.                                                                  *)

\* The commits and refs of a state to come.
RepositoryGrows ==
    /\ IsSeq(commits') /\ commits' # <<>>
    /\ DOMAIN commits \subseteq DOMAIN commits'
    /\ \A k \in DOMAIN commits : commits'[k] = commits[k]
    /\ \A k \in DOMAIN commits' : commits'[k].ref \in Refs /\ commits'[k].files \in AllFiles
    /\ head' \in [Refs -> 0 .. Len(commits')]

LEMMA RepositoryStays ==
    ASSUME Inv, commits' = commits, head' \in [Refs -> 0 .. Len(commits)]
    PROVE  RepositoryGrows
  BY DEF Inv, TypeOKHooks, Histories, RepositoryGrows

LEMMA Committed ==
    ASSUME Inv, NEW ref \in Refs, NEW files \in AllFiles, NEW cause, NewCommit(ref, files, cause)
    PROVE  /\ RepositoryGrows
           /\ Len(commits) + 1 \in DOMAIN commits'
           /\ Len(commits') = Len(commits) + 1
           /\ \A r \in Refs : r # ref => head'[r] = head[r]
<1> DEFINE n == Len(commits) + 1
           new == [ref |-> ref, files |-> files]
<1>1. Len(commits) \in Nat /\ DOMAIN commits = 1 .. Len(commits) /\ head \in [Refs -> 0 .. Len(commits)]
  BY Lengths DEF Inv, TypeOKHooks
<1>2. /\ IsSeq(commits') /\ Len(commits') = n /\ DOMAIN commits' = 1 .. n
      /\ \A k \in DOMAIN commits : commits'[k] = commits[k]
      /\ commits'[n] = new
  <2>1. IsSeq(commits) /\ commits' = Append(commits, new)
    BY DEF Inv, Histories, NewCommit
  <2> HIDE DEF new
  <2>. QED
    BY <2>1, Appended
<1>3. \A k \in DOMAIN commits' : commits'[k].ref \in Refs /\ commits'[k].files \in AllFiles
  <2> SUFFICES ASSUME NEW k \in DOMAIN commits'
               PROVE  commits'[k].ref \in Refs /\ commits'[k].files \in AllFiles
    OBVIOUS
  <2>1. CASE k = n
    BY <1>2, <2>1
  <2>2. CASE k # n
    <3>1. k \in DOMAIN commits
      BY <1>1, <1>2, <2>2
    <3>. QED
      BY <1>2, <3>1 DEF Inv, TypeOKHooks
  <2>. QED
    BY <2>1, <2>2
<1>4. commits' # <<>>
  BY <1>1, <1>2
<1>5. head' = [head EXCEPT ![ref] = n]
  BY <1>2 DEF NewCommit
<1>6. /\ head' \in [Refs -> 0 .. n]
      /\ \A r \in Refs : r # ref => head'[r] = head[r]
  BY <1>1, <1>5
<1>. QED
  BY <1>1, <1>2, <1>3, <1>4, <1>6 DEF RepositoryGrows

\* An act that sends the delivery e and has no other effect than on the
\* repository.
LEMMA ActInv ==
    ASSUME Inv, NEW a, NEW c, NEW e,
           c = Len(asks) + 1, asks' = Append(asks, a), Send({e}), DeliveryOf(e, c)', e.cause = c,
           RepositoryGrows, UNCHANGED <<checks, builds, setups, cleared>>,
           e.kind = "create" /\ e.ref \in Tags /\ head'[e.ref] # 0
               => a = PutRef(e.ref, head'[e.ref]),
           \A r \in Tags : \/ head'[r] = head[r]
                           \/ head'[r] = 0
                           \/ a = PutRef(r, head'[r])
    PROVE  Inv'
<1>1. /\ IsSeq(asks') /\ Len(asks') = c /\ DOMAIN asks' = 1 .. c /\ asks'[c] = a
      /\ \A j \in DOMAIN asks : asks'[j] = asks[j]
  BY Appended DEF Inv, Histories
<1>2. Len(asks) \in Nat /\ DOMAIN asks = 1 .. Len(asks) /\ c \notin DOMAIN asks
  BY Lengths DEF Inv
<1>3. Histories'
  BY <1>1 DEF Histories, RepositoryGrows
<1>4. Grows
  BY <1>1, <1>2 DEF Grows, RepositoryGrows
<1>5. \A d \in Inbox : d.cause \in DOMAIN asks
  BY CauseOf DEF Inv, Deliveries
<1>6. /\ IsABag(inbox') /\ Inbox' = Inbox \cup {e}
      /\ Live' \subseteq Live \cup {e}
      /\ \A x \in Live' : inbox'[x] = 1
  BY <1>2, <1>5, SentNew DEF Inv, TypeOKHooks
<1>7. TypeOKHooks'
  BY <1>4, <1>6, TypesStay DEF Inv, TypeOKHooks, RepositoryGrows
<1>8. Deliveries'
  <2> DEFINE out == {e}
  <2>1. \A x \in out : \E k \in DOMAIN asks' : DeliveryOf(x, k)'
    BY <1>1, <1>2
  <2>2. Inbox' \subseteq Inbox \cup out
    BY <1>6
  <2> HIDE DEF out
  <2>. QED
    BY <1>4, <2>1, <2>2, DeliveriesStay DEF Inv
<1>9. TagsArePut'
  <2> DEFINE out == {e}
  <2>1. \A x \in out : x.kind = "create" /\ x.ref \in Tags /\ head'[x.ref] # 0
                 => \E j \in x.cause .. Len(asks') : asks'[j] = PutRef(x.ref, head'[x.ref])
    <3> SUFFICES ASSUME e.kind = "create", e.ref \in Tags, head'[e.ref] # 0
                 PROVE  \E j \in e.cause .. Len(asks') : asks'[j] = PutRef(e.ref, head'[e.ref])
      OBVIOUS
    <3>1. e.cause = c /\ c \in c .. Len(asks')
      BY <1>1, <1>2
    <3>2. asks'[c] = PutRef(e.ref, head'[e.ref])
      BY <1>1
    <3>. QED
      BY <3>1, <3>2
  <2>2. \A r \in Tags : \/ head'[r] = head[r]
                        \/ head'[r] = 0
                        \/ asks'[Len(asks')] = PutRef(r, head'[r])
    BY <1>1
  <2>3. Inbox' \subseteq Inbox \cup out
    BY <1>6
  <2>4. Histories /\ Deliveries /\ TagsArePut
    BY DEF Inv
  <2> HIDE DEF out
  <2>. QED
    BY <1>3, <1>4, <2>1, <2>2, <2>3, <2>4, TagsStay
<1>10. InOnePlace'
  <2>1. /\ \A d \in Live : d.cause # c
        /\ \A s \in setups : s.cause # c
        /\ \A i \in DOMAIN builds : builds[i].cause # c
    BY <1>2, <1>5, MadeOf DEF Inv, TypeOKHooks, Live
  <2>. QED
    BY <1>5, <1>6, <2>1 DEF Inv, InOnePlace
<1>. QED
  BY <1>3, <1>4, <1>7, <1>8, <1>9, <1>10, EffectsStay DEF Inv

LEMMA PushInv ==
    ASSUME Inv, NEW ref \in Refs \ Tags, NEW files \in Files, Push(ref, files)
    PROVE  Inv'
<1>0. PICK c, n, a, e :
         /\ c = Len(asks) + 1
         /\ n = Len(commits) + 1
         /\ a = About("push", n, NoEntry)
         /\ e = Suite("own", "requested", n, c)
  OBVIOUS
<1>1. /\ NewCommit(ref, files, c) /\ asks' = Append(asks, a)
      /\ UNCHANGED <<checks, builds, setups, cleared>>
  BY <1>0 DEF Push, Ask, Asked
<1>2. /\ RepositoryGrows /\ n \in DOMAIN commits' /\ Len(commits') = n
      /\ \A r \in Refs : r # ref => head'[r] = head[r]
  BY <1>0, <1>1, Committed DEF AllFiles
<1>3. Send({e})
  BY <1>0, <1>1, <1>2 DEF NewCommit
<1>4. asks'[c] = a
  BY <1>0, <1>1, Appended DEF Inv, Histories
<1>5. SuiteOf(e, c)'
  BY <1>0, <1>2, <1>4 DEF SuiteOf, About
<1>6. e.kind = "check_suite" /\ e.cause = c
  BY <1>0 DEF Suite
<1>7. \A r \in Tags : head'[r] = head[r]
  BY <1>0, <1>2, HooksAssumption
<1>. QED
  BY <1>0, <1>1, <1>2, <1>3, <1>5, <1>6, <1>7, ActInv DEF DeliveryOf

LEMMA CreateInv ==
    ASSUME Inv, NEW ref \in Refs, NEW sha \in DOMAIN commits, Create(ref, sha)
    PROVE  Inv'
<1>0. PICK c, a, e :
         /\ c = Len(asks) + 1
         /\ a = PutRef(ref, sha)
         /\ e = Plain("create", ref, c)
  OBVIOUS
<1>1. /\ asks' = Append(asks, a) /\ Send({e})
      /\ commits' = commits /\ head' = [head EXCEPT ![ref] = sha]
      /\ UNCHANGED <<checks, builds, setups, cleared>>
  BY <1>0 DEF Create, Ask, Asked
<1>2. RepositoryGrows
  <2>1. sha \in 0 .. Len(commits) /\ head \in [Refs -> 0 .. Len(commits)]
    BY Lengths DEF Inv, TypeOKHooks
  <2>. QED
    BY <1>0, <1>1, <2>1, RepositoryStays
<1>3. asks'[c] = a
  BY <1>0, <1>1, Appended DEF Inv, Histories
<1>4. PlainOf(e, c)'
  BY <1>0, <1>3 DEF PlainOf, PutRef
<1>5. /\ e.ref = ref /\ e.cause = c /\ a = PutRef(ref, sha)
      /\ head'[ref] = sha
      /\ \A r \in Refs : r # ref => head'[r] = head[r]
  BY <1>0, <1>1 DEF Plain, Inv, TypeOKHooks
<1>6. \A r \in Tags : head'[r] = head[r] \/ a = PutRef(r, head'[r])
  BY <1>0, <1>5, HooksAssumption
<1>. QED
  BY <1>0, <1>1, <1>2, <1>4, <1>5, <1>6, ActInv DEF DeliveryOf

LEMMA DeleteRefInv ==
    ASSUME Inv, NEW ref \in Refs, DeleteRef(ref)
    PROVE  Inv'
<1>0. PICK c, a, e :
         /\ c = Len(asks) + 1
         /\ a = [act |-> "delete", ref |-> ref]
         /\ e = Plain("delete", ref, c)
  OBVIOUS
<1>1. /\ asks' = Append(asks, a) /\ Send({e})
      /\ commits' = commits /\ head' = [head EXCEPT ![ref] = 0]
      /\ UNCHANGED <<checks, builds, setups, cleared>>
  BY <1>0 DEF DeleteRef, Ask, Asked
<1>2. RepositoryGrows
  <2>1. 0 \in 0 .. Len(commits) /\ head \in [Refs -> 0 .. Len(commits)]
    BY Lengths DEF Inv, TypeOKHooks
  <2>. QED
    BY <1>0, <1>1, <2>1, RepositoryStays
<1>3. asks'[c] = a
  BY <1>0, <1>1, Appended DEF Inv, Histories
<1>4. PlainOf(e, c)'
  BY <1>0, <1>3 DEF PlainOf
<1>5. e.kind = "delete" /\ e.cause = c
  BY <1>0 DEF Plain
<1>6. \A r \in Tags : head'[r] = head[r] \/ head'[r] = 0
  <2>1. \A r \in Refs : head'[r] = head[r] \/ head'[r] = 0
    BY <1>0, <1>1 DEF Inv, TypeOKHooks
  <2>. QED
    BY <1>0, <2>1, HooksAssumption
<1>. QED
  BY <1>0, <1>1, <1>2, <1>4, <1>5, <1>6, ActInv DEF DeliveryOf

\* The acts that only send an event.
LEMMA EventInv ==
    ASSUME Inv, NEW a, NEW c, NEW e, c = Asked, Event(a, e),
           e.cause = c, e.kind # "create",
           asks'[c] = a => DeliveryOf(e, c)'
    PROVE  Inv'
<1>1. /\ asks' = Append(asks, a) /\ Send({e}) /\ commits' = commits /\ head' = head
      /\ UNCHANGED <<checks, builds, setups, cleared>> /\ c = Len(asks) + 1
  BY DEF Event, Ask, Asked
<1>2. RepositoryGrows
  BY <1>1, RepositoryStays DEF Inv, TypeOKHooks
<1>3. asks'[c] = a
  BY <1>1, Appended DEF Inv, Histories
<1>. QED
  BY <1>1, <1>2, <1>3, ActInv

LEMMA RerunInv ==
    ASSUME Inv, NEW i \in DOMAIN checks, Rerun(i)
    PROVE  Inv'
<1>0. PICK c, a, e, f :
         /\ c = Asked
         /\ a = About("rerun", checks[i].sha, NoEntry)
         /\ e = Suite("own", "rerequested", checks[i].sha, c)
         /\ f = CheckRun("rerequested", i, "none", c)
  OBVIOUS
<1>1. Event(a, e) \/ Event(a, f)
  BY <1>0 DEF Rerun
<1>2. e.cause = c /\ f.cause = c /\ e.kind # "create" /\ f.kind # "create"
  BY <1>0 DEF Suite, CheckRun
<1>3. ASSUME Event(a, e) PROVE Inv'
  <2>1. commits' = commits /\ checks' = checks /\ checks[i].sha \in DOMAIN commits
    BY <1>0, <1>3 DEF Event, Inv, ChecksExist
  <2>2. asks'[c] = a => SuiteOf(e, c)'
    BY <1>0, <2>1 DEF SuiteOf, About
  <2>. QED
    BY <1>0, <1>2, <1>3, <2>2, EventInv DEF DeliveryOf
<1>4. ASSUME Event(a, f) PROVE Inv'
  <2>1. checks' = checks /\ commits' = commits /\ checks[i].sha \in DOMAIN commits
    BY <1>0, <1>4 DEF Event, Inv, ChecksExist
  <2>2. asks'[c] = a => CheckRunOf(f, c)'
    BY <1>0, <2>1 DEF CheckRunOf, About
  <2>. QED
    BY <1>0, <1>2, <1>4, <2>2, EventInv DEF DeliveryOf
<1>. QED
  BY <1>0, <1>1, <1>3, <1>4

LEMMA PressInv ==
    ASSUME Inv, NEW i \in DOMAIN checks, NEW button \in checks[i].buttons, Press(i, button)
    PROVE  Inv'
<1>0. PICK c, a, e :
         /\ c = Asked
         /\ a = [act |-> button, sha |-> checks[i].sha, ref |-> commits[checks[i].sha].ref,
                 task |-> checks[i].task, check |-> i]
         /\ e = CheckRun("requested_action", i, button, c)
  OBVIOUS
<1>1. Event(a, e)
  BY <1>0 DEF Press
<1>2. e.cause = c /\ e.kind # "create"
  BY <1>0 DEF CheckRun
<1>3. checks' = checks /\ commits' = commits /\ button \in Buttons
  BY <1>0, <1>1, MadeOf DEF Event, Inv
<1>4. checks[i].sha \in DOMAIN commits /\ (button = "run" => checks[i].task # NoEntry)
  BY <1>0 DEF Inv, ChecksExist
<1>5. asks'[c] = a => CheckRunOf(e, c)'
  BY <1>0, <1>3, <1>4 DEF CheckRunOf
<1>. QED
  BY <1>0, <1>1, <1>2, <1>5, EventInv DEF DeliveryOf

LEMMA SayInv ==
    ASSUME Inv, NEW r \in Remarks, Say(r)
    PROVE  Inv'
<1>0. PICK c, a, e :
         /\ c = Asked
         /\ a = [act |-> "comment", by |-> r.by, cmd |-> r.cmd]
         /\ e = Comment(r.by, r.cmd, r.prs, c)
  OBVIOUS
<1>1. Event(a, e)
  BY <1>0 DEF Say
<1>2. e.cause = c /\ e.kind # "create"
  BY <1>0 DEF Comment
<1>3. r.cmd \in Cmds /\ r.prs \in SUBSET PRs
  BY HooksAssumption
<1>4. asks'[c] = a => CommentOf(e, c)'
  BY <1>0, <1>3 DEF CommentOf
<1>. QED
  BY <1>0, <1>1, <1>2, <1>4, EventInv DEF DeliveryOf

LEMMA DeployInv ==
    ASSUME Inv, NEW dep \in Deploys, Deploy(dep)
    PROVE  Inv'
<1>0. PICK c, sha, a, e :
         /\ c = Asked
         /\ sha = head[dep.ref]
         /\ a = [act |-> "deploy", sha |-> sha, task |-> dep.task, run |-> dep.run]
         /\ e = Deployment(sha, dep.ref, dep.type, dep.task, dep.run, c)
  OBVIOUS
<1>1. Event(a, e) /\ sha # 0
  BY <1>0 DEF Deploy
<1>2. e.cause = c /\ e.kind # "create"
  BY <1>0 DEF Deployment
<1>3. /\ dep.ref \in Refs /\ dep.type \in PayloadTypes /\ dep.run \in BOOLEAN
      /\ dep.task \in Templates /\ dep.task # NoEntry
  BY HooksAssumption, PolicyAssumption
<1>4. sha \in DOMAIN commits /\ commits' = commits
  BY <1>0, <1>1, <1>3, Lengths DEF Inv, TypeOKHooks, Event
<1>5. asks'[c] = a => DeploymentOf(e, c)'
  BY <1>0, <1>3, <1>4 DEF DeploymentOf
<1>. QED
  BY <1>0, <1>1, <1>2, <1>5, EventInv DEF DeliveryOf

LEMMA OtherActsInv ==
    ASSUME Inv, OpenIssue \/ Archive
    PROVE  Inv'
<1>0. PICK c, a, b, e, f :
         /\ c = Asked
         /\ a = [act |-> "issue"]
         /\ b = [act |-> "archive"]
         /\ e = Plain("issue", NoRef, c)
         /\ f = Plain("repository", NoRef, c)
  OBVIOUS
<1>1. e.cause = c /\ f.cause = c /\ e.kind # "create" /\ f.kind # "create"
  BY <1>0 DEF Plain
<1>2. /\ asks'[c] = a => PlainOf(e, c)'
      /\ asks'[c] = b => PlainOf(f, c)'
  BY <1>0 DEF PlainOf
<1>3. Event(a, e) \/ Event(b, f)
  BY <1>0 DEF OpenIssue, Archive
<1>. QED
  BY <1>0, <1>1, <1>2, <1>3, EventInv DEF DeliveryOf

LEMMA UserInv ==
    ASSUME Inv, UserActs
    PROVE  Inv'
  BY PushInv, CreateInv, DeleteRefInv, RerunInv, PressInv, SayInv, DeployInv, OtherActsInv
     DEF UserActs

-----------------------------------------------------------------------------
(* What the handlers do.                                                   *)

\* A delivery in the inbox, and echoes, are answered by deliveries that lead
\* to nothing, if at all.
LEMMA QuietInv ==
    ASSUME Inv, NEW d, NEW out, Answer(d, out),
           \A e \in out : /\ Inert(e) /\ e.kind # "create"
                          /\ \E c \in DOMAIN asks : DeliveryOf(e, c),
           UNCHANGED <<asks, commits, head, checks, builds, setups, cleared>>
    PROVE  Inv'
<1>1. Grows /\ Histories'
  BY DEF Grows, Inv, Histories
<1>2. /\ IsABag(inbox') /\ Inbox' \subseteq Inbox \cup out
      /\ Live' \subseteq Live \ {d}
      /\ \A e \in Live' : inbox'[e] = 1
  BY Answered DEF Inv, TypeOKHooks
<1>3. TypeOKHooks'
  BY <1>2 DEF Inv, TypeOKHooks
<1>4. Deliveries'
  <2>1. \A e \in out : \E c \in DOMAIN asks' : DeliveryOf(e, c)'
    BY <1>1, DeliveryStays
  <2>. QED
    BY <1>1, <1>2, <2>1, DeliveriesStay DEF Inv
<1>5. TagsArePut'
  BY <1>2 DEF Inv, TagsArePut, PutAt
<1>6. InOnePlace'
  BY <1>2, PlacesKept DEF Inv
<1>. QED
  BY <1>1, <1>3, <1>4, <1>5, <1>6, EffectsStay DEF Inv

\* What a delivery is when its handler asks for a build, and what the request
\* has to do with the act.
Asks(d, req) ==
    LET a == asks[d.cause]
    IN  /\ d \in Live /\ d.cause \in DOMAIN asks /\ MayBuild(a)
        /\ req.ref \in Refs /\ req.sha \in DOMAIN commits
        /\ req.entry \in Templates \cup {NoEntry}
        /\ a.act \in {"push", "rerun", "run", "deploy"} => req.sha = a.sha
        /\ a.act = "create" => PutAt(d.cause, a.ref, req.sha)
        /\ a.act \in {"run", "deploy"} => req.entry = a.task /\ req.entry # NoEntry
        /\ a.act = "run" \/ req.event = "deployment" \/ req.entry = NoEntry

\* The builds after a request: one more or as many, the others go on.
LEMMA NewBuilds ==
    ASSUME Inv, NEW d, NEW req, Asks(d, req), Wanted(req), builds' = NewBuild(d, req),
           NEW m, m = Len(builds) + 1, DOMAIN checks' = 1 .. Len(checks) + 1,
           asks' = asks, commits' = commits
    PROVE  /\ builds' \in Seq(BuildSet') /\ DOMAIN builds' = DOMAIN builds \cup {m}
           /\ m \notin DOMAIN builds
           /\ builds'[m] = [check |-> Len(checks) + 1, ref |-> req.ref, files |-> head[req.ref],
                            cause |-> d.cause, ads |-> FALSE, running |-> TRUE]
           /\ \A i \in DOMAIN builds :
                 /\ builds'[i].check = builds[i].check /\ builds'[i].files = builds[i].files
                 /\ builds'[i].cause = builds[i].cause /\ builds'[i].running = builds[i].running
<1> DEFINE new == [check |-> Len(checks) + 1, ref |-> req.ref, files |-> head[req.ref],
                   cause |-> d.cause, ads |-> FALSE, running |-> TRUE]
           old == [i \in DOMAIN builds |->
                     IF builds[i].ref = req.ref THEN [builds[i] EXCEPT !.ads = TRUE]
                                                ELSE builds[i]]
<1>1. /\ Len(builds) \in Nat /\ DOMAIN builds = 1 .. Len(builds)
      /\ Len(checks) \in Nat /\ DOMAIN checks = 1 .. Len(checks)
      /\ \A i \in DOMAIN builds : builds[i] \in BuildSet
  BY Made DEF Inv
<1>2. new \in BuildSet'
  <2>1. head[req.ref] \in DOMAIN commits
    BY Lengths DEF Inv, TypeOKHooks, Wanted, Asks
  <2>. QED
    BY <1>1, <2>1 DEF BuildSet, Asks
<1>3. ASSUME NEW i \in DOMAIN builds
      PROVE  /\ old[i] \in BuildSet'
             /\ old[i].check = builds[i].check /\ old[i].files = builds[i].files
             /\ old[i].cause = builds[i].cause /\ old[i].running = builds[i].running
  <2>1. builds[i] \in BuildSet
    BY <1>1
  <2>2. builds[i] \in BuildSet'
    BY <1>1, <2>1 DEF BuildSet
  <2>3. ASSUME NEW b \in BuildSet', NEW e, e = [b EXCEPT !.ads = TRUE]
        PROVE  /\ e \in BuildSet' /\ e.check = b.check /\ e.files = b.files
               /\ e.cause = b.cause /\ e.running = b.running
    BY <2>3 DEF BuildSet
  <2>. QED
    BY <2>2, <2>3
<1>4. old \in Seq(BuildSet') /\ Len(old) = Len(builds)
  <2> DEFINE S == BuildSet'
  <2>1. old = [i \in 1 .. Len(builds) |-> old[i]] /\ \A i \in 1 .. Len(builds) : old[i] \in S
    BY <1>1, <1>3
  <2> HIDE DEF S, old
  <2>. QED
    BY <1>1, <2>1 DEF S
<1>5. builds' = old \o <<new>>
  BY DEF NewBuild
<1>6. /\ builds' \in Seq(BuildSet') /\ Len(builds') = m /\ builds'[m] = new
      /\ \A i \in 1 .. Len(builds) : builds'[i] = old[i]
  <2> DEFINE S == BuildSet'
  <2>1. old \in Seq(S) /\ new \in S
    BY <1>2, <1>4
  <2> HIDE DEF S, old, new
  <2>. QED
    BY <1>1, <1>4, <1>5, <2>1 DEF S
<1>7. DOMAIN builds' = 1 .. m
  <2> DEFINE S == BuildSet'
  <2> HIDE DEF S
  <2>. QED
    BY <1>6 DEF S
<1>8. \A i \in DOMAIN builds : builds'[i] = old[i]
  BY <1>1, <1>6
<1>9. DOMAIN builds' = DOMAIN builds \cup {m} /\ m \notin DOMAIN builds
  BY <1>1, <1>7
<1> HIDE DEF old
<1>. QED
  BY <1>3, <1>6, <1>8, <1>9

\* A check run is added, and nothing else is done to those there are.
LEMMA NewCheck ==
    ASSUME TypeOKHooks, NEW check \in Checks, checks' = Append(checks, check)
    PROVE  /\ checks' \in Seq(Checks) /\ DOMAIN checks' = 1 .. Len(checks) + 1
           /\ DOMAIN checks' = DOMAIN checks \cup {Len(checks) + 1}
           /\ Len(checks) + 1 \notin DOMAIN checks
           /\ checks'[Len(checks) + 1] = check
           /\ \A k \in DOMAIN checks : checks'[k] = checks[k]
<1>1. Len(checks) \in Nat /\ DOMAIN checks = 1 .. Len(checks) /\ checks \in Seq(Checks)
  BY Made DEF TypeOKHooks
<1> HIDE DEF Checks
<1>. QED
  BY <1>1

\* A delivery is answered, and nothing is sent.
LEMMA Consumed ==
    ASSUME Inv, NEW d, Answer(d, {}), Grows
    PROVE  /\ IsABag(inbox') /\ Inbox' \subseteq Inbox /\ Deliveries'
           /\ Live' \subseteq Live \ {d}
           /\ \A e \in Live' : inbox'[e] = 1
<1> DEFINE out == {}
<1>1. Answer(d, out) /\ \A e \in out : Inert(e) /\ \E c \in DOMAIN asks' : DeliveryOf(e, c)'
  OBVIOUS
<1>2. /\ IsABag(inbox') /\ Inbox' \subseteq Inbox \cup out
      /\ Live' \subseteq Live \ {d} /\ \A e \in Live' : inbox'[e] = 1
  <2> HIDE DEF out
  <2>. QED
    BY <1>1, Answered DEF Inv, TypeOKHooks
<1>3. Deliveries'
  <2> HIDE DEF out
  <2>. QED
    BY <1>1, <1>2, DeliveriesStay DEF Inv
<1>. QED
  BY <1>2, <1>3

\* What holds of every build holds of the new one too.
LEMMA BuildInv ==
    ASSUME Inv, NEW d, NEW req, Asks(d, req), Wanted(req), Report(d, req)
    PROVE  Inv'
<1> DEFINE def == commits[head[req.ref]].files.def
           named == def.ci = "good" /\ setupEntrypoint(req, def)
           built == named /\ policy(req.ref, req.prs)
<1>0. PICK n, m, check, build :
         /\ n = Len(checks) + 1 /\ m = Len(builds) + 1
         /\ check = [task |-> IF named THEN Entrypoint(req, def) ELSE NoEntry,
                     deploy |-> named /\ req.event = "deployment",
                     sha |-> req.sha, state |-> IF built THEN "queued" ELSE "failure",
                     buttons |-> {}]
         /\ build = [check |-> n, ref |-> req.ref, files |-> head[req.ref],
                     cause |-> d.cause, ads |-> FALSE, running |-> TRUE]
  OBVIOUS
<1>1. /\ checks' = Append(checks, check) /\ Answer(d, {})
      /\ builds' = IF built THEN NewBuild(d, req) ELSE builds
      /\ asks' = asks /\ commits' = commits /\ head' = head
      /\ setups' = setups /\ cleared' = cleared
  BY <1>0 DEF Report
<1>2. head[req.ref] \in DOMAIN commits /\ def \in Definitions
  <2>1. head[req.ref] \in DOMAIN commits
    BY Lengths DEF Inv, TypeOKHooks, Wanted, Asks
  <2>2. commits[head[req.ref]].files \in AllFiles
    BY <2>1 DEF Inv, TypeOKHooks
  <2>. QED
    BY <2>1, <2>2, HooksAssumption
<1>3. named => Entrypoint(req, def) \in Templates
  BY <1>2 DEF setupEntrypoint, Definitions
<1>4. req.sha \in Nat
  BY Lengths DEF Asks, Inv
<1>5. /\ check \in Checks /\ check.sha = req.sha /\ check.buttons = {}
      /\ check.state \notin {"success", "neutral"}
  BY <1>0, <1>3, <1>4 DEF Checks
<1>6. /\ checks' \in Seq(Checks) /\ DOMAIN checks' = 1 .. n
      /\ DOMAIN checks' = DOMAIN checks \cup {n} /\ n \notin DOMAIN checks
      /\ checks'[n] = check
      /\ \A k \in DOMAIN checks : checks'[k] = checks[k]
  BY <1>0, <1>1, <1>5, NewCheck DEF Inv
<1>7. ASSUME built
      PROVE  /\ builds' \in Seq(BuildSet') /\ DOMAIN builds' = DOMAIN builds \cup {m}
             /\ builds'[m] = build
             /\ \A i \in DOMAIN builds :
                   /\ builds'[i].check = builds[i].check /\ builds'[i].files = builds[i].files
                   /\ builds'[i].cause = builds[i].cause
                   /\ builds'[i].running = builds[i].running
  <2>1. builds' = NewBuild(d, req)
    BY <1>1, <1>7
  <2> HIDE DEF built, named, def
  <2>. QED
    BY <1>0, <1>1, <1>6, <2>1, NewBuilds
<1>8. ASSUME ~built
      PROVE  builds' \in Seq(BuildSet')
  <2>1. builds \in Seq(BuildSet) /\ builds' = builds
    BY <1>1, <1>8 DEF Inv, TypeOKHooks, BuildSet
  <2>2. BuildSet \subseteq BuildSet'
    BY <1>1, <1>6 DEF BuildSet
  <2> HIDE DEF BuildSet
  <2>. QED
    BY <2>1, <2>2
<1>9. Len(builds) \in Nat /\ DOMAIN builds = 1 .. Len(builds) /\ m \notin DOMAIN builds
  BY <1>0, Made DEF Inv
<1>10. /\ DOMAIN builds \subseteq DOMAIN builds'
       /\ \A i \in DOMAIN builds :
             /\ builds'[i].check = builds[i].check /\ builds'[i].files = builds[i].files
             /\ builds'[i].cause = builds[i].cause /\ builds'[i].running = builds[i].running
       /\ \A i \in DOMAIN builds' : i \in DOMAIN builds \/ (i = m /\ built /\ builds'[i] = build)
  BY <1>1, <1>7
<1>11. Grows /\ Histories'
  BY <1>1, <1>6 DEF Grows, Inv, Histories
<1>12. /\ IsABag(inbox') /\ Inbox' \subseteq Inbox /\ Deliveries'
       /\ Live' \subseteq Live \ {d}
       /\ \A e \in Live' : inbox'[e] = 1
  BY <1>1, <1>11, Consumed
<1>13. /\ build.check = n /\ build.files = head[req.ref] /\ build.cause = d.cause
       /\ build.running = TRUE
  BY <1>0
<1>14. TypeOKHooks'
  <2>1. builds' \in Seq(BuildSet')
    BY <1>7, <1>8
  <2>. QED
    BY <1>1, <1>6, <1>12, <2>1 DEF Inv, TypeOKHooks, BuildSet
<1>15. Deliveries'
  BY <1>12
<1>16. TagsArePut'
  BY <1>1, <1>12 DEF Inv, TagsArePut, PutAt
<1>17. InOnePlace'
  <2>1. /\ \A i \in DOMAIN builds : builds[i].cause # d.cause
        /\ \A s \in setups : s.cause # d.cause
        /\ \A e \in Live' : e.cause # d.cause
    BY <1>12 DEF Inv, InOnePlace, Asks
  <2>2. \A i, j \in DOMAIN builds' : builds'[i].cause = builds'[j].cause => i = j
    BY <1>9, <1>10, <1>13, <2>1 DEF Inv, InOnePlace
  <2>3. /\ \A i \in DOMAIN builds' : \A e \in Live' : builds'[i].cause # e.cause
        /\ \A i \in DOMAIN builds' : \A s \in setups : builds'[i].cause # s.cause
    BY <1>10, <1>12, <1>13, <2>1 DEF Inv, InOnePlace
  <2>4. /\ \A e, f \in Live' : e.cause = f.cause => e = f
        /\ \A s, u \in setups : s.cause = u.cause => s = u
        /\ \A s \in setups, e \in Live' : s.cause # e.cause
    BY <1>12 DEF Inv, InOnePlace
  <2>. QED
    BY <1>1, <1>12, <2>2, <2>3, <2>4 DEF InOnePlace
<1>18. ChecksExist'
  BY <1>1, <1>5, <1>6 DEF Inv, ChecksExist, Asks
<1>19. \A i \in DOMAIN builds : builds[i].check \in DOMAIN checks
  BY MadeOf DEF Inv
<1>20. BuildsAsked'
  <2> SUFFICES ASSUME NEW i \in DOMAIN builds'
               PROVE  /\ MayBuild(asks[builds'[i].cause])
                      /\ \/ checks'[builds'[i].check].deploy
                         \/ asks[builds'[i].cause].act = "run"
                         \/ commits[builds'[i].files].files.def.main = checks'[builds'[i].check].task
    BY <1>1 DEF BuildsAsked
  <2>1. CASE i \in DOMAIN builds
    BY <1>6, <1>10, <1>19, <2>1 DEF Inv, BuildsAsked
  <2>2. CASE i \notin DOMAIN builds
    <3>1. built /\ builds'[i] = build
      BY <1>10, <2>2
    <3>2. check.task = Entrypoint(req, def) /\ check.deploy = (req.event = "deployment")
      BY <1>0, <3>1
    <3>3. \/ check.deploy \/ asks[d.cause].act = "run"
          \/ commits[head[req.ref]].files.def.main = check.task
      BY <3>2 DEF Asks, Entrypoint
    <3>4. MayBuild(asks[d.cause])
      BY DEF Asks
    <3> HIDE DEF built, named, def
    <3>. QED
      BY <1>6, <1>13, <3>1, <3>3, <3>4
  <2>. QED
    BY <2>1, <2>2
<1>21. BuildIsAsAsked'
  <2> HIDE DEF built, named, def
  <2> SUFFICES ASSUME NEW i \in DOMAIN builds'
               PROVE  LET c == builds'[i].cause
                          chk == checks'[builds'[i].check]
                      IN  /\ asks'[c].act \in {"push", "rerun", "run", "deploy"}
                                => chk.sha = asks'[c].sha
                          /\ asks'[c].act = "create" => \E j \in c .. Len(asks') :
                                asks'[j] = PutRef(asks'[c].ref, chk.sha)
                          /\ asks'[c].act \in {"run", "deploy"} => chk.task = asks'[c].task
    BY DEF BuildIsAsAsked
  <2>0. asks' = asks
    BY <1>1
  <2>1. CASE i \in DOMAIN builds
    <3>1. /\ builds'[i].cause = builds[i].cause
          /\ checks'[builds'[i].check] = checks[builds[i].check]
      BY <1>6, <1>10, <1>19, <2>1
    <3>2. BuildIsAsAsked
      BY DEF Inv
    <3> HIDE DEF built, named, def
    <3>. QED
      BY <2>0, <2>1, <3>1, <3>2 DEF BuildIsAsAsked
  <2>2. CASE i \notin DOMAIN builds
    <3>1. built /\ builds'[i] = build
      BY <1>10, <2>2
    <3>2. checks'[builds'[i].check] = check /\ builds'[i].cause = d.cause
      BY <1>6, <1>13, <3>1
    <3>3. check.task = Entrypoint(req, def)
      BY <1>0, <3>1 DEF built, named, def
    <3>4. asks[d.cause].act \in {"run", "deploy"} => check.task = asks[d.cause].task
      BY <3>3 DEF Asks, Entrypoint
    <3> HIDE DEF built, named, def
    <3>. QED
      BY <1>5, <2>0, <3>2, <3>4 DEF Asks, PutAt
  <2>. QED
    BY <2>1, <2>2
<1>22. SetupsAsked' /\ CachesAsAsked'
  BY <1>1 DEF Inv, SetupsAsked, CachesAsAsked
<1>23. EssentialByHand'
  <2> SUFFICES ASSUME NEW k \in DOMAIN checks',
                      checks'[k].task \in EssentialTemplates, ~checks'[k].deploy,
                      checks'[k].state \in {"success", "neutral"}
               PROVE  ByHand(k)'
    BY DEF EssentialByHand
  <2>1. k \in DOMAIN checks /\ checks'[k] = checks[k]
    BY <1>5, <1>6
  <2>2. ByHand(k)
    BY <2>1 DEF Inv, EssentialByHand
  <2>3. CASE \E j \in DOMAIN asks : asks[j].act = "skip" /\ asks[j].check = k
    BY <1>1, <2>3 DEF ByHand
  <2>4. CASE \E i \in DOMAIN builds :
                /\ builds[i].check = k /\ ~builds[i].running
                /\ \/ asks[builds[i].cause].act = "run"
                   \/ commits[builds[i].files].files.def.main = checks[k].task
    <3>1. PICK i \in DOMAIN builds :
             /\ builds[i].check = k /\ ~builds[i].running
             /\ \/ asks[builds[i].cause].act = "run"
                \/ commits[builds[i].files].files.def.main = checks[k].task
      BY <2>4
    <3>2. /\ i \in DOMAIN builds' /\ builds'[i].check = builds[i].check
          /\ builds'[i].files = builds[i].files /\ builds'[i].cause = builds[i].cause
          /\ builds'[i].running = builds[i].running
      BY <1>10
    <3> HIDE DEF built, named, def
    <3> QED
      BY <1>1, <2>1, <3>1, <3>2 DEF ByHand
  <2>. QED
    BY <2>2, <2>3, <2>4 DEF ByHand
<1>. QED
  BY <1>11, <1>14, <1>15, <1>16, <1>17, <1>18, <1>20, <1>21, <1>22, <1>23 DEF Inv

LEMMA IgnoreInv ==
    ASSUME Inv, NEW d, Ignore(d)
    PROVE  Inv'
<1> DEFINE out == {}
<1>1. Answer(d, out) /\ \A e \in out : /\ Inert(e) /\ e.kind # "create"
                                       /\ \E c \in DOMAIN asks : DeliveryOf(e, c)
  BY DEF Ignore
<1>2. UNCHANGED <<asks, commits, head, checks, builds, setups, cleared>>
  BY DEF Ignore
<1> HIDE DEF out
<1>. QED
  BY <1>1, <1>2, QuietInv

LEMMA RequestInv ==
    ASSUME Inv, NEW d, NEW req, Asks(d, req), runWorkflow(d, req)
    PROVE  Inv'
  BY BuildInv, IgnoreInv DEF runWorkflow

LEMMA ReplyInv ==
    ASSUME Inv, NEW d, NEW by, NEW cmd, NEW prs \in SUBSET PRs, NEW c \in DOMAIN asks,
           d = Comment(by, cmd, prs, c), Reply(d)
    PROVE  Inv'
<1>0. PICK e : e = Comment(Bot, "none", prs, c)
  OBVIOUS
<1> DEFINE out == {e}
<1>1. Answer(d, out)
  BY <1>0 DEF Reply, Comment
<1>2. Inert(e) /\ e.kind # "create"
  BY <1>0 DEF Inert, Comment
<1>3. CommentOf(e, c)
  BY <1>0 DEF CommentOf, Cmds
<1>4. \A f \in out : /\ Inert(f) /\ f.kind # "create"
                     /\ \E k \in DOMAIN asks : DeliveryOf(f, k)
  BY <1>2, <1>3 DEF DeliveryOf
<1>5. UNCHANGED <<asks, commits, head, checks, builds, setups, cleared>>
  BY DEF Reply
<1> HIDE DEF out
<1>. QED
  BY <1>1, <1>4, <1>5, QuietInv

\* The button that skips a step.
LEMMA SkipInv ==
    ASSUME Inv, NEW d, NEW i \in DOMAIN checks, d.check = i, PressedSkip(d),
           d.cause \in DOMAIN asks, asks[d.cause].act = "skip", asks[d.cause].check = i
    PROVE  Inv'
<1>1. /\ checks' = [checks EXCEPT ![i].state = "neutral"]
      /\ asks' = asks /\ commits' = commits /\ head' = head /\ builds' = builds
      /\ setups' = setups /\ cleared' = cleared
  BY DEF PressedSkip
<1>2. /\ Len(checks) \in Nat /\ DOMAIN checks = 1 .. Len(checks) /\ checks \in Seq(Checks)
      /\ \A k \in DOMAIN checks : checks[k] \in Checks
  BY Made DEF Inv, TypeOKHooks
<1>3. /\ DOMAIN checks' = DOMAIN checks
      /\ \A k \in DOMAIN checks : k # i => checks'[k] = checks[k]
      /\ checks'[i] = [checks[i] EXCEPT !.state = "neutral"]
  BY <1>1, <1>2
<1>4. ASSUME NEW x \in Checks, NEW y, y = [x EXCEPT !.state = "neutral"]
      PROVE  /\ y \in Checks /\ y.task = x.task /\ y.sha = x.sha /\ y.deploy = x.deploy
             /\ y.buttons = x.buttons
  BY <1>4 DEF Checks
<1>5. \A k \in DOMAIN checks :
         /\ checks'[k] \in Checks
         /\ checks'[k].task = checks[k].task /\ checks'[k].sha = checks[k].sha
         /\ checks'[k].deploy = checks[k].deploy /\ checks'[k].buttons = checks[k].buttons
  BY <1>2, <1>3, <1>4
<1>6. checks' \in Seq(Checks)
  <2>1. checks' = [k \in 1 .. Len(checks) |-> checks'[k]]
    BY <1>1, <1>2
  <2> HIDE DEF Checks
  <2>. QED
    BY <1>2, <1>5, <2>1
<1>7. Grows /\ Histories'
  BY <1>1, <1>3, <1>5 DEF Grows, Inv, Histories
<1>8. /\ IsABag(inbox') /\ Inbox' \subseteq Inbox /\ Deliveries'
      /\ Live' \subseteq Live \ {d}
      /\ \A e \in Live' : inbox'[e] = 1
  BY <1>7, Consumed DEF PressedSkip
<1>9. TypeOKHooks'
  BY <1>1, <1>3, <1>6, <1>8 DEF Inv, TypeOKHooks
<1>10. Deliveries'
  BY <1>8
<1>11. TagsArePut'
  BY <1>1, <1>8 DEF Inv, TagsArePut, PutAt
<1>12. InOnePlace'
  BY <1>1, <1>8, PlacesKept DEF Inv
<1>13. \A j \in DOMAIN builds : builds[j].check \in DOMAIN checks
  BY MadeOf DEF Inv
<1>14. ChecksExist' /\ BuildsAsked' /\ SetupsAsked' /\ CachesAsAsked'
  BY <1>1, <1>3, <1>5, <1>13 DEF Inv, ChecksExist, BuildsAsked, SetupsAsked, CachesAsAsked
<1>15. BuildIsAsAsked'
  BY <1>1, <1>3, <1>5, <1>13 DEF Inv, BuildIsAsAsked
<1>16. EssentialByHand'
  <2> SUFFICES ASSUME NEW k \in DOMAIN checks',
                      checks'[k].task \in EssentialTemplates, ~checks'[k].deploy,
                      checks'[k].state \in {"success", "neutral"}
               PROVE  ByHand(k)'
    BY DEF EssentialByHand
  <2>1. CASE k = i
    BY <1>1, <2>1 DEF ByHand
  <2>2. CASE k # i
    <3>1. k \in DOMAIN checks /\ checks'[k] = checks[k]
      BY <1>3, <2>2
    <3>2. ByHand(k)
      BY <3>1 DEF Inv, EssentialByHand
    <3>. QED
      BY <1>1, <3>1, <3>2 DEF ByHand
  <2>. QED
    BY <2>1, <2>2
<1>. QED
  BY <1>7, <1>9, <1>10, <1>11, <1>12, <1>14, <1>15, <1>16 DEF Inv

LEMMA ClearInv ==
    ASSUME Inv, NEW d, NEW ref \in Refs \cup {NoRef}, Clear(d, ref),
           d.cause \in DOMAIN asks, MayClear(asks[d.cause], ref)
    PROVE  Inv'
<1>1. /\ cleared' = cleared \cup {[ref |-> ref, cause |-> d.cause]}
      /\ asks' = asks /\ commits' = commits /\ head' = head /\ builds' = builds
      /\ checks' = checks /\ setups' = setups
  BY DEF Clear
<1>2. Grows /\ Histories'
  BY <1>1 DEF Grows, Inv, Histories
<1>3. /\ IsABag(inbox') /\ Inbox' \subseteq Inbox /\ Deliveries'
      /\ Live' \subseteq Live \ {d}
      /\ \A e \in Live' : inbox'[e] = 1
  BY <1>2, Consumed DEF Clear
<1>4. TypeOKHooks'
  BY <1>1, <1>3 DEF Inv, TypeOKHooks
<1>5. Deliveries'
  BY <1>3
<1>6. TagsArePut'
  BY <1>1, <1>3 DEF Inv, TagsArePut, PutAt
<1>7. InOnePlace'
  BY <1>1, <1>3, PlacesKept DEF Inv
<1>8. ChecksExist' /\ BuildsAsked' /\ BuildIsAsAsked' /\ SetupsAsked'
  BY <1>1 DEF Inv, ChecksExist, BuildsAsked, BuildIsAsAsked, SetupsAsked
<1>9. CachesAsAsked'
  BY <1>1 DEF Inv, CachesAsAsked
<1>10. EssentialByHand'
  BY <1>1 DEF Inv, EssentialByHand, ByHand
<1>. QED
  BY <1>2, <1>4, <1>5, <1>6, <1>7, <1>8, <1>9, <1>10 DEF Inv

\* The first call of a setup; the act is with the setup from here on.
LEMMA ListedInv ==
    ASSUME Inv, NEW d \in Live, NEW ref \in Refs \ Tags, head[ref] # 0,
           d.cause \in DOMAIN asks, asks[d.cause].act = "comment",
           asks[d.cause].by \in Members, asks[d.cause].cmd = "setup",
           NEW s, s = [ref |-> ref, seen |-> commits[head[ref]].files, cause |-> d.cause],
           setups' = setups \cup {s}, Answer(d, {}),
           UNCHANGED <<asks, commits, head, checks, builds, cleared>>
    PROVE  Inv'
<1>1. s.ref = ref /\ s.cause = d.cause /\ s \in [ref: Refs, seen: AllFiles, cause: DOMAIN asks]
  <2>1. head[ref] \in DOMAIN commits
    BY Lengths DEF Inv, TypeOKHooks
  <2>2. commits[head[ref]].files \in AllFiles
    BY <2>1 DEF Inv, TypeOKHooks
  <2>. QED
    BY <2>2
<1>2. Grows /\ Histories'
  BY DEF Grows, Inv, Histories
<1>3. /\ IsABag(inbox') /\ Inbox' \subseteq Inbox /\ Deliveries'
      /\ Live' \subseteq Live \ {d}
      /\ \A e \in Live' : inbox'[e] = 1
  BY <1>2, Consumed
<1>4. TypeOKHooks'
  BY <1>1, <1>3 DEF Inv, TypeOKHooks
<1>5. TagsArePut'
  BY <1>3 DEF Inv, TagsArePut, PutAt
<1>6. InOnePlace'
  <2>1. /\ \A i \in DOMAIN builds : builds[i].cause # d.cause
        /\ \A u \in setups : u.cause # d.cause
        /\ \A e \in Live' : e.cause # d.cause
    BY <1>3 DEF Inv, InOnePlace
  <2>2. /\ \A e, f \in Live' : e.cause = f.cause => e = f
        /\ \A i, j \in DOMAIN builds : builds[i].cause = builds[j].cause => i = j
        /\ \A i \in DOMAIN builds : \A e \in Live' : builds[i].cause # e.cause
    BY <1>3 DEF Inv, InOnePlace
  <2>3. /\ \A u, v \in setups' : u.cause = v.cause => u = v
        /\ \A u \in setups', e \in Live' : u.cause # e.cause
        /\ \A i \in DOMAIN builds : \A u \in setups' : builds[i].cause # u.cause
    BY <1>1, <1>3, <2>1 DEF Inv, InOnePlace
  <2>. QED
    BY <1>3, <2>2, <2>3 DEF InOnePlace
<1>7. ChecksExist' /\ BuildsAsked' /\ BuildIsAsAsked' /\ CachesAsAsked'
  BY DEF Inv, ChecksExist, BuildsAsked, BuildIsAsAsked, CachesAsAsked
<1>8. SetupsAsked'
  BY <1>1 DEF Inv, SetupsAsked
<1>9. EssentialByHand'
  BY DEF Inv, EssentialByHand, ByHand
<1>. QED
  BY <1>2, <1>3, <1>4, <1>5, <1>6, <1>7, <1>8, <1>9 DEF Inv

-----------------------------------------------------------------------------
(* Setups and builds end.                                                  *)

\* Nothing but the setups changes, and those lose one.
LEMMA GivenUpInv ==
    ASSUME Inv, NEW s \in setups, setups' = setups \ {s},
           UNCHANGED <<asks, commits, head, checks, builds, cleared, inbox>>
    PROVE  Inv'
<1>1. Histories' /\ TypeOKHooks' /\ TagsArePut'
  BY DEF Inv, TypeOKHooks, Histories, TagsArePut, PutAt, Inbox
<1>2. Deliveries'
  <2>1. Grows
    BY DEF Grows
  <2> DEFINE out == {}
  <2>2. /\ Inbox' \subseteq Inbox \cup out
        /\ \A e \in out : \E c \in DOMAIN asks' : DeliveryOf(e, c)'
    BY DEF Inbox
  <2> HIDE DEF out
  <2>. QED
    BY <2>1, <2>2, DeliveriesStay DEF Inv
<1>3. InOnePlace'
  <2>1. Live' \subseteq Live /\ \A e \in Live' : inbox'[e] = 1
    BY DEF Live, Inbox, Inert, Inv, InOnePlace
  <2>. QED
    BY <2>1, PlacesKept DEF Inv
<1>4. /\ ChecksExist' /\ BuildsAsked' /\ BuildIsAsAsked' /\ CachesAsAsked' /\ SetupsAsked'
      /\ EssentialByHand'
  BY DEF Inv, ChecksExist, BuildsAsked, BuildIsAsAsked, CachesAsAsked, SetupsAsked,
         EssentialByHand, ByHand
<1>. QED
  BY <1>1, <1>2, <1>3, <1>4 DEF Inv

\* The second call: the event of its commit takes the act over.
LEMMA WrittenInv ==
    ASSUME Inv, NEW s \in setups, setups' = setups \ {s}, NewCommit(s.ref, Template, s.cause),
           UNCHANGED <<asks, checks, builds, cleared>>
    PROVE  Inv'
<1>0. PICK c, n, e : /\ c = s.cause /\ n = Len(commits) + 1
                     /\ e = Suite("own", "requested", n, c)
  OBVIOUS
<1>1. /\ s.ref \in Refs \ Tags /\ c \in DOMAIN asks
      /\ asks[c].act = "comment" /\ asks[c].by \in Members /\ asks[c].cmd = "setup"
  BY <1>0 DEF Inv, TypeOKHooks, SetupsAsked
<1>2. /\ RepositoryGrows /\ n \in DOMAIN commits' /\ Len(commits') = n
      /\ \A r \in Refs : r # s.ref => head'[r] = head[r]
  BY <1>0, <1>1, Committed DEF AllFiles
<1>3. Send({e})
  BY <1>0, <1>2 DEF NewCommit
<1>4. Grows /\ Histories'
  BY <1>2 DEF Grows, Inv, Histories, RepositoryGrows
<1>5. SuiteOf(e, c)'
  BY <1>0, <1>1, <1>2 DEF SuiteOf
<1>6. e.kind = "check_suite" /\ e.cause = c /\ e.sha = n
  BY <1>0 DEF Suite
<1>7. e \notin Inbox
  <2> SUFFICES ASSUME e \in Inbox PROVE FALSE
    OBVIOUS
  <2>1. e \in Live
    BY <1>6 DEF Live, Inert
  <2>2. s.cause # e.cause
    BY <2>1 DEF Inv, InOnePlace
  <2>. QED
    BY <1>0, <1>6, <2>2
<1>8. /\ IsABag(inbox') /\ Inbox' = Inbox \cup {e}
      /\ Live' \subseteq Live \cup {e}
      /\ \A x \in Live' : inbox'[x] = 1
  BY <1>3, <1>7, SentNew DEF Inv, TypeOKHooks
<1>9. TypeOKHooks'
  <2>1. setups' \subseteq [ref: Refs, seen: AllFiles, cause: DOMAIN asks']
    BY DEF Inv, TypeOKHooks
  <2>2. builds' \in Seq([check: DOMAIN checks', ref: Refs, files: DOMAIN commits',
                         cause: DOMAIN asks', ads: BOOLEAN, running: BOOLEAN])
    <3>1. builds \in Seq(BuildSet)
      BY DEF Inv, TypeOKHooks, BuildSet
    <3>2. BuildSet \subseteq BuildSet'
      BY <1>4 DEF BuildSet, Grows
    <3> HIDE DEF BuildSet
    <3>3. builds' \in Seq(BuildSet')
      BY <3>1, <3>2
    <3>. QED
      BY <3>3 DEF BuildSet
  <2>3. checks' \in Seq(Checks) /\ cleared' \subseteq [ref: Refs \cup {NoRef}, cause: DOMAIN asks']
    BY DEF Inv, TypeOKHooks
  <2>. QED
    BY <1>2, <1>8, <2>1, <2>2, <2>3 DEF TypeOKHooks, RepositoryGrows
<1>10. Deliveries'
  <2> DEFINE out == {e}
  <2>1. \A x \in out : \E k \in DOMAIN asks' : DeliveryOf(x, k)'
    BY <1>1, <1>5 DEF DeliveryOf
  <2>2. Inbox' \subseteq Inbox \cup out
    BY <1>8
  <2> HIDE DEF out
  <2>. QED
    BY <1>4, <2>1, <2>2, DeliveriesStay DEF Inv
<1>11. TagsArePut'
  <2>1. \A r \in Tags : head'[r] = head[r]
    BY <1>1, <1>2, HooksAssumption
  <2>. QED
    BY <1>6, <1>8, <2>1 DEF Inv, TagsArePut, PutAt
<1>12. InOnePlace'
  <2>1. /\ \A u \in setups' : u.cause # c
        /\ \A x \in Live : x.cause # c
        /\ \A i \in DOMAIN builds : builds[i].cause # c
    BY <1>0 DEF Inv, InOnePlace
  <2>2. \A x, y \in Live' : x.cause = y.cause => x = y
    BY <1>6, <1>8, <2>1 DEF Inv, InOnePlace
  <2>3. /\ \A u, v \in setups' : u.cause = v.cause => u = v
        /\ \A u \in setups', x \in Live' : u.cause # x.cause
    BY <1>6, <1>8, <2>1 DEF Inv, InOnePlace
  <2>4. /\ \A i, j \in DOMAIN builds' : builds'[i].cause = builds'[j].cause => i = j
        /\ \A i \in DOMAIN builds' : \A x \in Live' : builds'[i].cause # x.cause
        /\ \A i \in DOMAIN builds' : \A u \in setups' : builds'[i].cause # u.cause
    BY <1>6, <1>8, <2>1 DEF Inv, InOnePlace
  <2>. QED
    BY <1>8, <2>2, <2>3, <2>4 DEF InOnePlace
<1>13. \A i \in DOMAIN builds : builds[i].files \in DOMAIN commits
  BY MadeOf DEF Inv
<1>14. ChecksExist' /\ BuildsAsked'
  BY <1>4, <1>13 DEF Inv, ChecksExist, BuildsAsked, Grows
<1>15. BuildIsAsAsked' /\ CachesAsAsked' /\ SetupsAsked'
  BY DEF Inv, BuildIsAsAsked, CachesAsAsked, SetupsAsked
<1>16. EssentialByHand'
  BY <1>4, <1>13 DEF Inv, EssentialByHand, ByHand, Grows
<1>. QED
  BY <1>4, <1>9, <1>10, <1>11, <1>12, <1>14, <1>15, <1>16 DEF Inv

LEMMA SetupWriteInv ==
    ASSUME Inv, NEW s \in setups, SetupWrite(s)
    PROVE  Inv'
  BY GivenUpInv, WrittenInv DEF SetupWrite

\* The steps offered after a build are templates of its files.
LEMMA StepsOffered ==
    ASSUME NEW entry, NEW ref, NEW files \in AllFiles, NEW steps,
           steps = SetToSeq(nextCheckRunsForWorkflow(entry, ref, files.def, files.notes))
                \/ steps = <<>>
    PROVE  \E n \in Nat : steps \in [1 .. n -> Templates]
<1>1. CASE steps = <<>>
  <2>1. steps \in [1 .. 0 -> Templates]
    BY <1>1
  <2>. QED
    BY <2>1
<1>2. CASE steps = SetToSeq(nextCheckRunsForWorkflow(entry, ref, files.def, files.notes))
  <2> DEFINE next == nextCheckRunsForWorkflow(entry, ref, files.def, files.notes)
  <2>1. next \subseteq files.def.templates
    BY DEF nextCheckRunsForWorkflow, NextTasks
  <2>2. IsFiniteSet(files.def.templates) /\ files.def.templates \subseteq Templates
    BY HooksAssumption DEF Definitions
  <2> HIDE DEF next
  <2>3. IsFiniteSet(next) /\ next \subseteq Templates
    BY <2>1, <2>2, FS_Subset
  <2>4. Cardinality(next) \in Nat /\ SetToSeq(next) \in [1 .. Cardinality(next) -> next]
    BY <2>3, SetToSeqOf
  <2>5. steps \in [1 .. Cardinality(next) -> Templates]
    BY <1>2, <2>3, <2>4 DEF next
  <2>. QED
    BY <2>4, <2>5
<1>. QED
  BY <1>1, <1>2

\* The check runs of the steps.
LEMMA Offered ==
    ASSUME NEW n \in Nat, NEW steps \in [1 .. n -> Templates], NEW sha \in Nat
    PROVE  LET offered == [k \in DOMAIN steps |-> StepCheck(steps[k], sha)]
           IN  /\ offered \in Seq(Checks)
               /\ \A k \in DOMAIN offered :
                     \E task \in Templates : offered[k] = StepCheck(task, sha)
<1> DEFINE new == [k \in 1 .. n |-> StepCheck(steps[k], sha)]
<1>1. ASSUME NEW task \in Templates
      PROVE  StepCheck(task, sha) \in Checks
  <2>1. /\ StepConclusion(task) \in {"action_required", "neutral"}
        /\ {"run", "skip"} \subseteq Buttons
    BY DEF StepConclusion, Buttons
  <2> HIDE DEF Buttons
  <2>. QED
    BY <2>1 DEF StepCheck, Checks
<1>2. new \in Seq(Checks)
  <2>1. \A k \in 1 .. n : new[k] \in Checks
    BY <1>1
  <2> HIDE DEF Checks
  <2>. QED
    BY <2>1
<1>3. \A k \in 1 .. n : \E task \in Templates : new[k] = StepCheck(task, sha)
  OBVIOUS
<1>4. DOMAIN steps = 1 .. n
  OBVIOUS
<1>. QED
  BY <1>2, <1>3, <1>4

\* What was there stays in front.
LEMMA Joined ==
    ASSUME NEW S, NEW s \in Seq(S), NEW t \in Seq(S)
    PROVE  /\ s \o t \in Seq(S) /\ DOMAIN s \subseteq DOMAIN (s \o t)
           /\ \A k \in DOMAIN s : (s \o t)[k] = s[k]
           /\ \A k \in DOMAIN (s \o t) : k \notin DOMAIN s =>
                 \E j \in DOMAIN t : (s \o t)[k] = t[j]
<1>1. /\ s \o t \in Seq(S) /\ Len(s \o t) = Len(s) + Len(t)
      /\ \A i \in 1 .. Len(s) + Len(t) : (s \o t)[i] = IF i <= Len(s) THEN s[i]
                                                                     ELSE t[i - Len(s)]
  BY ConcatProperties
<1>2. /\ Len(s) \in Nat /\ DOMAIN s = 1 .. Len(s)
      /\ Len(t) \in Nat /\ DOMAIN t = 1 .. Len(t)
      /\ DOMAIN (s \o t) = 1 .. Len(s) + Len(t)
  BY <1>1
<1>3. ASSUME NEW k \in DOMAIN (s \o t), k \notin DOMAIN s
      PROVE  k - Len(s) \in DOMAIN t /\ (s \o t)[k] = t[k - Len(s)]
  BY <1>1, <1>2, <1>3
<1>. QED
  BY <1>1, <1>2, <1>3

\* A build ends: what it deploys is told in deliveries that lead to nothing, and
\* the steps it offers wait for somebody.
LEMMA FinishInv ==
    ASSUME Inv, NEW i \in DOMAIN builds, NEW outcome \in Outcomes(i), NEW ran,
           ran \in {{}, commits[builds[i].files].files.def.deploys
                          \cap commits[builds[i].files].files.def.takesEnv},
           Finish(i, outcome, ran)
    PROVE  Inv'
<1>0. PICK ch, sha, c, files, out, state, buttons :
         /\ ch = builds[i].check /\ sha = checks[ch].sha /\ c = builds[i].cause
         /\ files = commits[builds[i].files].files /\ state = outcome
         /\ out = {OnDemand(i, task) : task \in ran}
         /\ buttons = clearCacheAction(files.def)
  OBVIOUS
<1>1. /\ ch \in DOMAIN checks /\ c \in DOMAIN asks /\ builds[i].ref \in Refs
      /\ builds[i].files \in DOMAIN commits /\ sha \in DOMAIN commits
      /\ files \in AllFiles /\ files.def \in Definitions
      /\ checks[ch].task \in Templates \cup {NoEntry}
  <2>1. /\ ch \in DOMAIN checks /\ c \in DOMAIN asks /\ builds[i].ref \in Refs
        /\ builds[i].files \in DOMAIN commits
        /\ checks[ch].task \in Templates \cup {NoEntry}
    BY <1>0, MadeOf DEF Inv
  <2>2. files \in AllFiles
    BY <1>0, <2>1 DEF Inv, TypeOKHooks
  <2>3. sha \in DOMAIN commits
    BY <1>0, <2>1 DEF Inv, ChecksExist
  <2>. QED
    BY <2>1, <2>2, <2>3, HooksAssumption
<1>2. /\ builds[i].running /\ builds' = [builds EXCEPT ![i].running = FALSE]
      /\ Send(out)
      /\ asks' = asks /\ commits' = commits /\ head' = head
      /\ setups' = setups /\ cleared' = cleared
  BY <1>0 DEF Finish
<1>3. /\ checks' \in Seq(Checks) /\ DOMAIN checks \subseteq DOMAIN checks'
      /\ \A k \in DOMAIN checks : k # ch => checks'[k] = checks[k]
      /\ checks'[ch].task = checks[ch].task /\ checks'[ch].sha = sha
      /\ checks'[ch].deploy = checks[ch].deploy /\ checks'[ch].state = state
      /\ checks'[ch].buttons = buttons
      /\ \A k \in DOMAIN checks' : k \notin DOMAIN checks =>
            \E task \in Templates : checks'[k] = StepCheck(task, sha)
  <2>1. PICK steps :
           /\ steps = SetToSeq(nextCheckRunsForWorkflow(checks[ch].task, builds[i].ref,
                                                         files.def, files.notes))
                 \/ steps = <<>>
           /\ checks' = [checks EXCEPT ![ch].state = state, ![ch].buttons = buttons]
                           \o [k \in DOMAIN steps |-> StepCheck(steps[k], sha)]
    BY <1>0 DEF Finish
  <2>0. PICK one, told : /\ one = [checks[ch] EXCEPT !.state = state, !.buttons = buttons]
                         /\ told = [checks EXCEPT ![ch] = one]
    OBVIOUS
  <2> DEFINE offered == [k \in DOMAIN steps |-> StepCheck(steps[k], sha)]
  <2>2. PICK n \in Nat : steps \in [1 .. n -> Templates]
    BY <1>1, <2>1, StepsOffered
  <2>3. sha \in Nat
    BY <1>1, Lengths DEF Inv
  <2>4. /\ offered \in Seq(Checks)
        /\ \A k \in DOMAIN offered : \E task \in Templates : offered[k] = StepCheck(task, sha)
    BY <2>2, <2>3, Offered
  <2>5. /\ buttons \in SUBSET Buttons /\ state \in {"success", "failure", "cancelled"}
    BY <1>0 DEF clearCacheAction, Buttons, Outcomes
  <2>6. /\ told \in Seq(Checks) /\ DOMAIN told = DOMAIN checks
        /\ \A k \in DOMAIN checks : k # ch => told[k] = checks[k]
        /\ told[ch].task = checks[ch].task /\ told[ch].sha = checks[ch].sha
        /\ told[ch].deploy = checks[ch].deploy /\ told[ch].state = state
        /\ told[ch].buttons = buttons
    <3>1. /\ Len(checks) \in Nat /\ DOMAIN checks = 1 .. Len(checks) /\ checks \in Seq(Checks)
          /\ \A k \in DOMAIN checks : checks[k] \in Checks
      BY Made DEF Inv, TypeOKHooks
    <3>2. /\ one \in Checks /\ one.task = checks[ch].task /\ one.sha = checks[ch].sha
          /\ one.deploy = checks[ch].deploy /\ one.state = state /\ one.buttons = buttons
      <4>1. ASSUME NEW x \in Checks, NEW y, y = [x EXCEPT !.state = state, !.buttons = buttons]
            PROVE  /\ y \in Checks /\ y.task = x.task /\ y.sha = x.sha
                   /\ y.deploy = x.deploy /\ y.state = state /\ y.buttons = buttons
        BY <2>5, <4>1 DEF Checks
      <4>2. checks[ch] \in Checks
        BY <1>1, <3>1
      <4>. QED
        BY <2>0, <4>1, <4>2
    <3>3. /\ DOMAIN told = DOMAIN checks /\ told[ch] = one
          /\ \A k \in DOMAIN checks : k # ch => told[k] = checks[k]
      BY <1>1, <2>0
    <3>4. told \in Seq(Checks)
      <4>1. \A k \in DOMAIN checks : told[k] \in Checks
        BY <3>1, <3>2, <3>3
      <4>2. told = [k \in 1 .. Len(checks) |-> told[k]]
        BY <2>0, <3>1
      <4> HIDE DEF Checks
      <4>. QED
        BY <3>1, <4>1, <4>2
    <3>. QED
      BY <3>2, <3>3, <3>4
  <2>7. checks' = told \o offered
    BY <1>1, <2>0, <2>1
  <2> HIDE DEF offered, Checks
  <2>8. /\ checks' \in Seq(Checks) /\ DOMAIN told \subseteq DOMAIN checks'
        /\ \A k \in DOMAIN told : checks'[k] = told[k]
        /\ \A k \in DOMAIN checks' : k \notin DOMAIN told =>
              \E j \in DOMAIN offered : checks'[k] = offered[j]
    BY <2>4, <2>6, <2>7, Joined
  <2>. QED
    BY <1>0, <1>1, <2>4, <2>6, <2>8
<1>4. /\ DOMAIN builds' = DOMAIN builds
      /\ \A j \in DOMAIN builds :
            /\ builds'[j].check = builds[j].check /\ builds'[j].files = builds[j].files
            /\ builds'[j].cause = builds[j].cause
            /\ ~builds[j].running => ~builds'[j].running
      /\ ~builds'[i].running /\ builds' \in Seq(BuildSet)
  <2>1. /\ Len(builds) \in Nat /\ DOMAIN builds = 1 .. Len(builds)
        /\ \A j \in DOMAIN builds : builds[j] \in BuildSet
        /\ builds \in Seq(BuildSet)
    BY Made DEF Inv, TypeOKHooks, BuildSet
  <2>2. PICK b : b = [builds[i] EXCEPT !.running = FALSE]
    OBVIOUS
  <2>3. /\ builds' = [builds EXCEPT ![i] = b] /\ DOMAIN builds' = DOMAIN builds
        /\ builds'[i] = b /\ \A j \in DOMAIN builds : j # i => builds'[j] = builds[j]
    BY <1>2, <2>1, <2>2
  <2>4. /\ b \in BuildSet /\ b.check = builds[i].check /\ b.files = builds[i].files
        /\ b.cause = builds[i].cause /\ b.running = FALSE
    <3>1. ASSUME NEW x \in BuildSet, NEW y, y = [x EXCEPT !.running = FALSE]
          PROVE  /\ y \in BuildSet /\ y.check = x.check /\ y.files = x.files
                 /\ y.cause = x.cause /\ y.running = FALSE
      BY <3>1 DEF BuildSet
    <3>. QED
      BY <2>1, <2>2, <3>1
  <2>5. builds' \in Seq(BuildSet)
    <3> HIDE DEF BuildSet
    <3>. QED
      BY <2>1, <2>3, <2>4
  <2>. QED
    BY <2>3, <2>4, <2>5
<1>5. Grows /\ Histories'
  <2>1. \A k \in DOMAIN checks :
           /\ checks'[k].task = checks[k].task /\ checks'[k].sha = checks[k].sha
           /\ checks'[k].deploy = checks[k].deploy
    BY <1>0, <1>3
  <2>. QED
    BY <1>2, <1>3, <2>1 DEF Grows, Inv, Histories
<1>6. \A e \in out : Inert(e) /\ e.kind = "deployment" /\ DeploymentOf(e, c)
  <2> SUFFICES ASSUME NEW task \in ran, NEW e, e = OnDemand(i, task)
               PROVE  Inert(e) /\ e.kind = "deployment" /\ DeploymentOf(e, c)
    BY <1>0
  <2>1. e = Deployment(sha, builds[i].ref, "none", task, FALSE, c)
    BY <1>0 DEF OnDemand
  <2>2. task \in Templates
    BY <1>0, <1>1 DEF Definitions
  <2>3. Inert(e) /\ e.kind = "deployment"
    BY <2>1 DEF Inert, Deployment
  <2>4. DeploymentOf(e, c)
    BY <1>1, <2>1, <2>2 DEF DeploymentOf, PayloadTypes
  <2>. QED
    BY <2>3, <2>4
<1>7. /\ IsABag(inbox') /\ Inbox' \subseteq Inbox \cup out
      /\ Live' \subseteq Live /\ \A e \in Live' : inbox'[e] = 1
  BY <1>2, <1>6, SentInert DEF Inv, TypeOKHooks
<1>8. TypeOKHooks'
  <2>1. BuildSet \subseteq BuildSet'
    BY <1>2, <1>3 DEF BuildSet
  <2>2. builds' \in Seq(BuildSet')
    <3> HIDE DEF BuildSet
    <3>. QED
      BY <1>4, <2>1
  <2>. QED
    BY <1>2, <1>3, <1>7, <2>2 DEF Inv, TypeOKHooks, BuildSet
<1>9. Deliveries'
  <2>1. \A e \in out : \E k \in DOMAIN asks' : DeliveryOf(e, k)'
    <3>1. \A e \in out : DeliveryOf(e, c)
      BY <1>6 DEF DeliveryOf
    <3>. QED
      BY <1>1, <1>5, <3>1, DeliveryStays
  <2>. QED
    BY <1>5, <1>7, <2>1, DeliveriesStay DEF Inv
<1>10. TagsArePut'
  BY <1>2, <1>6, <1>7 DEF Inv, TagsArePut, PutAt
<1>11. InOnePlace'
  BY <1>2, <1>4, <1>7, PlacesKept DEF Inv
<1>12. \A k \in DOMAIN checks' : k \notin DOMAIN checks =>
          /\ checks'[k].sha = sha /\ checks'[k].task \in Templates
          /\ checks'[k].state = StepConclusion(checks'[k].task)
  BY <1>3 DEF StepCheck
<1>13. ChecksExist'
  <2> SUFFICES ASSUME NEW k \in DOMAIN checks'
               PROVE  /\ checks'[k].sha \in DOMAIN commits
                      /\ "run" \in checks'[k].buttons => checks'[k].task # NoEntry
    BY <1>2 DEF ChecksExist
  <2>1. CASE k \notin DOMAIN checks
    BY <1>1, <1>12, <2>1, PolicyAssumption
  <2>2. CASE k = ch
    BY <1>0, <1>1, <1>3, <2>2 DEF clearCacheAction
  <2>3. CASE k \in DOMAIN checks /\ k # ch
    BY <1>3, <2>3 DEF Inv, ChecksExist
  <2>. QED
    BY <2>1, <2>2, <2>3
<1>14. /\ \A j \in DOMAIN builds : builds[j].check \in DOMAIN checks
       /\ \A k \in DOMAIN checks :
             /\ checks'[k].task = checks[k].task /\ checks'[k].sha = checks[k].sha
             /\ checks'[k].deploy = checks[k].deploy
  BY <1>5, MadeOf DEF Inv, Grows
<1>15. BuildsAsked' /\ SetupsAsked' /\ CachesAsAsked'
  <2>1. BuildsAsked'
    <3> SUFFICES ASSUME NEW j \in DOMAIN builds'
                 PROVE  /\ MayBuild(asks'[builds'[j].cause])
                        /\ \/ checks'[builds'[j].check].deploy
                           \/ asks'[builds'[j].cause].act = "run"
                           \/ commits'[builds'[j].files].files.def.main
                                 = checks'[builds'[j].check].task
      BY DEF BuildsAsked
    <3>1. /\ j \in DOMAIN builds /\ builds'[j].check = builds[j].check
          /\ builds'[j].files = builds[j].files /\ builds'[j].cause = builds[j].cause
      BY <1>4
    <3>2. /\ MayBuild(asks[builds[j].cause])
          /\ \/ checks[builds[j].check].deploy
             \/ asks[builds[j].cause].act = "run"
             \/ commits[builds[j].files].files.def.main = checks[builds[j].check].task
      BY <3>1 DEF Inv, BuildsAsked
    <3>. QED
      BY <1>2, <1>14, <3>1, <3>2
  <2>2. SetupsAsked' /\ CachesAsAsked'
    BY <1>2 DEF Inv, SetupsAsked, CachesAsAsked
  <2>. QED
    BY <2>1, <2>2
<1>16. BuildIsAsAsked'
  BY <1>2, <1>4, <1>14 DEF Inv, BuildIsAsAsked
<1>17. EssentialByHand'
  <2> SUFFICES ASSUME NEW k \in DOMAIN checks',
                      checks'[k].task \in EssentialTemplates, ~checks'[k].deploy,
                      checks'[k].state \in {"success", "neutral"}
               PROVE  ByHand(k)'
    BY DEF EssentialByHand
  <2>1. k \in DOMAIN checks
    BY <1>12 DEF StepConclusion
  <2>2. CASE k = ch
    <3>1. /\ builds'[i].check = k /\ ~builds'[i].running
          /\ builds'[i].cause = c /\ builds'[i].files = builds[i].files
      BY <1>0, <1>4, <2>2
    <3>2. \/ asks[c].act = "run"
          \/ commits[builds[i].files].files.def.main = checks[k].task
      BY <1>0, <1>14, <2>1, <2>2 DEF Inv, BuildsAsked
    <3>. QED
      <4>1. \/ asks'[builds'[i].cause].act = "run"
            \/ commits'[builds'[i].files].files.def.main = checks'[k].task
        BY <1>2, <1>14, <2>1, <3>1, <3>2
      <4>2. i \in DOMAIN builds'
        BY <1>4
      <4>. QED
        BY <3>1, <4>1, <4>2 DEF ByHand
  <2>3. CASE k # ch
    <3>1. checks'[k] = checks[k]
      BY <1>3, <2>1, <2>3
    <3>2. ByHand(k)
      BY <2>1, <3>1 DEF Inv, EssentialByHand
    <3>3. CASE \E j \in DOMAIN asks : asks[j].act = "skip" /\ asks[j].check = k
      BY <1>2, <3>3 DEF ByHand
    <3>4. CASE \E j \in DOMAIN builds :
                  /\ builds[j].check = k /\ ~builds[j].running
                  /\ \/ asks[builds[j].cause].act = "run"
                     \/ commits[builds[j].files].files.def.main = checks[k].task
      <4>1. PICK j \in DOMAIN builds :
               /\ builds[j].check = k /\ ~builds[j].running
               /\ \/ asks[builds[j].cause].act = "run"
                  \/ commits[builds[j].files].files.def.main = checks[k].task
        BY <3>4
      <4>2. /\ j \in DOMAIN builds' /\ builds'[j].check = k /\ ~builds'[j].running
            /\ builds'[j].cause = builds[j].cause /\ builds'[j].files = builds[j].files
        BY <1>4, <4>1
      <4>. QED
        BY <1>2, <3>1, <4>1, <4>2 DEF ByHand
    <3>. QED
      BY <3>2, <3>3, <3>4 DEF ByHand
  <2>. QED
    BY <2>2, <2>3
<1>. QED
  BY <1>5, <1>8, <1>9, <1>10, <1>11, <1>13, <1>15, <1>16, <1>17 DEF Inv

LEMMA EndInv ==
    ASSUME Inv, EndOfBuild
    PROVE  Inv'
  BY FinishInv DEF EndOfBuild

-----------------------------------------------------------------------------
(* The handlers, by kind of delivery.                                      *)

\* Both kinds of rerun, and pushes.
LEMMA SuiteRequest ==
    ASSUME Inv, NEW d \in Live, d.cause \in DOMAIN asks, NEW sha \in DOMAIN commits,
           RunSuite(d, sha),
           \/ asks[d.cause].act \in {"push", "rerun"} /\ asks[d.cause].sha = sha
           \/ /\ asks[d.cause].act = "comment" /\ asks[d.cause].by \in Members
              /\ asks[d.cause].cmd = "setup"
    PROVE  Inv'
<1>0. PICK req : req = Request("check_suite", "branch", NoEntry, commits[sha].ref,
                               PRsOf(commits[sha].ref), sha)
  OBVIOUS
<1>1. runWorkflow(d, req)
  BY <1>0 DEF RunSuite
<1>2. /\ req.ref = commits[sha].ref /\ req.sha = sha /\ req.entry = NoEntry
      /\ req.event = "check_suite"
  BY <1>0 DEF Request
<1>3. req.ref \in Refs
  BY <1>2 DEF Inv, TypeOKHooks
<1>4. MayBuild(asks[d.cause])
  BY DEF MayBuild
<1>5. Asks(d, req)
  BY <1>2, <1>3, <1>4 DEF Asks
<1>. QED
  BY <1>1, <1>5, RequestInv

LEMMA SuiteInv ==
    ASSUME Inv, NEW d \in Inbox, NEW c \in DOMAIN asks, SuiteOf(d, c), webhookPayload(d)
    PROVE  Inv'
<1>1. /\ d.kind = "check_suite" /\ d.cause = c /\ d.sha \in DOMAIN commits
      /\ \/ asks[c].act \in {"push", "rerun"} /\ asks[c].sha = d.sha
         \/ asks[c].act = "comment" /\ asks[c].by \in Members /\ asks[c].cmd = "setup"
  BY DEF SuiteOf, Suite
<1>2. d \in Live
  BY <1>1 DEF Live, Inert
<1>3. webhookCheckSuite(d)
  BY <1>1 DEF webhookPayload, webhookCheckSuite, webhookCreate, webhookCheckRun, PressedRun,
              PressedSkip, PressedClear, webhookDeployment, webhookOther,
              webhookIssueComment, webhookDelete, webhookRepository
<1>4. RunSuite(d, d.sha) \/ Ignore(d)
  BY <1>3 DEF webhookCheckSuite
<1>. QED
  BY <1>1, <1>2, <1>4, SuiteRequest, IgnoreInv

LEMMA CheckRunInv ==
    ASSUME Inv, NEW d \in Inbox, NEW c \in DOMAIN asks, CheckRunOf(d, c), webhookPayload(d)
    PROVE  Inv'
<1>1. PICK i \in DOMAIN checks :
         /\ \/ d = CheckRun("rerequested", i, "none", c) /\ asks[c].act = "rerun"
            \/ \E button \in Buttons :
                  /\ d = CheckRun("requested_action", i, button, c)
                  /\ asks[c].act = button /\ asks[c].check = i
                  /\ asks[c].task = checks[i].task
                  /\ asks[c].ref = commits[checks[i].sha].ref
                  /\ button = "run" => checks[i].task # NoEntry
         /\ asks[c].sha = checks[i].sha
  BY DEF CheckRunOf
<1>2. d.kind = "check_run" /\ d.cause = c /\ d.check = i
  BY <1>1 DEF CheckRun
<1>3. \/ d.action = "rerequested" /\ d.button = "none" /\ asks[c].act = "rerun"
      \/ /\ d.action = "requested_action" /\ d.button \in Buttons
         /\ asks[c].act = d.button /\ asks[c].check = i /\ asks[c].task = checks[i].task
         /\ asks[c].ref = commits[checks[i].sha].ref
         /\ d.button = "run" => checks[i].task # NoEntry
  BY <1>1 DEF CheckRun
<1>4. d \in Live
  BY <1>2 DEF Live, Inert
<1>5. checks[i].sha \in DOMAIN commits /\ checks[i].task \in Templates \cup {NoEntry}
  BY MadeOf DEF Inv, ChecksExist
<1>6. webhookCheckRun(d)
  BY <1>2 DEF webhookPayload, webhookCheckSuite, webhookCreate, webhookDeployment,
              webhookOther, webhookIssueComment, webhookDelete, webhookRepository
<1>7. ASSUME PressedRun(d) PROVE Inv'
  <2>0. PICK ref, req : /\ ref = commits[checks[i].sha].ref
                        /\ req = Request("run_action", "branch", checks[i].task, ref, PRsOf(ref),
                                         checks[i].sha)
    OBVIOUS
  <2>1. runWorkflow(d, req) /\ d.button = "run"
    BY <1>2, <1>7, <2>0 DEF PressedRun
  <2>2. req.ref = ref /\ req.sha = checks[i].sha /\ req.entry = checks[i].task
    BY <2>0 DEF Request
  <2>3. ref \in Refs
    BY <1>5, <2>0 DEF Inv, TypeOKHooks
  <2>4. asks[c].act = "run" /\ asks[c].task = checks[i].task /\ checks[i].task # NoEntry
    BY <1>3, <2>1
  <2>5. Asks(d, req)
    BY <1>1, <1>2, <1>4, <1>5, <2>2, <2>3, <2>4 DEF Asks, MayBuild
  <2>. QED
    BY <2>1, <2>5, RequestInv
<1>8. ASSUME PressedSkip(d) PROVE Inv'
  <2>1. asks[c].act = "skip" /\ asks[c].check = i
    BY <1>3, <1>8 DEF PressedSkip
  <2>. QED
    BY <1>2, <1>8, <2>1, SkipInv
<1>9. ASSUME PressedClear(d) PROVE Inv'
  <2>1. CASE d.button = "clearCache" /\ Clear(d, NoRef)
    <3>1. MayClear(asks[c], NoRef)
      BY <1>3, <2>1 DEF MayClear
    <3>. QED
      BY <1>2, <2>1, <3>1, ClearInv
  <2>2. CASE d.button = "clearCacheBranch" /\ Clear(d, commits[checks[d.check].sha].ref)
    <3>1. commits[checks[i].sha].ref \in Refs
      BY <1>5 DEF Inv, TypeOKHooks
    <3>2. MayClear(asks[c], commits[checks[i].sha].ref)
      BY <1>3, <2>2, <3>1, HooksAssumption DEF MayClear
    <3>. QED
      BY <1>2, <2>2, <3>1, <3>2, ClearInv
  <2>. QED
    BY <1>9, <2>1, <2>2 DEF PressedClear
<1>10. ASSUME d.action = "rerequested", RunSuite(d, checks[d.check].sha) PROVE Inv'
  <2>1. asks[c].act = "rerun" /\ asks[c].sha = checks[i].sha
    BY <1>1, <1>3, <1>10
  <2>. QED
    BY <1>2, <1>4, <1>5, <1>10, <2>1, SuiteRequest
<1>. QED
  BY <1>6, <1>7, <1>8, <1>9, <1>10, IgnoreInv DEF webhookCheckRun

LEMMA DeploymentInv ==
    ASSUME Inv, NEW d \in Inbox, NEW c \in DOMAIN asks, DeploymentOf(d, c), webhookPayload(d)
    PROVE  Inv'
<1>1. /\ d.kind = "deployment" /\ d.cause = c /\ d.sha \in DOMAIN commits /\ d.ref \in Refs
      /\ d.task \in Templates \cup {NoEntry}
      /\ d.run => /\ asks[c].act = "deploy" /\ asks[c].run
                  /\ asks[c].sha = d.sha /\ asks[c].task = d.task /\ d.task # NoEntry
  BY DEF DeploymentOf, Deployment
<1>2. webhookDeployment(d)
  BY <1>1 DEF webhookPayload, webhookCheckSuite, webhookCreate, webhookCheckRun, PressedRun,
              PressedSkip, PressedClear, webhookOther,
              webhookIssueComment, webhookDelete, webhookRepository
<1>3. ASSUME d.run, ~Ignore(d) PROVE Inv'
  <2>0. PICK type, req : /\ type = IF d.type = "none" THEN "branch" ELSE d.type
                         /\ req = Request("deployment", type, d.task, d.ref, {}, d.sha)
    OBVIOUS
  <2>1. runWorkflow(d, req)
    BY <1>2, <1>3, <2>0 DEF webhookDeployment
  <2>2. req.ref = d.ref /\ req.sha = d.sha /\ req.entry = d.task /\ req.event = "deployment"
    BY <2>0 DEF Request
  <2>3. d \in Live
    BY <1>1, <1>3 DEF Live, Inert
  <2>4. Asks(d, req)
    BY <1>1, <1>3, <2>2, <2>3 DEF Asks, MayBuild
  <2>. QED
    BY <2>1, <2>4, RequestInv
<1>4. ~d.run => Ignore(d)
  BY <1>2 DEF webhookDeployment
<1>. QED
  BY <1>3, <1>4, IgnoreInv

LEMMA PlainInv ==
    ASSUME Inv, NEW d \in Inbox, NEW c \in DOMAIN asks, PlainOf(d, c), webhookPayload(d)
    PROVE  Inv'
<1>1. /\ d.cause = c
      /\ \/ d.kind = "create" /\ d.ref \in Refs /\ asks[c].act = "create" /\ asks[c].ref = d.ref
         \/ d.kind = "delete" /\ d.ref \in Refs /\ asks[c].act = "delete" /\ asks[c].ref = d.ref
         \/ d.kind = "issue"
         \/ d.kind = "repository" /\ asks[c].act = "archive"
  BY DEF PlainOf, Plain
<1>2. \/ webhookCreate(d) \/ webhookDelete(d) \/ webhookOther(d) \/ webhookRepository(d)
  BY <1>1 DEF webhookPayload, webhookCheckSuite, webhookCheckRun, PressedRun,
              PressedSkip, PressedClear, webhookDeployment, webhookIssueComment
<1>3. ASSUME webhookCreate(d) PROVE Inv'
  <2>0. PICK req : req = Request("create_tag", "tag", NoEntry, d.ref, {}, head[d.ref])
    OBVIOUS
  <2>1. SUFFICES ASSUME d.ref \in Tags, head[d.ref] # 0, runWorkflow(d, req) PROVE Inv'
    BY <1>3, <2>0, IgnoreInv DEF webhookCreate
  <2>2. /\ req.ref = d.ref /\ req.sha = head[d.ref] /\ req.entry = NoEntry
    BY <2>0 DEF Request
  <2>3. d.kind = "create" /\ d.ref \in Refs /\ asks[c].act = "create" /\ asks[c].ref = d.ref
    BY <1>1, <1>3 DEF webhookCreate
  <2>4. head[d.ref] \in DOMAIN commits
    BY <2>1, <2>3, Lengths DEF Inv, TypeOKHooks
  <2>5. PutAt(d.cause, d.ref, head[d.ref])
    BY <2>1, <2>3 DEF Inv, TagsArePut
  <2>6. d \in Live
    BY <2>3 DEF Live, Inert
  <2>7. Asks(d, req)
    BY <1>1, <2>2, <2>3, <2>4, <2>5, <2>6 DEF Asks, MayBuild
  <2>. QED
    BY <2>1, <2>7, RequestInv
<1>4. ASSUME webhookDelete(d) PROVE Inv'
  <2>1. d.ref \in Refs /\ asks[c].act = "delete" /\ asks[c].ref = d.ref
    BY <1>1, <1>4 DEF webhookDelete
  <2>2. d.ref \notin Tags => MayClear(asks[d.cause], d.ref)
    BY <1>1, <2>1, HooksAssumption DEF MayClear
  <2>3. (Clear(d, d.ref) /\ d.ref \notin Tags) \/ Ignore(d)
    BY <1>4 DEF webhookDelete
  <2>. QED
    BY <1>1, <2>1, <2>2, <2>3, ClearInv, IgnoreInv
<1>5. ASSUME webhookRepository(d) PROVE Inv'
  <2>1. MayClear(asks[d.cause], NoRef) /\ Clear(d, NoRef)
    BY <1>1, <1>5 DEF MayClear, webhookRepository
  <2>. QED
    BY <1>1, <2>1, ClearInv
<1>6. ASSUME webhookOther(d) PROVE Inv'
  BY <1>6, IgnoreInv DEF webhookOther
<1>. QED
  BY <1>2, <1>3, <1>4, <1>5, <1>6

LEMMA CommentInv ==
    ASSUME Inv, NEW d \in Inbox, NEW c \in DOMAIN asks, CommentOf(d, c), webhookPayload(d)
    PROVE  Inv'
<1>1. PICK by \in {Bot} \cup {r.by : r \in Remarks}, cmd \in Cmds, prs \in SUBSET PRs :
         /\ d = Comment(by, cmd, prs, c)
         /\ by # Bot => asks[c].act = "comment" /\ asks[c].by = by /\ asks[c].cmd = cmd
  BY DEF CommentOf
<1>2. d.kind = "comment" /\ d.cause = c /\ d.by = by /\ d.cmd = cmd /\ d.prs = prs
  BY <1>1 DEF Comment
<1>3. webhookIssueComment(d)
  BY <1>2 DEF webhookPayload, webhookCheckSuite, webhookCreate, webhookCheckRun, PressedRun,
              PressedSkip, PressedClear, webhookDeployment, webhookOther,
              webhookDelete, webhookRepository
<1>4. Reply(d) => Inv'
  BY <1>1, ReplyInv
<1>5. ASSUME NEW ref \in issueHead(d) PROVE ref \in Refs \ Tags /\ head[ref] # 0
  <2>1. \A pr \in prs : pr.head \in Refs \ Tags
    BY HooksAssumption
  <2>. QED
    BY <1>2, <2>1, HooksAssumption, StepsAssumption DEF issueHead
<1>6. ASSUME by \in Members, cmd = "run", slashRun(d) PROVE Inv'
  <2>1. /\ d \in Live /\ asks[c].act = "comment" /\ asks[c].by \in Members
        /\ asks[c].cmd = "run"
    BY <1>1, <1>2, <1>6, HooksAssumption DEF Live, Inert
  <2>2. SUFFICES ASSUME NEW pr \in prs, head[pr.head] # 0,
                        runWorkflow(d, Request("slash_run", "branch", NoEntry, pr.head, {pr},
                                               head[pr.head]))
                 PROVE  Inv'
    BY <1>2, <1>4, <1>6, IgnoreInv DEF slashRun
  <2>3. PICK req : req = Request("slash_run", "branch", NoEntry, pr.head, {pr}, head[pr.head])
    OBVIOUS
  <2>4. /\ req.ref = pr.head /\ req.sha = head[pr.head] /\ req.entry = NoEntry
    BY <2>3 DEF Request
  <2>5. pr.head \in Refs
    BY HooksAssumption
  <2>6. head[pr.head] \in DOMAIN commits
    BY <2>2, <2>5, Lengths DEF Inv, TypeOKHooks
  <2>7. Asks(d, req)
    BY <1>2, <2>1, <2>4, <2>5, <2>6 DEF Asks, MayBuild
  <2>. QED
    BY <2>2, <2>3, <2>7, RequestInv
<1>7. ASSUME slashDeploy(d) PROVE Inv'
  <2>1. SUFFICES ASSUME NEW ref \in issueHead(d),
                        Answer(d, {Deployment(head[ref], ref, "none", NoEntry, FALSE, d.cause)}),
                        UNCHANGED <<asks, commits, head, checks, builds, setups, cleared>>
                 PROVE  Inv'
    BY <1>7, IgnoreInv DEF slashDeploy
  <2>2. PICK sha, e : sha = head[ref] /\ e = Deployment(sha, ref, "none", NoEntry, FALSE, c)
    OBVIOUS
  <2>3. ref \in Refs /\ sha \in DOMAIN commits
    BY <1>5, <2>2, Lengths DEF Inv, TypeOKHooks
  <2>4. Inert(e) /\ e.kind # "create"
    BY <2>2 DEF Inert, Deployment
  <2>5. DeploymentOf(e, c)
    BY <2>2, <2>3 DEF DeploymentOf, PayloadTypes
  <2> DEFINE out == {e}
  <2>6. Answer(d, out)
    BY <1>2, <2>1, <2>2
  <2>7. \A f \in out : /\ Inert(f) /\ f.kind # "create"
                       /\ \E k \in DOMAIN asks : DeliveryOf(f, k)
    BY <2>4, <2>5 DEF DeliveryOf
  <2> HIDE DEF out
  <2>. QED
    BY <2>1, <2>6, <2>7, QuietInv
<1>8. ASSUME by \in Members, cmd = "setup", slashSetup(d) PROVE Inv'
  <2>1. /\ d \in Live /\ asks[c].act = "comment" /\ asks[c].by \in Members
        /\ asks[c].cmd = "setup"
    BY <1>1, <1>2, <1>8, HooksAssumption DEF Live, Inert
  <2>2. SUFFICES ASSUME NEW ref \in issueHead(d),
                        setups' = setups \cup {[ref |-> ref, seen |-> commits[head[ref]].files,
                                                cause |-> d.cause]},
                        Answer(d, {}),
                        UNCHANGED <<asks, commits, head, checks, builds, cleared>>
                 PROVE  Inv'
    BY <1>4, <1>8, IgnoreInv DEF slashSetup
  <2>3. PICK s : s = [ref |-> ref, seen |-> commits[head[ref]].files, cause |-> d.cause]
    OBVIOUS
  <2>. QED
    BY <1>2, <1>5, <2>1, <2>2, <2>3, ListedInv
<1>9. ASSUME slashCommand(d) PROVE Inv'
  BY <1>2, <1>4, <1>6, <1>7, <1>8, <1>9, IgnoreInv DEF slashCommand
<1>. QED
  BY <1>3, <1>9, IgnoreInv DEF webhookIssueComment

LEMMA WebhookInv ==
    ASSUME Inv, NEW d \in Inbox, webhookPayload(d)
    PROVE  Inv'
<1>1. PICK c \in DOMAIN asks : DeliveryOf(d, c)
  BY DEF Inv, Deliveries
<1>. QED
  BY <1>1, SuiteInv, CheckRunInv, DeploymentInv, CommentInv, PlainInv DEF DeliveryOf

\* What kube-ci hears of its own check runs and deployments changes nothing.
LEMMA EchoIgnored ==
    ASSUME NEW d \in Echoes, webhookPayload(d)
    PROVE  Ignore(d)
<1>1. ASSUME d.kind = "check_suite",
             ~(d.app = "own" /\ d.action \in {"requested", "rerequested"})
      PROVE  Ignore(d)
  BY <1>1 DEF webhookPayload, webhookCheckSuite, webhookCreate, webhookCheckRun, PressedRun,
              PressedSkip, PressedClear, webhookDeployment, webhookOther,
              webhookIssueComment, webhookDelete, webhookRepository
<1>2. ASSUME d.kind = "check_run", d.action \in {"created", "completed"}, d.button = "none"
      PROVE  Ignore(d)
  BY <1>2 DEF webhookPayload, webhookCheckSuite, webhookCreate, webhookCheckRun, PressedRun,
              PressedSkip, PressedClear, webhookDeployment, webhookOther,
              webhookIssueComment, webhookDelete, webhookRepository
<1>3. ASSUME d.kind = "deployment_status"
      PROVE  Ignore(d)
  BY <1>3 DEF webhookPayload, webhookCheckSuite, webhookCreate, webhookCheckRun, PressedRun,
              PressedSkip, PressedClear, webhookDeployment, webhookOther,
              webhookIssueComment, webhookDelete, webhookRepository
<1>4. \/ /\ d.kind = "check_suite"
         /\ ~(d.app = "own" /\ d.action \in {"requested", "rerequested"})
      \/ d.kind = "check_run" /\ d.action \in {"created", "completed"} /\ d.button = "none"
      \/ d.kind = "deployment_status"
  BY DEF Echoes, Suite, CheckRun, Plain
<1>. QED
  BY <1>1, <1>2, <1>3, <1>4

LEMMA NextInv ==
    ASSUME Inv, [NextHooks]_hookVars
    PROVE  Inv'
<1>1. CASE UserActs
  BY <1>1, UserInv
<1>2. ASSUME Webhook PROVE Inv'
  BY <1>2, WebhookInv DEF Webhook, Inbox
<1>3. ASSUME NEW d \in BagToSet(inbox), Undelivered(d) PROVE Inv'
  BY <1>3, IgnoreInv DEF Undelivered
<1>4. ASSUME NEW d \in Echoes, webhookPayload(d) PROVE Inv'
  BY <1>4, EchoIgnored, IgnoreInv
<1>5. ASSUME NEW s \in setups, SetupWrite(s) PROVE Inv'
  BY <1>5, SetupWriteInv
<1>6. ASSUME EndOfBuild PROVE Inv'
  BY <1>6, EndInv
<1>7. CASE UNCHANGED hookVars
  <2>1. Inbox' = Inbox /\ Live' = Live
    BY <1>7 DEF hookVars, Inbox, Live, Inert
  <2>2. Deliveries'
    <3>1. Grows
      BY <1>7 DEF hookVars, Grows
    <3> DEFINE out == {}
    <3>2. /\ Inbox' \subseteq Inbox \cup out
          /\ \A e \in out : \E c \in DOMAIN asks' : DeliveryOf(e, c)'
      BY <2>1
    <3> HIDE DEF out
    <3>. QED
      BY <3>1, <3>2, DeliveriesStay DEF Inv
  <2>3. InOnePlace' /\ TagsArePut' /\ TypeOKHooks' /\ Histories'
    BY <1>7, <2>1 DEF hookVars, Inv, InOnePlace, TagsArePut, PutAt, TypeOKHooks, Histories
  <2>4. /\ ChecksExist' /\ BuildsAsked' /\ BuildIsAsAsked' /\ SetupsAsked' /\ CachesAsAsked'
        /\ EssentialByHand'
    BY <1>7 DEF hookVars, Inv, ChecksExist, BuildsAsked, BuildIsAsAsked, SetupsAsked,
                CachesAsAsked, EssentialByHand, ByHand
  <2>. QED
    BY <2>2, <2>3, <2>4 DEF Inv
<1>. QED
  BY <1>1, <1>2, <1>3, <1>4, <1>5, <1>6, <1>7 DEF NextHooks

-----------------------------------------------------------------------------
(* The theorems.                                                           *)

\* Deliveries agree with the acts they go back to, and an act is in one place
\* at a time, in every behaviour of the handlers, the users and the builds.
THEOREM ActsAccountedFor == HookSpec => []Inv
<1>1. InitHooks => Inv
  BY InitInv
<1>2. Inv /\ [NextHooks]_hookVars => Inv'
  BY NextInv
<1>. QED
  BY <1>1, <1>2, PTL DEF HookSpec

\* The state stays well formed: a build names a check run, a commit and an act
\* that exist (webhookPayload and what it calls).
THEOREM HooksTypeCorrect == HookSpec => []TypeOKHooks
<1>1. Inv => TypeOKHooks
  BY DEF Inv
<1>. QED
  BY <1>1, ActsAccountedFor, PTL

\* Each build goes back to an act of a user who may ask for one, and no two to
\* the same act, whatever comes back to kube-ci of what it does itself
\* (webhookPayload, createOnDemandDeployment, slashCommand).
THEOREM NothingIsUnasked == HookSpec => []NothingUnasked
<1>1. Inv => NothingUnasked
  <2> SUFFICES ASSUME Inv PROVE NothingUnasked
    OBVIOUS
  <2>1. \A i \in DOMAIN builds : builds[i].cause \in DOMAIN asks
    BY MadeOf DEF Inv
  <2>2. \A i \in DOMAIN builds : MayBuild(asks[builds[i].cause])
    BY DEF Inv, BuildsAsked
  <2>3. \A i, j \in DOMAIN builds : builds[j].cause = builds[i].cause => j = i
    BY DEF Inv, InOnePlace
  <2>. QED
    BY <2>1, <2>2, <2>3 DEF NothingUnasked
<1>. QED
  BY <1>1, ActsAccountedFor, PTL

\* A cache is cleared only for an act that asks for it, and for the branch that
\* the act was about: the deleted one, or the one that the commit of the check
\* run is on (webhookDelete, webhookCheckRunRequestActionClearCache).
THEOREM CachesClearedAsAsked == HookSpec => []CachesAsAsked
<1>1. Inv => CachesAsAsked
  BY DEF Inv
<1>. QED
  BY <1>1, ActsAccountedFor, PTL

\* However late its event is handled, a build is of the commit the user meant -
\* of a commit the tag was put at, for a tag - and of the template that was
\* named (webhookCheckRunRequestAction, webhookDeployment, webhookCreateTag).
THEOREM BuildsAreAsAsked == HookSpec => []BuildIsAsAsked
<1>1. Inv => BuildIsAsAsked
  BY DEF Inv
<1>. QED
  BY <1>1, ActsAccountedFor, PTL

\* An essential step passes by the hand of a user only: somebody skipped it, or
\* asked for its build (nextCheckRunsForWorkflow, webhookCheckRunRequestAction).
THEOREM EssentialStepsNeedSomebody == HookSpec => []EssentialNeedsSomebody
<1>1. Inv => EssentialNeedsSomebody
  <2> SUFFICES ASSUME Inv, NEW task \in EssentialTemplates, NEW k \in DOMAIN checks,
                      k \in StepsOf(task, checks[k].sha),
                      checks[k].state \in {"success", "neutral"}
               PROVE  \/ \E j \in DOMAIN asks : asks[j].act = "skip" /\ asks[j].check = k
                      \/ \E i \in DOMAIN builds :
                            /\ builds[i].check = k /\ ~builds[i].running
                            /\ \/ asks[builds[i].cause].act = "run"
                               \/ commits[builds[i].files].files.def.main = task
    BY DEF EssentialNeedsSomebody
  <2>1. checks[k].task = task /\ ~checks[k].deploy
    BY DEF StepsOf
  <2>. QED
    BY <2>1 DEF Inv, EssentialByHand, ByHand
<1>. QED
  BY <1>1, ActsAccountedFor, PTL
=============================================================================
