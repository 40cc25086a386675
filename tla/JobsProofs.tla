----------------------------- MODULE JobsProofs -----------------------------
(***************************************************************************)
(* Theorems about Jobs, for any jobs, terminals, lists and bounds.         *)
(*                                                                         *)
(* The argument has four layers.  What is known of one job (Sound): the    *)
(* references, the phase of its process, and how often each event is in    *)
(* its queue or under way on the stack, where calls follow each other as   *)
(* StackSound says.  Then which jobwait() the status pointer and the       *)
(* parent queue of a job belong to (LinkInv), when the user is careful.    *)
(* Then what the list of each jobwait() says of its jobs (TellsInv), and   *)
(* who is told that it was interrupted (SaysInv).                          *)
(***************************************************************************)
EXTENDS Jobs, SequenceLemmas, TLAPS

\* The number of a fact.
One(P) == IF P THEN 1 ELSE 0

Event == {"out", "close", "exit", "delayed"}
Status == {"-1", "-2", "-3", "status"}
Waiting == {"waiting", "stopping", "polling", "polled"}
Pcs == Waiting \union {"enter", "entering", "loop", "waited", "clear", "restore", "restoring", "return"}

CbFrame == [kind : {"cb"}, job : Job, what : {"out", "exit"}]
DrainFrame == [kind : {"drain"}, of : SUBSET Job, parent : Nat \union {NULL}]

\* How a jobwait() left its loop: the -2 of one that was interrupted may be lost.
Ways == {"no", "timeout", "interrupted", "lost"}
WaitFrame ==
  [kind : {"wait"}, w : Nat, ids : Seq(Job), timed : BOOLEAN, pc : Pcs, i : Nat \ {0},
   res : Seq(Status), broke : Ways]
AnyFrame == CbFrame \union DrainFrame \union WaitFrame

-----------------------------------------------------------------------------
(***************************************************************************)
(* The inductive invariant: the stack                                      *)
(***************************************************************************)

\* A jobwait() is named by its depth, and has as many results as it has
\* entered jobs.
WaitSound(f, k) ==
  /\ f.w = k /\ k <= MaxDepth
  /\ f.pc # "return" => f.i <= Len(f.ids)
  /\ Len(f.res) = CASE f.pc = "enter" -> f.i - 1 [] f.pc = "entering" -> f.i [] OTHER -> Len(f.ids)

\* The frame f at depth k of the stack.
FrameSound(f, k) ==
  /\ f.kind = "wait" => WaitSound(f, k)
  /\ f.kind = "drain" => k <= MaxDepth + 1 /\ (IF f.parent = NULL THEN \E j \in Job : f.of = {j} ELSE f.of = {})
  /\ f.kind = "cb" => k <= MaxDepth + 2

\* A frame f may have called g: a drain calls the callbacks of its events, a
\* jobwait() processes queues, those of one job where it enters or leaves it.
MayCall(f, g) ==
  /\ f.kind = "drain" => g.kind = "cb" /\ (f.parent = NULL => f.of = {g.job})
  /\ f.kind = "wait" => /\ g.kind = "drain"
                        /\ f.pc \in {"entering", "restoring"} => g = DrainJob(f.ids[f.i])

WaitsOf(s) == {k \in DOMAIN s : s[k].kind = "wait"}

StackSound(s) ==
  /\ s \in Seq(AnyFrame)
  /\ \A k \in 1 .. Len(s) : FrameSound(s[k], k)
  /\ \A k \in 1 .. Len(s) - 1 : MayCall(s[k], s[k + 1])
  /\ Cardinality(WaitsOf(s)) <= MaxWaits

-----------------------------------------------------------------------------
(***************************************************************************)
(* The inductive invariant: one job                                        *)
(***************************************************************************)
DataTypes ==
  /\ terminals \subseteq Job /\ jobs \subseteq Job
  /\ mem \in [Job -> {"none", "live", "freeing", "freed"}]
  /\ refcount \in [Job -> 0 .. 2]
  /\ stopped \in [Job -> BOOLEAN] /\ exited \in [Job -> BOOLEAN] /\ asked \in [Job -> BOOLEAN]
  /\ term \in [Job -> {"none", "open", "exited", "closing", "destroyed", "lost"}]
  /\ statusPtr \in [Job -> [w : Nat, i : Nat] \union {NULL}]
  /\ parent \in [Job -> 0 .. MaxDepth]
  /\ queue \in [Job -> Seq(Event)]
  /\ phase \in [Job -> Phases] /\ waiters \in [Job -> Nat] /\ outs \in [Job -> Nat]

\* The terminal has its reference.
Held(t) == t \in {"open", "exited", "closing", "lost"}

\* The calls of jobwait() that wait for the process of j.
WaitsFor(f, j) == f.kind = "wait" /\ f.pc \in Waiting /\ f.ids[f.i] = j
WaitsOn(j, s) == {k \in DOMAIN s : WaitsFor(s[k], j)}

\* The calls under way for j: callbacks of an output and of the exit, waits.
Outs(j, s) == Times(Callback(j, "out"), s)
Lasts(j, s) == Times(Callback(j, "exit"), s)
Waits(j, s) == Cardinality(WaitsOn(j, s))

\* What is known of a job by its data m, references r, phase p, terminal t,
\* references w of process_wait, whether it is in the map, and the numbers of
\* its requests, close events, delayed frees and exits queued or under way.
Sound(m, r, p, t, w, inMap, reqs, closes, delays, exits) ==
  /\ r = One(inMap) + One(Held(t))
  /\ m = "live" <=> r > 0
  /\ m = "none" => p = "none"
  /\ p = "none" => t = "none" /\ w = 0 /\ ~inMap
  /\ p \in {"running", "exited", "closing"} \/ w > 0 => inMap
  /\ p \in {"none", "gone"} => reqs = 0
  /\ closes = One(p = "exited")
  /\ delays = One(t = "closing")
  /\ exits = One(p = "gone" /\ w = 0 /\ inMap)

\* The job j, by the map js, its queue q and the stack s.
JobIs(j, m, r, p, t, w, js, q, s) ==
  /\ Sound(m, r, p, t, w, j \in js, Times("out", q) + Outs(j, s), Times("close", q),
           Times("delayed", q), Times("exit", q) + Lasts(j, s))
  /\ w = Waits(j, s)

JobSound(j) ==
  /\ JobIs(j, mem[j], refcount[j], phase[j], term[j], waiters[j], jobs, queue[j], stack)
  /\ Held(term[j]) => j \in terminals

\* What the innermost frame is about to use was not freed.
Uses(s, m) ==
  s # <<>> =>
    /\ Last(s).kind = "drain" => \A j \in Last(s).of : m[j] # "freed"
    /\ Last(s).kind = "wait" /\ Last(s).pc \in {"entering", "restoring"} =>
         m[Last(s).ids[Last(s).i]] # "freed"

DataInv == DataTypes /\ StackSound(stack) /\ Uses(stack, mem) /\ \A j \in Job : JobSound(j)

-----------------------------------------------------------------------------
(***************************************************************************)
(* Counting                                                                *)
(***************************************************************************)
LEMMA TimesIsNumber ==
  ASSUME NEW S, NEW s \in Seq(S), NEW x
  PROVE  /\ IsFiniteSet({i \in DOMAIN s : s[i] = x}) /\ Times(x, s) \in Nat
         /\ Times(x, s) = 0 <=> \A i \in DOMAIN s : s[i] # x
<1> DEFINE I == {i \in DOMAIN s : s[i] = x}
<1>1. Len(s) \in Nat /\ DOMAIN s = 1 .. Len(s) /\ IsFiniteSet(1 .. Len(s))
  BY FS_Interval
<1>2. IsFiniteSet(I)
  BY <1>1, FS_Subset
<1>3. Cardinality(I) \in Nat /\ (Cardinality(I) = 0 <=> I = {})
  BY <1>2, FS_CardinalityType, FS_EmptySet
<1>4. QED
  BY <1>2, <1>3 DEF Times

LEMMA TimesGrown ==
  ASSUME NEW S, NEW s \in Seq(S), NEW u \in Seq(S), NEW e, Grown(s, e, u), NEW x
  PROVE  Times(x, u) = Times(x, s) + One(e = x)
<1> DEFINE I == {i \in DOMAIN s : s[i] = x}
           J == {i \in DOMAIN u : u[i] = x}
           n == Len(s) + 1
<1>1. /\ Len(s) \in Nat /\ DOMAIN s = 1 .. Len(s) /\ DOMAIN u = 1 .. n
      /\ u[n] = e /\ \A i \in 1 .. Len(s) : u[i] = s[i]
  BY DEF Grown
<1>2. DOMAIN u = (DOMAIN s) \union {n} /\ n \notin DOMAIN s /\ \A i \in DOMAIN s : u[i] = s[i]
  BY <1>1
<1>3. IsFiniteSet(I) /\ Times(x, s) \in Nat /\ Times(x, s) = Cardinality(I)
  BY TimesIsNumber DEF Times
<1>4. u[n] = e
  BY <1>1
<1>5. Times(x, u) = Cardinality(J)
  BY DEF Times
<1> HIDE DEF n
<1>6. /\ e = x => J = I \union {n} /\ n \notin I
      /\ e # x => J = I
  BY <1>2, <1>4
<1> HIDE DEF I, J
<1>7. CASE e = x
  <2>1. Cardinality(J) = Cardinality(I) + 1
    BY <1>3, <1>6, <1>7, FS_AddElement
  <2>2. QED
    BY <1>3, <1>5, <1>7, <2>1 DEF One
<1>8. CASE e # x
  <2>1. Cardinality(J) = Cardinality(I) /\ One(e = x) = 0
    BY <1>6, <1>8 DEF One
  <2>2. QED
    BY <1>3, <1>5, <2>1
<1>9. QED
  BY <1>7, <1>8

LEMMA TimesTail ==
  ASSUME NEW S, NEW s \in Seq(S), s # <<>>, NEW x
  PROVE  Tail(s) \in Seq(S) /\ Times(x, s) = Times(x, Tail(s)) + One(Head(s) = x)
<1> DEFINE t == Tail(s)
           I == {i \in DOMAIN t : t[i] = x}
           J == {i \in DOMAIN s : s[i] = x /\ i # 1}
           K == {i \in DOMAIN s : s[i] = x}
           f == [i \in I |-> i + 1]
<1>1. /\ Len(s) \in Nat \ {0} /\ Head(s) = s[1] /\ DOMAIN s = 1 .. Len(s)
      /\ t \in Seq(S) /\ DOMAIN t = 1 .. Len(s) - 1
      /\ \A k \in 1 .. Len(s) - 1 : t[k] = s[k + 1]
  OBVIOUS
<1> HIDE DEF t
<1>0. t \in Seq(S)
  BY <1>1
<1>2. IsFiniteSet(I) /\ Times(x, t) \in Nat
  BY <1>0, TimesIsNumber, Zenon
<1>3. Times(x, t) = Cardinality(I) /\ Times(x, s) = Cardinality(K)
  BY DEF Times
<1>4. \A i \in I : i \in Nat /\ i + 1 \in J
  BY <1>1
<1>5. \A j \in J : j - 1 \in I /\ (j - 1) + 1 = j
  BY <1>1
<1>6. /\ s[1] = x => K = J \union {1} /\ 1 \notin J
      /\ s[1] # x => K = J
  BY <1>1
<1> HIDE DEF I, J, K
<1>7. f \in Bijection(I, J)
  <2>1. f \in [I -> J]
    BY <1>4
  <2>2. \A a, b \in I : f[a] = f[b] => a = b
    BY <1>4
  <2>3. \A j \in J : \E i \in I : f[i] = j
    BY <1>5
  <2> HIDE DEF f
  <2>4. QED
    BY <2>1, <2>2, <2>3 DEF Bijection, Injection, Surjection, IsInjective
<1> HIDE DEF f
<1>8. IsFiniteSet(J) /\ Cardinality(J) = Cardinality(I)
  BY <1>2, <1>7, FS_Bijection DEF ExistsBijection
<1>9. CASE s[1] = x
  <2>1. Cardinality(K) = Cardinality(J) + 1
    BY <1>6, <1>8, <1>9, FS_AddElement
  <2>2. QED
    BY <1>1, <1>2, <1>3, <1>8, <1>9, <2>1 DEF One, t
<1>10. CASE s[1] # x
  <2>1. Cardinality(K) = Cardinality(J) /\ One(Head(s) = x) = 0
    BY <1>1, <1>6, <1>10 DEF One
  <2>2. QED
    BY <1>1, <1>2, <1>3, <1>8, <2>1 DEF t
<1>11. QED
  BY <1>9, <1>10

LEMMA TimesEmpty ==
  ASSUME NEW x
  PROVE  Times(x, <<>>) = 0
<1>1. {i \in DOMAIN <<>> : <<>>[i] = x} = {}
  OBVIOUS
<1>2. QED
  BY <1>1, FS_EmptySet DEF Times


-----------------------------------------------------------------------------
(***************************************************************************)
(* The stack                                                               *)
(***************************************************************************)

LEMMA CallbackFacts ==
  ASSUME NEW j, NEW what
  PROVE  /\ Callback(j, what).kind = "cb" /\ Callback(j, what).job = j /\ Callback(j, what).what = what
         /\ \A k, other : Callback(j, what) = Callback(k, other) <=> j = k /\ what = other
         /\ j \in Job /\ what \in {"out", "exit"} => Callback(j, what) \in AnyFrame
<1>1. /\ Callback(j, what).kind = "cb" /\ Callback(j, what).job = j
      /\ Callback(j, what).what = what
  BY DEF Callback
<1>2. ASSUME NEW k, NEW other, Callback(j, what) = Callback(k, other) PROVE j = k /\ what = other
  <2>1. Callback(k, other).job = k /\ Callback(k, other).what = other
    BY DEF Callback
  <2>2. QED
    BY <1>1, <1>2, <2>1
<1>3. j \in Job /\ what \in {"out", "exit"} => Callback(j, what) \in AnyFrame
  BY DEF Callback, AnyFrame, CbFrame
<1>4. QED
  BY <1>1, <1>2, <1>3

LEMMA FrameKinds ==
  ASSUME NEW f \in AnyFrame
  PROVE  /\ f.kind \in {"cb", "drain", "wait"}
         /\ f.kind = "cb" => /\ f \in CbFrame /\ f.job \in Job /\ f.what \in {"out", "exit"}
                             /\ f = Callback(f.job, f.what)
         /\ f.kind = "drain" => f \in DrainFrame /\ f.of \in SUBSET Job /\ f.parent \in Nat \union {NULL}
         /\ f.kind = "wait" => f \in WaitFrame
BY DEF AnyFrame, CbFrame, DrainFrame, WaitFrame, Callback

LEMMA DrainFacts ==
  /\ \A j \in Job : /\ DrainJob(j) \in AnyFrame /\ DrainJob(j).kind = "drain"
                    /\ DrainJob(j).of = {j} /\ DrainJob(j).parent = NULL
  /\ \A w \in Nat : /\ DrainParent(w) \in AnyFrame /\ DrainParent(w).kind = "drain"
                    /\ DrainParent(w).of = {} /\ DrainParent(w).parent = w
BY DEF DrainJob, DrainParent, AnyFrame, DrainFrame

\* The positions of a stack that satisfy something, when it grows.
LEMMA CountGrown ==
  ASSUME NEW S, NEW s \in Seq(S), NEW u \in Seq(S), NEW e, Grown(s, e, u),
         NEW I \in SUBSET (DOMAIN s), NEW J \in SUBSET (DOMAIN u), NEW b \in BOOLEAN,
         J = IF b THEN I \union {Len(s) + 1} ELSE I
  PROVE  /\ IsFiniteSet(I) /\ IsFiniteSet(J) /\ Cardinality(I) \in Nat
         /\ Cardinality(J) = Cardinality(I) + One(b)
<1> DEFINE n == Len(s) + 1
<1>1. Len(s) \in Nat /\ DOMAIN s = 1 .. Len(s) /\ IsFiniteSet(1 .. Len(s))
  BY FS_Interval
<1>2. IsFiniteSet(I) /\ n \notin I /\ J = IF b THEN I \union {n} ELSE I
  BY <1>1, FS_Subset
<1> HIDE DEF n
<1>3. IsFiniteSet(J) /\ Cardinality(I) \in Nat
  BY <1>2, FS_AddElement, FS_CardinalityType
<1>4. CASE b
  BY <1>2, <1>3, <1>4, FS_AddElement DEF One
<1>5. CASE ~b
  BY <1>2, <1>3, <1>5 DEF One
<1>6. QED
  BY <1>2, <1>3, <1>4, <1>5

\* A frame more: what is counted.
LEMMA WaitsGrown ==
  ASSUME NEW s \in Seq(AnyFrame), NEW g \in AnyFrame, NEW u \in Seq(AnyFrame), Grown(s, g, u)
  PROVE  /\ Cardinality(WaitsOf(s)) \in Nat
         /\ Cardinality(WaitsOf(u)) = Cardinality(WaitsOf(s)) + One(g.kind = "wait")
<1> DEFINE n == Len(s) + 1
           b == g.kind = "wait"
<1>1. /\ Len(s) \in Nat /\ DOMAIN s = 1 .. Len(s) /\ DOMAIN u = 1 .. n
      /\ u[n] = g /\ \A i \in 1 .. Len(s) : u[i] = s[i]
  BY DEF Grown
<1>2. /\ DOMAIN u = (DOMAIN s) \union {n} /\ n \notin DOMAIN s /\ \A i \in DOMAIN s : u[i] = s[i]
      /\ u[n] = g
  BY <1>1
<1>3. /\ WaitsOf(s) \in SUBSET DOMAIN s /\ WaitsOf(u) \in SUBSET DOMAIN u
      /\ WaitsOf(u) = IF b THEN WaitsOf(s) \union {n} ELSE WaitsOf(s)
  <2> HIDE DEF n
  <2> QED BY <1>2 DEF WaitsOf
<1>4. b \in BOOLEAN
  OBVIOUS
<1> HIDE DEF b
<1>5. /\ Cardinality(WaitsOf(s)) \in Nat
      /\ Cardinality(WaitsOf(u)) = Cardinality(WaitsOf(s)) + One(b)
  BY <1>3, <1>4, CountGrown DEF One
<1>6. QED
  BY <1>5 DEF b

LEMMA CallsGrown ==
  ASSUME NEW s \in Seq(AnyFrame), NEW g \in AnyFrame, NEW u \in Seq(AnyFrame), Grown(s, g, u),
         NEW k \in Job
  PROVE  /\ Outs(k, s) \in Nat /\ Outs(k, u) = Outs(k, s) + One(g = Callback(k, "out"))
         /\ Lasts(k, s) \in Nat /\ Lasts(k, u) = Lasts(k, s) + One(g = Callback(k, "exit"))
         /\ Waits(k, s) \in Nat /\ Waits(k, u) = Waits(k, s) + One(WaitsFor(g, k))
<1> DEFINE n == Len(s) + 1
           b == WaitsFor(g, k)
<1>1. /\ Len(s) \in Nat /\ DOMAIN s = 1 .. Len(s) /\ DOMAIN u = 1 .. n
      /\ u[n] = g /\ \A i \in 1 .. Len(s) : u[i] = s[i]
  BY DEF Grown
<1>2. /\ DOMAIN u = (DOMAIN s) \union {n} /\ n \notin DOMAIN s /\ \A i \in DOMAIN s : u[i] = s[i]
      /\ u[n] = g
  BY <1>1
<1>3. Waits(k, s) \in Nat /\ Waits(k, u) = Waits(k, s) + One(b)
  <2>1. /\ WaitsOn(k, s) \in SUBSET DOMAIN s /\ WaitsOn(k, u) \in SUBSET DOMAIN u
        /\ WaitsOn(k, u) = IF b THEN WaitsOn(k, s) \union {n} ELSE WaitsOn(k, s)
    <3> HIDE DEF n
    <3> QED BY <1>2 DEF WaitsOn
  <2>2. b \in BOOLEAN
    BY DEF WaitsFor
  <2> HIDE DEF b
  <2>3. /\ Cardinality(WaitsOn(k, s)) \in Nat
        /\ Cardinality(WaitsOn(k, u)) = Cardinality(WaitsOn(k, s)) + One(b)
    BY <2>1, <2>2, CountGrown DEF One
  <2>4. QED
    BY <2>3 DEF Waits
<1>4. ASSUME NEW x PROVE Times(x, s) \in Nat
  BY TimesIsNumber
<1>5. ASSUME NEW x PROVE Times(x, u) = Times(x, s) + One(g = x)
  BY TimesGrown DEF One
<1>6. QED
  BY <1>3, <1>4, <1>5 DEF Outs, Lasts

\* The calls that are counted are the same.
SameCalls(s, u) ==
  \A k \in Job : Outs(k, u) = Outs(k, s) /\ Lasts(k, u) = Lasts(k, s) /\ Waits(k, u) = Waits(k, s)

\* A frame that is not counted.
Quiet(g) == g.kind # "cb" /\ (g.kind = "wait" => g.pc \notin Waiting)

LEMMA QuietFacts ==
  ASSUME NEW g, Quiet(g)
  PROVE  \A k : g # Callback(k, "out") /\ g # Callback(k, "exit") /\ ~WaitsFor(g, k)
BY CallbackFacts DEF Quiet, WaitsFor

LEMMA CallsSame ==
  ASSUME NEW s \in Seq(AnyFrame), NEW g \in AnyFrame, NEW u \in Seq(AnyFrame), Grown(s, g, u), Quiet(g)
  PROVE  SameCalls(s, u)
<1>1. ASSUME NEW k \in Job
      PROVE  Outs(k, u) = Outs(k, s) /\ Lasts(k, u) = Lasts(k, s) /\ Waits(k, u) = Waits(k, s)
  <2>1. /\ Outs(k, s) \in Nat /\ Outs(k, u) = Outs(k, s) + One(g = Callback(k, "out"))
        /\ Lasts(k, s) \in Nat /\ Lasts(k, u) = Lasts(k, s) + One(g = Callback(k, "exit"))
        /\ Waits(k, s) \in Nat /\ Waits(k, u) = Waits(k, s) + One(WaitsFor(g, k))
    BY CallsGrown
  <2>2. One(g = Callback(k, "out")) = 0 /\ One(g = Callback(k, "exit")) = 0 /\ One(WaitsFor(g, k)) = 0
    BY QuietFacts DEF One
  <2>3. QED
    BY <2>1, <2>2
<1>2. QED
  BY <1>1 DEF SameCalls

-----------------------------------------------------------------------------
\* The stack with a call more, and with the innermost call changed.
Pushed(s, g) == Append(s, g)
Became(s, g) == Append(Front(s), g)

LEMMA StackPush ==
  ASSUME NEW s, StackSound(s), NEW g \in AnyFrame, FrameSound(g, Len(s) + 1),
         s # <<>> => MayCall(Last(s), g),
         g.kind = "wait" => Cardinality(WaitsOf(s)) < MaxWaits
  PROVE  StackSound(Pushed(s, g)) /\ Grown(s, g, Pushed(s, g)) /\ Last(Pushed(s, g)) = g
<1> DEFINE u == Pushed(s, g)
           n == Len(s) + 1
<1>1. s \in Seq(AnyFrame) /\ Cardinality(WaitsOf(s)) <= MaxWaits
  BY DEF StackSound
<1>2. u \in Seq(AnyFrame) /\ Grown(s, g, u) /\ Len(s) \in Nat
  BY <1>1, AppendGrows DEF Pushed
<1>3. Len(u) = n /\ u[n] = g /\ \A i \in 1 .. Len(s) : u[i] = s[i]
  BY <1>2 DEF Grown
<1> HIDE DEF u
<1>4. \A k \in 1 .. Len(u) : FrameSound(u[k], k)
  <2>1. \A k \in 1 .. Len(s) : FrameSound(u[k], k)
    BY <1>3 DEF StackSound
  <2>2. FrameSound(u[n], n)
    BY <1>3
  <2>3. QED
    BY <1>2, <1>3, <2>1, <2>2
<1>5. \A k \in 1 .. Len(u) - 1 : MayCall(u[k], u[k + 1])
  <2>1. ASSUME NEW k \in 1 .. Len(s) - 1 PROVE MayCall(u[k], u[k + 1])
    <3>1. k \in 1 .. Len(s) /\ k + 1 \in 1 .. Len(s)
      BY <1>2
    <3>2. u[k] = s[k] /\ u[k + 1] = s[k + 1]
      BY <1>3, <3>1
    <3>3. QED
      BY <3>2 DEF StackSound
  <2>2. ASSUME Len(s) > 0 PROVE MayCall(u[Len(s)], u[Len(s) + 1])
    <3>1. s # <<>> /\ Len(s) \in 1 .. Len(s)
      BY <1>1, <1>2, <2>2
    <3>2. u[Len(s)] = Last(s)
      BY <1>1, <1>3, <3>1, PopFacts
    <3>3. QED
      BY <1>3, <3>1, <3>2
  <2>3. ASSUME NEW k \in 1 .. Len(u) - 1 PROVE k \in 1 .. Len(s) - 1 \/ (k = Len(s) /\ Len(s) > 0)
    BY <1>2, <1>3
  <2>4. QED
    BY <2>1, <2>2, <2>3
<1>6. Cardinality(WaitsOf(u)) <= MaxWaits
  <2>1. /\ Cardinality(WaitsOf(s)) \in Nat
        /\ Cardinality(WaitsOf(u)) = Cardinality(WaitsOf(s)) + One(g.kind = "wait")
    BY <1>1, <1>2, WaitsGrown
  <2>2. MaxWaits \in Nat
    BY JobsAssumption
  <2>3. QED
    BY <1>1, <2>1, <2>2 DEF One
<1>7. Last(u) = g
  <2>1. u # <<>>
    BY <1>2, <1>3
  <2>2. QED
    BY <1>2, <1>3, <2>1, PopFacts
<1>8. QED
  BY <1>2, <1>4, <1>5, <1>6, <1>7 DEF StackSound, u

\* The innermost call returns.
LEMMA StackPop ==
  ASSUME NEW s, StackSound(s), s # <<>>
  PROVE  /\ StackSound(Front(s)) /\ Grown(Front(s), Last(s), s)
         /\ Len(s) \in Nat \ {0} /\ Len(Front(s)) = Len(s) - 1
         /\ s \in Seq(AnyFrame) /\ Last(s) \in AnyFrame /\ FrameSound(Last(s), Len(s))
         /\ Front(s) # <<>> => MayCall(Last(Front(s)), Last(s))
<1> DEFINE u == Front(s)
           n == Len(s) - 1
<1>1. s \in Seq(AnyFrame) /\ Cardinality(WaitsOf(s)) <= MaxWaits
  BY DEF StackSound
<1>2. /\ Len(s) \in Nat \ {0} /\ Last(s) = s[Len(s)] /\ Last(s) \in AnyFrame
      /\ u \in Seq(AnyFrame) /\ Len(u) = n /\ \A i \in 1 .. n : u[i] = s[i]
      /\ Grown(u, Last(s), s)
  BY <1>1, PopFacts, FrontGrows
<1> HIDE DEF u
<1>3. \A k \in 1 .. Len(u) : FrameSound(u[k], k)
  BY <1>2 DEF StackSound
<1>4. \A k \in 1 .. Len(u) - 1 : MayCall(u[k], u[k + 1])
  <2>1. ASSUME NEW k \in 1 .. n - 1 PROVE MayCall(u[k], u[k + 1])
    <3>1. k \in 1 .. n /\ k + 1 \in 1 .. n /\ k \in 1 .. Len(s) - 1
      BY <1>2
    <3>2. u[k] = s[k] /\ u[k + 1] = s[k + 1]
      BY <1>2, <3>1
    <3>3. QED
      BY <3>1, <3>2 DEF StackSound
  <2>2. QED
    BY <1>2, <2>1
<1>5. Cardinality(WaitsOf(u)) <= MaxWaits
  <2>1. /\ Cardinality(WaitsOf(u)) \in Nat
        /\ Cardinality(WaitsOf(s)) = Cardinality(WaitsOf(u)) + One(Last(s).kind = "wait")
    BY <1>1, <1>2, WaitsGrown
  <2>2. MaxWaits \in Nat
    BY JobsAssumption
  <2>3. QED
    BY <1>1, <2>1, <2>2 DEF One
<1>6. FrameSound(Last(s), Len(s))
  BY <1>2 DEF StackSound
<1>7. u # <<>> => MayCall(Last(u), Last(s))
  <2> SUFFICES ASSUME u # <<>> PROVE MayCall(Last(u), Last(s))
    OBVIOUS
  <2>1. Len(u) \in Nat \ {0} /\ Last(u) = u[Len(u)]
    BY <1>2, PopFacts
  <2>2. n \in 1 .. n /\ n + 1 = Len(s) /\ n \in 1 .. Len(s) - 1
    BY <1>2, <2>1
  <2>3. Last(u) = s[n] /\ Last(s) = s[n + 1]
    BY <1>2, <2>1, <2>2
  <2>4. QED
    BY <2>2, <2>3 DEF StackSound
<1>8. QED
  BY <1>1, <1>2, <1>3, <1>4, <1>5, <1>6, <1>7 DEF StackSound, u

\* jobwait() is called by callbacks, or at the top level.
LEMMA StackBecomes ==
  ASSUME NEW s, StackSound(s), s # <<>>, Last(s).kind = "wait",
         NEW g \in WaitFrame, WaitSound(g, Len(s)), NEW u, u = Became(s, g)
  PROVE  /\ StackSound(u) /\ Grown(Front(s), g, u) /\ Last(u) = g /\ Len(u) = Len(s)
         /\ \A k \in Job :
              /\ Outs(k, u) = Outs(k, s) /\ Lasts(k, u) = Lasts(k, s)
              /\ Waits(k, s) \in Nat /\ Waits(k, u) \in Nat
              /\ Waits(k, u) = Waits(k, s) - One(WaitsFor(Last(s), k)) + One(WaitsFor(g, k))
<1> DEFINE c == Front(s)
           l == Last(s)
<1>1. /\ StackSound(c) /\ Grown(c, l, s) /\ Len(s) \in Nat \ {0} /\ Len(c) = Len(s) - 1
      /\ s \in Seq(AnyFrame) /\ l \in AnyFrame /\ (c # <<>> => MayCall(Last(c), l))
      /\ Len(c) + 1 = Len(s)
  BY StackPop
<1>2. g \in AnyFrame /\ g.kind = "wait"
  BY DEF AnyFrame, WaitFrame
<1>3. FrameSound(g, Len(s))
  BY <1>2 DEF FrameSound
<1>4. c # <<>> => MayCall(Last(c), g)
  BY <1>1, <1>2 DEF MayCall
<1>5. Cardinality(WaitsOf(c)) < MaxWaits
  <2>1. /\ Cardinality(WaitsOf(c)) \in Nat
        /\ Cardinality(WaitsOf(s)) = Cardinality(WaitsOf(c)) + One(l.kind = "wait")
    BY <1>1, WaitsGrown DEF StackSound
  <2>2. Cardinality(WaitsOf(s)) <= MaxWaits /\ MaxWaits \in Nat /\ One(l.kind = "wait") = 1
    BY JobsAssumption DEF StackSound, One
  <2>3. QED
    BY <2>1, <2>2
<1>6. StackSound(u) /\ Grown(c, g, u) /\ Last(u) = g
  BY <1>1, <1>2, <1>3, <1>4, <1>5, StackPush DEF Became, Pushed
<1>7. ASSUME NEW k \in Job
      PROVE  /\ Outs(k, u) = Outs(k, s) /\ Lasts(k, u) = Lasts(k, s)
             /\ Waits(k, s) \in Nat /\ Waits(k, u) \in Nat
             /\ Waits(k, u) = Waits(k, s) - One(WaitsFor(l, k)) + One(WaitsFor(g, k))
  <2>1. /\ Outs(k, c) \in Nat /\ Outs(k, s) = Outs(k, c) + One(l = Callback(k, "out"))
        /\ Lasts(k, c) \in Nat /\ Lasts(k, s) = Lasts(k, c) + One(l = Callback(k, "exit"))
        /\ Waits(k, c) \in Nat /\ Waits(k, s) = Waits(k, c) + One(WaitsFor(l, k))
    BY <1>1, CallsGrown DEF StackSound
  <2>2. /\ Outs(k, c) \in Nat /\ Outs(k, u) = Outs(k, c) + One(g = Callback(k, "out"))
        /\ Lasts(k, c) \in Nat /\ Lasts(k, u) = Lasts(k, c) + One(g = Callback(k, "exit"))
        /\ Waits(k, c) \in Nat /\ Waits(k, u) = Waits(k, c) + One(WaitsFor(g, k))
    <3>1. c \in Seq(AnyFrame) /\ u \in Seq(AnyFrame) /\ Grown(c, g, u) /\ g \in AnyFrame
      BY <1>1, <1>2, <1>6 DEF StackSound
    <3> HIDE DEF c
    <3>2. QED
      BY <3>1, CallsGrown
  <2>3. l # Callback(k, "out") /\ l # Callback(k, "exit") /\ g # Callback(k, "out") /\ g # Callback(k, "exit")
    BY <1>2, CallbackFacts
  <2>4. One(WaitsFor(l, k)) \in Nat /\ One(WaitsFor(g, k)) \in Nat
    BY DEF One
  <2>5. QED
    BY <2>1, <2>2, <2>3, <2>4 DEF One
<1>8. Len(u) = Len(s)
  BY <1>1, <1>6 DEF Grown
<1>9. QED
  BY <1>6, <1>7, <1>8

\* A jobwait() that processes a queue.
LEMMA StackCalls ==
  ASSUME NEW s, StackSound(s), s # <<>>, Last(s).kind = "wait",
         NEW f \in WaitFrame, WaitSound(f, Len(s)),
         NEW g \in AnyFrame, FrameSound(g, Len(s) + 1), MayCall(f, g),
         NEW u, u = Pushed(Became(s, f), g)
  PROVE  /\ StackSound(u) /\ Last(u) = g /\ u # <<>>
         /\ \A k \in Job :
              /\ Outs(k, u) = Outs(k, s) /\ Lasts(k, u) = Lasts(k, s)
              /\ Waits(k, s) \in Nat /\ Waits(k, u) \in Nat
              /\ Waits(k, u) = Waits(k, s) - One(WaitsFor(Last(s), k)) + One(WaitsFor(f, k))
<1> DEFINE v == Became(s, f)
<1>1. /\ StackSound(v) /\ Last(v) = f /\ Len(v) = Len(s)
      /\ \A k \in Job :
              /\ Outs(k, v) = Outs(k, s) /\ Lasts(k, v) = Lasts(k, s)
              /\ Waits(k, s) \in Nat /\ Waits(k, v) \in Nat
              /\ Waits(k, v) = Waits(k, s) - One(WaitsFor(Last(s), k)) + One(WaitsFor(f, k))
  BY StackBecomes
<1> HIDE DEF v
<1>2. g.kind = "drain"
  BY DEF MayCall, WaitFrame
<1>3. StackSound(u) /\ Grown(v, g, u) /\ Last(u) = g
  BY <1>1, <1>2, StackPush DEF v
<1>4. SameCalls(v, u)
  <2>1. Quiet(g)
    BY <1>2 DEF Quiet
  <2>2. QED
    BY <1>1, <1>3, <2>1, CallsSame DEF StackSound
<1>5. u # <<>>
  BY <1>1, <1>3 DEF Grown, StackSound
<1>6. QED
  BY <1>1, <1>3, <1>4, <1>5 DEF SameCalls

-----------------------------------------------------------------------------
(***************************************************************************)
(* One job                                                                 *)
(***************************************************************************)
LEMMA CallTypes ==
  ASSUME NEW s \in Seq(AnyFrame), NEW k \in Job
  PROVE  Outs(k, s) \in Nat /\ Lasts(k, s) \in Nat /\ Waits(k, s) \in Nat
<1>1. Outs(k, s) \in Nat /\ Lasts(k, s) \in Nat
  BY TimesIsNumber DEF Outs, Lasts
<1>2. IsFiniteSet(DOMAIN s)
  BY FS_Interval
<1>3. WaitsOn(k, s) \subseteq DOMAIN s
  BY DEF WaitsOn
<1>4. Waits(k, s) \in Nat
  BY <1>2, <1>3, FS_Subset, FS_CardinalityType DEF Waits
<1>5. QED
  BY <1>1, <1>4

\* A frame for another: neither what it says of jobs nor its list's length.
Alike(f, g) ==
  /\ g \in AnyFrame /\ g.kind = f.kind
  /\ f.kind # "wait" => g = f
  /\ f.kind = "wait" => /\ g.w = f.w /\ g.ids = f.ids /\ g.pc = f.pc /\ g.i = f.i
                        /\ Len(g.res) = Len(f.res)

LEMMA StackAlike ==
  ASSUME NEW s, StackSound(s), NEW u \in Seq(AnyFrame), Len(u) = Len(s),
         \A k \in 1 .. Len(s) : Alike(s[k], u[k])
  PROVE  StackSound(u) /\ SameCalls(s, u)
<1>1. s \in Seq(AnyFrame) /\ Len(s) \in Nat /\ DOMAIN s = 1 .. Len(s) /\ DOMAIN u = 1 .. Len(s)
  BY DEF StackSound
<1>2. \A k \in 1 .. Len(u) : FrameSound(u[k], k)
  <2>1. ASSUME NEW k \in 1 .. Len(s) PROVE FrameSound(u[k], k)
    <3>1. FrameSound(s[k], k) /\ Alike(s[k], u[k])
      BY DEF StackSound
    <3>2. QED
      BY <3>1 DEF Alike, FrameSound, WaitSound
  <2>2. QED
    BY <1>1, <2>1
<1>3. \A k \in 1 .. Len(u) - 1 : MayCall(u[k], u[k + 1])
  <2>1. ASSUME NEW k \in 1 .. Len(s) - 1 PROVE MayCall(u[k], u[k + 1])
    <3>1. k \in 1 .. Len(s) /\ k + 1 \in 1 .. Len(s)
      BY <1>1
    <3>2. MayCall(s[k], s[k + 1]) /\ Alike(s[k], u[k]) /\ Alike(s[k + 1], u[k + 1])
      BY <3>1 DEF StackSound
    <3>3. QED
      BY <3>2 DEF Alike, MayCall
  <2>2. QED
    BY <2>1
<1>4. WaitsOf(u) = WaitsOf(s)
  BY <1>1 DEF WaitsOf, Alike
<1>5. ASSUME NEW k \in Job PROVE WaitsOn(k, u) = WaitsOn(k, s)
  BY <1>1 DEF WaitsOn, WaitsFor, Alike
<1>6. ASSUME NEW x, x.kind = "cb" PROVE Times(x, u) = Times(x, s)
  <2>1. {i \in DOMAIN u : u[i] = x} = {i \in DOMAIN s : s[i] = x}
    BY <1>1, <1>6 DEF Alike
  <2>2. QED
    BY <2>1 DEF Times
<1>7. SameCalls(s, u)
  BY <1>5, <1>6, CallbackFacts DEF SameCalls, Outs, Lasts, Waits
<1>8. QED
  BY <1>2, <1>3, <1>4, <1>7 DEF StackSound

LEMMA WithStatusAlike ==
  ASSUME DataTypes, NEW s, StackSound(s), NEW j \in Job, NEW value \in Status,
         NEW u, u = WithStatus(j, value, s)
  PROVE  /\ StackSound(u) /\ SameCalls(s, u) /\ Len(u) = Len(s)
         /\ \A k \in 1 .. Len(s) : Alike(s[k], u[k])
<1>1. /\ s \in Seq(AnyFrame) /\ Len(s) \in Nat /\ DOMAIN s = 1 .. Len(s)
      /\ \A k \in 1 .. Len(s) : s[k] \in AnyFrame
  BY DEF StackSound
<1>2. DOMAIN u = 1 .. Len(s)
  BY DEF WithStatus
<1>3. ASSUME NEW k \in 1 .. Len(s) PROVE Alike(s[k], u[k])
  <2> DEFINE f == s[k]
             i == statusPtr[j].i
  <2>1. \/ u[k] = f
        \/ f.kind = "wait" /\ u[k] = [f EXCEPT !.res[i] = value]
    BY DEF WithStatus
  <2>2. CASE u[k] = f
    BY <1>1, <2>2 DEF Alike
  <2>3. CASE f.kind = "wait" /\ u[k] = [f EXCEPT !.res[i] = value]
    <3>1. f \in WaitFrame
      BY <1>1, <2>3, FrameKinds
    <3> DEFINE r == [f.res EXCEPT ![i] = value]
    <3>2. r \in Seq(Status) /\ Len(r) = Len(f.res)
      <4>1. f.res \in Seq(Status)
        BY <3>1 DEF WaitFrame
      <4> DEFINE v == f.res
                 n == Len(v)
      <4>2. n \in Nat /\ v \in [1 .. n -> Status]
        BY <4>1
      <4> HIDE DEF v, n, i
      <4>3. [v EXCEPT ![i] = value] \in [1 .. n -> Status]
        BY <4>2
      <4>4. \A t \in [1 .. n -> Status] : t \in Seq(Status) /\ Len(t) = n
        BY <4>2
      <4>5. QED
        BY <4>3, <4>4 DEF v, n, i
    <3>3. u[k] = [f EXCEPT !.res = r]
      BY <2>3, <3>1 DEF WaitFrame
    <3> HIDE DEF r, f
    <3>4. QED
      BY <2>3, <3>1, <3>2, <3>3 DEF Alike, AnyFrame, WaitFrame, f
  <2>4. QED
    BY <2>1, <2>2, <2>3
<1>4. u \in Seq(AnyFrame) /\ Len(u) = Len(s)
  <2>1. \A k \in 1 .. Len(s) : u[k] \in AnyFrame
    BY <1>3 DEF Alike
  <2>2. u = [k \in 1 .. Len(s) |-> u[k]]
    BY DEF WithStatus
  <2>3. QED
    BY <1>1, <2>1, <2>2
<1>5. QED
  BY <1>3, <1>4, StackAlike

\* The numbers of a queue.
LEMMA QueuePut ==
  ASSUME DataTypes, NEW j \in Job, NEW e \in Event, Put(j, e)
  PROVE  /\ queue' \in [Job -> Seq(Event)]
         /\ \A k \in Job : k # j => queue'[k] = queue[k]
         /\ \A x : /\ Times(x, queue[j]) \in Nat
                   /\ Times(x, queue'[j]) = Times(x, queue[j]) + (IF e = x THEN 1 ELSE 0)
<1>1. queue[j] \in Seq(Event) /\ queue'[j] = Append(queue[j], e)
  BY DEF DataTypes, Put
<1>2. queue'[j] \in Seq(Event) /\ Grown(queue[j], e, queue'[j])
  BY <1>1, AppendGrows
<1>3. ASSUME NEW x
      PROVE  /\ Times(x, queue[j]) \in Nat
             /\ Times(x, queue'[j]) = Times(x, queue[j]) + (IF e = x THEN 1 ELSE 0)
  <2> DEFINE q == queue[j]
             r == queue'[j]
  <2>1. q \in Seq(Event) /\ r \in Seq(Event) /\ Grown(q, e, r)
    BY <1>1, <1>2
  <2> HIDE DEF q, r
  <2>2. Times(x, q) \in Nat
    BY <2>1, TimesIsNumber
  <2>3. Times(x, r) = Times(x, q) + (IF e = x THEN 1 ELSE 0)
    BY <2>1, TimesGrown DEF One
  <2>4. QED
    BY <2>2, <2>3 DEF q, r
<1>4. queue' \in [Job -> Seq(Event)] /\ \A k \in Job : k # j => queue'[k] = queue[k]
  BY <1>2 DEF DataTypes, Put
<1>5. QED
  BY <1>3, <1>4

LEMMA QueueTook ==
  ASSUME DataTypes, NEW j \in Job, NEW e, queue[j] # <<>>, Head(queue[j]) = e,
         queue' = [queue EXCEPT ![j] = Tail(@)]
  PROVE  /\ queue' \in [Job -> Seq(Event)]
         /\ \A k \in Job : k # j => queue'[k] = queue[k]
         /\ \A x : /\ Times(x, queue'[j]) \in Nat
                   /\ Times(x, queue[j]) = Times(x, queue'[j]) + (IF e = x THEN 1 ELSE 0)
<1>1. queue[j] \in Seq(Event) /\ queue'[j] = Tail(queue[j])
  BY DEF DataTypes
<1>2. Tail(queue[j]) \in Seq(Event)
  BY <1>1
<1>3. ASSUME NEW x
      PROVE  /\ Times(x, queue'[j]) \in Nat
             /\ Times(x, queue[j]) = Times(x, queue'[j]) + (IF e = x THEN 1 ELSE 0)
  <2>1. Times(x, queue'[j]) \in Nat
    BY <1>1, <1>2, TimesIsNumber
  <2>2. Times(x, queue[j]) = Times(x, Tail(queue[j])) + One(Head(queue[j]) = x)
    BY <1>1, TimesTail
  <2>3. QED
    BY <1>1, <2>1, <2>2 DEF One
<1>4. queue' \in [Job -> Seq(Event)] /\ \A k \in Job : k # j => queue'[k] = queue[k]
  BY <1>1, <1>2 DEF DataTypes
<1>5. QED
  BY <1>3, <1>4

\* A job of which nothing changes that is counted.
LEMMA JobKept ==
  ASSUME NEW k \in Job, JobSound(k), DataTypes,
         mem'[k] = "live" <=> mem[k] = "live", mem'[k] = "none" <=> mem[k] = "none",
         refcount'[k] = refcount[k], phase'[k] = phase[k], term'[k] = term[k],
         waiters'[k] = waiters[k], k \in jobs' <=> k \in jobs, queue'[k] = queue[k],
         Outs(k, stack') = Outs(k, stack), Lasts(k, stack') = Lasts(k, stack),
         Waits(k, stack') = Waits(k, stack), terminals' = terminals
  PROVE  JobSound(k)'
BY DEF JobSound, JobIs, Sound

\* A step that changes the stack, and nothing that is counted.
LEMMA JobsKept ==
  ASSUME DataInv, UNCHANGED <<terminals, jobs, refcount, term, queue, phase, waiters>>,
         \A k \in Job : (mem'[k] = "live" <=> mem[k] = "live") /\ (mem'[k] = "none" <=> mem[k] = "none"),
         SameCalls(stack, stack')
  PROVE  \A k \in Job : JobSound(k)'
BY JobKept DEF DataInv, SameCalls

LEMMA FastFacts ==
  ASSUME DataTypes, FastEvents
  PROVE  /\ mem' \in [Job -> {"none", "live", "freeing", "freed"}]
         /\ \A k \in Job : (mem'[k] = "live" <=> mem[k] = "live") /\ (mem'[k] = "none" <=> mem[k] = "none")
BY DEF DataTypes, FastEvents

\* Who has something queued, or under way, is live.
LEMMA SoundLive ==
  ASSUME NEW m, NEW r, NEW p \in Phases, NEW t, NEW w \in Nat, NEW inMap \in BOOLEAN,
         NEW reqs \in Nat, NEW closes \in Nat, NEW delays \in Nat, NEW exits \in Nat,
         Sound(m, r, p, t, w, inMap, reqs, closes, delays, exits),
         reqs # 0 \/ closes # 0 \/ delays # 0 \/ exits # 0 \/ w # 0
  PROVE  m = "live"
<1>1. inMap \/ Held(t)
  BY DEF Sound, One, Held, Phases
<1>2. r > 0
  BY <1>1 DEF Sound, One
<1>3. QED
  BY <1>2 DEF Sound

LEMMA JobLive ==
  ASSUME DataInv, NEW j \in Job,
         \/ \E e \in Event : Times(e, queue[j]) # 0
         \/ Outs(j, stack) # 0 \/ Lasts(j, stack) # 0 \/ Waits(j, stack) # 0
  PROVE  mem[j] = "live"
<1> DEFINE q(e) == Times(e, queue[j])
           o == Outs(j, stack)
           l == Lasts(j, stack)
           w == Waits(j, stack)
           inMap == j \in jobs
<1>1. /\ stack \in Seq(AnyFrame) /\ queue[j] \in Seq(Event) /\ JobSound(j)
      /\ phase[j] \in Phases /\ inMap \in BOOLEAN
  BY DEF DataInv, StackSound, DataTypes
<1>2. q("out") \in Nat /\ q("close") \in Nat /\ q("delayed") \in Nat /\ q("exit") \in Nat
  BY <1>1, TimesIsNumber
<1>3. o \in Nat /\ l \in Nat /\ w \in Nat
  BY <1>1, CallTypes
<1>4. /\ Sound(mem[j], refcount[j], phase[j], term[j], w, inMap, q("out") + o, q("close"),
               q("delayed"), q("exit") + l)
  BY <1>1 DEF JobSound, JobIs
<1>5. q("out") # 0 \/ q("close") # 0 \/ q("delayed") # 0 \/ q("exit") # 0 \/ o # 0 \/ l # 0 \/ w # 0
  BY DEF Event
<1> HIDE DEF q, o, l, w, inMap
<1>6. q("out") + o \in Nat /\ q("exit") + l \in Nat
  BY <1>2, <1>3
<1>7. q("out") + o # 0 \/ q("close") # 0 \/ q("delayed") # 0 \/ q("exit") + l # 0 \/ w # 0
  BY <1>2, <1>3, <1>5
<1>8. QED
  BY <1>1, <1>2, <1>3, <1>4, <1>6, <1>7, SoundLive

-----------------------------------------------------------------------------
(***************************************************************************)
(* The steps of the process and of the user                                *)
(***************************************************************************)

\* Where the loop is polled, or the user's Vimscript runs, nothing is in use.
LEMMA NothingInUse ==
  ASSUME Polling \/ UserTurn, stack' = stack
  PROVE  Uses(stack', mem')
BY DEF Polling, UserTurn, TopIs, Top, Uses

\* Times a kind of event is in a queue.
LEMMA EventCounts ==
  ASSUME DataTypes, NEW j \in Job
  PROVE  /\ queue[j] \in Seq(Event)
         /\ \A x : Times(x, queue[j]) \in Nat
         /\ queue[j] # <<>> => Times(Head(queue[j]), queue[j]) > 0
<1> DEFINE q == queue[j]
<1>1. q \in Seq(Event)
  BY DEF DataTypes
<1> HIDE DEF q
<1>2. ASSUME NEW x PROVE Times(x, q) \in Nat
  BY <1>1, TimesIsNumber
<1>3. ASSUME q # <<>> PROVE Times(Head(q), q) > 0
  <2>1. 1 \in DOMAIN q /\ Head(q) = q[1]
    BY <1>1, <1>3
  <2>2. Times(Head(q), q) # 0
    BY <1>1, <2>1, TimesIsNumber
  <2>3. QED
    BY <1>2, <2>2
<1>4. QED
  BY <1>1, <1>2, <1>3 DEF q

LEMMA OutputInv ==
  ASSUME DataInv, NEW j \in Job, Output(j)
  PROVE  DataInv'
<1>1. DataTypes /\ StackSound(stack) /\ \A k \in Job : JobSound(k)
  BY DEF DataInv
<1>2. /\ queue' \in [Job -> Seq(Event)] /\ (\A k \in Job : k # j => queue'[k] = queue[k])
      /\ \A x : /\ Times(x, queue[j]) \in Nat
                /\ Times(x, queue'[j]) = Times(x, queue[j]) + (IF "out" = x THEN 1 ELSE 0)
  BY <1>1, QueuePut DEF Output, Event
<1>3. /\ mem' \in [Job -> {"none", "live", "freeing", "freed"}]
      /\ \A k \in Job : (mem'[k] = "live" <=> mem[k] = "live") /\ (mem'[k] = "none" <=> mem[k] = "none")
  BY <1>1, FastFacts DEF Output
<1>4. DataTypes'
  <2>1. outs' \in [Job -> Nat]
    BY <1>1 DEF DataTypes, Output
  <2>2. QED
    BY <1>1, <1>2, <1>3, <2>1 DEF DataTypes, Output
<1>5. JobSound(j)'
  <2>1. JobSound(j) /\ Outs(j, stack) \in Nat /\ Lasts(j, stack) \in Nat
    BY <1>1, CallTypes DEF StackSound
  <2>2. /\ \A x : Times(x, queue[j]) \in Nat
        /\ Times("out", queue'[j]) = Times("out", queue[j]) + 1
        /\ Times("close", queue'[j]) = Times("close", queue[j])
        /\ Times("delayed", queue'[j]) = Times("delayed", queue[j])
        /\ Times("exit", queue'[j]) = Times("exit", queue[j])
    <3>1. ASSUME NEW x, x # "out"
          PROVE  Times(x, queue[j]) \in Nat /\ Times(x, queue'[j]) = Times(x, queue[j])
      BY <1>2, <3>1
    <3>2. Times("out", queue'[j]) = Times("out", queue[j]) + 1
      BY <1>2
    <3>3. \A x : Times(x, queue[j]) \in Nat
      BY <1>2
    <3>4. QED
      BY <3>1, <3>2, <3>3
  <2>3. phase[j] \in {"running", "exited"}
        /\ UNCHANGED <<terminals, jobs, refcount, term, phase, waiters, stack>>
    BY DEF Output
  <2>4. QED
    BY <1>3, <2>1, <2>2, <2>3 DEF JobSound, JobIs, Sound
<1>6. \A k \in Job : k # j => JobSound(k)'
  BY <1>1, <1>2, <1>3, JobKept DEF Output
<1>7. StackSound(stack') /\ Uses(stack', mem')
  BY <1>1, NothingInUse DEF Output
<1>8. QED
  BY <1>4, <1>5, <1>6, <1>7 DEF DataInv

LEMMA ExitInv ==
  ASSUME DataInv, NEW j \in Job, Exit(j)
  PROVE  DataInv'
<1>1. DataTypes /\ StackSound(stack) /\ \A k \in Job : JobSound(k)
  BY DEF DataInv
<1>2. /\ queue' \in [Job -> Seq(Event)] /\ (\A k \in Job : k # j => queue'[k] = queue[k])
      /\ \A x : /\ Times(x, queue[j]) \in Nat
                /\ Times(x, queue'[j]) = Times(x, queue[j]) + (IF "close" = x THEN 1 ELSE 0)
  BY <1>1, QueuePut DEF Exit, Event
<1>3. /\ mem' \in [Job -> {"none", "live", "freeing", "freed"}]
      /\ \A k \in Job : (mem'[k] = "live" <=> mem[k] = "live") /\ (mem'[k] = "none" <=> mem[k] = "none")
  BY <1>1, FastFacts DEF Exit
<1>4. DataTypes'
  <2>1. phase' \in [Job -> Phases]
    BY <1>1 DEF DataTypes, Exit, Phases
  <2>2. QED
    BY <1>1, <1>2, <1>3, <2>1 DEF DataTypes, Exit
<1>5. JobSound(j)'
  <2>1. JobSound(j) /\ Outs(j, stack) \in Nat /\ Lasts(j, stack) \in Nat
    BY <1>1, CallTypes DEF StackSound
  <2>2. phase[j] = "running" /\ phase'[j] = "exited"
    BY <1>1 DEF Exit, DataTypes
  <2>3. /\ \A x : Times(x, queue[j]) \in Nat
        /\ Times("close", queue'[j]) = Times("close", queue[j]) + 1
        /\ Times("out", queue'[j]) = Times("out", queue[j])
        /\ Times("delayed", queue'[j]) = Times("delayed", queue[j])
        /\ Times("exit", queue'[j]) = Times("exit", queue[j])
    <3>1. ASSUME NEW x, x # "close"
          PROVE  Times(x, queue[j]) \in Nat /\ Times(x, queue'[j]) = Times(x, queue[j])
      BY <1>2, <3>1
    <3>2. Times("close", queue'[j]) = Times("close", queue[j]) + 1
      BY <1>2
    <3>3. \A x : Times(x, queue[j]) \in Nat
      BY <1>2
    <3>4. QED
      BY <3>1, <3>2, <3>3
  <2>4. UNCHANGED <<terminals, jobs, refcount, term, waiters, stack>>
    BY DEF Exit
  <2>5. (mem'[j] = "live" <=> mem[j] = "live") /\ (mem'[j] = "none" <=> mem[j] = "none")
    BY <1>3
  <2>6. QED
    BY <2>1, <2>2, <2>3, <2>4, <2>5 DEF JobSound, JobIs, Sound, One
<1>6. \A k \in Job : k # j => JobSound(k)'
  BY <1>1, <1>2, <1>3, JobKept DEF Exit, DataTypes
<1>7. StackSound(stack') /\ Uses(stack', mem')
  BY <1>1, NothingInUse DEF Exit
<1>8. QED
  BY <1>4, <1>5, <1>6, <1>7 DEF DataInv

LEMMA ClosedInv ==
  ASSUME DataInv, NEW j \in Job, Closed(j)
  PROVE  DataInv'
<1>1. DataTypes /\ StackSound(stack) /\ \A k \in Job : JobSound(k)
  BY DEF DataInv
<1>2. /\ queue' \in [Job -> Seq(Event)] /\ (\A k \in Job : k # j => queue'[k] = queue[k])
      /\ \A x : /\ Times(x, queue[j]) \in Nat
                /\ Times(x, queue'[j]) = Times(x, queue[j]) + (IF waiters[j] = 0 /\ "exit" = x THEN 1 ELSE 0)
  <2>1. CASE waiters[j] = 0
    BY <1>1, <2>1, QueuePut DEF Closed, Event
  <2>2. CASE waiters[j] # 0
    <3>1. queue' = queue
      BY <2>2 DEF Closed
    <3>2. \A x : Times(x, queue[j]) \in Nat
      BY <1>1, EventCounts
    <3>3. QED
      BY <1>1, <2>2, <3>1, <3>2 DEF DataTypes
  <2>3. QED
    BY <2>1, <2>2
<1>3. /\ mem' \in [Job -> {"none", "live", "freeing", "freed"}]
      /\ \A k \in Job : (mem'[k] = "live" <=> mem[k] = "live") /\ (mem'[k] = "none" <=> mem[k] = "none")
  BY <1>1, FastFacts DEF Closed
<1>4. DataTypes'
  BY <1>1, <1>2, <1>3 DEF DataTypes, Closed, Phases
<1>5. JobSound(j)'
  <2>1. JobSound(j) /\ Outs(j, stack) \in Nat /\ Lasts(j, stack) \in Nat
    BY <1>1, CallTypes DEF StackSound
  <2>2. phase[j] = "closing" /\ phase'[j] = "gone" /\ waiters[j] \in Nat
    BY <1>1 DEF Closed, DataTypes
  <2>3. Times("out", queue[j]) + Outs(j, stack) = 0
    BY DEF Closed, PendingReqs, Outs
  <2>4. QED
    BY <1>2, <1>3, <2>1, <2>2, <2>3 DEF JobSound, JobIs, Sound, One, Closed
<1>6. \A k \in Job : k # j => JobSound(k)'
  BY <1>1, <1>2, <1>3, JobKept DEF Closed, DataTypes
<1>7. StackSound(stack') /\ Uses(stack', mem')
  BY <1>1, NothingInUse DEF Closed
<1>8. QED
  BY <1>4, <1>5, <1>6, <1>7 DEF DataInv

LEMMA PollFastInv ==
  ASSUME DataInv, PollFast
  PROVE  DataInv'
<1>1. DataTypes /\ StackSound(stack)
  BY DEF DataInv
<1>2. /\ mem' \in [Job -> {"none", "live", "freeing", "freed"}]
      /\ \A k \in Job : (mem'[k] = "live" <=> mem[k] = "live") /\ (mem'[k] = "none" <=> mem[k] = "none")
  BY <1>1, FastFacts DEF PollFast
<1>3. DataTypes'
  BY <1>1, <1>2 DEF DataTypes, PollFast, procVars
<1>4. SameCalls(stack, stack')
  BY DEF SameCalls, PollFast
<1>5. \A k \in Job : JobSound(k)'
  BY <1>2, <1>4, JobsKept DEF PollFast, procVars
<1>6. StackSound(stack') /\ Uses(stack', mem')
  BY <1>1, NothingInUse DEF PollFast
<1>7. QED
  BY <1>3, <1>5, <1>6 DEF DataInv

LEMMA JobStartInv ==
  ASSUME DataInv, NEW j \in Job, JobStart(j)
  PROVE  DataInv'
<1>1. DataTypes /\ StackSound(stack) /\ \A k \in Job : JobSound(k)
  BY DEF DataInv
<1>2. DataTypes'
  BY <1>1 DEF DataTypes, JobStart, Phases
<1>3. JobSound(j)'
  <2>1. /\ JobSound(j) /\ Outs(j, stack) \in Nat /\ Lasts(j, stack) \in Nat
        /\ \A x : Times(x, queue[j]) \in Nat
    BY <1>1, CallTypes, EventCounts DEF StackSound
  <2>2. /\ mem[j] = "none" /\ mem'[j] = "live" /\ phase'[j] = "running" /\ j \in jobs'
        /\ refcount'[j] = (IF j \in terminals THEN 2 ELSE 1)
        /\ term'[j] = (IF j \in terminals THEN "open" ELSE "none")
    BY <1>1 DEF JobStart, DataTypes
  <2>3. QED
    BY <2>1, <2>2 DEF JobSound, JobIs, Sound, One, Held, JobStart
<1>4. \A k \in Job : k # j => JobSound(k)'
  BY <1>1, JobKept DEF JobStart, DataTypes
<1>5. StackSound(stack') /\ Uses(stack', mem')
  BY <1>1, NothingInUse DEF JobStart
<1>6. QED
  BY <1>2, <1>3, <1>4, <1>5 DEF DataInv

LEMMA JobStartFailsInv ==
  ASSUME DataInv, NEW j \in Job, JobStartFails(j)
  PROVE  DataInv'
<1>1. DataTypes /\ StackSound(stack) /\ \A k \in Job : JobSound(k)
  BY DEF DataInv
<1>2. DataTypes'
  BY <1>1 DEF DataTypes, JobStartFails, procVars
<1>3. JobSound(j)'
  <2>1. mem[j] = "none" /\ mem'[j] = "freeing" /\ JobSound(j)
    BY <1>1 DEF JobStartFails, DataTypes
  <2>2. QED
    BY <2>1 DEF JobSound, JobIs, Sound, One, Held, JobStartFails, procVars
<1>4. \A k \in Job : k # j => JobSound(k)'
  BY <1>1, JobKept DEF JobStartFails, DataTypes, procVars
<1>5. StackSound(stack') /\ Uses(stack', mem')
  BY <1>1, NothingInUse DEF JobStartFails
<1>6. QED
  BY <1>2, <1>3, <1>4, <1>5 DEF DataInv

LEMMA JobStopInv ==
  ASSUME DataInv, NEW j \in Job, JobStop(j)
  PROVE  DataInv'
<1>1. DataTypes /\ StackSound(stack)
  BY DEF DataInv
<1>2. DataTypes'
  BY <1>1 DEF DataTypes, JobStop
<1>3. SameCalls(stack, stack')
  BY DEF SameCalls, JobStop
<1>4. \A k \in Job : JobSound(k)'
  BY <1>3, JobsKept DEF JobStop
<1>5. StackSound(stack') /\ Uses(stack', mem')
  BY <1>1, NothingInUse DEF JobStop
<1>6. QED
  BY <1>2, <1>4, <1>5 DEF DataInv

LEMMA TermWipedInv ==
  ASSUME DataInv, NEW j \in Job, TermWiped(j)
  PROVE  DataInv'
<1>1. DataTypes /\ StackSound(stack) /\ \A k \in Job : JobSound(k)
  BY DEF DataInv
<1>2. DataTypes'
  BY <1>1 DEF DataTypes, TermWiped, procVars
<1>3. JobSound(j)'
  <2>1. term[j] = "exited" /\ term'[j] = "lost" /\ JobSound(j)
    BY <1>1 DEF TermWiped, DataTypes
  <2>2. QED
    BY <2>1 DEF JobSound, JobIs, Sound, One, Held, TermWiped, procVars
<1>4. \A k \in Job : k # j => JobSound(k)'
  BY <1>1, JobKept DEF TermWiped, DataTypes, procVars
<1>5. StackSound(stack') /\ Uses(stack', mem')
  BY <1>1, NothingInUse DEF TermWiped
<1>6. QED
  BY <1>2, <1>3, <1>4, <1>5 DEF DataInv

LEMMA TermCloseInv ==
  ASSUME DataInv, NEW j \in Job, TermClose(j)
  PROVE  DataInv'
<1>1. DataTypes /\ StackSound(stack) /\ \A k \in Job : JobSound(k)
  BY DEF DataInv
<1>2. /\ queue' \in [Job -> Seq(Event)] /\ (\A k \in Job : k # j => queue'[k] = queue[k])
      /\ \A x : /\ Times(x, queue[j]) \in Nat
                /\ Times(x, queue'[j]) = Times(x, queue[j]) + (IF "delayed" = x THEN 1 ELSE 0)
  BY <1>1, QueuePut DEF TermClose, Event
<1>3. DataTypes'
  BY <1>1, <1>2 DEF DataTypes, TermClose
<1>4. JobSound(j)'
  <2>1. JobSound(j) /\ Outs(j, stack) \in Nat /\ Lasts(j, stack) \in Nat
    BY <1>1, CallTypes DEF StackSound
  <2>2. term[j] \in {"open", "exited"} /\ term'[j] = "closing"
    BY <1>1 DEF TermClose, DataTypes
  <2>3. /\ \A x \in Event : Times(x, queue[j]) \in Nat
        /\ Times("out", queue'[j]) = Times("out", queue[j])
        /\ Times("close", queue'[j]) = Times("close", queue[j])
        /\ Times("delayed", queue'[j]) = Times("delayed", queue[j]) + 1
        /\ Times("exit", queue'[j]) = Times("exit", queue[j])
    BY <1>2 DEF Event
  <2>4. QED
    BY <2>1, <2>2, <2>3 DEF JobSound, JobIs, Sound, One, Held, Event, TermClose
<1>5. \A k \in Job : k # j => JobSound(k)'
  BY <1>1, <1>2, JobKept DEF TermClose, DataTypes
<1>6. StackSound(stack') /\ Uses(stack', mem')
  BY <1>1, NothingInUse DEF TermClose
<1>7. QED
  BY <1>3, <1>4, <1>5, <1>6 DEF DataInv

LEMMA InterruptInv ==
  ASSUME DataInv, Interrupt
  PROVE  DataInv'
<1>1. DataTypes'
  BY DEF DataInv, DataTypes, Interrupt, dataVars, procVars
<1>2. SameCalls(stack, stack')
  BY DEF SameCalls, Interrupt
<1>3. \A k \in Job : JobSound(k)'
  BY <1>2, JobsKept DEF Interrupt, dataVars, procVars
<1>4. StackSound(stack') /\ Uses(stack', mem')
  BY DEF DataInv, Interrupt, dataVars
<1>5. QED
  BY <1>1, <1>3, <1>4 DEF DataInv

-----------------------------------------------------------------------------
(***************************************************************************)
(* The handlers                                                            *)
(***************************************************************************)
LEMMA DrainMainInv ==
  ASSUME DataInv, DrainMain
  PROVE  DataInv'
<1> DEFINE g == DrainParent(Main)
<1>1. DataTypes /\ StackSound(stack) /\ Len(stack) \in Nat /\ MaxDepth \in Nat
  BY JobsAssumption DEF DataInv, StackSound
<1>2. g \in AnyFrame /\ g.kind = "drain" /\ g.of = {} /\ g.parent = 0 /\ NULL # 0
  BY DrainFacts, JobsAssumption DEF Main
<1> HIDE DEF g
<1>3. FrameSound(g, Len(stack) + 1)
  BY <1>1, <1>2 DEF FrameSound, DrainMain
<1>4. stack # <<>> => MayCall(Last(stack), g)
  BY DEF MayCall, DrainMain, UserTurn, TopIs, Top
<1>5. StackSound(stack') /\ Grown(stack, g, stack') /\ Last(stack') = g
  BY <1>1, <1>2, <1>3, <1>4, StackPush DEF DrainMain, Push, Pushed, g
<1>6. SameCalls(stack, stack')
  BY <1>1, <1>2, <1>5, CallsSame DEF StackSound, Quiet
<1>7. \A k \in Job : JobSound(k)'
  BY <1>6, JobsKept DEF DrainMain, dataVars, procVars
<1>8. Uses(stack', mem')
  BY <1>2, <1>5 DEF Uses
<1>9. DataTypes'
  BY <1>1 DEF DataTypes, DrainMain, dataVars, procVars
<1>10. QED
  BY <1>5, <1>7, <1>8, <1>9 DEF DataInv

LEMMA DrainEndInv ==
  ASSUME DataInv, DrainEnd
  PROVE  DataInv'
<1> DEFINE c == Front(stack)
           g == Last(stack)
<1>1. DataTypes /\ StackSound(stack) /\ Uses(stack, mem) /\ stack # <<>> /\ g.kind = "drain"
  BY DEF DataInv, DrainEnd, TopIs, Top
<1>2. /\ StackSound(c) /\ Grown(c, g, stack) /\ stack \in Seq(AnyFrame) /\ g \in AnyFrame
      /\ c # <<>> => MayCall(Last(c), g)
  BY <1>1, StackPop
<1>3. SameCalls(c, stack)
  BY <1>1, <1>2, CallsSame DEF StackSound, Quiet
<1>4. stack' = c
  BY DEF DrainEnd, Pop, Callers
<1>5. SameCalls(stack, stack')
  BY <1>3, <1>4 DEF SameCalls
<1>6. \A k \in Job : JobSound(k)'
  BY <1>5, JobsKept DEF DrainEnd, dataVars, procVars
<1>7. Uses(stack', mem')
  <2> SUFFICES ASSUME c # <<>> PROVE Uses(c, mem)
    BY <1>4 DEF Uses, DrainEnd, dataVars
  <2> DEFINE f == Last(c)
  <2>1. MayCall(f, g)
    BY <1>2
  <2>2. f.kind # "drain"
    BY <1>1, <2>1 DEF MayCall
  <2>3. ASSUME f.kind = "wait", f.pc \in {"entering", "restoring"} PROVE mem[f.ids[f.i]] # "freed"
    <3>1. g = DrainJob(f.ids[f.i])
      BY <2>1, <2>3 DEF MayCall
    <3>2. f.ids[f.i] \in g.of
      BY <3>1 DEF DrainJob
    <3>3. QED
      BY <1>1, <3>2 DEF Uses
  <2>4. QED
    BY <2>2, <2>3 DEF Uses
<1>8. DataTypes'
  BY <1>1 DEF DataTypes, DrainEnd, dataVars, procVars
<1>9. QED
  BY <1>2, <1>4, <1>6, <1>7, <1>8 DEF DataInv

\* The handler of an event of j may call a callback.
LEMMA HandlingFacts ==
  ASSUME DataInv, NEW j \in Job, NEW e, Handling(j, e), NEW what \in {"out", "exit"}
  PROVE  /\ stack # <<>> /\ Last(stack).kind = "drain" /\ Len(stack) \in Nat
         /\ Callback(j, what) \in AnyFrame /\ Callback(j, what).kind = "cb"
         /\ FrameSound(Callback(j, what), Len(stack) + 1)
         /\ MayCall(Last(stack), Callback(j, what))
         /\ e \in Event /\ Times(e, queue[j]) > 0
<1> DEFINE f == Last(stack)
           g == Callback(j, what)
<1>1. /\ stack # <<>> /\ f.kind = "drain" /\ j \in Drained(f) /\ queue[j] # <<>> /\ Head(queue[j]) = e
      /\ StackSound(stack) /\ DataTypes
  BY DEF DataInv, Handling, TopIs, Top
<1>2. Len(stack) \in Nat \ {0} /\ FrameSound(f, Len(stack)) /\ MaxDepth \in Nat
  BY <1>1, StackPop, JobsAssumption
<1>3. g \in AnyFrame /\ g.kind = "cb" /\ g.job = j
  BY CallbackFacts
<1> HIDE DEF f, g
<1>4. FrameSound(g, Len(stack) + 1)
  BY <1>1, <1>2, <1>3 DEF FrameSound
<1>5. MayCall(f, g)
  BY <1>1, <1>2, <1>3 DEF MayCall, FrameSound, Drained
<1>6. e \in Event /\ Times(e, queue[j]) > 0
  <2>1. queue[j] \in Seq(Event)
    BY <1>1, EventCounts
  <2>2. e \in Event
    BY <1>1, <2>1
  <2>3. QED
    BY <1>1, <2>2, EventCounts
<1>7. QED
  BY <1>1, <1>2, <1>3, <1>4, <1>5, <1>6 DEF f, g

\* A callback is called on the stack s.
LEMMA CallbackPushed ==
  ASSUME NEW s, StackSound(s), s # <<>>, NEW j \in Job, NEW what \in {"out", "exit"},
         FrameSound(Callback(j, what), Len(s) + 1), MayCall(Last(s), Callback(j, what)),
         NEW u, u = Pushed(s, Callback(j, what))
  PROVE  /\ StackSound(u) /\ \A m : Uses(u, m)
         /\ \A k \in Job : k # j => /\ Outs(k, u) = Outs(k, s) /\ Lasts(k, u) = Lasts(k, s)
                                    /\ Waits(k, u) = Waits(k, s)
         /\ Outs(j, s) \in Nat /\ Outs(j, u) = Outs(j, s) + (IF what = "out" THEN 1 ELSE 0)
         /\ Lasts(j, s) \in Nat /\ Lasts(j, u) = Lasts(j, s) + (IF what = "exit" THEN 1 ELSE 0)
         /\ Waits(j, u) = Waits(j, s)
<1> DEFINE g == Callback(j, what)
<1>1. /\ g \in AnyFrame /\ g.kind = "cb"
      /\ \A k, other : g = Callback(k, other) <=> j = k /\ what = other
  BY CallbackFacts
<1> HIDE DEF g
<1>2. StackSound(u) /\ Grown(s, g, u) /\ Last(u) = g /\ s \in Seq(AnyFrame) /\ u \in Seq(AnyFrame)
  BY <1>1, StackPush DEF g, StackSound
<1>3. ASSUME NEW k \in Job
      PROVE  /\ Outs(k, s) \in Nat /\ Outs(k, u) = Outs(k, s) + (IF j = k /\ what = "out" THEN 1 ELSE 0)
             /\ Lasts(k, s) \in Nat /\ Lasts(k, u) = Lasts(k, s) + (IF j = k /\ what = "exit" THEN 1 ELSE 0)
             /\ Waits(k, s) \in Nat /\ Waits(k, u) = Waits(k, s)
  <2>1. /\ Outs(k, s) \in Nat /\ Outs(k, u) = Outs(k, s) + One(g = Callback(k, "out"))
        /\ Lasts(k, s) \in Nat /\ Lasts(k, u) = Lasts(k, s) + One(g = Callback(k, "exit"))
        /\ Waits(k, s) \in Nat /\ Waits(k, u) = Waits(k, s) + One(WaitsFor(g, k))
    BY <1>1, <1>2, CallsGrown
  <2>2. /\ g = Callback(k, "out") <=> j = k /\ what = "out"
        /\ g = Callback(k, "exit") <=> j = k /\ what = "exit"
        /\ ~WaitsFor(g, k)
    BY <1>1 DEF WaitsFor
  <2>3. QED
    BY <2>1, <2>2 DEF One
<1>4. \A m : Uses(u, m)
  BY <1>1, <1>2 DEF Uses
<1>5. QED
  BY <1>2, <1>3, <1>4

LEMMA HandleOutputInv ==
  ASSUME DataInv, NEW j \in Job, HandleOutput(j)
  PROVE  DataInv'
<1>1. DataTypes /\ StackSound(stack) /\ Uses(stack, mem) /\ \A k \in Job : JobSound(k)
  BY DEF DataInv
<1>2. /\ queue' \in [Job -> Seq(Event)] /\ (\A k \in Job : k # j => queue'[k] = queue[k])
      /\ \A x : /\ Times(x, queue'[j]) \in Nat
                /\ Times(x, queue[j]) = Times(x, queue'[j]) + (IF "out" = x THEN 1 ELSE 0)
  BY <1>1, QueueTook DEF HandleOutput, Handling
<1>3. DataTypes'
  BY <1>1, <1>2 DEF DataTypes, HandleOutput, dataVars, procVars
<1>4. Times("out", queue[j]) > 0
  BY HandlingFacts DEF HandleOutput
<1>5. /\ StackSound(stack') /\ Uses(stack', mem')
      /\ \A k \in Job : k # j => /\ Outs(k, stack') = Outs(k, stack) /\ Lasts(k, stack') = Lasts(k, stack)
                                 /\ Waits(k, stack') = Waits(k, stack)
      /\ Outs(j, stack) \in Nat /\ Outs(j, stack') \in Nat
      /\ Outs(j, stack') <= Outs(j, stack) + 1
      /\ Lasts(j, stack') = Lasts(j, stack) /\ Waits(j, stack') = Waits(j, stack)
  <2>1. CASE j \in OnStdout
    <3>1. stack' = Pushed(stack, Callback(j, "out"))
      BY <2>1 DEF HandleOutput, Push, Pushed
    <3>2. /\ stack # <<>> /\ FrameSound(Callback(j, "out"), Len(stack) + 1)
          /\ MayCall(Last(stack), Callback(j, "out"))
      BY HandlingFacts DEF HandleOutput
    <3>3. /\ StackSound(stack') /\ \A m : Uses(stack', m)
          /\ \A k \in Job : k # j => /\ Outs(k, stack') = Outs(k, stack) /\ Lasts(k, stack') = Lasts(k, stack)
                                     /\ Waits(k, stack') = Waits(k, stack)
          /\ Outs(j, stack) \in Nat /\ Outs(j, stack') = Outs(j, stack) + 1
          /\ Lasts(j, stack) \in Nat /\ Lasts(j, stack') = Lasts(j, stack) + 0
          /\ Waits(j, stack') = Waits(j, stack)
      BY <1>1, <3>1, <3>2, CallbackPushed
    <3>4. QED
      BY <3>3
  <2>2. CASE j \notin OnStdout
    BY <1>1, <2>2, CallTypes DEF HandleOutput, dataVars, StackSound
  <2>3. QED
    BY <2>1, <2>2
<1>6. JobSound(j)'
  <2>1. JobSound(j)
    BY <1>1
  <2>2. /\ Times("out", queue[j]) = Times("out", queue'[j]) + 1 /\ Times("out", queue'[j]) \in Nat
        /\ Times("close", queue[j]) = Times("close", queue'[j])
        /\ Times("delayed", queue[j]) = Times("delayed", queue'[j])
        /\ Times("exit", queue[j]) = Times("exit", queue'[j])
    <3>1. \A x : x # "out" => Times(x, queue[j]) = Times(x, queue'[j])
      BY <1>2
    <3>2. QED
      BY <1>2, <3>1
  <2>3. QED
    BY <1>5, <2>1, <2>2 DEF JobSound, JobIs, Sound, HandleOutput, dataVars, procVars
<1>7. \A k \in Job : k # j => JobSound(k)'
  BY <1>1, <1>2, <1>5, JobKept DEF HandleOutput, dataVars, procVars
<1>8. QED
  BY <1>3, <1>5, <1>6, <1>7 DEF DataInv

LEMMA HandleCloseInv ==
  ASSUME DataInv, NEW j \in Job, HandleClose(j)
  PROVE  DataInv'
<1>1. DataTypes /\ StackSound(stack) /\ Uses(stack, mem) /\ \A k \in Job : JobSound(k)
  BY DEF DataInv
<1>2. /\ queue' \in [Job -> Seq(Event)] /\ (\A k \in Job : k # j => queue'[k] = queue[k])
      /\ \A x : /\ Times(x, queue'[j]) \in Nat
                /\ Times(x, queue[j]) = Times(x, queue'[j]) + (IF "close" = x THEN 1 ELSE 0)
  BY <1>1, QueueTook DEF HandleClose, Handling
<1>3. DataTypes'
  BY <1>1, <1>2 DEF DataTypes, HandleClose, dataVars, Phases
<1>4. Times("close", queue[j]) > 0
  BY HandlingFacts DEF HandleClose
<1>5. JobSound(j)'
  <2>1. JobSound(j) /\ phase'[j] = "closing"
    BY <1>1 DEF HandleClose, DataTypes
  <2>2. /\ Times("out", queue[j]) = Times("out", queue'[j])
        /\ Times("close", queue[j]) = Times("close", queue'[j]) + 1 /\ Times("close", queue'[j]) \in Nat
        /\ Times("delayed", queue[j]) = Times("delayed", queue'[j])
        /\ Times("exit", queue[j]) = Times("exit", queue'[j])
    <3>1. \A x : x # "close" => Times(x, queue[j]) = Times(x, queue'[j])
      BY <1>2
    <3>2. QED
      BY <1>2, <3>1
  <2>3. phase[j] = "exited" /\ j \in jobs
    BY <1>4, <2>1 DEF JobSound, JobIs, Sound, One
  <2>4. QED
    BY <2>1, <2>2, <2>3 DEF JobSound, JobIs, Sound, One, HandleClose, dataVars
<1>6. \A k \in Job : k # j => JobSound(k)'
  BY <1>1, <1>2, JobKept DEF HandleClose, dataVars, DataTypes
<1>7. StackSound(stack') /\ Uses(stack', mem')
  BY <1>1 DEF HandleClose, dataVars
<1>8. QED
  BY <1>3, <1>5, <1>6, <1>7 DEF DataInv

LEMMA HandleExitInv ==
  ASSUME DataInv, NEW j \in Job, HandleExit(j)
  PROVE  DataInv'
<1> DEFINE v == WithStatus(j, "status", stack)
<1>1. DataTypes /\ StackSound(stack) /\ Uses(stack, mem) /\ \A k \in Job : JobSound(k)
  BY DEF DataInv
<1>2. /\ queue' \in [Job -> Seq(Event)] /\ (\A k \in Job : k # j => queue'[k] = queue[k])
      /\ \A x : /\ Times(x, queue'[j]) \in Nat
                /\ Times(x, queue[j]) = Times(x, queue'[j]) + (IF "exit" = x THEN 1 ELSE 0)
  BY <1>1, QueueTook DEF HandleExit, Handling
<1>3. DataTypes'
  <2> DEFINE T == {"none", "open", "exited", "closing", "destroyed", "lost"}
  <2>1. DataTypes /\ exited \in [Job -> BOOLEAN] /\ term \in [Job -> T] /\ "exited" \in T
    BY <1>1 DEF DataTypes
  <2>2. \/ exited' = [exited EXCEPT ![j] = TRUE] /\ term' = [term EXCEPT ![j] = "exited"]
        \/ UNCHANGED <<exited, term>>
    BY DEF HandleExit
  <2> HIDE DEF T
  <2>3. exited' \in [Job -> BOOLEAN] /\ term' \in [Job -> T]
    BY <2>1, <2>2
  <2>4. QED
    BY <1>2, <2>1, <2>3 DEF DataTypes, HandleExit, procVars, T
<1>4. /\ stack # <<>> /\ Last(stack).kind = "drain" /\ Len(stack) \in Nat
      /\ FrameSound(Callback(j, "exit"), Len(stack) + 1)
      /\ MayCall(Last(stack), Callback(j, "exit"))
  BY HandlingFacts DEF HandleExit
<1>5. /\ StackSound(v) /\ SameCalls(stack, v) /\ Len(v) = Len(stack)
      /\ \A k \in 1 .. Len(stack) : Alike(stack[k], v[k])
  BY <1>1, WithStatusAlike DEF Status
<1>6. stack' = Pushed(v, Callback(j, "exit"))
  BY DEF HandleExit, Pushed
<1> HIDE DEF v
<1>7. v # <<>> /\ Last(v) = Last(stack)
  <2>1. /\ Len(stack) \in Nat \ {0} /\ Last(stack) = stack[Len(stack)]
        /\ stack \in Seq(AnyFrame) /\ v \in Seq(AnyFrame)
    BY <1>1, <1>4, <1>5, PopFacts DEF StackSound
  <2>2. v # <<>>
    BY <1>5, <2>1
  <2>3. Last(v) = v[Len(v)]
    BY <2>1, <2>2, PopFacts
  <2>4. Alike(stack[Len(stack)], v[Len(stack)])
    BY <1>5, <2>1
  <2>5. QED
    BY <1>4, <1>5, <2>1, <2>2, <2>3, <2>4 DEF Alike
<1>8. /\ StackSound(stack') /\ \A m : Uses(stack', m)
      /\ \A k \in Job : k # j => /\ Outs(k, stack') = Outs(k, v) /\ Lasts(k, stack') = Lasts(k, v)
                                 /\ Waits(k, stack') = Waits(k, v)
      /\ Outs(j, v) \in Nat /\ Outs(j, stack') = Outs(j, v) + 0
      /\ Lasts(j, v) \in Nat /\ Lasts(j, stack') = Lasts(j, v) + 1
      /\ Waits(j, stack') = Waits(j, v)
  BY <1>4, <1>5, <1>6, <1>7, CallbackPushed
<1>9. JobSound(j)'
  <2>1. JobSound(j) /\ Outs(j, stack') = Outs(j, stack) /\ Lasts(j, stack') = Lasts(j, stack) + 1
        /\ Waits(j, stack') = Waits(j, stack) /\ Lasts(j, stack) \in Nat
    BY <1>1, <1>5, <1>8 DEF SameCalls
  <2>2. /\ Times("out", queue[j]) = Times("out", queue'[j])
        /\ Times("close", queue[j]) = Times("close", queue'[j])
        /\ Times("delayed", queue[j]) = Times("delayed", queue'[j])
        /\ Times("exit", queue[j]) = Times("exit", queue'[j]) + 1 /\ Times("exit", queue'[j]) \in Nat
    <3>1. \A x : x # "exit" => Times(x, queue[j]) = Times(x, queue'[j])
      BY <1>2
    <3>2. QED
      BY <1>2, <3>1
  <2>3. Held(term'[j]) = Held(term[j]) /\ (term'[j] = "closing" <=> term[j] = "closing")
    BY <1>1 DEF HandleExit, Held, DataTypes
  <2>4. phase[j] # "none"
    BY <2>1, <2>2 DEF JobSound, JobIs, Sound, One
  <2>5. QED
    BY <2>1, <2>2, <2>3, <2>4 DEF JobSound, JobIs, Sound, HandleExit, procVars, One
<1>10. \A k \in Job : k # j => JobSound(k)'
  <2>1. ASSUME NEW k \in Job, k # j
        PROVE  /\ Outs(k, stack') = Outs(k, stack) /\ Lasts(k, stack') = Lasts(k, stack)
               /\ Waits(k, stack') = Waits(k, stack)
    BY <1>5, <1>8, <2>1 DEF SameCalls
  <2>2. QED
    BY <1>1, <1>2, <2>1, JobKept DEF HandleExit, procVars, DataTypes
<1>11. Uses(stack', mem')
  BY <1>8
<1>12. QED
  BY <1>3, <1>8, <1>9, <1>10, <1>11 DEF DataInv

LEMMA TypesOfJob ==
  ASSUME DataTypes, NEW j \in Job
  PROVE  /\ refcount[j] \in 0 .. 2 /\ refcount[j] \in Nat /\ waiters[j] \in Nat
         /\ phase[j] \in Phases /\ parent[j] \in 0 .. MaxDepth
<1>1. refcount[j] \in 0 .. 2 /\ waiters[j] \in Nat /\ phase[j] \in Phases /\ parent[j] \in 0 .. MaxDepth
  BY DEF DataTypes
<1>2. QED
  BY <1>1

\* What Decref does to the data of j, to which something refers.
LEMMA DecrefFacts ==
  ASSUME DataTypes, NEW j \in Job, Decref(j), refcount[j] > 0
  PROVE  /\ refcount' \in [Job -> 0 .. 2] /\ mem' \in [Job -> {"none", "live", "freeing", "freed"}]
         /\ refcount'[j] = refcount[j] - 1
         /\ mem'[j] = IF refcount[j] = 1 THEN "freeing" ELSE mem[j]
         /\ \A k \in Job : k # j => refcount'[k] = refcount[k] /\ mem'[k] = mem[k]
         /\ \A k \in Job : mem'[k] = "freed" => mem[k] = "freed"
BY DEF DataTypes, Decref

LEMMA CallbackEndInv ==
  ASSUME DataInv, CallbackEnd
  PROVE  DataInv'
<1> DEFINE c == Front(stack)
           g == Last(stack)
<1>1. /\ DataTypes /\ StackSound(stack) /\ Uses(stack, mem) /\ (\A k \in Job : JobSound(k))
      /\ stack # <<>> /\ g.kind = "cb"
  BY DEF DataInv, CallbackEnd, TopIs, Top
<1>2. /\ StackSound(c) /\ Grown(c, g, stack) /\ stack \in Seq(AnyFrame) /\ g \in AnyFrame
      /\ c # <<>> => MayCall(Last(c), g)
  BY <1>1, StackPop
<1>3. PICK j \in Job : j = g.job /\ g.what \in {"out", "exit"} /\ g = Callback(j, g.what)
  BY <1>1, <1>2, FrameKinds
<1>4. stack' = c
  BY DEF CallbackEnd, Pop, Callers
<1>5. /\ g.what = "exit" => Decref(j) /\ jobs' = jobs \ {j}
      /\ g.what # "exit" => UNCHANGED <<refcount, mem, jobs>>
  BY <1>3 DEF CallbackEnd, Top
<1> HIDE DEF c
<1>6. ASSUME NEW k \in Job
      PROVE  /\ Outs(k, c) \in Nat /\ Outs(k, stack) = Outs(k, c) + (IF j = k /\ g.what = "out" THEN 1 ELSE 0)
             /\ Lasts(k, c) \in Nat /\ Lasts(k, stack) = Lasts(k, c) + (IF j = k /\ g.what = "exit" THEN 1 ELSE 0)
             /\ Waits(k, c) \in Nat /\ Waits(k, stack) = Waits(k, c)
  <2>1. /\ Outs(k, c) \in Nat /\ Outs(k, stack) = Outs(k, c) + One(g = Callback(k, "out"))
        /\ Lasts(k, c) \in Nat /\ Lasts(k, stack) = Lasts(k, c) + One(g = Callback(k, "exit"))
        /\ Waits(k, c) \in Nat /\ Waits(k, stack) = Waits(k, c) + One(WaitsFor(g, k))
    BY <1>2, CallsGrown DEF StackSound
  <2>2. /\ g = Callback(k, "out") <=> j = k /\ g.what = "out"
        /\ g = Callback(k, "exit") <=> j = k /\ g.what = "exit"
    BY <1>3, CallbackFacts
  <2>3. ~WaitsFor(g, k)
    BY <1>1 DEF WaitsFor
  <2>4. QED
    BY <2>1, <2>2, <2>3 DEF One
<1>7. /\ mem[j] = "live" /\ (g.what = "exit" => refcount[j] > 0 /\ j \in jobs /\ phase[j] = "gone" /\ waiters[j] = 0)
  <2>1. JobSound(j) /\ \A x : Times(x, queue[j]) \in Nat
    BY <1>1, <1>3, EventCounts
  <2>2. Outs(j, stack) \in Nat /\ Lasts(j, stack) \in Nat
    BY <1>2, <1>3, CallTypes
  <2>3. refcount[j] \in Nat
    BY <1>1, TypesOfJob
  <2>4. CASE g.what = "exit"
    <3>1. Lasts(j, stack) > 0
      BY <1>3, <1>6, <2>4
    <3>2. phase[j] = "gone" /\ waiters[j] = 0 /\ j \in jobs
      BY <2>1, <2>2, <3>1 DEF JobSound, JobIs, Sound, One
    <3>3. QED
      BY <2>1, <2>3, <2>4, <3>2 DEF JobSound, JobIs, Sound, One
  <2>5. CASE g.what = "out"
    <3>1. Outs(j, stack) > 0
      BY <1>3, <1>6, <2>5
    <3>2. phase[j] \notin {"none", "gone"} /\ phase[j] \in Phases
      BY <1>1, <1>3, <2>1, <2>2, <3>1 DEF JobSound, JobIs, Sound, DataTypes
    <3>3. j \in jobs
      BY <2>1, <3>2 DEF JobSound, JobIs, Sound, Phases
    <3>4. QED
      BY <2>1, <2>3, <2>5, <3>3 DEF JobSound, JobIs, Sound, One
  <2>6. QED
    BY <1>3, <2>4, <2>5
<1>8. /\ refcount' \in [Job -> 0 .. 2] /\ mem' \in [Job -> {"none", "live", "freeing", "freed"}]
      /\ \A k \in Job : k # j => refcount'[k] = refcount[k] /\ mem'[k] = mem[k] /\ (k \in jobs' <=> k \in jobs)
      /\ \A k \in Job : mem'[k] = "freed" => mem[k] = "freed"
      /\ g.what = "exit" => /\ refcount'[j] = refcount[j] - 1
                            /\ mem'[j] = IF refcount[j] = 1 THEN "freeing" ELSE mem[j]
  <2>1. CASE g.what = "exit"
    BY <1>1, <1>3, <1>5, <1>7, <2>1, DecrefFacts
  <2>2. CASE g.what # "exit"
    BY <1>1, <1>5, <2>2 DEF DataTypes
  <2>3. QED
    BY <2>1, <2>2
<1>9. DataTypes'
  BY <1>1, <1>5, <1>8 DEF DataTypes, CallbackEnd, procVars
<1>10. JobSound(j)'
  <2>1. JobSound(j) /\ \A x : Times(x, queue[j]) \in Nat
    BY <1>1, <1>3, EventCounts
  <2>2. /\ Outs(j, c) \in Nat /\ Lasts(j, c) \in Nat /\ Waits(j, stack') = Waits(j, stack)
        /\ refcount[j] \in Nat /\ waiters[j] \in Nat
    BY <1>1, <1>3, <1>4, <1>6, TypesOfJob
  <2>3. CASE g.what = "exit"
    <3>1. Outs(j, stack') = Outs(j, stack) /\ Lasts(j, stack) = Lasts(j, stack') + 1 /\ j \notin jobs'
      BY <1>3, <1>4, <1>5, <1>6, <2>3
    <3>2. QED
      BY <1>4, <1>7, <1>8, <2>1, <2>2, <2>3, <3>1 DEF JobSound, JobIs, Sound, One, Held, CallbackEnd, procVars
  <2>4. CASE g.what = "out"
    <3>1. Outs(j, stack) = Outs(j, stack') + 1 /\ Lasts(j, stack) = Lasts(j, stack')
      BY <1>3, <1>4, <1>6, <2>4
    <3>2. QED
      BY <1>4, <1>5, <2>1, <2>2, <2>4, <3>1 DEF JobSound, JobIs, Sound, CallbackEnd, procVars
  <2>5. QED
    BY <1>3, <2>3, <2>4
<1>11. \A k \in Job : k # j => JobSound(k)'
  <2>1. ASSUME NEW k \in Job, k # j
        PROVE  /\ Outs(k, stack') = Outs(k, stack) /\ Lasts(k, stack') = Lasts(k, stack)
               /\ Waits(k, stack') = Waits(k, stack)
    BY <1>4, <1>6, <2>1
  <2>2. QED
    BY <1>1, <1>8, <2>1, JobKept DEF CallbackEnd, procVars
<1>12. Uses(stack', mem')
  <2> SUFFICES ASSUME c # <<>> PROVE Uses(c, mem')
    BY <1>4 DEF Uses
  <2> DEFINE f == Last(c)
  <2>1. MayCall(f, g) /\ f \in AnyFrame /\ FrameSound(f, Len(c))
    BY <1>2, StackPop
  <2>2. f.kind # "wait"
    BY <1>1, <2>1 DEF MayCall
  <2>3. ASSUME f.kind = "drain", NEW k \in f.of PROVE mem'[k] # "freed"
    <3>1. f.parent = NULL => f.of = {j}
      BY <1>3, <2>1, <2>3 DEF MayCall
    <3>2. k = j
      BY <2>1, <2>3, <3>1 DEF FrameSound
    <3>3. QED
      BY <1>3, <1>7, <1>8, <3>2
  <2>4. QED
    BY <2>2, <2>3 DEF Uses
<1>13. QED
  BY <1>2, <1>4, <1>9, <1>10, <1>11, <1>12 DEF DataInv

LEMMA HandleDelayedInv ==
  ASSUME DataInv, NEW j \in Job, HandleDelayed(j)
  PROVE  DataInv'
<1>1. DataTypes /\ StackSound(stack) /\ Uses(stack, mem) /\ \A k \in Job : JobSound(k)
  BY DEF DataInv
<1>2. Times("delayed", queue[j]) > 0 /\ queue[j] # <<>> /\ Head(queue[j]) = "delayed"
  BY HandlingFacts DEF HandleDelayed, Handling
<1>3. term[j] = "closing" /\ refcount[j] > 0 /\ JobSound(j) /\ refcount[j] \in Nat
  <2>1. JobSound(j) /\ refcount[j] \in Nat
    BY <1>1, TypesOfJob
  <2>2. QED
    BY <1>2, <2>1 DEF JobSound, JobIs, Sound, One, Held
<1>4. StackSound(stack') /\ stack' = stack
  BY <1>1 DEF HandleDelayed
<1>5. CASE PendingReqs(j) > 0
  <2> DEFINE q == Tail(queue[j])
             r == Append(q, "delayed")
  <2>1. /\ q \in Seq(Event)
        /\ \A x : /\ Times(x, q) \in Nat
                  /\ Times(x, queue[j]) = Times(x, q) + (IF "delayed" = x THEN 1 ELSE 0)
    <3>1. queue[j] \in Seq(Event)
      BY <1>1, EventCounts
    <3>2. q \in Seq(Event)
      BY <1>2, <3>1
    <3>3. ASSUME NEW x PROVE Times(x, q) \in Nat
      BY <3>2, TimesIsNumber
    <3>4. ASSUME NEW x PROVE Times(x, queue[j]) = Times(x, q) + (IF "delayed" = x THEN 1 ELSE 0)
      BY <1>2, <3>1, TimesTail DEF One
    <3>5. QED
      BY <3>2, <3>3, <3>4
  <2> HIDE DEF q
  <2>2. /\ r \in Seq(Event)
        /\ \A x : Times(x, r) = Times(x, q) + (IF "delayed" = x THEN 1 ELSE 0)
    <3>1. "delayed" \in Event
      BY DEF Event
    <3>2. r \in Seq(Event) /\ Grown(q, "delayed", r)
      BY <2>1, <3>1, AppendGrows
    <3> HIDE DEF r
    <3>3. ASSUME NEW x PROVE Times(x, r) = Times(x, q) + (IF "delayed" = x THEN 1 ELSE 0)
      BY <2>1, <3>2, TimesGrown DEF One
    <3>4. QED
      BY <3>2, <3>3
  <2>3. queue' = [queue EXCEPT ![j] = r] /\ UNCHANGED <<term, refcount, mem>>
    BY <1>5 DEF HandleDelayed, q
  <2> HIDE DEF r
  <2>4. queue'[j] = r /\ \A k \in Job : k # j => queue'[k] = queue[k]
    BY <1>1, <2>3 DEF DataTypes
  <2>5. DataTypes'
    BY <1>1, <2>2, <2>3 DEF DataTypes, HandleDelayed, procVars
  <2>6. JobSound(j)'
    <3>1. \A x : Times(x, queue'[j]) = Times(x, queue[j])
      BY <2>1, <2>2, <2>4
    <3>2. QED
      BY <1>3, <1>4, <2>3, <3>1 DEF JobSound, JobIs, Sound, HandleDelayed, procVars
  <2>7. \A k \in Job : k # j => JobSound(k)'
    BY <1>1, <1>4, <2>3, <2>4, JobKept DEF HandleDelayed, procVars
  <2>8. Uses(stack', mem')
    BY <1>1, <1>4, <2>3
  <2>9. QED
    BY <1>4, <2>5, <2>6, <2>7, <2>8 DEF DataInv
<1>6. CASE ~(PendingReqs(j) > 0)
  <2>1. /\ queue' \in [Job -> Seq(Event)] /\ (\A k \in Job : k # j => queue'[k] = queue[k])
        /\ \A x : /\ Times(x, queue'[j]) \in Nat
                  /\ Times(x, queue[j]) = Times(x, queue'[j]) + (IF "delayed" = x THEN 1 ELSE 0)
    BY <1>1, <1>2, <1>6, QueueTook DEF HandleDelayed
  <2>2. Decref(j) /\ term' = [term EXCEPT ![j] = "destroyed"]
    BY <1>6 DEF HandleDelayed
  <2>3. /\ refcount' \in [Job -> 0 .. 2] /\ mem' \in [Job -> {"none", "live", "freeing", "freed"}]
        /\ refcount'[j] = refcount[j] - 1
        /\ mem'[j] = IF refcount[j] = 1 THEN "freeing" ELSE mem[j]
        /\ \A k \in Job : k # j => refcount'[k] = refcount[k] /\ mem'[k] = mem[k]
        /\ \A k \in Job : mem'[k] = "freed" => mem[k] = "freed"
    BY <1>1, <1>3, <2>2, DecrefFacts
  <2>4. DataTypes'
    BY <1>1, <2>1, <2>2, <2>3 DEF DataTypes, HandleDelayed, procVars
  <2>5. JobSound(j)'
    <3>1. /\ Times("out", queue[j]) = Times("out", queue'[j])
          /\ Times("close", queue[j]) = Times("close", queue'[j])
          /\ Times("delayed", queue[j]) = Times("delayed", queue'[j]) + 1 /\ Times("delayed", queue'[j]) \in Nat
          /\ Times("exit", queue[j]) = Times("exit", queue'[j])
      <4>1. \A x : x # "delayed" => Times(x, queue[j]) = Times(x, queue'[j])
        BY <2>1
      <4>2. QED
        BY <2>1, <4>1
    <3>2. term'[j] = "destroyed"
      BY <1>1, <2>2 DEF DataTypes
    <3>3. QED
      BY <1>3, <1>4, <2>3, <3>1, <3>2 DEF JobSound, JobIs, Sound, One, Held, HandleDelayed, procVars
  <2>6. \A k \in Job : k # j => JobSound(k)'
    BY <1>1, <1>4, <2>1, <2>2, <2>3, JobKept DEF HandleDelayed, procVars, DataTypes
  <2>7. Uses(stack', mem')
    <3> SUFFICES ASSUME stack # <<>>
                 PROVE  /\ Last(stack).kind = "drain" => \A k \in Last(stack).of : mem'[k] # "freed"
                        /\ Last(stack).kind # "wait"
      BY <1>4 DEF Uses
    <3>1. /\ Last(stack).kind = "drain" /\ Last(stack) \in AnyFrame
      BY <1>1, StackPop DEF HandleDelayed, Handling, TopIs, Top
    <3>2. Last(stack).of \in SUBSET Job
      BY <3>1, FrameKinds
    <3>3. QED
      BY <1>1, <2>3, <3>1, <3>2 DEF Uses
  <2>8. QED
    BY <1>4, <2>4, <2>5, <2>6, <2>7 DEF DataInv
<1>7. QED
  BY <1>5, <1>6

-----------------------------------------------------------------------------
(***************************************************************************)
(* The steps of jobwait()                                                  *)
(***************************************************************************)

\* The calls of jobwait() under way, as the code and as the argument name them.
LEMMA WaitsAreRunning ==
  ASSUME StackSound(stack)
  PROVE  RunningWaits = WaitsOf(stack)
<1>1. stack \in Seq(AnyFrame) /\ DOMAIN stack = 1 .. Len(stack)
  BY DEF StackSound
<1>2. ASSUME NEW k \in DOMAIN stack, stack[k].kind = "wait" PROVE stack[k].w = k
  BY <1>1, <1>2 DEF StackSound, FrameSound, WaitSound
<1>3. RunningWaits = {stack[k].w : k \in WaitsOf(stack)}
  BY DEF RunningWaits, Frames, Range, WaitsOf
<1>4. QED
  BY <1>2, <1>3 DEF WaitsOf

LEMMA JobWaitInv ==
  ASSUME DataInv, NEW ids \in Lists, NEW timed \in BOOLEAN, JobWait(ids, timed)
  PROVE  DataInv'
<1> DEFINE g == [kind |-> "wait", w |-> Len(stack) + 1, ids |-> ids, timed |-> timed,
                 pc |-> IF ids = <<>> THEN "return" ELSE "enter", i |-> 1, res |-> <<>>, broke |-> "no"]
<1>1. DataTypes /\ StackSound(stack) /\ Len(stack) \in Nat /\ MaxDepth \in Nat /\ Len(stack) < MaxDepth
  BY JobsAssumption DEF DataInv, StackSound, JobWait
<1>2. ids \in Seq(Job) /\ Len(ids) \in Nat
  BY JobsAssumption
<1>3. /\ g \in WaitFrame /\ g.kind = "wait" /\ g.w = Len(stack) + 1 /\ g.ids = ids /\ g.i = 1
      /\ g.pc = (IF ids = <<>> THEN "return" ELSE "enter") /\ Len(g.res) = 0
  BY <1>1, <1>2 DEF WaitFrame, Ways, Pcs
<1>4. WaitSound(g, Len(stack) + 1)
  <2> HIDE DEF g
  <2>1. CASE ids = <<>>
    BY <1>1, <1>2, <1>3, <2>1 DEF WaitSound
  <2>2. CASE ids # <<>>
    BY <1>1, <1>2, <1>3, <2>2 DEF WaitSound
  <2>3. QED
    BY <2>1, <2>2
<1>5. stack' = Pushed(stack, g)
  BY DEF JobWait, Push, Pushed
<1> HIDE DEF g
<1>6. stack # <<>> => MayCall(Last(stack), g)
  BY DEF MayCall, JobWait, UserTurn, TopIs, Top
<1>7. Cardinality(WaitsOf(stack)) < MaxWaits
  BY <1>1, WaitsAreRunning DEF JobWait
<1>8. g \in AnyFrame /\ FrameSound(g, Len(stack) + 1)
  BY <1>3, <1>4 DEF AnyFrame, FrameSound
<1>9. StackSound(stack') /\ Grown(stack, g, stack') /\ Last(stack') = g
  BY <1>1, <1>5, <1>6, <1>7, <1>8, StackPush
<1>10. Quiet(g)
  BY <1>3 DEF Quiet, Waiting
<1>11. SameCalls(stack, stack')
  BY <1>1, <1>8, <1>9, <1>10, CallsSame DEF StackSound
<1>12. \A k \in Job : JobSound(k)'
  BY <1>11, JobsKept DEF JobWait, dataVars, procVars
<1>13. Uses(stack', mem')
  BY <1>3, <1>9 DEF Uses
<1>14. DataTypes'
  BY <1>1 DEF DataTypes, JobWait, dataVars, procVars
<1>15. QED
  BY <1>9, <1>12, <1>13, <1>14 DEF DataInv

\* The innermost call is one of jobwait().
LEMMA TopWaitFacts ==
  ASSUME DataInv, TopIs("wait")
  PROVE  /\ stack # <<>> /\ Top = Last(stack) /\ Top \in WaitFrame /\ Top.kind = "wait"
         /\ WaitSound(Top, Len(stack)) /\ StackSound(stack) /\ Len(stack) \in Nat \ {0}
         /\ Len(stack) <= MaxDepth /\ MaxDepth \in Nat
         /\ Top.ids \in Seq(Job) /\ Top.res \in Seq(Status) /\ Top.i \in Nat \ {0} /\ Top.pc \in Pcs
         /\ Len(Top.ids) \in Nat /\ Len(Top.res) \in Nat
         /\ Top.pc # "return" => Top.i <= Len(Top.ids) /\ ThisJob \in Job
<1>1. stack # <<>> /\ Top = Last(stack) /\ Top.kind = "wait" /\ StackSound(stack)
  BY DEF DataInv, TopIs, Top
<1>2. Len(stack) \in Nat \ {0} /\ Top \in AnyFrame /\ FrameSound(Top, Len(stack))
  BY <1>1, StackPop
<1>3. Top \in WaitFrame /\ WaitSound(Top, Len(stack))
  BY <1>1, <1>2, FrameKinds DEF FrameSound
<1>4. Top.ids \in Seq(Job) /\ Top.res \in Seq(Status) /\ Top.i \in Nat \ {0} /\ Top.pc \in Pcs
  BY <1>3 DEF WaitFrame
<1>5. Len(Top.ids) \in Nat /\ Len(Top.res) \in Nat
  BY <1>4
<1>6. Len(stack) <= MaxDepth /\ (Top.pc # "return" => Top.i <= Len(Top.ids))
  BY <1>3 DEF WaitSound
<1>7. Top.i <= Len(Top.ids) => ThisJob \in Job
  BY <1>4, <1>5 DEF ThisJob
<1>8. QED
  BY <1>1, <1>2, <1>3, <1>4, <1>5, <1>6, <1>7, JobsAssumption

LEMMA TopBecomes ==
  ASSUME DataInv, TopIs("wait"), NEW g \in WaitFrame, WaitSound(g, Len(stack)),
         g.pc \notin {"entering", "restoring"}, Becomes(g)
  PROVE  /\ StackSound(stack') /\ \A m : Uses(stack', m)
         /\ \A k \in Job :
              /\ Outs(k, stack') = Outs(k, stack) /\ Lasts(k, stack') = Lasts(k, stack)
              /\ Waits(k, stack) \in Nat /\ Waits(k, stack') \in Nat
              /\ Waits(k, stack') = Waits(k, stack) - One(WaitsFor(Top, k)) + One(WaitsFor(g, k))
         /\ (\A k \in Job : WaitsFor(Top, k) <=> WaitsFor(g, k)) => SameCalls(stack, stack')
<1>1. stack # <<>> /\ Top = Last(stack) /\ Top.kind = "wait" /\ StackSound(stack)
  BY TopWaitFacts
<1>2. stack' = Became(stack, g)
  BY DEF Becomes, Became, Callers
<1>3. /\ StackSound(stack') /\ Last(stack') = g
      /\ \A k \in Job :
              /\ Outs(k, stack') = Outs(k, stack) /\ Lasts(k, stack') = Lasts(k, stack)
              /\ Waits(k, stack) \in Nat /\ Waits(k, stack') \in Nat
              /\ Waits(k, stack') = Waits(k, stack) - One(WaitsFor(Top, k)) + One(WaitsFor(g, k))
  BY <1>1, <1>2, StackBecomes
<1>4. g.kind = "wait"
  BY DEF WaitFrame
<1>5. \A m : Uses(stack', m)
  BY <1>3, <1>4 DEF Uses
<1>6. (\A k \in Job : WaitsFor(Top, k) <=> WaitsFor(g, k)) => SameCalls(stack, stack')
  BY <1>3 DEF SameCalls, One
<1>7. QED
  BY <1>3, <1>5, <1>6

LEMMA TopCalls ==
  ASSUME DataInv, TopIs("wait"), NEW f \in WaitFrame, WaitSound(f, Len(stack)),
         NEW g \in AnyFrame, g.kind = "drain", MayCall(f, g),
         IF g.parent = NULL THEN \E j \in Job : g.of = {j} ELSE g.of = {}, Calls(f, g)
  PROVE  /\ StackSound(stack')
         /\ \A m : (\A j \in g.of : m[j] # "freed") => Uses(stack', m)
         /\ \A k \in Job :
              /\ Outs(k, stack') = Outs(k, stack) /\ Lasts(k, stack') = Lasts(k, stack)
              /\ Waits(k, stack) \in Nat /\ Waits(k, stack') \in Nat
              /\ Waits(k, stack') = Waits(k, stack) - One(WaitsFor(Top, k)) + One(WaitsFor(f, k))
         /\ (\A k \in Job : WaitsFor(Top, k) <=> WaitsFor(f, k)) => SameCalls(stack, stack')
<1>1. /\ stack # <<>> /\ Top = Last(stack) /\ Top.kind = "wait" /\ StackSound(stack)
      /\ Len(stack) \in Nat /\ Len(stack) <= MaxDepth /\ MaxDepth \in Nat
  BY TopWaitFacts
<1>2. stack' = Pushed(Became(stack, f), g)
  BY DEF Calls, Became, Pushed, Callers
<1>3. FrameSound(g, Len(stack) + 1)
  BY <1>1 DEF FrameSound
<1>4. /\ StackSound(stack') /\ Last(stack') = g
      /\ \A k \in Job :
              /\ Outs(k, stack') = Outs(k, stack) /\ Lasts(k, stack') = Lasts(k, stack)
              /\ Waits(k, stack) \in Nat /\ Waits(k, stack') \in Nat
              /\ Waits(k, stack') = Waits(k, stack) - One(WaitsFor(Top, k)) + One(WaitsFor(f, k))
  BY <1>1, <1>2, <1>3, StackCalls
<1>5. \A m : (\A j \in g.of : m[j] # "freed") => Uses(stack', m)
  BY <1>4 DEF Uses
<1>6. (\A k \in Job : WaitsFor(Top, k) <=> WaitsFor(f, k)) => SameCalls(stack, stack')
  BY <1>4 DEF SameCalls, One
<1>7. QED
  BY <1>4, <1>5, <1>6

\* A frame of jobwait() with some fields changed.
LEMMA FieldFacts ==
  ASSUME NEW f \in WaitFrame, NEW pc \in Pcs, NEW i \in Nat \ {0}, NEW res \in Seq(Status),
         NEW broke \in Ways
  PROVE  /\ LET g == [f EXCEPT !.pc = pc] IN
              g \in WaitFrame /\ g.pc = pc /\ g.w = f.w /\ g.ids = f.ids /\ g.i = f.i /\ g.res = f.res
         /\ LET g == [f EXCEPT !.i = i] IN
              g \in WaitFrame /\ g.pc = f.pc /\ g.w = f.w /\ g.ids = f.ids /\ g.i = i /\ g.res = f.res
         /\ LET g == [f EXCEPT !.res = res] IN
              g \in WaitFrame /\ g.pc = f.pc /\ g.w = f.w /\ g.ids = f.ids /\ g.i = f.i /\ g.res = res
         /\ LET g == [f EXCEPT !.broke = broke] IN
              g \in WaitFrame /\ g.pc = f.pc /\ g.w = f.w /\ g.ids = f.ids /\ g.i = f.i /\ g.res = f.res
BY DEF WaitFrame

\* The next job of a list.
LEMMA StepFacts ==
  ASSUME NEW f \in WaitFrame, f.i <= Len(f.ids), NEW pc \in Pcs, NEW next \in Pcs
  PROVE  /\ Step(f, pc, next) \in WaitFrame
         /\ Step(f, pc, next).w = f.w /\ Step(f, pc, next).ids = f.ids
         /\ Step(f, pc, next).res = f.res /\ Step(f, pc, next).broke = f.broke
         /\ Len(f.ids) \in Nat
         /\ \/ /\ f.i < Len(f.ids) /\ Step(f, pc, next).pc = pc
               /\ Step(f, pc, next).i = f.i + 1
            \/ /\ f.i = Len(f.ids) /\ Step(f, pc, next).pc = next
               /\ Step(f, pc, next).i = 1
<1>1. f.ids \in Seq(Job) /\ f.i \in Nat \ {0} /\ Len(f.ids) \in Nat /\ f.i + 1 \in Nat \ {0}
  BY DEF WaitFrame
<1>2. CASE f.i < Len(f.ids)
  <2>1. Step(f, pc, next) = [f EXCEPT !.pc = pc, !.i = f.i + 1]
    BY <1>2 DEF Step
  <2>2. QED
    BY <1>1, <1>2, <2>1 DEF WaitFrame
<1>3. CASE ~(f.i < Len(f.ids))
  <2>1. Step(f, pc, next) = [f EXCEPT !.pc = next, !.i = 1]
    BY <1>3 DEF Step
  <2>2. f.i = Len(f.ids)
    BY <1>1, <1>3
  <2>3. 1 \in Nat \ {0}
    OBVIOUS
  <2>4. QED
    BY <1>1, <2>1, <2>2, <2>3 DEF WaitFrame
<1>4. QED
  BY <1>2, <1>3

LEMMA StepSound ==
  ASSUME NEW f \in WaitFrame, f.i <= Len(f.ids), f.w <= MaxDepth,
         NEW pc \in {"enter", "loop", "restore"}, NEW next \in {"loop", "clear", "return"},
         Len(f.res) = IF pc = "enter" THEN f.i ELSE Len(f.ids)
  PROVE  /\ Step(f, pc, next) \in WaitFrame /\ WaitSound(Step(f, pc, next), f.w)
         /\ Step(f, pc, next).pc \in {pc, next}
<1> DEFINE g == Step(f, pc, next)
<1>1. pc \in Pcs /\ next \in Pcs
  BY DEF Pcs
<1>2. /\ g \in WaitFrame /\ g.w = f.w /\ g.ids = f.ids /\ g.res = f.res /\ Len(f.ids) \in Nat
      /\ \/ f.i < Len(f.ids) /\ g.pc = pc /\ g.i = f.i + 1
         \/ f.i = Len(f.ids) /\ g.pc = next /\ g.i = 1
  BY <1>1, StepFacts
<1>3. f.i \in Nat \ {0}
  BY DEF WaitFrame
<1> HIDE DEF g
<1>4. WaitSound(g, f.w) /\ g.pc \in {pc, next}
  BY <1>2, <1>3 DEF WaitSound
<1>5. QED
  BY <1>2, <1>4 DEF g

\* A step of jobwait() outside process_wait, that leaves the jobs alone.
LEMMA QuietInv ==
  ASSUME DataInv, TopIs("wait"), Top.pc \notin Waiting,
         NEW g \in WaitFrame, WaitSound(g, Len(stack)),
         g.pc \notin Waiting, g.pc \notin {"entering", "restoring"}, Becomes(g),
         UNCHANGED <<terminals, mem, jobs, refcount, term, queue, phase, waiters>>, DataTypes'
  PROVE  DataInv'
<1>1. \A k \in Job : WaitsFor(Top, k) <=> WaitsFor(g, k)
  BY DEF WaitsFor
<1>2. StackSound(stack') /\ SameCalls(stack, stack') /\ Uses(stack', mem')
  BY <1>1, TopBecomes
<1>3. \A k \in Job : JobSound(k)'
  BY <1>2, JobsKept
<1>4. QED
  BY <1>2, <1>3 DEF DataInv

LEMMA QuietCallsInv ==
  ASSUME DataInv, TopIs("wait"), Top.pc \notin Waiting,
         NEW f \in WaitFrame, WaitSound(f, Len(stack)), f.pc \notin Waiting,
         NEW g \in AnyFrame, g.kind = "drain", MayCall(f, g),
         IF g.parent = NULL THEN \E j \in Job : g.of = {j} ELSE g.of = {}, Calls(f, g),
         \A j \in g.of : mem'[j] # "freed",
         \A k \in Job : (mem'[k] = "live" <=> mem[k] = "live") /\ (mem'[k] = "none" <=> mem[k] = "none"),
         UNCHANGED <<terminals, jobs, refcount, term, queue, phase, waiters>>, DataTypes'
  PROVE  DataInv'
<1>1. \A k \in Job : WaitsFor(Top, k) <=> WaitsFor(f, k)
  BY DEF WaitsFor
<1>2. StackSound(stack') /\ SameCalls(stack, stack') /\ Uses(stack', mem')
  BY <1>1, TopCalls
<1>3. \A k \in Job : JobSound(k)'
  BY <1>2, JobsKept
<1>4. QED
  BY <1>2, <1>3 DEF DataInv

LEMMA InTheMap ==
  ASSUME DataInv, NEW j \in jobs
  PROVE  j \in Job /\ mem[j] = "live" /\ refcount[j] > 0
<1>1. j \in Job /\ DataTypes
  BY DEF DataInv, DataTypes
<1>2. JobSound(j) /\ refcount[j] \in Nat
  BY <1>1, TypesOfJob DEF DataInv
<1>3. QED
  BY <1>1, <1>2 DEF JobSound, JobIs, Sound, One

LEMMA EnterInv ==
  ASSUME DataInv, Enter
  PROVE  DataInv'
<1> DEFINE j == ThisJob
<1>1. TopIs("wait") /\ Top.pc = "enter" /\ Top.pc \notin Waiting /\ Top.pc # "return"
  BY DEF Enter, TopWait, Waiting
<1>2. /\ Top \in WaitFrame /\ WaitSound(Top, Len(stack)) /\ Top.i <= Len(Top.ids) /\ j \in Job
      /\ Top.ids \in Seq(Job) /\ Top.res \in Seq(Status) /\ Top.i \in Nat \ {0}
      /\ Len(Top.ids) \in Nat /\ Len(Top.res) \in Nat /\ Len(stack) <= MaxDepth
      /\ Top.w = Len(stack) /\ Len(Top.res) = Top.i - 1
  BY <1>1, TopWaitFacts DEF WaitSound
<1>3. DataTypes
  BY DEF DataInv
<1>4. CASE FindJob(j)
  <2> DEFINE r == Append(Top.res, "-1")
             f == [Goto("entering") EXCEPT !.res = r]
             g == DrainJob(j)
  <2>1. r \in Seq(Status) /\ Len(r) = Top.i
    BY <1>2 DEF Status
  <2>2. statusPtr' = [statusPtr EXCEPT ![j] = [w |-> Top.w, i |-> Top.i]] /\ Calls(f, g)
    <3>1. [Goto("entering") EXCEPT !.res = Append(@, "-1")] = f
      BY <1>2 DEF Goto, WaitFrame
    <3>2. QED
      BY <1>4, <3>1 DEF Enter
  <2> HIDE DEF r
  <2>3. f \in WaitFrame /\ f.pc = "entering" /\ f.w = Top.w /\ f.ids = Top.ids /\ f.i = Top.i /\ f.res = r
    <3> DEFINE h == [Top EXCEPT !.pc = "entering"]
    <3>1. "entering" \in Pcs
      BY DEF Pcs
    <3>2. h \in WaitFrame /\ h.pc = "entering" /\ h.w = Top.w /\ h.ids = Top.ids /\ h.i = Top.i
      BY <1>2, <3>1 DEF WaitFrame
    <3>3. f = [h EXCEPT !.res = r]
      BY DEF Goto
    <3> HIDE DEF h, f
    <3>4. QED
      BY <2>1, <3>2, <3>3 DEF WaitFrame
  <2>4. WaitSound(f, Len(stack)) /\ f.pc \notin Waiting
    BY <1>2, <2>1, <2>3 DEF WaitSound, Waiting
  <2>5. g \in AnyFrame /\ g.kind = "drain" /\ g.of = {j} /\ g.parent = NULL
    BY <1>2, DrainFacts
  <2>6. MayCall(f, g)
    BY <2>3, <2>5 DEF MayCall, WaitFrame, ThisJob
  <2>7. mem' = mem /\ mem[j] = "live"
    BY <1>4, InTheMap DEF FindJob, Enter
  <2>8. DataTypes'
    <3>1. [w |-> Top.w, i |-> Top.i] \in [w : Nat, i : Nat]
      BY <1>2 DEF WaitFrame
    <3>2. QED
      BY <1>2, <1>3, <2>2, <3>1 DEF DataTypes, Enter, procVars
  <2> HIDE DEF f, g, j
  <2>9. QED
    BY <1>1, <1>2, <2>2, <2>3, <2>4, <2>5, <2>6, <2>7, <2>8, QuietCallsInv DEF Enter, procVars
<1>5. CASE ~FindJob(j)
  <2> DEFINE r == Append(Top.res, "-3")
             f == [Top EXCEPT !.res = r]
             g == Step(f, "enter", "loop")
  <2>1. r \in Seq(Status) /\ Len(r) = Top.i
    BY <1>2 DEF Status
  <2>2. Becomes(g) /\ statusPtr' = statusPtr
    <3>1. [Top EXCEPT !.res = Append(@, "-3")] = f
      BY <1>2 DEF WaitFrame
    <3>2. QED
      BY <1>5, <3>1 DEF Enter
  <2> HIDE DEF r
  <2>3. f \in WaitFrame /\ f.w = Top.w /\ f.ids = Top.ids /\ f.i = Top.i /\ f.res = r
    BY <1>2, <2>1 DEF WaitFrame
  <2> HIDE DEF f
  <2>4. g \in WaitFrame /\ WaitSound(g, Len(stack)) /\ g.pc \in {"enter", "loop"}
    BY <1>2, <2>1, <2>3, StepSound
  <2>5. DataTypes'
    BY <1>3, <2>2 DEF DataTypes, Enter, procVars
  <2> HIDE DEF g, j
  <2>6. QED
    BY <1>1, <2>2, <2>4, <2>5, QuietInv DEF Enter, procVars, Waiting
<1>6. QED
  BY <1>4, <1>5

LEMMA EnteredInv ==
  ASSUME DataInv, Entered
  PROVE  DataInv'
<1> DEFINE g == Step(Top, "enter", "loop")
<1>1. TopIs("wait") /\ Top.pc = "entering" /\ Top.pc \notin Waiting
  BY DEF Entered, TopWait, Waiting
<1>2. /\ Top \in WaitFrame /\ Top.i <= Len(Top.ids) /\ ThisJob \in Job
      /\ Top.w = Len(stack) /\ Len(Top.res) = Top.i /\ Len(stack) \in 0 .. MaxDepth
  BY <1>1, TopWaitFacts DEF WaitSound
<1>3. g \in WaitFrame /\ WaitSound(g, Len(stack)) /\ g.pc \in {"enter", "loop"}
  BY <1>2, StepSound
<1>4. DataTypes'
  BY <1>2 DEF DataInv, DataTypes, Entered, dataVars, procVars
<1>5. Becomes(g)
  BY DEF Entered
<1> HIDE DEF g
<1>6. QED
  BY <1>1, <1>3, <1>4, <1>5, QuietInv DEF Entered, dataVars, procVars, Waiting

LEMMA TimedOutAtOnceInv ==
  ASSUME DataInv, TimedOutAtOnce
  PROVE  DataInv'
<1> DEFINE g == [Goto("clear") EXCEPT !.broke = "timeout"]
<1>1. TopIs("wait") /\ Top.pc = "loop" /\ Top.pc \notin Waiting
  BY DEF TimedOutAtOnce, TopWait, Waiting
<1>2. Top \in WaitFrame /\ WaitSound(Top, Len(stack))
  BY <1>1, TopWaitFacts
<1>3. g \in WaitFrame /\ g.pc = "clear" /\ WaitSound(g, Len(stack))
  BY <1>1, <1>2 DEF WaitFrame, Ways, Pcs, Goto, WaitSound
<1>4. DataTypes'
  BY DEF DataInv, DataTypes, TimedOutAtOnce, dataVars, procVars
<1>5. Becomes(g)
  BY DEF TimedOutAtOnce
<1> HIDE DEF g
<1>6. QED
  BY <1>1, <1>3, <1>4, <1>5, QuietInv DEF TimedOutAtOnce, dataVars, procVars, Waiting

LEMMA SkipInv ==
  ASSUME DataInv, Skip
  PROVE  DataInv'
<1> DEFINE g == Step(Top, "loop", "clear")
<1>1. TopIs("wait") /\ Top.pc = "loop" /\ Top.pc \notin Waiting
  BY DEF Skip, TopWait, Waiting
<1>2. /\ Top \in WaitFrame /\ Top.i <= Len(Top.ids) /\ Top.w <= MaxDepth
      /\ Top.w = Len(stack) /\ Len(Top.res) = Len(Top.ids)
  BY <1>1, TopWaitFacts DEF WaitSound
<1>3. g \in WaitFrame /\ WaitSound(g, Len(stack)) /\ g.pc \in {"loop", "clear"}
  BY <1>2, StepSound
<1>4. DataTypes'
  BY DEF DataInv, DataTypes, Skip, dataVars, procVars
<1>5. Becomes(g)
  BY DEF Skip
<1> HIDE DEF g
<1>6. QED
  BY <1>1, <1>3, <1>4, <1>5, QuietInv DEF Skip, dataVars, procVars, Waiting

\* A frame at another pc.
LEMMA GotoFacts ==
  ASSUME DataInv, TopIs("wait"), NEW pc \in Pcs
  PROVE  /\ Goto(pc) \in WaitFrame /\ Goto(pc).pc = pc /\ Goto(pc).kind = "wait"
         /\ Goto(pc).w = Top.w /\ Goto(pc).ids = Top.ids /\ Goto(pc).i = Top.i /\ Goto(pc).res = Top.res
<1>1. Top \in WaitFrame
  BY TopWaitFacts
<1>2. QED
  BY <1>1 DEF Goto, WaitFrame

\* In process_wait, of the job of the frame.
LEMMA WaitingFacts ==
  ASSUME DataInv, TopIs("wait"), Top.pc \in Waiting
  PROVE  /\ Top \in WaitFrame /\ ThisJob \in Job /\ Len(Top.res) = Len(Top.ids) /\ Top.i <= Len(Top.ids)
         /\ Top.w = Len(stack) /\ Len(stack) <= MaxDepth
         /\ \A k \in Job : WaitsFor(Top, k) <=> k = ThisJob
         /\ waiters[ThisJob] > 0 /\ waiters[ThisJob] \in Nat /\ ThisJob \in jobs
<1> DEFINE j == ThisJob
           c == Front(stack)
<1>1. /\ stack # <<>> /\ Top = Last(stack) /\ Top \in WaitFrame /\ Top.kind = "wait" /\ StackSound(stack)
      /\ j \in Job /\ Top.i <= Len(Top.ids) /\ Len(Top.res) = Len(Top.ids) /\ Top.w = Len(stack)
      /\ Len(stack) <= MaxDepth
  BY TopWaitFacts DEF WaitSound, Waiting
<1>2. \A k \in Job : WaitsFor(Top, k) <=> k = j
  BY <1>1 DEF WaitsFor, ThisJob
<1>3. /\ Grown(c, Top, stack) /\ c \in Seq(AnyFrame) /\ stack \in Seq(AnyFrame) /\ Top \in AnyFrame
  BY <1>1, StackPop DEF StackSound
<1>4. Waits(j, c) \in Nat /\ Waits(j, stack) = Waits(j, c) + One(WaitsFor(Top, j))
  BY <1>1, <1>3, CallsGrown
<1>5. Waits(j, stack) > 0
  BY <1>1, <1>2, <1>4 DEF One
<1>6. JobSound(j) /\ waiters[j] \in Nat
  BY <1>1, TypesOfJob DEF DataInv
<1>7. QED
  BY <1>1, <1>2, <1>5, <1>6 DEF JobSound, JobIs, Sound

LEMMA WaitBeginInv ==
  ASSUME DataInv, WaitBegin
  PROVE  DataInv'
<1>1. TopIs("wait") /\ Top.pc = "loop" /\ Top.pc \notin Waiting /\ FindJob(ThisJob)
  BY DEF WaitBegin, TopWait, Waiting
<1>2. /\ Top \in WaitFrame /\ WaitSound(Top, Len(stack)) /\ Top.i <= Len(Top.ids) /\ ThisJob \in Job
      /\ Top.w = Len(stack) /\ Len(Top.res) = Len(Top.ids) /\ Top.w <= MaxDepth
  BY <1>1, TopWaitFacts DEF WaitSound
<1>3. DataTypes /\ (\A k \in Job : JobSound(k)) /\ mem[ThisJob] = "live"
  BY <1>1, InTheMap DEF DataInv, FindJob
<1>4. CASE ProcRefcount(ThisJob) = 0
  <2> DEFINE f == Step(Top, "loop", "clear")
             g == DrainJob(ThisJob)
  <2>1. /\ Calls(f, g) /\ waiters' = waiters
        /\ IF queue[ThisJob] = <<>> THEN FastEvents ELSE UNCHANGED mem
    BY <1>4 DEF WaitBegin
  <2>2. f \in WaitFrame /\ WaitSound(f, Len(stack)) /\ f.pc \in {"loop", "clear"}
    BY <1>2, StepSound
  <2>3. g \in AnyFrame /\ g.kind = "drain" /\ g.of = {ThisJob} /\ g.parent = NULL
    BY <1>2, DrainFacts
  <2>4. /\ mem' \in [Job -> {"none", "live", "freeing", "freed"}]
        /\ \A k \in Job : (mem'[k] = "live" <=> mem[k] = "live") /\ (mem'[k] = "none" <=> mem[k] = "none")
    BY <1>3, <2>1, FastFacts DEF DataTypes
  <2>5. DataTypes'
    BY <1>3, <2>1, <2>4 DEF DataTypes, WaitBegin
  <2> HIDE DEF f, g
  <2>6. MayCall(f, g) /\ f.pc \notin Waiting
    BY <2>2, <2>3 DEF MayCall, WaitFrame, Waiting
  <2>7. \A j \in g.of : mem'[j] # "freed"
    BY <1>2, <1>3, <2>3, <2>4
  <2>8. \E j \in Job : g.of = {j}
    BY <1>2, <2>3
  <2>9. UNCHANGED <<terminals, jobs, refcount, term, queue, phase, waiters>>
    BY <2>1 DEF WaitBegin
  <2>10. QED
    BY <1>1, <2>1, <2>2, <2>3, <2>4, <2>5, <2>6, <2>7, <2>8, <2>9, QuietCallsInv
<1>5. CASE ProcRefcount(ThisJob) # 0
  <2> DEFINE g == Goto("waiting")
  <2>0. PICK j \in Job : j = ThisJob
    BY <1>2
  <2>1. Becomes(g) /\ waiters' = [waiters EXCEPT ![j] = @ + 1] /\ mem' = mem
    BY <1>5, <2>0 DEF WaitBegin
  <2>2. g \in WaitFrame /\ g.pc = "waiting" /\ WaitSound(g, Len(stack)) /\ g.kind = "wait"
        /\ \A k \in Job : WaitsFor(g, k) <=> k = j
    <3>1. "waiting" \in Pcs
      BY DEF Pcs, Waiting
    <3>2. /\ g \in WaitFrame /\ g.pc = "waiting" /\ g.kind = "wait"
          /\ g.w = Top.w /\ g.ids = Top.ids /\ g.i = Top.i /\ g.res = Top.res
      BY <1>1, <3>1, GotoFacts
    <3> HIDE DEF g
    <3>3. QED
      BY <1>2, <2>0, <3>2 DEF WaitSound, WaitsFor, ThisJob, Waiting
  <2> HIDE DEF g
  <2>3. /\ StackSound(stack') /\ Uses(stack', mem')
        /\ \A k \in Job :
              /\ Outs(k, stack') = Outs(k, stack) /\ Lasts(k, stack') = Lasts(k, stack)
              /\ Waits(k, stack) \in Nat /\ Waits(k, stack') \in Nat
              /\ Waits(k, stack') = Waits(k, stack) - One(WaitsFor(Top, k)) + One(WaitsFor(g, k))
    BY <1>1, <2>1, <2>2, TopBecomes
  <2>4. \A k \in Job : Waits(k, stack') = Waits(k, stack) + (IF k = j THEN 1 ELSE 0)
    BY <1>1, <2>2, <2>3 DEF One, WaitsFor
  <2>5. waiters[j] \in Nat /\ ProcRefcount(j) # 0
    BY <1>3, <1>5, <2>0, TypesOfJob
  <2>6. DataTypes'
    <3>1. waiters' \in [Job -> Nat]
      BY <1>3, <2>1, <2>5 DEF DataTypes
    <3>2. QED
      BY <1>3, <2>1, <3>1 DEF DataTypes, WaitBegin
  <2>7. JobSound(j)'
    <3>1. JobSound(j) /\ waiters'[j] = waiters[j] + 1 /\ Waits(j, stack') = Waits(j, stack) + 1
      BY <1>3, <2>1, <2>4 DEF DataTypes
    <3>2. j \in jobs /\ ~(phase[j] = "gone" /\ waiters[j] = 0)
      BY <1>1, <2>0, <2>5 DEF FindJob, ProcRefcount
    <3>3. phase[j] # "none"
      BY <3>1, <3>2 DEF JobSound, JobIs, Sound
    <3>4. QED
      BY <2>1, <2>3, <2>5, <3>1, <3>2, <3>3 DEF JobSound, JobIs, Sound, One, WaitBegin
  <2>8. ASSUME NEW k \in Job, k # j PROVE JobSound(k)'
    <3>1. JobSound(k) /\ waiters'[k] = waiters[k]
      BY <1>3, <2>1, <2>8 DEF DataTypes
    <3>2. Waits(k, stack') = Waits(k, stack) + 0
      BY <2>4, <2>8
    <3>3. /\ Outs(k, stack') = Outs(k, stack) /\ Lasts(k, stack') = Lasts(k, stack)
          /\ Waits(k, stack') = Waits(k, stack)
      BY <2>3, <3>2
    <3>4. QED
      BY <1>3, <2>1, <3>1, <3>3, JobKept DEF WaitBegin
  <2>9. QED
    BY <2>3, <2>6, <2>7, <2>8 DEF DataInv
<1>6. QED
  BY <1>4, <1>5

LEMMA WaitDrainInv ==
  ASSUME DataInv, WaitDrain
  PROVE  DataInv'
<1> DEFINE pc == IF Top.pc = "polling" THEN "polled" ELSE Top.pc
           f == Goto(pc)
           g == DrainParent(Top.w)
<1>1. TopIs("wait") /\ Top.pc \in {"waiting", "stopping", "polling"} /\ Top.pc \in Waiting
  BY DEF WaitDrain, Waiting
<1>2. /\ Top \in WaitFrame /\ Len(Top.res) = Len(Top.ids) /\ Top.i <= Len(Top.ids)
      /\ Top.w = Len(stack) /\ Len(stack) <= MaxDepth /\ \A k \in Job : WaitsFor(Top, k) <=> k = ThisJob
  BY <1>1, WaitingFacts
<1>3. pc \in {"waiting", "stopping", "polled"} /\ pc \in Pcs /\ pc \in Waiting
  BY <1>1 DEF Pcs, Waiting
<1>4. Calls(f, g)
  BY DEF WaitDrain
<1> HIDE DEF pc
<1>5. /\ f \in WaitFrame /\ f.pc = pc /\ f.kind = "wait"
      /\ f.w = Top.w /\ f.ids = Top.ids /\ f.i = Top.i /\ f.res = Top.res
  BY <1>1, <1>3, GotoFacts
<1>6. g \in AnyFrame /\ g.kind = "drain" /\ g.of = {} /\ g.parent = Top.w /\ Top.w \in Nat
  BY <1>2, DrainFacts DEF WaitFrame
<1> HIDE DEF f, g
<1>7. WaitSound(f, Len(stack)) /\ \A k \in Job : WaitsFor(Top, k) <=> WaitsFor(f, k)
  BY <1>2, <1>3, <1>5 DEF WaitSound, WaitsFor, ThisJob
<1>8. MayCall(f, g)
  BY <1>3, <1>5, <1>6 DEF MayCall
<1>9. g.parent # NULL
  BY <1>6, JobsAssumption
<1>10. StackSound(stack') /\ SameCalls(stack, stack') /\ Uses(stack', mem')
  BY <1>1, <1>4, <1>5, <1>6, <1>7, <1>8, <1>9, TopCalls
<1>11. \A k \in Job : JobSound(k)'
  BY <1>10, JobsKept DEF WaitDrain, dataVars, procVars
<1>12. DataTypes'
  BY DEF DataInv, DataTypes, WaitDrain, dataVars, procVars
<1>13. QED
  BY <1>10, <1>11, <1>12 DEF DataInv

LEMMA WaitInterruptedInv ==
  ASSUME DataInv, WaitInterrupted
  PROVE  DataInv'
<1> DEFINE pc == IF Top.timed THEN "polling" ELSE "stopping"
           g == [Goto(pc) EXCEPT !.broke = "interrupted"]
<1>1. TopIs("wait") /\ Top.pc \in Waiting
  BY DEF WaitInterrupted, TopWait, Waiting
<1>2. /\ Top \in WaitFrame /\ Len(Top.res) = Len(Top.ids) /\ Top.i <= Len(Top.ids) /\ ThisJob \in Job
      /\ Top.w = Len(stack) /\ Len(stack) <= MaxDepth /\ \A k \in Job : WaitsFor(Top, k) <=> k = ThisJob
  BY <1>1, WaitingFacts
<1>3. pc \in {"polling", "stopping"} /\ pc \in Pcs /\ pc \in Waiting
  BY DEF Pcs, Waiting
<1>4. Becomes(g)
  BY DEF WaitInterrupted
<1> HIDE DEF pc
<1>5. /\ g \in WaitFrame /\ g.pc = pc /\ g.kind = "wait"
      /\ g.w = Top.w /\ g.ids = Top.ids /\ g.i = Top.i /\ g.res = Top.res
  <2> DEFINE h == Goto(pc)
  <2>1. /\ h \in WaitFrame /\ h.pc = pc /\ h.kind = "wait"
        /\ h.w = Top.w /\ h.ids = Top.ids /\ h.i = Top.i /\ h.res = Top.res
    BY <1>1, <1>3, GotoFacts
  <2>2. g = [h EXCEPT !.broke = "interrupted"]
    OBVIOUS
  <2> HIDE DEF h, g
  <2>3. QED
    BY <2>1, <2>2 DEF WaitFrame, Ways
<1> HIDE DEF g
<1>6. WaitSound(g, Len(stack)) /\ \A k \in Job : WaitsFor(Top, k) <=> WaitsFor(g, k)
  BY <1>2, <1>3, <1>5 DEF WaitSound, WaitsFor, ThisJob
<1>7. StackSound(stack') /\ SameCalls(stack, stack') /\ Uses(stack', mem')
  BY <1>1, <1>3, <1>4, <1>5, <1>6, TopBecomes
<1>8. \A k \in Job : JobSound(k)'
  BY <1>7, JobsKept DEF WaitInterrupted, dataVars
<1>9. DataTypes'
  BY <1>2 DEF DataInv, DataTypes, WaitInterrupted, dataVars
<1>10. QED
  BY <1>7, <1>8, <1>9 DEF DataInv

LEMMA WaitPolledInv ==
  ASSUME DataInv, WaitPolled
  PROVE  DataInv'
<1> DEFINE g == Goto("polled")
<1>1. TopIs("wait") /\ Top.pc \in Waiting /\ DataTypes
  BY DEF WaitPolled, TopWait, Waiting, DataInv
<1>2. /\ Top \in WaitFrame /\ Len(Top.res) = Len(Top.ids) /\ Top.i <= Len(Top.ids)
      /\ Top.w = Len(stack) /\ Len(stack) <= MaxDepth /\ \A k \in Job : WaitsFor(Top, k) <=> k = ThisJob
  BY <1>1, WaitingFacts
<1>3. "polled" \in Pcs /\ "polled" \in Waiting
  BY DEF Pcs, Waiting
<1>4. Becomes(g)
  BY DEF WaitPolled
<1>5. /\ g \in WaitFrame /\ g.pc = "polled" /\ g.kind = "wait"
      /\ g.w = Top.w /\ g.ids = Top.ids /\ g.i = Top.i /\ g.res = Top.res
  BY <1>1, <1>3, GotoFacts
<1> HIDE DEF g
<1>6. WaitSound(g, Len(stack)) /\ \A k \in Job : WaitsFor(Top, k) <=> WaitsFor(g, k)
  BY <1>2, <1>3, <1>5 DEF WaitSound, WaitsFor, ThisJob
<1>7. StackSound(stack') /\ SameCalls(stack, stack') /\ Uses(stack', mem')
  BY <1>1, <1>4, <1>5, <1>6, TopBecomes
<1>8. /\ mem' \in [Job -> {"none", "live", "freeing", "freed"}]
      /\ \A k \in Job : (mem'[k] = "live" <=> mem[k] = "live") /\ (mem'[k] = "none" <=> mem[k] = "none")
  BY <1>1, FastFacts DEF WaitPolled
<1>9. \A k \in Job : JobSound(k)'
  BY <1>7, <1>8, JobsKept DEF WaitPolled, procVars
<1>10. DataTypes'
  BY <1>1, <1>8 DEF DataTypes, WaitPolled, procVars
<1>11. QED
  BY <1>7, <1>9, <1>10 DEF DataInv

\* process_wait returns: the frame g waits no more.
LEMMA WaitOver ==
  ASSUME DataInv, TopIs("wait"), Top.pc \in Waiting, NEW j \in Job, j = ThisJob,
         NEW g, g.pc \notin Waiting,
         \A k \in Job :
              /\ Waits(k, stack) \in Nat /\ Waits(k, stack') \in Nat
              /\ Waits(k, stack') = Waits(k, stack) - One(WaitsFor(Top, k)) + One(WaitsFor(g, k))
  PROVE  /\ Waits(j, stack') = Waits(j, stack) - 1
         /\ \A k \in Job : k # j => Waits(k, stack') = Waits(k, stack)
<1>1. \A k \in Job : WaitsFor(Top, k) <=> k = j
  BY WaitingFacts
<1>2. \A k \in Job : ~WaitsFor(g, k)
  BY DEF WaitsFor
<1>3. Waits(j, stack') = Waits(j, stack) - 1
  BY <1>1, <1>2 DEF One
<1>4. ASSUME NEW k \in Job, k # j PROVE Waits(k, stack') = Waits(k, stack)
  <2>1. ~WaitsFor(Top, k) /\ ~WaitsFor(g, k)
    BY <1>1, <1>2, <1>4
  <2>2. QED
    BY <2>1 DEF One
<1>5. QED
  BY <1>3, <1>4

LEMMA WaitExitedInv ==
  ASSUME DataInv, WaitExited
  PROVE  DataInv'
<1> DEFINE f == Goto("waited")
           g == DrainParent(Top.w)
<1>1. TopIs("wait") /\ Top.pc \in Waiting /\ DataTypes /\ \A k \in Job : JobSound(k)
  BY DEF WaitExited, Waiting, DataInv
<1>2. /\ Top \in WaitFrame /\ Len(Top.res) = Len(Top.ids) /\ Top.i <= Len(Top.ids)
      /\ Top.w = Len(stack) /\ Len(stack) <= MaxDepth /\ ThisJob \in Job
  BY <1>1, WaitingFacts
<1>3. PICK j \in Job : j = ThisJob
  BY <1>2
<1>4. waiters[j] > 0 /\ waiters[j] \in Nat /\ j \in jobs
  BY <1>1, <1>3, WaitingFacts
<1>5. Calls(f, g) /\ waiters' = [waiters EXCEPT ![j] = 0] /\ Put(j, "exit") /\ ProcRefcount(j) = 1
  BY <1>3 DEF WaitExited
<1>6. phase[j] = "gone" /\ waiters[j] = 1
  BY <1>4, <1>5 DEF ProcRefcount
<1>7. /\ f \in WaitFrame /\ f.pc = "waited" /\ f.kind = "wait"
      /\ f.w = Top.w /\ f.ids = Top.ids /\ f.i = Top.i /\ f.res = Top.res
  <2>1. "waited" \in Pcs
    BY DEF Pcs
  <2>2. QED
    BY <1>1, <2>1, GotoFacts
<1>8. g \in AnyFrame /\ g.kind = "drain" /\ g.of = {} /\ g.parent = Top.w /\ Top.w \in Nat
  BY <1>2, DrainFacts DEF WaitFrame
<1> HIDE DEF f, g
<1>9. WaitSound(f, Len(stack)) /\ f.pc \notin Waiting
  BY <1>2, <1>7 DEF WaitSound, Waiting
<1>10. MayCall(f, g) /\ g.parent # NULL
  BY <1>7, <1>8, JobsAssumption DEF MayCall
<1>11. /\ StackSound(stack')
       /\ \A m : (\A i \in g.of : m[i] # "freed") => Uses(stack', m)
       /\ \A k \in Job :
            /\ Outs(k, stack') = Outs(k, stack) /\ Lasts(k, stack') = Lasts(k, stack)
            /\ Waits(k, stack) \in Nat /\ Waits(k, stack') \in Nat
            /\ Waits(k, stack') = Waits(k, stack) - One(WaitsFor(Top, k)) + One(WaitsFor(f, k))
  BY <1>1, <1>5, <1>7, <1>8, <1>9, <1>10, TopCalls
<1>12. Uses(stack', mem')
  BY <1>8, <1>11
<1>13. /\ Waits(j, stack') = Waits(j, stack) - 1
       /\ \A k \in Job : k # j => Waits(k, stack') = Waits(k, stack)
  BY <1>1, <1>3, <1>9, <1>11, WaitOver
<1>14. /\ queue' \in [Job -> Seq(Event)] /\ (\A k \in Job : k # j => queue'[k] = queue[k])
       /\ \A x : /\ Times(x, queue[j]) \in Nat
                 /\ Times(x, queue'[j]) = Times(x, queue[j]) + (IF "exit" = x THEN 1 ELSE 0)
  BY <1>1, <1>5, QueuePut DEF Event
<1>15. DataTypes'
  <2>1. waiters' \in [Job -> Nat]
    BY <1>1, <1>5 DEF DataTypes
  <2>2. UNCHANGED <<dataVars, parent, phase, asked, outs>>
    BY DEF WaitExited
  <2>3. QED
    BY <1>1, <1>14, <2>1, <2>2 DEF DataTypes, dataVars
<1>16. JobSound(j)'
  <2>1. JobSound(j) /\ waiters'[j] = 0 /\ Lasts(j, stack) \in Nat
    BY <1>1, <1>5, CallTypes DEF DataTypes, DataInv, StackSound
  <2>2. /\ \A x \in Event : Times(x, queue[j]) \in Nat
        /\ Times("out", queue'[j]) = Times("out", queue[j])
        /\ Times("close", queue'[j]) = Times("close", queue[j])
        /\ Times("delayed", queue'[j]) = Times("delayed", queue[j])
        /\ Times("exit", queue'[j]) = Times("exit", queue[j]) + 1
    BY <1>14
  <2>3. waiters[j] = Waits(j, stack) /\ Waits(j, stack') = 0
    BY <1>6, <1>11, <1>13, <2>1 DEF JobSound, JobIs
  <2>4. /\ phase'[j] = "gone" /\ j \in jobs' /\ Outs(j, stack') = Outs(j, stack)
        /\ Lasts(j, stack') = Lasts(j, stack) /\ term'[j] = term[j] /\ mem'[j] = mem[j]
        /\ refcount'[j] = refcount[j] /\ terminals' = terminals
    BY <1>4, <1>6, <1>11 DEF WaitExited, dataVars
  <2>5. Times("exit", queue[j]) + Lasts(j, stack) = 0
    BY <1>6, <2>1 DEF JobSound, JobIs, Sound, One
  <2>6. Times("exit", queue'[j]) + Lasts(j, stack') = 1
    BY <1>14, <2>1, <2>2, <2>4, <2>5
  <2>7. QED
    BY <1>4, <1>6, <2>1, <2>2, <2>3, <2>4, <2>6 DEF JobSound, JobIs, Sound, One
<1>17. ASSUME NEW k \in Job, k # j PROVE JobSound(k)'
  <2>1. JobSound(k) /\ waiters'[k] = waiters[k] /\ queue'[k] = queue[k]
    BY <1>1, <1>5, <1>14, <1>17 DEF DataTypes
  <2>2. /\ Outs(k, stack') = Outs(k, stack) /\ Lasts(k, stack') = Lasts(k, stack)
        /\ Waits(k, stack') = Waits(k, stack)
    BY <1>11, <1>13, <1>17
  <2>3. QED
    BY <1>1, <2>1, <2>2, JobKept DEF WaitExited, dataVars
<1>18. QED
  BY <1>11, <1>12, <1>15, <1>16, <1>17 DEF DataInv

LEMMA WaitGivesUpInv ==
  ASSUME DataInv, WaitGivesUp
  PROVE  DataInv'
<1> DEFINE h == Goto("clear")
           b == IF Top.pc = "polled" THEN "interrupted" ELSE "timeout"
           g == [h EXCEPT !.broke = b]
<1>1. TopIs("wait") /\ Top.pc \in Waiting /\ DataTypes /\ \A k \in Job : JobSound(k)
  BY DEF WaitGivesUp, Waiting, DataInv
<1>2. /\ Top \in WaitFrame /\ Len(Top.res) = Len(Top.ids) /\ Top.i <= Len(Top.ids)
      /\ Top.w = Len(stack) /\ Len(stack) <= MaxDepth /\ ThisJob \in Job
  BY <1>1, WaitingFacts
<1>3. PICK j \in Job : j = ThisJob
  BY <1>2
<1>4. waiters[j] > 0 /\ waiters[j] \in Nat /\ j \in jobs
  BY <1>1, <1>3, WaitingFacts
<1>5. Becomes(g) /\ waiters' = [waiters EXCEPT ![j] = @ - 1] /\ ProcRefcount(j) # 1
  BY <1>3 DEF WaitGivesUp
<1>6. /\ g \in WaitFrame /\ g.pc = "clear" /\ g.kind = "wait"
      /\ g.w = Top.w /\ g.ids = Top.ids /\ g.i = Top.i /\ g.res = Top.res
  <2>1. "clear" \in Pcs
    BY DEF Pcs
  <2>2. /\ h \in WaitFrame /\ h.pc = "clear" /\ h.kind = "wait"
        /\ h.w = Top.w /\ h.ids = Top.ids /\ h.i = Top.i /\ h.res = Top.res
    BY <1>1, <2>1, GotoFacts
  <2>3. b \in Ways
    BY DEF Ways
  <2> HIDE DEF h, b
  <2>4. QED
    BY <2>2, <2>3 DEF WaitFrame
<1> HIDE DEF g
<1>7. WaitSound(g, Len(stack)) /\ g.pc \notin Waiting
  BY <1>2, <1>6 DEF WaitSound, Waiting
<1>8. /\ StackSound(stack') /\ Uses(stack', mem')
      /\ \A k \in Job :
            /\ Outs(k, stack') = Outs(k, stack) /\ Lasts(k, stack') = Lasts(k, stack)
            /\ Waits(k, stack) \in Nat /\ Waits(k, stack') \in Nat
            /\ Waits(k, stack') = Waits(k, stack) - One(WaitsFor(Top, k)) + One(WaitsFor(g, k))
  BY <1>1, <1>5, <1>6, <1>7, TopBecomes
<1>9. /\ Waits(j, stack') = Waits(j, stack) - 1
      /\ \A k \in Job : k # j => Waits(k, stack') = Waits(k, stack)
  BY <1>1, <1>3, <1>7, <1>8, WaitOver
<1>10. DataTypes'
  <2>1. waiters' \in [Job -> Nat]
    BY <1>1, <1>4, <1>5 DEF DataTypes
  <2>2. UNCHANGED <<dataVars, parent, queue, phase, asked, outs>>
    BY DEF WaitGivesUp
  <2>3. QED
    BY <1>1, <2>1, <2>2 DEF DataTypes, dataVars
<1>11. JobSound(j)'
  <2>1. JobSound(j) /\ waiters'[j] = waiters[j] - 1
    BY <1>1, <1>5 DEF DataTypes
  <2>2. phase[j] = "gone" => waiters[j] > 1
    BY <1>4, <1>5 DEF ProcRefcount
  <2>3. phase[j] # "none"
    BY <1>4, <2>1 DEF JobSound, JobIs, Sound
  <2>4. QED
    BY <1>4, <1>8, <1>9, <2>1, <2>2, <2>3 DEF JobSound, JobIs, Sound, One, WaitGivesUp, dataVars
<1>12. ASSUME NEW k \in Job, k # j PROVE JobSound(k)'
  <2>1. JobSound(k) /\ waiters'[k] = waiters[k]
    BY <1>1, <1>5, <1>12 DEF DataTypes
  <2>2. /\ Outs(k, stack') = Outs(k, stack) /\ Lasts(k, stack') = Lasts(k, stack)
        /\ Waits(k, stack') = Waits(k, stack)
    BY <1>8, <1>9, <1>12
  <2>3. QED
    BY <1>1, <2>1, <2>2, JobKept DEF WaitGivesUp, dataVars
<1>13. QED
  BY <1>8, <1>10, <1>11, <1>12 DEF DataInv

LEMMA WaitedInv ==
  ASSUME DataInv, Waited
  PROVE  DataInv'
<1> DEFINE j == ThisJob
<1>1. /\ TopIs("wait") /\ Top.pc = "waited" /\ Top.pc \notin Waiting /\ Top.pc # "return"
      /\ UNCHANGED <<dataVars, parent, queue, procVars, gotInt>>
  BY DEF Waited, TopWait, Waiting
<1>2. /\ Top \in WaitFrame /\ Top.i <= Len(Top.ids) /\ j \in Job /\ Top.w <= MaxDepth
      /\ Top.w = Len(stack) /\ Len(Top.res) = Len(Top.ids)
  BY <1>1, TopWaitFacts DEF WaitSound
<1>3. DataTypes /\ DataTypes'
  BY <1>1 DEF DataInv, DataTypes, dataVars, procVars
<1>4. UNCHANGED <<terminals, mem, jobs, refcount, term, queue, phase, waiters>>
  BY <1>1 DEF dataVars, procVars
<1> DEFINE h == Goto("clear")
<1>5. /\ h \in WaitFrame /\ h.pc = "clear" /\ h.kind = "wait"
      /\ h.w = Top.w /\ h.ids = Top.ids /\ h.i = Top.i /\ h.res = Top.res
  <2>1. "clear" \in Pcs
    BY DEF Pcs
  <2>2. QED
    BY <1>1, <2>1, GotoFacts
<1> HIDE DEF h
<1>6. CASE stack' = WithStatus(j, "-2", Append(Callers, h))
  <2> DEFINE u == Append(Callers, h)
  <2>1. WaitSound(h, Len(stack)) /\ h.pc \notin Waiting
    BY <1>2, <1>5 DEF WaitSound, Waiting
  <2>2. /\ StackSound(u) /\ Last(u) = h /\ Len(u) = Len(stack)
        /\ \A k \in Job :
             /\ Outs(k, u) = Outs(k, stack) /\ Lasts(k, u) = Lasts(k, stack)
             /\ Waits(k, stack) \in Nat /\ Waits(k, u) \in Nat
             /\ Waits(k, u) = Waits(k, stack) - One(WaitsFor(Last(stack), k)) + One(WaitsFor(h, k))
    <3>1. u = Became(stack, h)
      BY DEF Became, Callers
    <3>2. stack # <<>> /\ Top = Last(stack) /\ Top.kind = "wait" /\ StackSound(stack)
      BY <1>1, TopWaitFacts
    <3> HIDE DEF u
    <3>3. QED
      BY <1>5, <2>1, <3>1, <3>2, StackBecomes
  <2> HIDE DEF u
  <2>3. SameCalls(stack, u)
    <3>1. \A k \in Job : ~WaitsFor(Last(stack), k) /\ ~WaitsFor(h, k)
      BY <1>1, <2>1 DEF WaitsFor, Top
    <3>2. QED
      BY <2>2, <3>1 DEF SameCalls, One
  <2>4. /\ StackSound(stack') /\ SameCalls(u, stack') /\ Len(stack') = Len(u)
        /\ \A k \in 1 .. Len(u) : Alike(u[k], stack'[k])
    <3>1. stack' = WithStatus(j, "-2", u) /\ "-2" \in Status
      BY <1>6 DEF u, Status
    <3> HIDE DEF j
    <3>2. QED
      BY <1>2, <1>3, <2>2, <3>1, WithStatusAlike
  <2>5. Last(stack').pc = "clear" /\ Last(stack').kind = "wait"
    <3>1. stack # <<>> /\ Len(stack) \in Nat \ {0}
      BY <1>1, TopWaitFacts
    <3>2. u \in Seq(AnyFrame) /\ stack' \in Seq(AnyFrame) /\ u # <<>> /\ stack' # <<>>
      BY <2>2, <2>4, <3>1 DEF StackSound
    <3>3. Last(u) = u[Len(u)]
      BY <3>2, PopFacts
    <3>4. Last(stack') = stack'[Len(stack')]
      BY <3>2, PopFacts
    <3>5. Len(stack') = Len(u) /\ Len(u) \in 1 .. Len(u)
      BY <2>2, <2>4, <3>1
    <3>6. Alike(Last(u), Last(stack'))
      BY <2>4, <3>3, <3>4, <3>5
    <3>7. QED
      BY <1>5, <2>2, <3>6 DEF Alike
  <2>6. Uses(stack', mem')
    BY <2>5 DEF Uses
  <2>7. SameCalls(stack, stack')
    BY <2>3, <2>4 DEF SameCalls
  <2>8. \A k \in Job : JobSound(k)'
    BY <1>4, <2>7, JobsKept
  <2>9. QED
    BY <1>3, <2>4, <2>6, <2>8 DEF DataInv
<1>7. CASE Becomes(Step(Top, "loop", "clear"))
  <2> DEFINE g == Step(Top, "loop", "clear")
  <2>1. g \in WaitFrame /\ WaitSound(g, Len(stack)) /\ g.pc \in {"loop", "clear"}
    BY <1>2, StepSound
  <2>2. Becomes(g)
    BY <1>7
  <2> HIDE DEF g
  <2>3. QED
    BY <1>1, <1>3, <1>4, <2>1, <2>2, QuietInv DEF Waiting
<1>8. ASSUME NEW b \in {"timeout", "lost"}, Becomes([h EXCEPT !.broke = b])
      PROVE  DataInv'
  <2> DEFINE g == [h EXCEPT !.broke = b]
  <2>1. g \in WaitFrame /\ g.pc = "clear" /\ g.w = Top.w /\ g.ids = Top.ids /\ g.i = Top.i /\ g.res = Top.res
    BY <1>5 DEF WaitFrame, Ways
  <2>2. Becomes(g)
    BY <1>8
  <2> HIDE DEF g
  <2>3. WaitSound(g, Len(stack))
    BY <1>2, <2>1 DEF WaitSound
  <2>4. QED
    BY <1>1, <1>3, <1>4, <2>1, <2>2, <2>3, QuietInv DEF Waiting
<1>9. QED
  BY <1>6, <1>7, <1>8 DEF Waited, StatusWritten, h

LEMMA ClearInv ==
  ASSUME DataInv, Clear
  PROVE  DataInv'
<1> DEFINE g == [Goto("restore") EXCEPT !.i = 1]
<1>1. TopIs("wait") /\ Top.pc = "clear" /\ Top.pc \notin Waiting /\ DataTypes
  BY DEF Clear, TopWait, Waiting, DataInv
<1>2. /\ Top \in WaitFrame /\ Top.i <= Len(Top.ids) /\ Top.w <= MaxDepth /\ Top.i \in Nat \ {0}
      /\ Top.w = Len(stack) /\ Len(Top.res) = Len(Top.ids) /\ Len(Top.ids) \in Nat
  BY <1>1, TopWaitFacts DEF WaitSound
<1>3. g \in WaitFrame /\ g.pc = "restore" /\ g.w = Top.w /\ g.ids = Top.ids /\ g.i = 1 /\ g.res = Top.res
  <2> DEFINE h == Goto("restore")
  <2>1. "restore" \in Pcs /\ 1 \in Nat \ {0}
    BY DEF Pcs
  <2>2. /\ h \in WaitFrame /\ h.pc = "restore" /\ h.w = Top.w /\ h.ids = Top.ids /\ h.res = Top.res
    BY <1>1, <2>1, GotoFacts
  <2>3. g = [h EXCEPT !.i = 1]
    OBVIOUS
  <2> HIDE DEF h, g
  <2>4. QED
    BY <2>1, <2>2, <2>3 DEF WaitFrame
<1>4. DataTypes'
  <2>1. statusPtr' \in [Job -> [w : Nat, i : Nat] \union {NULL}]
    BY <1>1 DEF Clear, DataTypes
  <2>2. UNCHANGED <<terminals, mem, jobs, refcount, stopped, exited, term, parent, queue, procVars>>
    BY DEF Clear
  <2>3. QED
    BY <1>1, <2>1, <2>2 DEF DataTypes, procVars
<1>5. Becomes(g)
  BY DEF Clear
<1> HIDE DEF g
<1>6. WaitSound(g, Len(stack))
  BY <1>2, <1>3 DEF WaitSound
<1>7. QED
  BY <1>1, <1>3, <1>4, <1>5, <1>6, QuietInv DEF Clear, procVars, Waiting

LEMMA RestoreInv ==
  ASSUME DataInv, Restore
  PROVE  DataInv'
<1>1. TopIs("wait") /\ Top.pc = "restore" /\ Top.pc \notin Waiting
  BY DEF Restore, TopWait, Waiting
<1>2. /\ Top \in WaitFrame /\ Top.i <= Len(Top.ids) /\ ThisJob \in Job /\ Top.w <= MaxDepth
      /\ Top.w = Len(stack) /\ Len(Top.res) = Len(Top.ids)
  BY <1>1, TopWaitFacts DEF WaitSound
<1>3. DataTypes'
  BY DEF DataInv, DataTypes, Restore, dataVars, procVars
<1>4. UNCHANGED <<terminals, mem, jobs, refcount, term, queue, phase, waiters>>
  BY DEF Restore, dataVars, procVars
<1>5. CASE ThisJob \in jobs
  <2> DEFINE f == Goto("restoring")
             g == DrainJob(ThisJob)
  <2>1. Calls(f, g)
    BY <1>5 DEF Restore
  <2>2. "restoring" \in Pcs
    BY DEF Pcs
  <2>3. f \in WaitFrame /\ f.pc = "restoring" /\ f.w = Top.w /\ f.ids = Top.ids /\ f.i = Top.i /\ f.res = Top.res
    BY <1>1, <2>2, GotoFacts
  <2> HIDE DEF f
  <2>4. g \in AnyFrame /\ g.kind = "drain" /\ g.of = {ThisJob} /\ g.parent = NULL
    BY <1>2, DrainFacts
  <2>5. WaitSound(f, Len(stack)) /\ f.pc \notin Waiting /\ MayCall(f, g)
    BY <1>2, <2>3, <2>4 DEF WaitSound, Waiting, MayCall, WaitFrame, ThisJob
  <2> HIDE DEF g
  <2>6. \A j \in g.of : mem'[j] # "freed"
    BY <1>4, <1>5, <2>4, InTheMap
  <2>7. \E j \in Job : g.of = {j}
    BY <1>2, <2>4
  <2>8. QED
    BY <1>1, <1>3, <1>4, <2>1, <2>3, <2>4, <2>5, <2>6, <2>7, QuietCallsInv
<1>6. CASE ThisJob \notin jobs
  <2> DEFINE g == Step(Top, "restore", "return")
  <2>1. g \in WaitFrame /\ WaitSound(g, Len(stack)) /\ g.pc \in {"restore", "return"}
    BY <1>2, StepSound
  <2>2. Becomes(g)
    BY <1>6 DEF Restore
  <2> HIDE DEF g
  <2>3. QED
    BY <1>1, <1>3, <1>4, <2>1, <2>2, QuietInv DEF Waiting
<1>7. QED
  BY <1>5, <1>6

LEMMA RestoredInv ==
  ASSUME DataInv, Restored
  PROVE  DataInv'
<1> DEFINE g == Step(Top, "restore", "return")
<1>1. TopIs("wait") /\ Top.pc = "restoring" /\ Top.pc \notin Waiting
  BY DEF Restored, TopWait, Waiting
<1>2. /\ Top \in WaitFrame /\ Top.i <= Len(Top.ids) /\ Top.w <= MaxDepth /\ MaxDepth \in Nat
      /\ Top.w = Len(stack) /\ Len(Top.res) = Len(Top.ids)
  BY <1>1, TopWaitFacts DEF WaitSound
<1>3. g \in WaitFrame /\ WaitSound(g, Len(stack)) /\ g.pc \in {"restore", "return"}
  BY <1>2, StepSound
<1>4. DataTypes'
  <2>1. DataTypes /\ 0 \in 0 .. MaxDepth
    BY <1>2 DEF DataInv
  <2>2. parent' \in [Job -> 0 .. MaxDepth]
    BY <2>1 DEF DataTypes, Restored, Main
  <2>3. QED
    BY <2>1, <2>2 DEF DataTypes, Restored, dataVars, procVars
<1>5. Becomes(g)
  BY DEF Restored
<1> HIDE DEF g
<1>6. QED
  BY <1>1, <1>3, <1>4, <1>5, QuietInv DEF Restored, dataVars, procVars, Waiting

LEMMA ReturnInv ==
  ASSUME DataInv, Return
  PROVE  DataInv'
<1> DEFINE c == Front(stack)
           g == Last(stack)
<1>1. DataTypes /\ StackSound(stack) /\ stack # <<>> /\ g.kind = "wait" /\ g.pc = "return"
  BY DEF DataInv, Return, TopWait, TopIs, Top
<1>2. /\ StackSound(c) /\ Grown(c, g, stack) /\ stack \in Seq(AnyFrame) /\ g \in AnyFrame
      /\ c # <<>> => MayCall(Last(c), g)
  BY <1>1, StackPop
<1>3. SameCalls(c, stack)
  BY <1>1, <1>2, CallsSame DEF StackSound, Quiet, Waiting
<1>4. stack' = c
  BY DEF Return, Pop, Callers
<1>5. SameCalls(stack, stack')
  BY <1>3, <1>4 DEF SameCalls
<1>6. \A k \in Job : JobSound(k)'
  BY <1>5, JobsKept DEF Return, dataVars, procVars
<1>7. Uses(stack', mem')
  <2> SUFFICES ASSUME c # <<>> PROVE Uses(c, mem)
    BY <1>4 DEF Uses, Return, dataVars
  <2>1. MayCall(Last(c), g)
    BY <1>2
  <2>2. Last(c).kind # "drain" /\ Last(c).kind # "wait"
    BY <1>1, <2>1 DEF MayCall
  <2>3. QED
    BY <2>2 DEF Uses
<1>8. DataTypes'
  BY <1>1 DEF DataTypes, Return, dataVars, procVars
<1>9. QED
  BY <1>2, <1>4, <1>6, <1>7, <1>8 DEF DataInv

-----------------------------------------------------------------------------
(***************************************************************************)
(* The theorems                                                            *)
(***************************************************************************)
LEMMA InitInv ==
  ASSUME Init
  PROVE  DataInv
<1>1. DataTypes
  BY JobsAssumption DEF Init, DataTypes, Main, Phases
<1>2. /\ stack \in Seq(AnyFrame) /\ Len(stack) = 0 /\ DOMAIN stack = {} /\ stack = <<>>
  BY DEF Init
<1>3. StackSound(stack)
  <2>1. WaitsOf(stack) = {} /\ Cardinality({}) = 0
    BY <1>2, FS_EmptySet DEF WaitsOf
  <2>2. Cardinality(WaitsOf(stack)) <= MaxWaits
    BY <2>1, JobsAssumption
  <2>3. QED
    BY <1>2, <2>2 DEF StackSound
<1>4. Uses(stack, mem)
  BY <1>2 DEF Uses
<1>5. ASSUME NEW j \in Job PROVE JobSound(j)
  <2>1. Outs(j, stack) = 0 /\ Lasts(j, stack) = 0
    BY <1>2, TimesEmpty DEF Outs, Lasts
  <2>2. WaitsOn(j, stack) = {} /\ Cardinality({}) = 0
    BY <1>2, FS_EmptySet DEF WaitsOn
  <2>3. Waits(j, stack) = 0
    BY <2>2 DEF Waits
  <2>4. \A x : Times(x, queue[j]) = 0
    BY TimesEmpty DEF Init
  <2>5. QED
    BY <2>1, <2>3, <2>4 DEF Init, JobSound, JobIs, Sound, Held, One
<1>6. QED
  BY <1>1, <1>3, <1>4, <1>5 DEF DataInv

LEMMA NextInv ==
  ASSUME DataInv, [Next]_jobsVars
  PROVE  DataInv'
<1>1. ASSUME NEW j \in Job,
             \/ Output(j) \/ Exit(j) \/ Closed(j)
             \/ HandleOutput(j) \/ HandleClose(j) \/ HandleExit(j) \/ HandleDelayed(j)
             \/ JobStart(j) \/ JobStartFails(j) \/ JobStop(j) \/ TermClose(j) \/ TermWiped(j)
      PROVE  DataInv'
  BY <1>1, OutputInv, ExitInv, ClosedInv, HandleOutputInv, HandleCloseInv, HandleExitInv,
     HandleDelayedInv, JobStartInv, JobStartFailsInv, JobStopInv, TermCloseInv, TermWipedInv
<1>2. ASSUME NEW ids \in Lists, NEW timed \in BOOLEAN, JobWait(ids, timed) PROVE DataInv'
  BY <1>2, JobWaitInv
<1>3. CASE PollFast \/ DrainMain \/ DrainEnd \/ CallbackEnd \/ Interrupt
  BY <1>3, PollFastInv, DrainMainInv, DrainEndInv, CallbackEndInv, InterruptInv
<1>4. CASE \/ Enter \/ Entered \/ TimedOutAtOnce \/ Skip \/ WaitPolled \/ WaitBegin \/ WaitDrain
           \/ WaitInterrupted
  BY <1>4, EnterInv, EnteredInv, TimedOutAtOnceInv, SkipInv, WaitPolledInv, WaitBeginInv,
     WaitDrainInv, WaitInterruptedInv
<1>5. CASE WaitExited \/ WaitGivesUp \/ Waited \/ Clear \/ Restore \/ Restored \/ Return
  BY <1>5, WaitExitedInv, WaitGivesUpInv, WaitedInv, ClearInv, RestoreInv, RestoredInv, ReturnInv
<1>6. CASE UNCHANGED jobsVars
  BY <1>6 DEF jobsVars, dataVars, procVars, DataInv, DataTypes, Uses, JobSound, JobIs
<1>7. QED
  BY <1>1, <1>2, <1>3, <1>4, <1>5, <1>6 DEF Next

\* The data of every job agrees with its process, its events and the calls
\* under way.
THEOREM Inductive == Spec => []DataInv
<1>1. Init => DataInv
  BY InitInv
<1>2. DataInv /\ [Next]_jobsVars => DataInv'
  BY NextInv
<1>3. QED
  BY <1>1, <1>2, PTL DEF Spec

LEMMA WaitersBounded ==
  ASSUME DataInv, NEW j \in Job
  PROVE  waiters[j] \in 0 .. MaxWaits
<1>1. /\ stack \in Seq(AnyFrame) /\ Cardinality(WaitsOf(stack)) <= MaxWaits /\ MaxWaits \in Nat
      /\ waiters[j] = Cardinality(WaitsOn(j, stack))
  BY JobsAssumption DEF DataInv, StackSound, JobSound, JobIs, Waits
<1>2. DOMAIN stack = 1 .. Len(stack) /\ Len(stack) \in Nat /\ IsFiniteSet(1 .. Len(stack))
  BY <1>1, FS_Interval
<1>3. WaitsOf(stack) \subseteq 1 .. Len(stack) /\ WaitsOn(j, stack) \subseteq WaitsOf(stack)
  BY <1>2 DEF WaitsOf, WaitsOn, WaitsFor
<1>4. IsFiniteSet(WaitsOf(stack))
  BY <1>2, <1>3, FS_Subset
<1>5. IsFiniteSet(WaitsOn(j, stack)) /\ Cardinality(WaitsOn(j, stack)) <= Cardinality(WaitsOf(stack))
  BY <1>3, <1>4, FS_Subset
<1>6. Cardinality(WaitsOn(j, stack)) \in Nat /\ Cardinality(WaitsOf(stack)) \in Nat
  BY <1>4, <1>5, FS_CardinalityType
<1>7. QED
  BY <1>1, <1>5, <1>6

LEMMA DepthBounded ==
  ASSUME DataInv
  PROVE  Len(stack) <= MaxDepth + 2
<1>1. stack \in Seq(AnyFrame) /\ Len(stack) \in Nat /\ MaxDepth \in Nat
  BY JobsAssumption DEF DataInv, StackSound
<1>2. CASE Len(stack) = 0
  BY <1>1, <1>2
<1>3. CASE Len(stack) # 0
  <2>1. FrameSound(stack[Len(stack)], Len(stack)) /\ stack[Len(stack)] \in AnyFrame
    BY <1>1, <1>3 DEF DataInv, StackSound
  <2>2. stack[Len(stack)].kind \in {"cb", "drain", "wait"}
    BY <2>1 DEF AnyFrame, CbFrame, DrainFrame, WaitFrame
  <2>3. QED
    BY <1>1, <2>1, <2>2 DEF FrameSound, WaitSound
<1>4. QED
  BY <1>2, <1>3

LEMMA Types ==
  ASSUME DataInv
  PROVE  TypeOK
<1>1. DataTypes
  BY DEF DataInv
<1>2. waiters \in [Job -> 0 .. MaxWaits]
  <2>1. \A j \in Job : waiters[j] \in 0 .. MaxWaits
    BY WaitersBounded
  <2>2. QED
    BY <1>1, <2>1 DEF DataTypes
<1>3. {stopped, exited, asked} \subseteq [Job -> BOOLEAN]
  BY <1>1, Zenon DEF DataTypes
<1>4. QED
  BY <1>1, <1>2, <1>3, DepthBounded DEF TypeOK, DataTypes, Event

\* The variables have their types; the calls under way and the references of
\* process_wait stay within their bounds.
THEOREM TypeCorrect == Spec => []TypeOK
<1>1. DataInv => TypeOK
  BY Types
<1>2. QED
  BY <1>1, Inductive, PTL

LEMMA RefsOfData ==
  ASSUME DataInv
  PROVE  RefsAreExact
<1>1. ASSUME NEW j \in Job
      PROVE  /\ refcount[j] = (IF j \in jobs THEN 1 ELSE 0)
                              + (IF term[j] \in {"open", "exited", "closing", "lost"} THEN 1 ELSE 0)
             /\ mem[j] = "live" <=> refcount[j] > 0
  BY DEF DataInv, JobSound, JobIs, Sound, One, Held
<1>2. QED
  BY <1>1, Types DEF RefsAreExact

\* The data of a job is freed by whoever drops the last reference: jobs, whose
\* entry goes when the exit callback has returned, or the terminal.
THEOREM RefsExact == Spec => []RefsAreExact
<1>1. DataInv => RefsAreExact
  BY RefsOfData
<1>2. QED
  BY <1>1, Inductive, PTL

\* The exit callback comes after all output, and once: however calls nest,
\* and whether the main loop or a jobwait() comes to the exit.
THEOREM ExitLast == Spec => []ExitIsLast
<1>1. ASSUME DataInv, NEW j \in Job
      PROVE  /\ phase[j] = "gone" => PendingReqs(j) = 0
             /\ Times("exit", queue[j]) + Times(Callback(j, "exit"), stack)
                = IF phase[j] = "gone" /\ waiters[j] = 0 /\ j \in jobs THEN 1 ELSE 0
  BY <1>1 DEF DataInv, JobSound, JobIs, Sound, One, Outs, Lasts, PendingReqs
<1>2. DataInv => ExitIsLast
  BY <1>1, Zenon DEF ExitIsLast
<1>3. QED
  BY <1>2, Inductive, PTL

-----------------------------------------------------------------------------
(***************************************************************************)
(* The inductive invariant: which jobwait() a job's pointers are of        *)
(***************************************************************************)

\* The list of the frame may still be written to.
Open(f) == f.pc \notin {"restore", "restoring", "return"}

\* The status pointer of j may be to element i of the list of the frame k.
Holds(s, k, i, j) ==
  /\ k \in WaitsOf(s) /\ Open(s[k])
  /\ i \in DOMAIN s[k].ids /\ i \in 1 .. Len(s[k].res) /\ s[k].ids[i] = j

\* The parent queue of j may be that of the frame k: j is in its list, and was
\* not come to when the parents are restored.
Owns(s, k, j) ==
  /\ k \in WaitsOf(s)
  /\ \E p \in DOMAIN s[k].ids :
       s[k].ids[p] = j /\ (Open(s[k]) \/ (s[k].pc # "return" /\ p >= s[k].i))

\* The lists of jobwait() are of jobs that were started and are no terminals.
ListsSound(s, m) ==
  \A k \in WaitsOf(s) : \A p \in DOMAIN s[k].ids :
    s[k].ids[p] \in Job /\ s[k].ids[p] \notin terminals /\ m[s[k].ids[p]] # "none"

\* The job j, by its data m, status pointer at, parent queue of, stop flag st.
Linked(j, m, at, of, st, s) ==
  /\ m = "none" => at = NULL /\ of = Main
  /\ m = "live" /\ at # NULL => ~st /\ Holds(s, at.w, at.i, j)
  /\ m = "live" /\ of # Main => Owns(s, of, j)

LinkInv ==
  Careful => /\ ListsSound(stack, mem)
             /\ \A j \in Job : Linked(j, mem[j], statusPtr[j], parent[j], stopped[j], stack)

-----------------------------------------------------------------------------
(***************************************************************************)
(* How the calls of jobwait() change                                       *)
(***************************************************************************)

\* A frame that goes on as g.
GoesOn(f, g) ==
  /\ g.ids = f.ids
  /\ Open(f) => Open(g) /\ Len(f.res) \in Nat /\ Len(g.res) \in Nat /\ Len(f.res) <= Len(g.res)
  /\ ~Open(f) => ~Open(g) /\ g.i = f.i /\ (g.pc = "return" => f.pc = "return")

\* The calls of jobwait() are the same, and go on.
Kept(s, u) == WaitsOf(u) = WaitsOf(s) /\ \A k \in WaitsOf(s) : GoesOn(s[k], u[k])

\* The innermost frame of s, of a jobwait(), became g; it may have called a drain.
Replaced(s, g, u) ==
  /\ WaitsOf(u) = WaitsOf(s) /\ Len(s) \in WaitsOf(s) /\ u[Len(s)] = g
  /\ \A k \in WaitsOf(s) : k # Len(s) => u[k] = s[k]

LEMMA GoesOnSame ==
  ASSUME NEW f \in WaitFrame
  PROVE  GoesOn(f, f)
BY DEF GoesOn, WaitFrame

LEMMA WaitsAreWaits ==
  ASSUME NEW s \in Seq(AnyFrame), NEW k \in WaitsOf(s)
  PROVE  k \in 1 .. Len(s) /\ s[k] \in WaitFrame /\ s[k].kind = "wait"
<1>1. k \in 1 .. Len(s) /\ s[k] \in AnyFrame /\ s[k].kind = "wait"
  BY DEF WaitsOf
<1>2. QED
  BY <1>1, FrameKinds

LEMMA KeptSame ==
  ASSUME NEW s \in Seq(AnyFrame)
  PROVE  Kept(s, s)
BY WaitsAreWaits, GoesOnSame DEF Kept

\* What a stack that grows says of jobwait().
LEMMA WaitsOfGrown ==
  ASSUME NEW s \in Seq(AnyFrame), NEW u \in Seq(AnyFrame), NEW g, Grown(s, g, u)
  PROVE  /\ WaitsOf(u) = IF g.kind = "wait" THEN WaitsOf(s) \union {Len(s) + 1} ELSE WaitsOf(s)
         /\ \A k \in WaitsOf(s) : u[k] = s[k]
         /\ u[Len(s) + 1] = g /\ Len(s) + 1 \notin WaitsOf(s) /\ Len(s) \in Nat
<1>1. /\ Len(s) \in Nat /\ DOMAIN s = 1 .. Len(s) /\ DOMAIN u = 1 .. Len(s) + 1
      /\ u[Len(s) + 1] = g /\ \A k \in 1 .. Len(s) : u[k] = s[k]
  BY DEF Grown
<1>2. 1 .. Len(s) + 1 = (1 .. Len(s)) \union {Len(s) + 1} /\ Len(s) + 1 \notin 1 .. Len(s)
  BY <1>1
<1>3. QED
  BY <1>1, <1>2 DEF WaitsOf

LEMMA KeptPush ==
  ASSUME NEW s \in Seq(AnyFrame), NEW u \in Seq(AnyFrame), NEW g, Grown(s, g, u), g.kind # "wait"
  PROVE  Kept(s, u) /\ Kept(u, s)
<1>1. WaitsOf(u) = WaitsOf(s) /\ \A k \in WaitsOf(s) : u[k] = s[k]
  BY WaitsOfGrown
<1>2. \A k \in WaitsOf(s) : GoesOn(s[k], s[k])
  BY WaitsAreWaits, GoesOnSame
<1>3. QED
  BY <1>1, <1>2 DEF Kept

LEMMA KeptAlike ==
  ASSUME NEW s \in Seq(AnyFrame), NEW u \in Seq(AnyFrame), Len(u) = Len(s),
         \A k \in 1 .. Len(s) : Alike(s[k], u[k])
  PROVE  Kept(s, u)
<1>1. DOMAIN s = 1 .. Len(s) /\ DOMAIN u = 1 .. Len(s)
  OBVIOUS
<1>2. WaitsOf(u) = WaitsOf(s)
  BY <1>1 DEF WaitsOf, Alike
<1>3. ASSUME NEW k \in WaitsOf(s) PROVE GoesOn(s[k], u[k])
  <2>1. s[k] \in WaitFrame /\ Alike(s[k], u[k]) /\ s[k].kind = "wait"
    BY WaitsAreWaits
  <2>2. Len(s[k].res) \in Nat
    BY <2>1 DEF WaitFrame
  <2>3. QED
    BY <2>1, <2>2 DEF Alike, GoesOn, Open
<1>4. QED
  BY <1>2, <1>3 DEF Kept

LEMMA KeptTrans ==
  ASSUME NEW s, NEW u, NEW v, Kept(s, u), Kept(u, v)
  PROVE  Kept(s, v)
<1>1. ASSUME NEW f, NEW g, NEW h, GoesOn(f, g), GoesOn(g, h) PROVE GoesOn(f, h)
  BY <1>1 DEF GoesOn
<1>2. QED
  BY <1>1 DEF Kept

LEMMA ReplacedKept ==
  ASSUME NEW s \in Seq(AnyFrame), NEW g, NEW u, Replaced(s, g, u), GoesOn(s[Len(s)], g)
  PROVE  Kept(s, u)
<1>1. \A k \in WaitsOf(s) : GoesOn(s[k], s[k])
  BY WaitsAreWaits, GoesOnSame
<1>2. QED
  BY <1>1 DEF Replaced, Kept

\* What was held and owned still is.
LEMMA KeptHolds ==
  ASSUME NEW s, NEW u, Kept(s, u), NEW k, NEW j
  PROVE  /\ \A i : Holds(s, k, i, j) => Holds(u, k, i, j)
         /\ Owns(s, k, j) => Owns(u, k, j)
<1>1. ASSUME NEW i, Holds(s, k, i, j) PROVE Holds(u, k, i, j)
  BY <1>1 DEF Holds, Kept, GoesOn
<1>2. ASSUME Owns(s, k, j) PROVE Owns(u, k, j)
  BY <1>2 DEF Owns, Kept, GoesOn
<1>3. QED
  BY <1>1, <1>2

\* The innermost jobwait() goes on as g, without or with a queue to process.
LEMMA BecomesReplaces ==
  ASSUME DataInv, DataInv', TopIs("wait"), NEW g \in WaitFrame, Becomes(g)
  PROVE  Replaced(stack, g, stack') /\ stack[Len(stack)] = Top
<1> DEFINE c == Front(stack)
<1>1. /\ stack \in Seq(AnyFrame) /\ stack # <<>> /\ stack' \in Seq(AnyFrame)
      /\ Top.kind = "wait" /\ Top = Last(stack) /\ g \in AnyFrame
  BY DEF DataInv, StackSound, TopIs, Top, AnyFrame
<1>2. /\ c \in Seq(AnyFrame) /\ Grown(c, Top, stack)
      /\ Len(c) = Len(stack) - 1 /\ Len(stack) \in Nat \ {0} /\ stack[Len(stack)] = Top
  BY <1>1, FrontGrows, PopFacts
<1>3. Grown(c, g, stack')
  BY <1>1, <1>2, AppendGrows DEF Becomes, Callers
<1>4. g.kind = "wait" /\ Len(c) + 1 = Len(stack)
  BY <1>2 DEF WaitFrame
<1> HIDE DEF c
<1>5. /\ WaitsOf(stack) = WaitsOf(c) \union {Len(stack)} /\ \A k \in WaitsOf(c) : stack[k] = c[k]
      /\ WaitsOf(stack') = WaitsOf(c) \union {Len(stack)} /\ \A k \in WaitsOf(c) : stack'[k] = c[k]
      /\ stack'[Len(stack)] = g /\ Len(stack) \notin WaitsOf(c)
  BY <1>1, <1>2, <1>3, <1>4, WaitsOfGrown
<1>6. QED
  BY <1>2, <1>5 DEF Replaced

LEMMA CallsReplaces ==
  ASSUME DataInv, DataInv', TopIs("wait"), NEW f \in WaitFrame,
         NEW g \in AnyFrame, g.kind = "drain", Calls(f, g)
  PROVE  Replaced(stack, f, stack') /\ stack[Len(stack)] = Top
<1> DEFINE c == Front(stack)
           b == Append(c, f)
<1>1. /\ stack \in Seq(AnyFrame) /\ stack # <<>> /\ stack' \in Seq(AnyFrame)
      /\ Top.kind = "wait" /\ Top = Last(stack) /\ f \in AnyFrame
  BY DEF DataInv, StackSound, TopIs, Top, AnyFrame
<1>2. /\ c \in Seq(AnyFrame) /\ Grown(c, Top, stack)
      /\ Len(c) = Len(stack) - 1 /\ Len(stack) \in Nat \ {0} /\ stack[Len(stack)] = Top
  BY <1>1, FrontGrows, PopFacts
<1>3. b \in Seq(AnyFrame) /\ Grown(c, f, b)
  BY <1>1, <1>2, AppendGrows
<1>4. Grown(b, g, stack')
  <2>1. stack' = Append(b, g)
    BY DEF Calls, Callers
  <2> HIDE DEF b
  <2>2. QED
    BY <1>3, <2>1, AppendGrows
<1>5. f.kind = "wait" /\ Len(c) + 1 = Len(stack)
  BY <1>2 DEF WaitFrame
<1> HIDE DEF b, c
<1>6. /\ WaitsOf(stack) = WaitsOf(c) \union {Len(stack)} /\ \A k \in WaitsOf(c) : stack[k] = c[k]
      /\ WaitsOf(b) = WaitsOf(c) \union {Len(stack)} /\ \A k \in WaitsOf(c) : b[k] = c[k]
      /\ b[Len(stack)] = f /\ Len(stack) \notin WaitsOf(c)
  BY <1>1, <1>2, <1>3, <1>5, WaitsOfGrown
<1>7. WaitsOf(stack') = WaitsOf(b) /\ \A k \in WaitsOf(b) : stack'[k] = b[k]
  BY <1>1, <1>3, <1>4, WaitsOfGrown
<1>8. QED
  BY <1>2, <1>6, <1>7 DEF Replaced

-----------------------------------------------------------------------------
(***************************************************************************)
(* Steps that leave the pointers alone                                     *)
(***************************************************************************)

\* A live job of jobstart() is in the map.
LEMMA LiveInMap ==
  ASSUME DataInv, NEW j \in Job, mem[j] = "live", j \notin terminals
  PROVE  j \in jobs
BY DEF DataInv, JobSound, JobIs, Sound, One

LEMMA ListsKept ==
  ASSUME ListsSound(stack, mem), Kept(stack, stack'), terminals' = terminals,
         \A j \in Job : mem'[j] = "none" => mem[j] = "none"
  PROVE  ListsSound(stack, mem)'
BY DEF ListsSound, Kept, GoesOn

LEMMA LinkedKept ==
  ASSUME NEW j, NEW m, NEW n, NEW at, NEW of, NEW st, NEW s, NEW u,
         Linked(j, m, at, of, st, s), Kept(s, u), n = "live" => m = "live", n = "none" => m = "none"
  PROVE  Linked(j, n, at, of, st, u)
BY KeptHolds DEF Linked

\* Jobs are not started, and a live one stays what it is or is given up.
Aging == \A j \in Job : (mem'[j] = "live" => mem[j] = "live") /\ (mem'[j] = "none" => mem[j] = "none")

LEMMA LinksKept ==
  ASSUME LinkInv, Kept(stack, stack'), Aging, UNCHANGED <<terminals, statusPtr, parent, stopped>>
  PROVE  LinkInv'
<1> SUFFICES ASSUME Careful
             PROVE  /\ ListsSound(stack, mem)'
                    /\ \A j \in Job : Linked(j, mem[j], statusPtr[j], parent[j], stopped[j], stack)'
  BY DEF LinkInv
<1>1. ListsSound(stack, mem)'
  BY ListsKept DEF LinkInv, Aging
<1>2. ASSUME NEW j \in Job PROVE Linked(j, mem[j], statusPtr[j], parent[j], stopped[j], stack)'
  BY LinkedKept DEF LinkInv, Aging
<1>3. QED
  BY <1>1, <1>2

LEMMA StackSame ==
  ASSUME DataInv, stack' = stack
  PROVE  Kept(stack, stack')
BY KeptSame DEF DataInv, StackSound

\* Read events, exits and closed handles: the poll of the loop.
LEMMA PollLinks ==
  ASSUME DataInv, LinkInv, PollFast \/ \E j \in Job : Output(j) \/ Exit(j) \/ Closed(j)
  PROVE  LinkInv'
<1>1. FastEvents /\ UNCHANGED <<terminals, statusPtr, parent, stopped, stack>>
  BY DEF PollFast, Output, Exit, Closed
<1>2. Aging
  BY <1>1, FastFacts DEF Aging, DataInv
<1>3. QED
  BY <1>1, <1>2, StackSame, LinksKept

\* A handler or a user's call that leaves the stack alone.
LEMMA DecrefAges ==
  ASSUME DataInv, NEW j \in Job, Decref(j)
  PROVE  Aging
<1>1. mem \in [Job -> {"none", "live", "freeing", "freed"}]
  BY DEF DataInv, DataTypes
<1>2. QED
  BY <1>1 DEF Decref, Aging

LEMMA HandlerLinks ==
  ASSUME DataInv, LinkInv, NEW j \in Job, HandleClose(j) \/ HandleDelayed(j)
  PROVE  LinkInv'
<1>1. UNCHANGED <<terminals, statusPtr, parent, stopped, stack>>
  BY DEF HandleClose, HandleDelayed, dataVars
<1>2. Aging
  BY DecrefAges DEF HandleClose, HandleDelayed, dataVars, Aging
<1>3. QED
  BY <1>1, <1>2, StackSame, LinksKept

LEMMA UserLinks ==
  ASSUME DataInv, LinkInv,
         Interrupt \/ \E j \in Job : JobStartFails(j) \/ TermWiped(j) \/ TermClose(j)
  PROVE  LinkInv'
<1>1. UNCHANGED <<terminals, statusPtr, parent, stopped, stack>>
  BY DEF JobStartFails, TermWiped, TermClose, Interrupt, dataVars
<1>2. Aging
  BY DEF JobStartFails, TermWiped, TermClose, Interrupt, dataVars, Aging, DataInv, DataTypes
<1>3. QED
  BY <1>1, <1>2, StackSame, LinksKept

-----------------------------------------------------------------------------
\* Drains and callbacks come and go.

LEMMA PushLinks ==
  ASSUME DataInv, LinkInv, DataInv', NEW g \in AnyFrame, g.kind # "wait", Push(g), Aging,
         UNCHANGED <<terminals, statusPtr, parent, stopped>>
  PROVE  LinkInv'
<1>1. stack \in Seq(AnyFrame) /\ stack' \in Seq(AnyFrame)
  BY DEF DataInv, StackSound
<1>2. Grown(stack, g, stack')
  BY <1>1, AppendGrows DEF Push
<1>3. QED
  BY <1>1, <1>2, KeptPush, LinksKept

LEMMA PopLinks ==
  ASSUME DataInv, LinkInv, DataInv', stack # <<>>, Last(stack).kind # "wait", Pop, Aging,
         UNCHANGED <<terminals, statusPtr, parent, stopped>>
  PROVE  LinkInv'
<1>1. stack \in Seq(AnyFrame) /\ stack' \in Seq(AnyFrame)
  BY DEF DataInv, StackSound
<1>2. Grown(stack', Last(stack), stack)
  BY <1>1, FrontGrows DEF Pop, Callers
<1>3. QED
  BY <1>1, <1>2, KeptPush, LinksKept

LEMMA DrainMainLinks ==
  ASSUME DataInv, LinkInv, DataInv', DrainMain
  PROVE  LinkInv'
<1>1. DrainParent(Main) \in AnyFrame /\ DrainParent(Main).kind # "wait"
  BY DrainFacts DEF Main
<1>2. Aging /\ UNCHANGED <<terminals, statusPtr, parent, stopped>>
  BY DEF DrainMain, Aging, dataVars
<1>3. Push(DrainParent(Main))
  BY DEF DrainMain
<1>4. QED
  BY <1>1, <1>2, <1>3, PushLinks

LEMMA DrainEndLinks ==
  ASSUME DataInv, LinkInv, DataInv', DrainEnd
  PROVE  LinkInv'
<1>1. Aging /\ UNCHANGED <<terminals, statusPtr, parent, stopped>>
  BY DEF DrainEnd, Aging, dataVars
<1>2. QED
  BY <1>1, PopLinks DEF DrainEnd, TopIs, Top

LEMMA CallbackEndLinks ==
  ASSUME DataInv, LinkInv, DataInv', CallbackEnd
  PROVE  LinkInv'
<1>1. UNCHANGED <<terminals, statusPtr, parent, stopped>>
  BY DEF CallbackEnd
<1>2. stack # <<>> /\ Top = Last(stack) /\ Top.kind = "cb" /\ Pop
  BY DEF CallbackEnd, TopIs, Top
<1>3. Top.job \in Job
  <2>1. Top \in AnyFrame
    BY <1>2, StackPop DEF DataInv
  <2>2. QED
    BY <1>2, <2>1, FrameKinds
<1>4. Aging
  BY <1>3, DecrefAges DEF CallbackEnd, Aging
<1>5. QED
  BY <1>1, <1>2, <1>4, PopLinks

LEMMA HandleOutputLinks ==
  ASSUME DataInv, LinkInv, DataInv', NEW j \in Job, HandleOutput(j)
  PROVE  LinkInv'
<1>1. Aging /\ UNCHANGED <<terminals, statusPtr, parent, stopped>>
  BY DEF HandleOutput, Aging, dataVars
<1>2. CASE Push(Callback(j, "out"))
  BY <1>1, <1>2, CallbackFacts, PushLinks
<1>3. CASE stack' = stack
  BY <1>1, <1>3, StackSame, LinksKept
<1>4. QED
  BY <1>2, <1>3 DEF HandleOutput

LEMMA HandleExitLinks ==
  ASSUME DataInv, LinkInv, DataInv', NEW j \in Job, HandleExit(j)
  PROVE  LinkInv'
<1> DEFINE u == WithStatus(j, "status", stack)
           g == Callback(j, "exit")
<1>1. Aging /\ UNCHANGED <<terminals, statusPtr, parent, stopped>> /\ stack' = Append(u, g)
  BY DEF HandleExit, Aging
<1>2. StackSound(u) /\ Len(u) = Len(stack) /\ \A k \in 1 .. Len(stack) : Alike(stack[k], u[k])
  <2>1. DataTypes /\ StackSound(stack) /\ "status" \in Status
    BY DEF DataInv, Status
  <2>2. QED
    BY <2>1, WithStatusAlike
<1> HIDE DEF u
<1>3. stack \in Seq(AnyFrame) /\ u \in Seq(AnyFrame) /\ stack' \in Seq(AnyFrame)
  BY <1>2 DEF DataInv, StackSound
<1>4. g \in AnyFrame /\ g.kind = "cb"
  BY CallbackFacts
<1> HIDE DEF g
<1>5. Kept(u, stack')
  BY <1>1, <1>3, <1>4, AppendGrows, KeptPush
<1>6. Kept(stack, u)
  BY <1>2, <1>3, KeptAlike
<1>7. QED
  BY <1>1, <1>5, <1>6, KeptTrans, LinksKept

-----------------------------------------------------------------------------
(***************************************************************************)
(* Steps of jobwait() that leave the pointers alone                        *)
(***************************************************************************)
LEMMA PcsAre ==
  \A pc \in {"waiting", "stopping", "polling", "polled", "enter", "entering", "loop", "waited", "clear",
             "restore", "restoring", "return"} : pc \in Pcs
BY DEF Pcs, Waiting

\* The frame that leaves its loop.
Broken(pc, broke) == [Goto(pc) EXCEPT !.broke = broke]

LEMMA BrokeFacts ==
  ASSUME DataInv, TopIs("wait"), NEW pc \in Pcs, NEW broke \in Ways,
         NEW g, g = Broken(pc, broke)
  PROVE  /\ g \in WaitFrame /\ g.pc = pc /\ g.w = Top.w /\ g.ids = Top.ids /\ g.i = Top.i
         /\ g.res = Top.res /\ g.broke = broke /\ g.timed = Top.timed
<1> DEFINE h == Goto(pc)
<1>1. Top \in WaitFrame
  BY TopWaitFacts
<1>2. /\ h \in WaitFrame /\ h.pc = pc /\ h.w = Top.w /\ h.ids = Top.ids /\ h.i = Top.i
      /\ h.res = Top.res /\ h.timed = Top.timed
  BY <1>1 DEF Goto, WaitFrame
<1>3. g = [h EXCEPT !.broke = broke]
  BY DEF Broken
<1> HIDE DEF h
<1>4. QED
  BY <1>2, <1>3 DEF WaitFrame

\* The innermost jobwait() goes on, its list still open.
LEMMA WaitLinks ==
  ASSUME DataInv, LinkInv, DataInv', TopIs("wait"), Open(Top),
         NEW g \in WaitFrame, g.ids = Top.ids, g.res = Top.res, Open(g),
         Becomes(g) \/ \E d \in AnyFrame : d.kind = "drain" /\ Calls(g, d),
         Aging, UNCHANGED <<terminals, statusPtr, parent, stopped>>
  PROVE  LinkInv'
<1>1. Replaced(stack, g, stack') /\ stack[Len(stack)] = Top
  BY BecomesReplaces, CallsReplaces
<1>2. Len(Top.res) \in Nat
  BY TopWaitFacts
<1>3. GoesOn(Top, g)
  BY <1>2 DEF GoesOn
<1>4. Kept(stack, stack')
  BY <1>1, <1>3, ReplacedKept DEF DataInv, StackSound
<1>5. QED
  BY <1>4, LinksKept

\* What StepFacts says of the frame of a loop.
LEMMA TopStep ==
  ASSUME DataInv, TopIs("wait"), Top.pc # "return", NEW pc \in Pcs, NEW next \in Pcs,
         NEW g, g = Step(Top, pc, next)
  PROVE  /\ g \in WaitFrame /\ g.w = Top.w /\ g.ids = Top.ids /\ g.res = Top.res /\ g.broke = Top.broke
         /\ Len(Top.ids) \in Nat /\ Top.i \in Nat \ {0} /\ Top.i <= Len(Top.ids)
         /\ \/ Top.i < Len(Top.ids) /\ g.pc = pc /\ g.i = Top.i + 1
            \/ Top.i = Len(Top.ids) /\ g.pc = next /\ g.i = 1
<1>1. Top \in WaitFrame /\ Top.i <= Len(Top.ids) /\ Top.i \in Nat \ {0}
  BY TopWaitFacts
<1>2. QED
  BY <1>1, StepFacts

LEMMA TimedOutAtOnceLinks ==
  ASSUME DataInv, LinkInv, DataInv', TimedOutAtOnce
  PROVE  LinkInv'
<1> DEFINE g == Broken("clear", "timeout")
<1>1. TopIs("wait") /\ Open(Top) /\ Becomes(g)
  BY DEF TimedOutAtOnce, TopWait, Open, Broken
<1>2. Aging /\ UNCHANGED <<terminals, statusPtr, parent, stopped>>
  BY DEF TimedOutAtOnce, Aging, dataVars
<1>3. g \in WaitFrame /\ g.ids = Top.ids /\ g.res = Top.res /\ g.pc = "clear"
  BY <1>1, PcsAre, BrokeFacts DEF Ways
<1> HIDE DEF g
<1>4. QED
  BY <1>1, <1>2, <1>3, WaitLinks DEF Open

LEMMA SkipLinks ==
  ASSUME DataInv, LinkInv, DataInv', Skip
  PROVE  LinkInv'
<1> DEFINE g == Step(Top, "loop", "clear")
<1>1. TopIs("wait") /\ Open(Top) /\ Becomes(g) /\ Top.pc # "return"
  BY DEF Skip, TopWait, Open
<1>2. Aging /\ UNCHANGED <<terminals, statusPtr, parent, stopped>>
  BY DEF Skip, Aging, dataVars
<1>3. g \in WaitFrame /\ g.ids = Top.ids /\ g.res = Top.res /\ g.pc \in {"loop", "clear"}
  BY <1>1, PcsAre, TopStep
<1> HIDE DEF g
<1>4. QED
  BY <1>1, <1>2, <1>3, WaitLinks DEF Open

LEMMA WaitBeginLinks ==
  ASSUME DataInv, LinkInv, DataInv', WaitBegin
  PROVE  LinkInv'
<1> DEFINE f == Step(Top, "loop", "clear")
           h == Goto("waiting")
<1>1. TopIs("wait") /\ Open(Top) /\ Top.pc # "return"
  BY DEF WaitBegin, TopWait, Open
<1>2. UNCHANGED <<terminals, statusPtr, parent, stopped>>
  BY DEF WaitBegin
<1>3. Aging
  <2>1. DataTypes /\ (FastEvents \/ UNCHANGED mem)
    BY DEF DataInv, WaitBegin
  <2>2. QED
    BY <2>1, FastFacts DEF Aging
<1>4. (\E j \in Job : j = ThisJob /\ Calls(f, DrainJob(j))) \/ Becomes(h)
  BY <1>1, TopWaitFacts DEF WaitBegin
<1>5. /\ f \in WaitFrame /\ f.ids = Top.ids /\ f.res = Top.res /\ Open(f)
      /\ h \in WaitFrame /\ h.ids = Top.ids /\ h.res = Top.res /\ Open(h)
  <2>1. f \in WaitFrame /\ f.ids = Top.ids /\ f.res = Top.res /\ f.pc \in {"loop", "clear"}
    BY <1>1, PcsAre, TopStep
  <2>2. h \in WaitFrame /\ h.ids = Top.ids /\ h.res = Top.res /\ h.pc = "waiting"
    BY <1>1, PcsAre, GotoFacts
  <2> HIDE DEF f, h
  <2>3. QED
    BY <2>1, <2>2 DEF Open
<1> HIDE DEF f, h
<1>6. CASE \E j \in Job : Calls(f, DrainJob(j))
  BY <1>1, <1>2, <1>3, <1>5, <1>6, DrainFacts, WaitLinks
<1>7. CASE Becomes(h)
  BY <1>1, <1>2, <1>3, <1>5, <1>7, WaitLinks
<1>8. QED
  BY <1>4, <1>6, <1>7

\* In process_wait a frame only moves on.
LEMMA WaitingLinks ==
  ASSUME DataInv, LinkInv, DataInv', TopIs("wait"), Open(Top), NEW pc \in Pcs, Open(Goto(pc)),
         Becomes(Goto(pc)) \/ Calls(Goto(pc), DrainParent(Top.w)),
         Aging, UNCHANGED <<terminals, statusPtr, parent, stopped>>
  PROVE  LinkInv'
<1>1. Goto(pc) \in WaitFrame /\ Goto(pc).ids = Top.ids /\ Goto(pc).res = Top.res
  BY GotoFacts
<1>2. DrainParent(Top.w) \in AnyFrame /\ DrainParent(Top.w).kind = "drain"
  BY TopWaitFacts, DrainFacts DEF WaitFrame
<1>3. QED
  BY <1>1, <1>2, WaitLinks

LEMMA OpenGoto ==
  ASSUME DataInv, TopIs("wait"), NEW pc \in Pcs, pc \notin {"restore", "restoring", "return"}
  PROVE  Open(Goto(pc))
BY GotoFacts DEF Open

LEMMA WaitDrainLinks ==
  ASSUME DataInv, LinkInv, DataInv', WaitDrain
  PROVE  LinkInv'
<1> DEFINE pc == IF Top.pc = "polling" THEN "polled" ELSE Top.pc
<1>1. TopIs("wait") /\ Open(Top) /\ pc \in Pcs /\ pc \notin {"restore", "restoring", "return"}
  BY DEF WaitDrain, Open, Pcs, Waiting
<1>2. Aging /\ UNCHANGED <<terminals, statusPtr, parent, stopped>>
  BY DEF WaitDrain, Aging, dataVars
<1>3. Calls(Goto(pc), DrainParent(Top.w))
  BY DEF WaitDrain
<1> HIDE DEF pc
<1>4. QED
  BY <1>1, <1>2, <1>3, OpenGoto, WaitingLinks

LEMMA WaitPolledLinks ==
  ASSUME DataInv, LinkInv, DataInv', WaitPolled
  PROVE  LinkInv'
<1>1. TopIs("wait") /\ Open(Top) /\ "polled" \in Pcs
  BY DEF WaitPolled, TopWait, Open, Pcs, Waiting
<1>2. Aging /\ UNCHANGED <<terminals, statusPtr, parent, stopped>> /\ Becomes(Goto("polled"))
  BY FastFacts DEF WaitPolled, Aging, DataInv
<1>3. QED
  BY <1>1, <1>2, OpenGoto, WaitingLinks

LEMMA WaitExitedLinks ==
  ASSUME DataInv, LinkInv, DataInv', WaitExited
  PROVE  LinkInv'
<1>1. TopIs("wait") /\ Open(Top) /\ "waited" \in Pcs
  BY DEF WaitExited, Open, Pcs
<1>2. Aging /\ UNCHANGED <<terminals, statusPtr, parent, stopped>>
      /\ Calls(Goto("waited"), DrainParent(Top.w))
  BY DEF WaitExited, Aging, dataVars
<1>3. QED
  BY <1>1, <1>2, OpenGoto, WaitingLinks

LEMMA WaitInterruptedLinks ==
  ASSUME DataInv, LinkInv, DataInv', WaitInterrupted
  PROVE  LinkInv'
<1> DEFINE pc == IF Top.timed THEN "polling" ELSE "stopping"
           g == Broken(pc, "interrupted")
<1>1. TopIs("wait") /\ Open(Top) /\ Becomes(g)
  BY DEF WaitInterrupted, TopWait, Open, Broken
<1>2. Aging /\ UNCHANGED <<terminals, statusPtr, parent, stopped>>
  BY DEF WaitInterrupted, Aging, dataVars
<1>3. pc \in Pcs /\ pc \in {"polling", "stopping"}
  BY DEF Pcs, Waiting
<1> HIDE DEF pc
<1>4. g \in WaitFrame /\ g.ids = Top.ids /\ g.res = Top.res /\ g.pc = pc
  BY <1>1, <1>3, BrokeFacts DEF Ways
<1> HIDE DEF g
<1>5. QED
  BY <1>1, <1>2, <1>3, <1>4, WaitLinks DEF Open

LEMMA WaitGivesUpLinks ==
  ASSUME DataInv, LinkInv, DataInv', WaitGivesUp
  PROVE  LinkInv'
<1> DEFINE g == Broken("clear", IF Top.pc = "polled" THEN "interrupted" ELSE "timeout")
<1>1. TopIs("wait") /\ Open(Top) /\ Becomes(g)
  BY DEF WaitGivesUp, Open, Broken
<1>2. Aging /\ UNCHANGED <<terminals, statusPtr, parent, stopped>>
  BY DEF WaitGivesUp, Aging, dataVars
<1>3. g \in WaitFrame /\ g.ids = Top.ids /\ g.res = Top.res /\ g.pc = "clear"
  BY <1>1, PcsAre, BrokeFacts DEF Ways
<1> HIDE DEF g
<1>4. QED
  BY <1>1, <1>2, <1>3, WaitLinks DEF Open

LEMMA WaitedLinks ==
  ASSUME DataInv, LinkInv, DataInv', Waited
  PROVE  LinkInv'
<1> DEFINE j == ThisJob
           h == Goto("clear")
           u == Append(Callers, h)
           f == Step(Top, "loop", "clear")
           g == Broken("clear", "timeout")
           l == Broken("clear", "lost")
<1>1. TopIs("wait") /\ Open(Top) /\ Top.pc # "return" /\ Top.pc = "waited"
  BY DEF Waited, TopWait, Open
<1>2. Aging /\ UNCHANGED <<terminals, statusPtr, parent, stopped>>
  BY DEF Waited, Aging, dataVars
<1>3. /\ f \in WaitFrame /\ f.ids = Top.ids /\ f.res = Top.res /\ Open(f)
      /\ g \in WaitFrame /\ g.ids = Top.ids /\ g.res = Top.res /\ Open(g)
      /\ l \in WaitFrame /\ l.ids = Top.ids /\ l.res = Top.res /\ Open(l)
      /\ h \in WaitFrame /\ h.ids = Top.ids /\ h.res = Top.res /\ Open(h)
      /\ h.i = Top.i /\ h.w = Top.w /\ h.pc = "clear"
  <2>1. f \in WaitFrame /\ f.ids = Top.ids /\ f.res = Top.res /\ f.pc \in {"loop", "clear"}
    BY <1>1, PcsAre, TopStep
  <2>2. /\ g \in WaitFrame /\ g.ids = Top.ids /\ g.res = Top.res /\ g.pc = "clear"
        /\ l \in WaitFrame /\ l.ids = Top.ids /\ l.res = Top.res /\ l.pc = "clear"
    BY <1>1, PcsAre, BrokeFacts DEF Ways
  <2>3. /\ h \in WaitFrame /\ h.ids = Top.ids /\ h.res = Top.res /\ h.pc = "clear"
        /\ h.i = Top.i /\ h.w = Top.w
    BY <1>1, PcsAre, GotoFacts
  <2> HIDE DEF f, g, h, l
  <2>4. QED
    BY <2>1, <2>2, <2>3 DEF Open
<1>4. Becomes(f) \/ Becomes(g) \/ Becomes(l) \/ stack' = WithStatus(j, "-2", u)
  BY DEF Waited, StatusWritten, Broken
<1> HIDE DEF f, g, h, l
<1>5. CASE Becomes(f)
  BY <1>1, <1>2, <1>3, <1>5, WaitLinks
<1>6. CASE Becomes(g) \/ Becomes(l)
  BY <1>1, <1>2, <1>3, <1>6, WaitLinks
<1>7. CASE stack' = WithStatus(j, "-2", u)
  <2>1. /\ stack # <<>> /\ Top = Last(stack) /\ Top.kind = "wait" /\ StackSound(stack) /\ j \in Job
        /\ Len(Top.res) \in Nat /\ WaitSound(Top, Len(stack))
    BY <1>1, TopWaitFacts
  <2>2. WaitSound(h, Len(stack))
    BY <1>1, <1>3, <2>1 DEF WaitSound
  <2>3. StackSound(u) /\ Len(u) = Len(stack) /\ Grown(Front(stack), h, u)
    <3>1. u = Became(stack, h)
      BY DEF Became, Callers
    <3> HIDE DEF u
    <3>2. QED
      BY <1>3, <2>1, <2>2, <3>1, StackBecomes
  <2>4. Len(stack') = Len(u) /\ \A k \in 1 .. Len(u) : Alike(u[k], stack'[k])
    <3>1. DataTypes /\ "-2" \in Status
      BY DEF DataInv, Status
    <3> HIDE DEF u, j
    <3>2. QED
      BY <1>7, <2>1, <2>3, <3>1, WithStatusAlike
  <2> HIDE DEF u, j
  <2>5. u \in Seq(AnyFrame) /\ stack \in Seq(AnyFrame) /\ stack' \in Seq(AnyFrame)
    BY <2>3 DEF DataInv, StackSound
  <2>6. Kept(u, stack')
    BY <2>4, <2>5, KeptAlike
  <2>7. Kept(stack, u)
    <3> DEFINE c == Front(stack)
    <3>1. /\ c \in Seq(AnyFrame) /\ Grown(c, Top, stack) /\ Len(c) + 1 = Len(stack)
          /\ stack[Len(stack)] = Top
      <4>1. Len(c) = Len(stack) - 1 /\ Len(stack) \in Nat \ {0}
        BY <2>1, <2>5, PopFacts
      <4>2. QED
        BY <2>1, <2>5, <4>1, FrontGrows, PopFacts
    <3>2. h.kind = "wait"
      BY <1>3 DEF WaitFrame
    <3>3. /\ WaitsOf(stack) = WaitsOf(c) \union {Len(stack)} /\ \A k \in WaitsOf(c) : stack[k] = c[k]
          /\ WaitsOf(u) = WaitsOf(c) \union {Len(stack)} /\ \A k \in WaitsOf(c) : u[k] = c[k]
          /\ u[Len(stack)] = h /\ Len(stack) \notin WaitsOf(c)
      BY <2>1, <2>3, <2>5, <3>1, <3>2, WaitsOfGrown
    <3>4. Replaced(stack, h, u)
      BY <3>3 DEF Replaced
    <3>5. GoesOn(Top, h)
      BY <1>1, <1>3, <2>1 DEF GoesOn
    <3>6. QED
      BY <2>5, <3>1, <3>4, <3>5, ReplacedKept
  <2>8. QED
    BY <1>2, <2>6, <2>7, KeptTrans, LinksKept
<1>8. QED
  BY <1>4, <1>5, <1>6, <1>7

-----------------------------------------------------------------------------
(***************************************************************************)
(* Steps that set the pointers, or what they depend on                     *)
(***************************************************************************)
LEMMA JobStartLinks ==
  ASSUME DataInv, LinkInv, NEW j \in Job, JobStart(j)
  PROVE  LinkInv'
<1> SUFFICES ASSUME Careful
             PROVE  /\ ListsSound(stack, mem)'
                    /\ \A k \in Job : Linked(k, mem[k], statusPtr[k], parent[k], stopped[k], stack)'
  BY DEF LinkInv
<1>1. /\ mem \in [Job -> {"none", "live", "freeing", "freed"}] /\ mem[j] = "none"
      /\ mem' = [mem EXCEPT ![j] = "live"] /\ UNCHANGED <<terminals, statusPtr, parent, stopped, stack>>
  BY DEF JobStart, DataInv, DataTypes
<1>2. Kept(stack, stack')
  BY <1>1, StackSame
<1>3. ListsSound(stack, mem)'
  BY <1>1, <1>2, ListsKept DEF LinkInv
<1>4. ASSUME NEW k \in Job PROVE Linked(k, mem[k], statusPtr[k], parent[k], stopped[k], stack)'
  <2>1. Linked(k, mem[k], statusPtr[k], parent[k], stopped[k], stack)
    BY DEF LinkInv
  <2>2. CASE k = j
    BY <1>1, <2>1, <2>2 DEF Linked
  <2>3. CASE k # j
    BY <1>1, <2>1, <2>3 DEF Linked
  <2>4. QED
    BY <2>2, <2>3
<1>5. QED
  BY <1>3, <1>4

\* A careful user does not stop a job that is waited for.
LEMMA JobStopLinks ==
  ASSUME DataInv, LinkInv, NEW j \in Job, JobStop(j)
  PROVE  LinkInv'
<1> SUFFICES ASSUME Careful
             PROVE  /\ ListsSound(stack, mem)'
                    /\ \A k \in Job : Linked(k, mem[k], statusPtr[k], parent[k], stopped[k], stack)'
  BY DEF LinkInv
<1>1. /\ stopped \in [Job -> BOOLEAN] /\ ~WaitedFor(j) /\ stack \in Seq(AnyFrame)
      /\ stopped' = [stopped EXCEPT ![j] = TRUE] /\ UNCHANGED <<terminals, mem, statusPtr, parent, stack>>
  BY DEF JobStop, DataInv, DataTypes, StackSound
<1>2. ListsSound(stack, mem)'
  BY <1>1 DEF LinkInv, ListsSound
<1>3. ASSUME NEW k, NEW i, Holds(stack, k, i, j) PROVE FALSE
  <2>1. k \in DOMAIN stack /\ stack[k].kind = "wait" /\ i \in DOMAIN stack[k].ids /\ stack[k].ids[i] = j
    BY <1>3 DEF Holds, WaitsOf
  <2>2. stack[k] \in Frames("wait") /\ j \in Range(stack[k].ids)
    BY <2>1 DEF Frames, Range
  <2>3. QED
    BY <1>1, <2>2 DEF WaitedFor
<1>4. ASSUME NEW k \in Job PROVE Linked(k, mem[k], statusPtr[k], parent[k], stopped[k], stack)'
  <2>1. Linked(k, mem[k], statusPtr[k], parent[k], stopped[k], stack)
    BY DEF LinkInv
  <2>2. CASE k = j
    BY <1>1, <1>3, <2>1, <2>2 DEF Linked
  <2>3. CASE k # j
    BY <1>1, <2>1, <2>3 DEF Linked
  <2>4. QED
    BY <2>2, <2>3
<1>5. QED
  BY <1>2, <1>4

LEMMA JobWaitLinks ==
  ASSUME DataInv, LinkInv, DataInv', NEW ids \in Lists, NEW timed \in BOOLEAN, JobWait(ids, timed)
  PROVE  LinkInv'
<1> SUFFICES ASSUME Careful
             PROVE  /\ ListsSound(stack, mem)'
                    /\ \A k \in Job : Linked(k, mem[k], statusPtr[k], parent[k], stopped[k], stack)'
  BY DEF LinkInv
<1> DEFINE g == [kind |-> "wait", w |-> Len(stack) + 1, ids |-> ids, timed |-> timed,
                 pc |-> IF ids = <<>> THEN "return" ELSE "enter", i |-> 1, res |-> <<>>, broke |-> "no"]
           n == Len(stack) + 1
<1>1. /\ UNCHANGED <<terminals, mem, statusPtr, parent, stopped>>
      /\ \A j \in Range(ids) : mem[j] # "none" /\ j \notin terminals
      /\ stack' = Append(stack, g)
  BY DEF JobWait, dataVars, Push
<1>2. stack \in Seq(AnyFrame) /\ stack' \in Seq(AnyFrame) /\ ids \in Seq(Job) /\ Len(stack) \in Nat
  BY JobsAssumption DEF DataInv, StackSound
<1>3. g \in AnyFrame /\ g.kind = "wait" /\ g.ids = ids
  <2>1. g \in WaitFrame
    BY <1>2, PcsAre DEF WaitFrame, Ways
  <2>2. QED
    BY <2>1 DEF AnyFrame
<1> HIDE DEF g
<1>4. Grown(stack, g, stack')
  BY <1>1, <1>2, <1>3, AppendGrows
<1>5. /\ WaitsOf(stack') = WaitsOf(stack) \union {n} /\ stack'[n] = g
      /\ \A k \in WaitsOf(stack) : stack'[k] = stack[k]
  BY <1>2, <1>3, <1>4, WaitsOfGrown
<1> HIDE DEF n
<1>6. \A p \in DOMAIN ids : ids[p] \in Job /\ ids[p] \in Range(ids)
  BY <1>2 DEF Range
<1>7. ListsSound(stack, mem)'
  <2>1. ListsSound(stack, mem)
    BY DEF LinkInv
  <2>2. ASSUME NEW k \in WaitsOf(stack'), NEW p \in DOMAIN stack'[k].ids
        PROVE  /\ stack'[k].ids[p] \in Job /\ stack'[k].ids[p] \notin terminals
               /\ mem[stack'[k].ids[p]] # "none"
    <3>1. CASE k = n
      BY <1>1, <1>3, <1>5, <1>6, <2>2, <3>1
    <3>2. CASE k # n
      BY <1>5, <2>1, <2>2, <3>2 DEF ListsSound
    <3>3. QED
      BY <3>1, <3>2
  <2>3. QED
    BY <1>1, <2>2 DEF ListsSound
<1>8. \A k, i, j : /\ Holds(stack, k, i, j) => Holds(stack', k, i, j)
                   /\ Owns(stack, k, j) => Owns(stack', k, j)
  BY <1>5 DEF Holds, Owns
<1>9. ASSUME NEW k \in Job PROVE Linked(k, mem[k], statusPtr[k], parent[k], stopped[k], stack)'
  BY <1>1, <1>8 DEF Linked, LinkInv
<1>10. QED
  BY <1>7, <1>9

LEMMA EnterLinks ==
  ASSUME DataInv, LinkInv, DataInv', Enter
  PROVE  LinkInv'
<1> DEFINE j == ThisJob
           n == Len(stack)
<1>1. TopIs("wait") /\ Open(Top) /\ Top.pc # "return" /\ Top.pc = "enter"
  BY DEF Enter, TopWait, Open
<1>2. /\ Top \in WaitFrame /\ j \in Job /\ Top.ids \in Seq(Job) /\ Top.res \in Seq(Status)
      /\ Top.i \in Nat \ {0} /\ Top.i <= Len(Top.ids) /\ Len(Top.ids) \in Nat
      /\ Top.w = n /\ Len(Top.res) = Top.i - 1 /\ stack \in Seq(AnyFrame)
  BY <1>1, TopWaitFacts DEF WaitSound, StackSound
<1>3. Aging /\ UNCHANGED <<terminals, mem, parent, stopped>>
  BY DEF Enter, Aging
<1>4. CASE FindJob(j)
  <2> DEFINE r == Append(Top.res, "-1")
             f == [Goto("entering") EXCEPT !.res = r]
  <2>1. r \in Seq(Status) /\ Len(r) = Top.i
    BY <1>2 DEF Status
  <2>2. statusPtr' = [statusPtr EXCEPT ![j] = [w |-> n, i |-> Top.i]] /\ Calls(f, DrainJob(j))
    <3>1. [Goto("entering") EXCEPT !.res = Append(@, "-1")] = f
      BY <1>2 DEF Goto, WaitFrame
    <3>2. QED
      BY <1>2, <1>4, <3>1 DEF Enter
  <2> HIDE DEF r
  <2>3. f \in WaitFrame /\ f.pc = "entering" /\ f.ids = Top.ids /\ f.res = r
    <3> DEFINE h == [Top EXCEPT !.pc = "entering"]
    <3>1. h \in WaitFrame /\ h.pc = "entering" /\ h.ids = Top.ids
      BY <1>2, PcsAre DEF WaitFrame
    <3>2. f = [h EXCEPT !.res = r]
      BY DEF Goto
    <3> HIDE DEF f, h
    <3>3. QED
      BY <2>1, <3>1, <3>2 DEF WaitFrame
  <2> HIDE DEF f, j
  <2>4. Replaced(stack, f, stack') /\ stack[n] = Top
    BY <1>1, <1>2, <2>2, <2>3, DrainFacts, CallsReplaces
  <2>5. GoesOn(Top, f) /\ Open(f)
    BY <1>1, <1>2, <2>1, <2>3 DEF GoesOn, Open
  <2>6. Kept(stack, stack')
    BY <1>2, <2>4, <2>5, ReplacedKept
  <2>7. Holds(stack', n, Top.i, j)
    <3>1. n \in WaitsOf(stack') /\ stack'[n] = f
      BY <2>4 DEF Replaced
    <3>2. Top.i \in DOMAIN f.ids /\ Top.i \in 1 .. Len(f.res) /\ f.ids[Top.i] = j
      BY <1>2, <2>1, <2>3 DEF j, ThisJob
    <3>3. QED
      BY <2>5, <3>1, <3>2 DEF Holds
  <2>8. /\ statusPtr' \in [Job -> [w : Nat, i : Nat] \union {NULL}]
        /\ statusPtr'[j] = [w |-> n, i |-> Top.i] /\ \A k \in Job : k # j => statusPtr'[k] = statusPtr[k]
    BY <1>2, <2>2 DEF DataInv, DataTypes
  <2>9. ASSUME Careful, NEW k \in Job
        PROVE  Linked(k, mem[k], statusPtr[k], parent[k], stopped[k], stack)'
    <3>1. Linked(k, mem[k], statusPtr[k], parent[k], stopped[k], stack')
      BY <1>3, <2>6, <2>9, LinkedKept DEF LinkInv
    <3>2. CASE k # j
      BY <1>3, <2>8, <3>1, <3>2
    <3>3. CASE k = j
      <4>1. ~stopped[k] /\ mem[k] # "none"
        BY <1>2, <1>4, <3>3, InTheMap DEF FindJob
      <4>2. statusPtr'[k].w = n /\ statusPtr'[k].i = Top.i
        BY <2>8, <3>3
      <4>3. QED
        BY <1>3, <2>7, <3>1, <3>3, <4>1, <4>2 DEF Linked
    <3>4. QED
      BY <3>2, <3>3
  <2>10. Careful => ListsSound(stack, mem)'
    BY <1>3, <2>6, ListsKept DEF LinkInv, Aging
  <2>11. QED
    BY <2>9, <2>10 DEF LinkInv
<1>5. CASE ~FindJob(j)
  <2> DEFINE r == Append(Top.res, "-3")
             h == [Top EXCEPT !.res = r]
             g == Step(h, "enter", "loop")
  <2>1. r \in Seq(Status) /\ Len(r) = Top.i
    BY <1>2 DEF Status
  <2>2. statusPtr' = statusPtr /\ Becomes(g)
    <3>1. [Top EXCEPT !.res = Append(@, "-3")] = h
      BY <1>2 DEF WaitFrame
    <3>2. QED
      BY <1>5, <3>1 DEF Enter
  <2> HIDE DEF r
  <2>3. h \in WaitFrame /\ h.ids = Top.ids /\ h.i = Top.i /\ h.res = r
    BY <1>2, <2>1 DEF WaitFrame
  <2> HIDE DEF h
  <2>4. g \in WaitFrame /\ g.ids = Top.ids /\ g.res = r /\ g.pc \in {"enter", "loop"}
    <3>1. h.i <= Len(h.ids) /\ "enter" \in Pcs /\ "loop" \in Pcs
      BY <1>2, <2>3, PcsAre
    <3>2. g \in WaitFrame /\ g.ids = h.ids /\ g.res = h.res /\ (g.pc = "enter" \/ g.pc = "loop")
      BY <2>3, <3>1, StepFacts
    <3>3. QED
      BY <2>3, <3>2
  <2> HIDE DEF g
  <2>5. Replaced(stack, g, stack') /\ stack[n] = Top
    BY <1>1, <2>2, <2>4, BecomesReplaces
  <2>6. GoesOn(Top, g)
    BY <1>1, <1>2, <2>1, <2>4 DEF GoesOn, Open
  <2>7. Kept(stack, stack')
    BY <1>2, <2>5, <2>6, ReplacedKept
  <2>8. QED
    BY <1>3, <2>2, <2>7, LinksKept
<1>6. QED
  BY <1>4, <1>5

LEMMA EnteredLinks ==
  ASSUME DataInv, LinkInv, DataInv', Entered
  PROVE  LinkInv'
<1> DEFINE j == ThisJob
           n == Len(stack)
           g == Step(Top, "enter", "loop")
<1>1. TopIs("wait") /\ Open(Top) /\ Top.pc # "return"
  BY DEF Entered, TopWait, Open
<1>2. /\ j \in Job /\ Top.w = n /\ stack \in Seq(AnyFrame) /\ Len(Top.res) \in Nat
      /\ Top.i \in DOMAIN Top.ids
  BY <1>1, TopWaitFacts DEF WaitSound, StackSound
<1>3. /\ Aging /\ UNCHANGED <<terminals, mem, statusPtr, stopped>>
      /\ parent' = [parent EXCEPT ![j] = n] /\ Becomes(g)
  BY <1>2 DEF Entered, Aging, dataVars
<1>4. g \in WaitFrame /\ g.ids = Top.ids /\ g.res = Top.res /\ g.pc \in {"enter", "loop"}
  BY <1>1, PcsAre, TopStep
<1> HIDE DEF g
<1>5. Replaced(stack, g, stack') /\ stack[n] = Top
  BY <1>1, <1>3, <1>4, BecomesReplaces
<1>6. GoesOn(Top, g) /\ Open(g)
  BY <1>1, <1>2, <1>4 DEF GoesOn, Open
<1>7. Kept(stack, stack')
  BY <1>2, <1>5, <1>6, ReplacedKept
<1>8. Owns(stack', n, j)
  <2>1. n \in WaitsOf(stack') /\ stack'[n] = g
    BY <1>5 DEF Replaced
  <2>2. Top.i \in DOMAIN g.ids /\ g.ids[Top.i] = j
    BY <1>2, <1>4 DEF ThisJob
  <2>3. QED
    BY <1>6, <2>1, <2>2 DEF Owns
<1> HIDE DEF j
<1>9. parent'[j] = n /\ \A k \in Job : k # j => parent'[k] = parent[k]
  BY <1>2, <1>3 DEF DataInv, DataTypes
<1>10. ASSUME Careful PROVE mem[j] # "none"
  <2>1. n \in WaitsOf(stack) /\ stack[n].ids[Top.i] = j /\ Top.i \in DOMAIN stack[n].ids
    BY <1>2, <1>5 DEF Replaced, j, ThisJob
  <2>2. QED
    BY <1>10, <2>1 DEF LinkInv, ListsSound
<1>11. ASSUME Careful, NEW k \in Job
       PROVE  Linked(k, mem[k], statusPtr[k], parent[k], stopped[k], stack)'
  <2>1. Linked(k, mem[k], statusPtr[k], parent[k], stopped[k], stack')
    BY <1>3, <1>7, <1>11, LinkedKept DEF LinkInv
  <2>2. CASE k # j
    BY <1>3, <1>9, <2>1, <2>2
  <2>3. CASE k = j
    BY <1>3, <1>8, <1>9, <1>10, <1>11, <2>1, <2>3 DEF Linked
  <2>4. QED
    BY <2>2, <2>3
<1>12. Careful => ListsSound(stack, mem)'
  BY <1>3, <1>7, ListsKept DEF LinkInv, Aging
<1>13. QED
  BY <1>11, <1>12 DEF LinkInv

\* Of the jobs in the list, those that are live are found: none is a terminal,
\* and one with a status pointer was not stopped.
LEMMA ClearLinks ==
  ASSUME DataInv, LinkInv, DataInv', Clear
  PROVE  LinkInv'
<1> SUFFICES ASSUME Careful
             PROVE  /\ ListsSound(stack, mem)'
                    /\ \A k \in Job : Linked(k, mem[k], statusPtr[k], parent[k], stopped[k], stack)'
  BY DEF LinkInv
<1> DEFINE n == Len(stack)
           g == [Goto("restore") EXCEPT !.i = 1]
<1>0. Becomes(g)
  BY DEF Clear
<1>1. TopIs("wait") /\ Open(Top)
  BY DEF Clear, TopWait, Open
<1>2. /\ stack \in Seq(AnyFrame) /\ Top.ids \in Seq(Job)
      /\ UNCHANGED <<terminals, mem, parent, stopped>>
      /\ \A k \in Job : statusPtr'[k] = IF k \in Range(Top.ids) /\ FindJob(k) THEN NULL ELSE statusPtr[k]
  BY <1>1, TopWaitFacts DEF StackSound, Clear
<1>3. g \in WaitFrame /\ g.ids = Top.ids /\ g.pc = "restore" /\ g.i = 1
  <2> DEFINE pc == "restore"
  <2>1. pc \in Pcs
    BY PcsAre
  <2>2. g = [Goto(pc) EXCEPT !.i = 1]
    OBVIOUS
  <2> HIDE DEF g, pc
  <2>3. Goto(pc) \in WaitFrame /\ Goto(pc).ids = Top.ids /\ Goto(pc).pc = pc
    BY <1>1, <2>1, GotoFacts
  <2>4. g \in WaitFrame /\ g.ids = Top.ids /\ g.pc = pc /\ g.i = 1
    BY <2>2, <2>3 DEF WaitFrame
  <2>5. QED
    BY <2>4 DEF pc
<1> HIDE DEF g
<1>4. Replaced(stack, g, stack') /\ stack[n] = Top
  BY <1>0, <1>1, <1>3, BecomesReplaces
<1>5. ListsSound(stack, mem)'
  BY <1>2, <1>3, <1>4 DEF LinkInv, ListsSound, Replaced
<1>6. ASSUME NEW k, NEW j, Owns(stack, k, j) PROVE Owns(stack', k, j)
  <2>1. CASE k = n
    <3>1. n \in WaitsOf(stack') /\ stack'[n] = g
      BY <1>4 DEF Replaced
    <3>2. PICK p \in DOMAIN Top.ids : Top.ids[p] = j
      BY <1>4, <1>6, <2>1 DEF Owns
    <3>3. p >= 1
      BY <1>2, <3>2
    <3>4. QED
      BY <1>3, <2>1, <3>1, <3>2, <3>3 DEF Owns
  <2>2. CASE k # n
    BY <1>4, <1>6, <2>2 DEF Owns, Replaced
  <2>3. QED
    BY <2>1, <2>2
<1>7. ASSUME NEW k \in Job PROVE Linked(k, mem[k], statusPtr[k], parent[k], stopped[k], stack)'
  <2>1. Linked(k, mem[k], statusPtr[k], parent[k], stopped[k], stack)
    BY DEF LinkInv
  <2>2. ASSUME mem[k] = "live", statusPtr'[k] # NULL
        PROVE  ~stopped[k] /\ statusPtr'[k] = statusPtr[k] /\ Holds(stack', statusPtr[k].w, statusPtr[k].i, k)
    <3>1. /\ statusPtr'[k] = statusPtr[k] /\ ~(k \in Range(Top.ids) /\ FindJob(k))
          /\ ~stopped[k] /\ Holds(stack, statusPtr[k].w, statusPtr[k].i, k)
      BY <1>2, <2>1, <2>2 DEF Linked
    <3>2. CASE statusPtr[k].w = n
      <4>1. /\ n \in WaitsOf(stack) /\ statusPtr[k].i \in DOMAIN Top.ids
            /\ Top.ids[statusPtr[k].i] = k
        BY <1>4, <3>1, <3>2 DEF Holds
      <4>2. k \in Range(Top.ids) /\ k \notin terminals
        BY <1>4, <4>1 DEF LinkInv, ListsSound, Range
      <4>3. FindJob(k)
        BY <2>2, <3>1, <4>2, LiveInMap DEF FindJob
      <4>4. QED
        BY <3>1, <4>2, <4>3
    <3>3. CASE statusPtr[k].w # n
      BY <1>4, <3>1, <3>3 DEF Holds, Replaced
    <3>4. QED
      BY <3>1, <3>2, <3>3
  <2>3. mem[k] = "none" => statusPtr'[k] = NULL /\ parent[k] = Main
    BY <1>2, <2>1 DEF Linked
  <2>4. mem[k] = "live" /\ parent[k] # Main => Owns(stack', parent[k], k)
    BY <1>6, <2>1 DEF Linked
  <2>5. QED
    BY <1>2, <2>2, <2>3, <2>4 DEF Linked
<1>8. QED
  BY <1>5, <1>7

\* The next job of the loop that restores the parents: only this one is done.
LEMMA StepRestores ==
  ASSUME DataInv, DataInv', TopIs("wait"), Top.pc \in {"restore", "restoring"},
         Becomes(Step(Top, "restore", "return"))
  PROVE  /\ \A k, i, j : Holds(stack, k, i, j) => Holds(stack', k, i, j)
         /\ \A k, j : Owns(stack, k, j) /\ (k = Len(stack) => j # ThisJob) => Owns(stack', k, j)
         /\ Careful /\ LinkInv /\ UNCHANGED <<terminals, mem>> => ListsSound(stack, mem)'
<1> DEFINE n == Len(stack)
           g == Step(Top, "restore", "return")
<1>1. /\ g \in WaitFrame /\ g.ids = Top.ids /\ Top.i \in Nat \ {0} /\ Len(Top.ids) \in Nat
      /\ \/ Top.i < Len(Top.ids) /\ g.pc = "restore" /\ g.i = Top.i + 1
         \/ Top.i = Len(Top.ids) /\ g.pc = "return" /\ g.i = 1
  BY PcsAre, TopStep
<1>2. Becomes(g) /\ Top.ids \in Seq(Job)
  BY TopWaitFacts
<1> HIDE DEF g
<1>3. Replaced(stack, g, stack') /\ stack[n] = Top
  BY <1>1, <1>2, BecomesReplaces
<1>4. ASSUME NEW k, NEW i, NEW j, Holds(stack, k, i, j) PROVE Holds(stack', k, i, j)
  BY <1>3, <1>4 DEF Holds, Open, Replaced
<1>5. ASSUME NEW k, NEW j, Owns(stack, k, j), k = n => j # ThisJob PROVE Owns(stack', k, j)
  <2>1. CASE k = n
    <3>1. n \in WaitsOf(stack') /\ stack'[n] = g
      BY <1>3 DEF Replaced
    <3>2. PICK p \in DOMAIN Top.ids : Top.ids[p] = j /\ p >= Top.i
      BY <1>3, <1>5, <2>1 DEF Owns, Open
    <3>3. p # Top.i /\ p \in 1 .. Len(Top.ids)
      BY <1>2, <1>5, <2>1, <3>2 DEF ThisJob
    <3>4. g.pc = "restore" /\ p >= g.i
      BY <1>1, <3>2, <3>3
    <3>5. QED
      BY <1>1, <2>1, <3>1, <3>2, <3>4 DEF Owns
  <2>2. CASE k # n
    BY <1>3, <1>5, <2>2 DEF Owns, Replaced
  <2>3. QED
    BY <2>1, <2>2
<1>6. ASSUME Careful, LinkInv, UNCHANGED <<terminals, mem>> PROVE ListsSound(stack, mem)'
  BY <1>1, <1>3, <1>6 DEF LinkInv, ListsSound, Replaced
<1>7. QED
  BY <1>4, <1>5, <1>6

LEMMA RestoreLinks ==
  ASSUME DataInv, LinkInv, DataInv', Restore
  PROVE  LinkInv'
<1> DEFINE j == ThisJob
           n == Len(stack)
<1>1. TopIs("wait") /\ Top.pc = "restore" /\ ~Open(Top)
  BY DEF Restore, TopWait, Open
<1>2. /\ j \in Job /\ stack \in Seq(AnyFrame) /\ Aging
      /\ UNCHANGED <<terminals, mem, statusPtr, parent, stopped>>
  BY <1>1, TopWaitFacts DEF StackSound, Restore, dataVars, Aging
<1>3. CASE j \in jobs
  <2> DEFINE f == Goto("restoring")
  <2>1. Calls(f, DrainJob(j))
    BY <1>3 DEF Restore
  <2>2. f \in WaitFrame /\ f.ids = Top.ids /\ f.i = Top.i /\ f.pc = "restoring"
    BY <1>1, PcsAre, GotoFacts
  <2> HIDE DEF f, j
  <2>3. Replaced(stack, f, stack') /\ stack[n] = Top
    BY <1>1, <1>2, <2>1, <2>2, DrainFacts, CallsReplaces
  <2>4. GoesOn(Top, f)
    BY <1>1, <2>2 DEF GoesOn, Open
  <2>5. Kept(stack, stack')
    BY <1>2, <2>3, <2>4, ReplacedKept
  <2>6. QED
    BY <1>2, <2>5, LinksKept
<1>4. CASE j \notin jobs
  <2> SUFFICES ASSUME Careful
               PROVE  /\ ListsSound(stack, mem)'
                      /\ \A k \in Job : Linked(k, mem[k], statusPtr[k], parent[k], stopped[k], stack)'
    BY DEF LinkInv
  <2>1. Becomes(Step(Top, "restore", "return"))
    BY <1>4 DEF Restore
  <2>2. /\ \A k, i, x : Holds(stack, k, i, x) => Holds(stack', k, i, x)
        /\ \A k, x : Owns(stack, k, x) /\ (k = n => x # j) => Owns(stack', k, x)
        /\ ListsSound(stack, mem)'
    BY <1>1, <1>2, <2>1, StepRestores
  <2>3. n \in WaitsOf(stack) => j \notin terminals
    <3>1. stack[n] = Top /\ Top.i \in DOMAIN Top.ids /\ Top.ids[Top.i] = j
      <4>1. stack # <<>> /\ Top = Last(stack) /\ Top.i \in Nat \ {0} /\ Top.i <= Len(Top.ids)
            /\ Top.ids \in Seq(Job)
        BY <1>1, TopWaitFacts
      <4>2. stack[n] = Top
        BY <1>2, <4>1, PopFacts
      <4>3. QED
        BY <4>1, <4>2 DEF ThisJob
    <3>2. QED
      BY <3>1 DEF LinkInv, ListsSound
  <2>4. ASSUME NEW k \in Job PROVE Linked(k, mem[k], statusPtr[k], parent[k], stopped[k], stack)'
    <3>1. Linked(k, mem[k], statusPtr[k], parent[k], stopped[k], stack)
      BY DEF LinkInv
    <3>2. ASSUME mem[k] = "live", parent[k] # Main PROVE Owns(stack', parent[k], k)
      <4>1. Owns(stack, parent[k], k)
        BY <3>1, <3>2 DEF Linked
      <4>2. parent[k] = n => k # j
        BY <1>2, <1>4, <2>3, <3>2, <4>1, LiveInMap DEF Owns
      <4>3. QED
        BY <2>2, <4>1, <4>2
    <3>3. QED
      BY <1>2, <2>2, <3>1, <3>2 DEF Linked
  <2>5. QED
    BY <2>2, <2>4
<1>5. QED
  BY <1>3, <1>4

LEMMA RestoredLinks ==
  ASSUME DataInv, LinkInv, DataInv', Restored
  PROVE  LinkInv'
<1> SUFFICES ASSUME Careful
             PROVE  /\ ListsSound(stack, mem)'
                    /\ \A k \in Job : Linked(k, mem[k], statusPtr[k], parent[k], stopped[k], stack)'
  BY DEF LinkInv
<1> DEFINE j == ThisJob
<1>1. TopIs("wait") /\ Top.pc = "restoring" /\ Becomes(Step(Top, "restore", "return"))
  BY DEF Restored, TopWait
<1>2. /\ j \in Job /\ UNCHANGED <<terminals, mem, statusPtr, stopped>>
      /\ parent' = [parent EXCEPT ![j] = Main] /\ parent \in [Job -> 0 .. MaxDepth]
  BY <1>1, TopWaitFacts DEF Restored, dataVars, DataInv, DataTypes
<1>3. /\ \A k, i, x : Holds(stack, k, i, x) => Holds(stack', k, i, x)
      /\ \A k, x : Owns(stack, k, x) /\ (k = Len(stack) => x # j) => Owns(stack', k, x)
      /\ ListsSound(stack, mem)'
  BY <1>1, <1>2, StepRestores
<1> HIDE DEF j
<1>4. parent'[j] = Main /\ \A k \in Job : k # j => parent'[k] = parent[k]
  BY <1>2
<1>5. ASSUME NEW k \in Job PROVE Linked(k, mem[k], statusPtr[k], parent[k], stopped[k], stack)'
  <2>1. Linked(k, mem[k], statusPtr[k], parent[k], stopped[k], stack)
    BY DEF LinkInv
  <2>2. CASE k = j
    BY <1>2, <1>3, <1>4, <2>1, <2>2 DEF Linked
  <2>3. CASE k # j
    BY <1>2, <1>3, <1>4, <2>1, <2>3 DEF Linked
  <2>4. QED
    BY <2>2, <2>3
<1>6. QED
  BY <1>3, <1>5

\* Nothing is left to the jobwait() that returns.
LEMMA ReturnLinks ==
  ASSUME DataInv, LinkInv, DataInv', Return
  PROVE  LinkInv'
<1> SUFFICES ASSUME Careful
             PROVE  /\ ListsSound(stack, mem)'
                    /\ \A k \in Job : Linked(k, mem[k], statusPtr[k], parent[k], stopped[k], stack)'
  BY DEF LinkInv
<1> DEFINE n == Len(stack)
<1>1. /\ stack # <<>> /\ Top = Last(stack) /\ Top.kind = "wait" /\ Top.pc = "return"
      /\ UNCHANGED <<terminals, mem, statusPtr, parent, stopped>> /\ stack' = Front(stack)
  BY DEF Return, TopWait, TopIs, Top, dataVars, Pop, Callers
<1>2. stack \in Seq(AnyFrame) /\ stack' \in Seq(AnyFrame)
  BY DEF DataInv, StackSound
<1>3. Grown(stack', Top, stack) /\ Len(stack') + 1 = n
  <2>1. Len(stack') = n - 1 /\ n \in Nat \ {0}
    BY <1>1, <1>2, PopFacts
  <2>2. QED
    BY <1>1, <1>2, <2>1, FrontGrows
<1>4. /\ WaitsOf(stack) = WaitsOf(stack') \union {n} /\ stack[n] = Top
      /\ \A k \in WaitsOf(stack') : stack'[k] = stack[k]
  BY <1>1, <1>2, <1>3, WaitsOfGrown
<1> HIDE DEF n
<1>5. /\ \A k, i, j : Holds(stack, k, i, j) => Holds(stack', k, i, j)
      /\ \A k, j : Owns(stack, k, j) => Owns(stack', k, j)
  BY <1>1, <1>4 DEF Holds, Owns, Open
<1>6. ListsSound(stack, mem)'
  BY <1>1, <1>4 DEF LinkInv, ListsSound
<1>7. ASSUME NEW k \in Job PROVE Linked(k, mem[k], statusPtr[k], parent[k], stopped[k], stack)'
  BY <1>1, <1>5 DEF Linked, LinkInv
<1>8. QED
  BY <1>6, <1>7

-----------------------------------------------------------------------------
LEMMA InitLinks ==
  ASSUME Init
  PROVE  LinkInv
<1>1. WaitsOf(stack) = {}
  BY DEF Init, WaitsOf
<1>2. ListsSound(stack, mem)
  BY <1>1 DEF ListsSound
<1>3. \A j \in Job : Linked(j, mem[j], statusPtr[j], parent[j], stopped[j], stack)
  BY DEF Init, Linked
<1>4. QED
  BY <1>2, <1>3 DEF LinkInv

LEMMA NextLinks ==
  ASSUME DataInv, LinkInv, DataInv', [Next]_jobsVars
  PROVE  LinkInv'
<1>1. ASSUME NEW j \in Job,
             \/ Output(j) \/ Exit(j) \/ Closed(j)
             \/ HandleOutput(j) \/ HandleClose(j) \/ HandleExit(j) \/ HandleDelayed(j)
             \/ JobStart(j) \/ JobStartFails(j) \/ JobStop(j) \/ TermClose(j) \/ TermWiped(j)
      PROVE  LinkInv'
  <2>1. CASE Output(j) \/ Exit(j) \/ Closed(j)
    BY <2>1, PollLinks
  <2>2. CASE HandleOutput(j) \/ HandleClose(j) \/ HandleExit(j) \/ HandleDelayed(j)
    BY <2>2, HandleOutputLinks, HandlerLinks, HandleExitLinks
  <2>3. CASE JobStart(j) \/ JobStop(j)
    BY <2>3, JobStartLinks, JobStopLinks
  <2>4. CASE JobStartFails(j) \/ TermClose(j) \/ TermWiped(j)
    BY <2>4, UserLinks
  <2>5. QED
    BY <1>1, <2>1, <2>2, <2>3, <2>4
<1>2. ASSUME NEW ids \in Lists, NEW timed \in BOOLEAN, JobWait(ids, timed) PROVE LinkInv'
  BY <1>2, JobWaitLinks
<1>3. CASE PollFast \/ DrainMain \/ DrainEnd \/ CallbackEnd \/ Interrupt
  BY <1>3, PollLinks, DrainMainLinks, DrainEndLinks, CallbackEndLinks, UserLinks
<1>4. CASE \/ Enter \/ Entered \/ TimedOutAtOnce \/ Skip \/ WaitPolled \/ WaitBegin \/ WaitDrain
           \/ WaitInterrupted
  BY <1>4, EnterLinks, EnteredLinks, TimedOutAtOnceLinks, SkipLinks, WaitPolledLinks, WaitBeginLinks,
     WaitDrainLinks, WaitInterruptedLinks
<1>5. CASE WaitExited \/ WaitGivesUp \/ Waited \/ Clear \/ Restore \/ Restored \/ Return
  BY <1>5, WaitExitedLinks, WaitGivesUpLinks, WaitedLinks, ClearLinks, RestoreLinks, RestoredLinks,
     ReturnLinks
<1>6. CASE UNCHANGED jobsVars
  <2>1. Aging /\ UNCHANGED <<terminals, statusPtr, parent, stopped, stack>>
    BY <1>6 DEF jobsVars, dataVars, Aging
  <2>2. QED
    BY <2>1, StackSame, LinksKept
<1>7. QED
  BY <1>1, <1>2, <1>3, <1>4, <1>5, <1>6 DEF Next

\* The pointers of every job to a jobwait() agree with the calls under way.
THEOREM LinkInductive == Spec => []LinkInv
<1>1. Init => LinkInv
  BY InitLinks
<1>2. DataInv /\ LinkInv /\ DataInv' /\ [Next]_jobsVars => LinkInv'
  BY NextLinks
<1>3. QED
  BY <1>1, <1>2, Inductive, PTL DEF Spec

-----------------------------------------------------------------------------
\* The frames of a kind, by their place on the stack.
LEMMA FramesAt ==
  ASSUME NEW kind, NEW f \in Frames(kind), StackSound(stack)
  PROVE  \E k \in 1 .. Len(stack) : stack[k] = f /\ f.kind = kind /\ FrameSound(f, k) /\ f \in AnyFrame
<1>1. DOMAIN stack = 1 .. Len(stack) /\ \A k \in 1 .. Len(stack) : FrameSound(stack[k], k)
      /\ stack \in Seq(AnyFrame)
  BY DEF StackSound
<1>2. PICK k \in DOMAIN stack : stack[k] = f /\ f.kind = kind
  BY DEF Frames, Range
<1>3. QED
  BY <1>1, <1>2

\* A call that is counted is of a job in the map.
LEMMA CalledIsLive ==
  ASSUME DataInv, NEW j \in Job, NEW k \in 1 .. Len(stack),
         \/ stack[k] \in {Callback(j, "out"), Callback(j, "exit")} \/ WaitsFor(stack[k], j)
  PROVE  mem[j] = "live"
<1>1. stack \in Seq(AnyFrame) /\ DOMAIN stack = 1 .. Len(stack)
  BY DEF DataInv, StackSound
<1>2. CASE stack[k] = Callback(j, "out")
  <2>1. Outs(j, stack) # 0
    BY <1>1, <1>2, TimesIsNumber DEF Outs
  <2>2. QED
    BY <2>1, JobLive
<1>3. CASE stack[k] = Callback(j, "exit")
  <2>1. Lasts(j, stack) # 0
    BY <1>1, <1>3, TimesIsNumber DEF Lasts
  <2>2. QED
    BY <2>1, JobLive
<1>4. CASE WaitsFor(stack[k], j)
  <2>1. k \in WaitsOn(j, stack)
    BY <1>1, <1>4 DEF WaitsOn
  <2>2. IsFiniteSet(1 .. Len(stack)) /\ WaitsOn(j, stack) \subseteq 1 .. Len(stack)
    BY <1>1, FS_Interval DEF WaitsOn
  <2>3. IsFiniteSet(WaitsOn(j, stack))
    BY <2>2, FS_Subset
  <2>4. Waits(j, stack) # 0
    BY <2>1, <2>3, FS_EmptySet DEF Waits
  <2>5. QED
    BY <2>4, JobLive
<1>5. QED
  BY <1>2, <1>3, <1>4

\* So is an event that is queued, or the job is a terminal that closes.
LEMMA QueuedIsLive ==
  ASSUME DataInv, NEW j \in Job, queue[j] # <<>>
  PROVE  mem[j] = "live"
<1> DEFINE q == queue[j]
           e == q[1]
<1>1. q \in Seq(Event)
  BY DEF DataInv, DataTypes
<1>2. 1 \in DOMAIN q /\ e \in Event /\ q[1] = e
  BY <1>1
<1> HIDE DEF e, q
<1>3. Times(e, q) # 0
  BY <1>1, <1>2, TimesIsNumber
<1>4. QED
  BY <1>2, <1>3, JobLive DEF q

\* A drain of one job's queue: the innermost, or it called a callback.
LEMMA DrainedIsNotFreed ==
  ASSUME DataInv, NEW k \in 1 .. Len(stack), stack[k].kind = "drain", NEW j \in stack[k].of
  PROVE  j \in Job /\ mem[j] # "freed"
<1>1. /\ stack \in Seq(AnyFrame) /\ Len(stack) \in Nat /\ stack[k] \in AnyFrame
      /\ FrameSound(stack[k], k) /\ stack # <<>>
  BY DEF DataInv, StackSound
<1>2. stack[k].parent = NULL /\ stack[k].of = {j} /\ j \in Job
  BY <1>1 DEF FrameSound
<1>3. CASE k = Len(stack)
  <2>1. Last(stack) = stack[k]
    BY <1>1, <1>3, PopFacts
  <2>2. QED
    BY <1>1, <1>2, <2>1 DEF DataInv, Uses
<1>4. CASE k # Len(stack)
  <2>1. k \in 1 .. Len(stack) - 1 /\ k + 1 \in 1 .. Len(stack)
    BY <1>1, <1>4
  <2>2. MayCall(stack[k], stack[k + 1]) /\ stack[k + 1] \in AnyFrame
    BY <1>1, <2>1 DEF DataInv, StackSound
  <2>3. stack[k + 1].kind = "cb" /\ stack[k + 1].job = j
    BY <1>2, <2>2 DEF MayCall
  <2>4. stack[k + 1] \in {Callback(j, "out"), Callback(j, "exit")}
    BY <2>2, <2>3, FrameKinds
  <2>5. mem[j] = "live"
    BY <1>2, <2>1, <2>4, CalledIsLive
  <2>6. QED
    BY <1>2, <2>5
<1>5. QED
  BY <1>3, <1>4

\* A jobwait() that enters or leaves a job: the innermost, or it called a drain.
LEMMA EnteredIsNotFreed ==
  ASSUME DataInv, NEW k \in 1 .. Len(stack), stack[k].kind = "wait",
         stack[k].pc \in {"entering", "restoring"}
  PROVE  mem[stack[k].ids[stack[k].i]] # "freed"
<1>1. stack \in Seq(AnyFrame) /\ Len(stack) \in Nat /\ FrameSound(stack[k], k) /\ stack # <<>>
  BY DEF DataInv, StackSound
<1>2. CASE k = Len(stack)
  <2>1. Last(stack) = stack[k]
    BY <1>1, <1>2, PopFacts
  <2>2. QED
    BY <1>1, <2>1 DEF DataInv, Uses
<1>3. CASE k # Len(stack)
  <2> DEFINE j == stack[k].ids[stack[k].i]
  <2>1. k \in 1 .. Len(stack) - 1 /\ k + 1 \in 1 .. Len(stack)
    BY <1>1, <1>3
  <2>2. stack[k + 1] = DrainJob(j)
    BY <1>1, <2>1 DEF DataInv, StackSound, MayCall
  <2>3. stack[k + 1].kind = "drain" /\ j \in stack[k + 1].of
    BY <2>2 DEF DrainJob
  <2> HIDE DEF j
  <2>4. mem[j] # "freed"
    BY <2>1, <2>3, DrainedIsNotFreed
  <2>5. QED
    BY <2>4 DEF j
<1>4. QED
  BY <1>2, <1>3

\* term_delayed_free, jobs and jobwait(): what is under way for a job, or queued,
\* has its data, whatever the callbacks do; and a status pointer and a parent
\* queue are those of a jobwait() that has not returned, when the callbacks are
\* careful.
THEOREM PointersLive == Spec => []PointersAreLive
<1>1. ASSUME DataInv, LinkInv, Careful, NEW j \in Job, mem[j] = "live"
      PROVE  /\ statusPtr[j] # NULL => statusPtr[j].w \in RunningWaits
             /\ parent[j] \in {Main} \union RunningWaits
  <2>1. RunningWaits = WaitsOf(stack)
    BY <1>1, WaitsAreRunning DEF DataInv
  <2>2. Linked(j, mem[j], statusPtr[j], parent[j], stopped[j], stack)
    BY <1>1 DEF LinkInv
  <2>3. QED
    BY <1>1, <2>1, <2>2 DEF Linked, Holds, Owns
<1>2. ASSUME DataInv, NEW j \in Job
      PROVE  /\ queue[j] # <<>> \/ Frames("cb") \cap {Callback(j, "out"), Callback(j, "exit")} # {}
                  => mem[j] = "live"
             /\ \A f \in Frames("drain") : j \in f.of => mem[j] # "freed"
             /\ \A f \in Frames("wait") :
                  /\ f.pc \in {"waiting", "stopping", "polling", "polled"} /\ f.ids[f.i] = j
                       => mem[j] = "live"
                  /\ f.pc \in {"entering", "restoring"} /\ f.ids[f.i] = j => mem[j] # "freed"
  <2>1. StackSound(stack)
    BY <1>2 DEF DataInv
  <2>2. ASSUME queue[j] # <<>> PROVE mem[j] = "live"
    BY <1>2, <2>2, QueuedIsLive
  <2>3. ASSUME NEW f \in Frames("cb"), f \in {Callback(j, "out"), Callback(j, "exit")}
        PROVE  mem[j] = "live"
    BY <1>2, <2>1, <2>3, FramesAt, CalledIsLive
  <2>4. ASSUME NEW f \in Frames("drain"), j \in f.of PROVE mem[j] # "freed"
    BY <1>2, <2>1, <2>4, FramesAt, DrainedIsNotFreed
  <2>5. ASSUME NEW f \in Frames("wait"), f.pc \in Waiting, f.ids[f.i] = j PROVE mem[j] = "live"
    BY <1>2, <2>1, <2>5, FramesAt, CalledIsLive DEF WaitsFor
  <2>6. ASSUME NEW f \in Frames("wait"), f.pc \in {"entering", "restoring"}, f.ids[f.i] = j
        PROVE  mem[j] # "freed"
    BY <1>2, <2>1, <2>6, FramesAt, EnteredIsNotFreed
  <2>7. QED
    BY <2>2, <2>3, <2>4, <2>5, <2>6 DEF Waiting
<1>3. DataInv => RefsAreExact
  BY RefsOfData
<1>4. ASSUME DataInv, LinkInv PROVE PointersAreLive
  <2>1. ASSUME Careful PROVE StatusPointersAreLive
    BY <1>1, <1>4, <2>1 DEF StatusPointersAreLive
  <2>2. RefsAreExact
    BY <1>3, <1>4
  <2>3. ASSUME Careful PROVE \A j \in Job : mem[j] = "live" => parent[j] \in {Main} \union RunningWaits
    BY <1>1, <1>4, <2>3
  <2>4. QED
    BY <1>2, <1>4, <2>1, <2>2, <2>3, Zenon DEF PointersAreLive
<1>5. QED
  BY <1>4, Inductive, LinkInductive, PTL

-----------------------------------------------------------------------------
(***************************************************************************)
(* The inductive invariant: what the list of a jobwait() says              *)
(***************************************************************************)

\* The places of the list whose jobs have the wait as parent, and those whose
\* jobs were waited for.
EnteredUpTo(f) == IF f.pc \in {"enter", "entering"} THEN f.i - 1 ELSE Len(f.ids)
DoneUpTo(f) ==
  CASE f.pc \in {"enter", "entering"} -> 0
    [] f.pc \in Waiting \union {"loop", "waited"} -> f.i - 1
    [] OTHER -> Len(f.ids)

\* A drain d of the queue that has the exit event of a process that is gone is
\* above the frame k.
ExitsAbove(k, d, ph, s) == k < Len(s) /\ s[k + 1] = d /\ ph = "gone"

\* The loop of jobwait() is over.
Ended == {"clear", "restore", "restoring", "return"}

\* What place p of the list of the frame f, at depth k, says of its job j: whether
\* j is found, its status pointer at, parent queue of and phase ph.
Tells(j, p, k, f, found, at, of, ph, s) ==
  /\ f.res[p] = "-2" => f.broke = "interrupted" /\ f.pc \in Ended
  /\ f.res[p] = "-3" => ~found /\ (p = f.i => f.pc \notin Waiting \union {"waited"})
  /\ Open(f) /\ f.res[p] # "-3" =>
       at = [w |-> k, i |-> p] /\ (p <= EnteredUpTo(f) => of = k)
  /\ Open(f) /\ f.res[p] = "-1" => found /\ Lasts(j, s) = 0
  /\ f.res[p] = "-1" /\ f.broke = "no" /\ p <= DoneUpTo(f) =>
       f.pc \in {"loop", "clear"} /\ ExitsAbove(k, DrainJob(j), ph, s)
  /\ f.res[p] = "-1" /\ f.pc = "waited" /\ p = f.i => ExitsAbove(k, DrainParent(k), ph, s)

Told(k) ==
  \A p \in 1 .. Len(stack[k].res) :
    LET j == stack[k].ids[p]
    IN  Tells(j, p, k, stack[k], FindJob(j), statusPtr[j], parent[j], phase[j], stack)

\* A job is in the list of one jobwait() at most, once, and no callback of it
\* called that one.
Apart(s) ==
  \A k \in WaitsOf(s) : \A p \in DOMAIN s[k].ids :
    /\ \A l \in WaitsOf(s) : \A q \in DOMAIN s[l].ids : s[k].ids[p] = s[l].ids[q] => k = l /\ p = q
    /\ \A c \in 1 .. k - 1 : s[c].kind = "cb" => s[c].job # s[k].ids[p]

TellsInv == Careful => Apart(stack) /\ \A k \in WaitsOf(stack) : Told(k)

-----------------------------------------------------------------------------
(***************************************************************************)
(* Steps that leave the lists alone                                        *)
(***************************************************************************)

\* A step after which a list says of j what it said.
Steady(j) ==
  /\ ~FindJob(j) => ~FindJob(j)'
  /\ FindJob(j) /\ Lasts(j, stack) = 0 => FindJob(j)' /\ Lasts(j, stack') = 0
  /\ statusPtr'[j] = statusPtr[j] /\ parent'[j] = parent[j]
  /\ phase[j] = "gone" => phase'[j] = "gone"

\* The frame k is the same, and the one that it called.
Same(k) == stack'[k] = stack[k] /\ (k < Len(stack) => k < Len(stack') /\ stack'[k + 1] = stack[k + 1])

\* j is in the list of the frame k.
Listed(k, j) == \E p \in DOMAIN stack[k].ids : stack[k].ids[p] = j

LEMMA PlaceFacts ==
  ASSUME NEW s, StackSound(s), NEW k \in WaitsOf(s)
  PROVE  /\ k \in 1 .. Len(s) /\ Len(s) \in Nat /\ s[k] \in WaitFrame /\ WaitSound(s[k], k)
         /\ s[k].kind = "wait" /\ Len(s[k].res) \in Nat /\ Len(s[k].ids) \in Nat
         /\ s[k].res \in Seq(Status) /\ s[k].ids \in Seq(Job)
         /\ \A p \in 1 .. Len(s[k].res) : p \in DOMAIN s[k].ids /\ s[k].ids[p] \in Job
<1>1. /\ k \in 1 .. Len(s) /\ Len(s) \in Nat /\ s[k] \in WaitFrame /\ s[k].kind = "wait"
      /\ WaitSound(s[k], k)
  BY WaitsAreWaits DEF StackSound, FrameSound
<1>2. s[k].ids \in Seq(Job) /\ s[k].i \in Nat /\ s[k].res \in Seq(Status)
  BY <1>1 DEF WaitFrame
<1>3. Len(s[k].res) \in Nat /\ Len(s[k].ids) \in Nat
  BY <1>2
<1>4. Len(s[k].res) <= Len(s[k].ids)
  BY <1>1, <1>2, <1>3 DEF WaitSound
<1>5. QED
  BY <1>1, <1>2, <1>3, <1>4

\* Above a jobwait() that is not the innermost frame is a drain.
LEMMA DrainAbove ==
  ASSUME StackSound(stack), NEW k \in WaitsOf(stack), k < Len(stack)
  PROVE  k + 1 \in 1 .. Len(stack) /\ stack[k + 1].kind = "drain"
<1>1. k \in 1 .. Len(stack) - 1 /\ k + 1 \in 1 .. Len(stack) /\ stack[k].kind = "wait"
  BY PlaceFacts
<1>2. QED
  BY <1>1 DEF StackSound, MayCall

LEMMA ToldKept ==
  ASSUME StackSound(stack), NEW k \in WaitsOf(stack), Told(k), Same(k),
         \A j \in Job : Listed(k, j) => Steady(j)
  PROVE  Told(k)'
<1> DEFINE f == stack[k]
<1>1. \A p \in 1 .. Len(f.res) : p \in DOMAIN f.ids /\ f.ids[p] \in Job
  BY PlaceFacts
<1>2. ASSUME NEW p \in 1 .. Len(f.res), NEW j \in Job, j = f.ids[p]
      PROVE  Tells(j, p, k, f, FindJob(j)', statusPtr'[j], parent'[j], phase'[j], stack')
  <2>1. Tells(j, p, k, f, FindJob(j), statusPtr[j], parent[j], phase[j], stack)
    BY <1>2 DEF Told
  <2>2. Steady(j)
    BY <1>1, <1>2 DEF Listed
  <2>3. ASSUME NEW d, ExitsAbove(k, d, phase[j], stack) PROVE ExitsAbove(k, d, phase'[j], stack')
    BY <2>2, <2>3 DEF ExitsAbove, Same, Steady
  <2> HIDE DEF f
  <2>4. QED
    BY <2>1, <2>2, <2>3 DEF Tells, Steady
<1>3. stack'[k] = f
  BY DEF Same
<1> HIDE DEF f
<1>4. QED
  BY <1>1, <1>2, <1>3 DEF Told

LEMMA ApartKept ==
  ASSUME NEW s, NEW u, Apart(s), WaitsOf(u) \subseteq WaitsOf(s), \A k \in WaitsOf(u) : u[k].ids = s[k].ids,
         \A k \in WaitsOf(u) : \A c \in 1 .. k - 1 :
           u[c].kind = "cb" => s[c].kind = "cb" /\ u[c].job = s[c].job
  PROVE  Apart(u)
BY DEF Apart

\* No job is started, stopped or taken off the map that is waited for, and the
\* frames of the waits stay: so do the lists.
LEMMA TellsKept ==
  ASSUME DataInv, TellsInv, WaitsOf(stack') = WaitsOf(stack), \A k \in WaitsOf(stack) : Same(k),
         \A k \in WaitsOf(stack) : \A c \in 1 .. k - 1 : stack'[c] = stack[c],
         Careful => \A k \in WaitsOf(stack) : \A j \in Job : Listed(k, j) => Steady(j)
  PROVE  TellsInv'
<1> SUFFICES ASSUME Careful PROVE Apart(stack') /\ \A k \in WaitsOf(stack') : Told(k)'
  BY DEF TellsInv
<1>1. Apart(stack')
  BY ApartKept DEF TellsInv, Same
<1>2. \A k \in WaitsOf(stack) : Told(k)'
  BY ToldKept DEF TellsInv, DataInv
<1>3. QED
  BY <1>1, <1>2

\* Jobs in lists were started.
LEMMA ListedIsNot ==
  ASSUME DataInv, LinkInv, Careful, NEW k \in WaitsOf(stack), NEW j, Listed(k, j)
  PROVE  mem[j] # "none" /\ WaitedFor(j) /\ j \in Job /\ j \notin terminals
<1>1. k \in DOMAIN stack /\ stack[k].kind = "wait" /\ stack[k] \in Range(stack)
  BY DEF WaitsOf, Range
<1>2. PICK p \in DOMAIN stack[k].ids : stack[k].ids[p] = j
  BY DEF Listed
<1>3. j \in Range(stack[k].ids)
  BY <1>2 DEF Range
<1>4. QED
  BY <1>1, <1>2, <1>3 DEF LinkInv, ListsSound, WaitedFor, Frames

\* A poll, a handler or a user's call that changes no frame.
LEMMA FramesStay ==
  ASSUME DataInv, LinkInv, TellsInv, stack' = stack, UNCHANGED <<statusPtr, parent>>,
         \A j \in Job : phase[j] = "gone" => phase'[j] = "gone",
         Careful => \A j \in Job : mem[j] # "none" /\ WaitedFor(j) => (FindJob(j)' <=> FindJob(j))
  PROVE  TellsInv'
<1>1. \A k \in WaitsOf(stack) : Same(k)
  BY DEF Same
<1>2. ASSUME Careful, NEW k \in WaitsOf(stack), NEW j \in Job, Listed(k, j) PROVE Steady(j)
  BY <1>2, ListedIsNot DEF Steady
<1>3. QED
  BY <1>1, <1>2, TellsKept

LEMMA PollTells ==
  ASSUME DataInv, LinkInv, TellsInv, PollFast \/ \E j \in Job : Output(j) \/ Exit(j) \/ Closed(j)
  PROVE  TellsInv'
<1>1. UNCHANGED <<stack, statusPtr, parent, jobs, stopped>>
  BY DEF PollFast, Output, Exit, Closed
<1>2. \A j \in Job : phase[j] = "gone" => phase'[j] = "gone"
  BY DEF PollFast, Output, Exit, Closed, procVars, DataInv, DataTypes
<1>3. QED
  BY <1>1, <1>2, FramesStay DEF FindJob

LEMMA HandlerTells ==
  ASSUME DataInv, LinkInv, TellsInv, NEW j \in Job, HandleClose(j) \/ HandleDelayed(j)
  PROVE  TellsInv'
<1>1. UNCHANGED <<stack, statusPtr, parent, jobs, stopped>>
  BY DEF HandleClose, HandleDelayed, dataVars
<1>2. phase[j] # "gone" \/ UNCHANGED phase
  <2>1. CASE HandleClose(j)
    <3>1. Times("close", queue[j]) # 0
      BY <2>1, HandlingFacts DEF HandleClose, Event
    <3>2. QED
      BY <3>1 DEF DataInv, JobSound, JobIs, Sound, One
  <2>2. QED
    BY <2>1 DEF HandleDelayed, procVars
<1>3. phase \in [Job -> Phases] /\ (phase' = [phase EXCEPT ![j] = "closing"] \/ UNCHANGED phase)
  BY DEF DataInv, DataTypes, HandleClose, HandleDelayed, procVars
<1>4. \A k \in Job : phase[k] = "gone" => phase'[k] = "gone"
  BY <1>2, <1>3
<1>5. QED
  BY <1>1, <1>4, FramesStay DEF FindJob

LEMMA UserTells ==
  ASSUME DataInv, LinkInv, TellsInv,
         Interrupt \/ \E j \in Job : JobStartFails(j) \/ TermWiped(j) \/ TermClose(j)
  PROVE  TellsInv'
<1>1. UNCHANGED <<stack, statusPtr, parent, jobs, stopped, phase>>
  BY DEF JobStartFails, TermWiped, TermClose, Interrupt, dataVars, procVars
<1>2. QED
  BY <1>1, FramesStay DEF FindJob

LEMMA JobStartTells ==
  ASSUME DataInv, LinkInv, TellsInv, NEW j \in Job, JobStart(j) \/ JobStop(j)
  PROVE  TellsInv'
<1>1. UNCHANGED <<stack, statusPtr, parent>>
  BY DEF JobStart, JobStop
<1>2. CASE JobStart(j)
  <2>1. /\ mem[j] = "none" /\ jobs' = jobs \union {j} /\ UNCHANGED stopped
        /\ phase' = [phase EXCEPT ![j] = "running"] /\ phase \in [Job -> Phases]
    BY <1>2 DEF JobStart, DataInv, DataTypes
  <2>2. phase[j] = "none"
    BY <2>1 DEF DataInv, JobSound, JobIs, Sound
  <2>3. QED
    BY <1>1, <2>1, <2>2, FramesStay DEF FindJob
<1>3. CASE JobStop(j)
  <2>1. /\ Careful => ~WaitedFor(j)
        /\ stopped' = [stopped EXCEPT ![j] = TRUE] /\ stopped \in [Job -> BOOLEAN] /\ UNCHANGED <<jobs, phase>>
    BY <1>3 DEF JobStop, DataInv, DataTypes
  <2>2. \A k \in Job : k # j => stopped'[k] = stopped[k]
    BY <2>1
  <2>3. QED
    BY <1>1, <2>1, <2>2, FramesStay DEF FindJob
<1>4. QED
  BY <1>2, <1>3

-----------------------------------------------------------------------------
\* Drains and callbacks come and go.

\* A drain, or a callback that is not of the exit, is called: not by a jobwait().
LEMMA PushTells ==
  ASSUME DataInv, TellsInv, DataInv', NEW g \in AnyFrame, g.kind # "wait", Push(g),
         stack # <<>> => Last(stack).kind # "wait",
         \A j \in Job : Callback(j, "exit") # g, UNCHANGED <<statusPtr, parent, jobs, stopped, phase>>
  PROVE  TellsInv'
<1>1. stack \in Seq(AnyFrame) /\ stack' \in Seq(AnyFrame) /\ Len(stack) \in Nat
  BY DEF DataInv, StackSound
<1>2. Grown(stack, g, stack')
  BY <1>1, AppendGrows DEF Push
<1>3. WaitsOf(stack') = WaitsOf(stack)
  BY <1>1, <1>2, WaitsOfGrown
<1>4. ASSUME NEW k \in WaitsOf(stack) PROVE k \in 1 .. Len(stack) - 1
  <2>1. k \in 1 .. Len(stack) /\ stack[k].kind = "wait"
    BY <1>1, WaitsAreWaits
  <2>2. k # Len(stack)
    <3>1. stack # <<>>
      BY <1>1, <2>1
    <3>2. Last(stack) = stack[Len(stack)]
      BY <1>1, <3>1, PopFacts
    <3>3. QED
      BY <2>1, <3>1, <3>2
  <2>3. QED
    BY <1>1, <2>1, <2>2
<1>5. ASSUME NEW k \in WaitsOf(stack) PROVE Same(k) /\ \A c \in 1 .. k - 1 : stack'[c] = stack[c]
  BY <1>1, <1>2, <1>4 DEF Grown, Same
<1>6. ASSUME NEW j \in Job PROVE Steady(j)
  <2>1. Lasts(j, stack') = Lasts(j, stack)
    <3>1. Callback(j, "exit") # g /\ Times(Callback(j, "exit"), stack) \in Nat
      BY <1>1, TimesIsNumber
    <3>2. Times(Callback(j, "exit"), stack') = Times(Callback(j, "exit"), stack) + One(g = Callback(j, "exit"))
      BY <1>1, <1>2, TimesGrown
    <3>3. QED
      BY <3>1, <3>2 DEF Lasts, One
  <2>2. QED
    BY <2>1 DEF Steady, FindJob
<1>7. QED
  BY <1>3, <1>5, <1>6, TellsKept

LEMMA DrainMainTells ==
  ASSUME DataInv, TellsInv, DataInv', DrainMain
  PROVE  TellsInv'
<1> DEFINE g == DrainParent(Main)
<1>1. g \in AnyFrame /\ g.kind = "drain"
  BY DrainFacts DEF Main
<1>2. UNCHANGED <<statusPtr, parent, jobs, stopped, phase>> /\ Push(g)
  BY DEF DrainMain, dataVars, procVars
<1>3. stack # <<>> => Last(stack).kind # "wait"
  BY DEF DrainMain, UserTurn, TopIs, Top
<1>4. \A j \in Job : Callback(j, "exit") # g
  BY <1>1, CallbackFacts
<1> HIDE DEF g
<1>5. QED
  BY <1>1, <1>2, <1>3, <1>4, PushTells

LEMMA HandleOutputTells ==
  ASSUME DataInv, LinkInv, TellsInv, DataInv', NEW j \in Job, HandleOutput(j)
  PROVE  TellsInv'
<1> DEFINE g == Callback(j, "out")
<1>1. UNCHANGED <<statusPtr, parent, jobs, stopped, phase>> /\ (Push(g) \/ stack' = stack)
  BY DEF HandleOutput, dataVars, procVars
<1>2. g \in AnyFrame /\ g.kind = "cb" /\ \A k \in Job : Callback(k, "exit") # g
  BY CallbackFacts
<1>3. stack # <<>> => Last(stack).kind # "wait"
  BY DEF HandleOutput, Handling, TopIs, Top
<1> HIDE DEF g
<1>4. CASE Push(g)
  BY <1>1, <1>2, <1>3, <1>4, PushTells
<1>5. CASE stack' = stack
  BY <1>1, <1>5, FramesStay DEF FindJob
<1>6. QED
  BY <1>1, <1>4, <1>5

\* The innermost frame returns.
LEMMA PopFrames ==
  ASSUME DataInv, stack # <<>>, Pop
  PROVE  /\ WaitsOf(stack') = WaitsOf(stack) \ {Len(stack)}
         /\ \A k \in WaitsOf(stack') : stack'[k] = stack[k] /\ \A c \in 1 .. k - 1 : stack'[c] = stack[c]
         /\ \A k \in WaitsOf(stack') : k # Len(stack) - 1 => Same(k)
         /\ Len(stack') = Len(stack) - 1 /\ Len(stack) \in Nat \ {0} /\ stack[Len(stack)] = Last(stack)
         /\ \A k \in WaitsOf(stack') : k \in 1 .. Len(stack) - 1
         /\ \A x : Times(x, stack) = Times(x, stack') + One(Last(stack) = x)
<1>1. /\ stack \in Seq(AnyFrame) /\ stack' \in Seq(AnyFrame) /\ Last(stack) \in AnyFrame
      /\ Grown(stack', Last(stack), stack)
      /\ Len(stack') = Len(stack) - 1 /\ Len(stack) \in Nat \ {0} /\ stack[Len(stack)] = Last(stack)
  <2>1. stack \in Seq(AnyFrame) /\ stack' = Front(stack)
    BY DEF DataInv, StackSound, Pop, Callers
  <2>2. QED
    BY <2>1, FrontGrows, PopFacts
<1>2. DOMAIN stack' = 1 .. Len(stack) - 1 /\ DOMAIN stack = 1 .. Len(stack)
  BY <1>1
<1>3. \A c \in 1 .. Len(stack) - 1 : stack'[c] = stack[c]
  BY <1>1 DEF Grown
<1>4. WaitsOf(stack') = WaitsOf(stack) \ {Len(stack)}
  BY <1>1, <1>2, <1>3 DEF WaitsOf
<1>5. \A k \in WaitsOf(stack') : k \in 1 .. Len(stack) - 1
  BY <1>2 DEF WaitsOf
<1>6. ASSUME NEW k \in WaitsOf(stack')
      PROVE  /\ stack'[k] = stack[k] /\ \A c \in 1 .. k - 1 : stack'[c] = stack[c]
             /\ k # Len(stack) - 1 => Same(k)
  BY <1>1, <1>3, <1>5 DEF Same
<1>7. \A x : Times(x, stack) = Times(x, stack') + One(Last(stack) = x)
  BY <1>1, TimesGrown
<1>8. QED
  BY <1>1, <1>4, <1>5, <1>6, <1>7

\* process_wait is not under way for the job of a list whose jobwait() is
\* elsewhere.
LEMMA NotWaited ==
  ASSUME StackSound(stack), Apart(stack), NEW k \in WaitsOf(stack), NEW p \in DOMAIN stack[k].ids,
         stack[k].pc \notin Waiting, NEW j, j = stack[k].ids[p]
  PROVE  Waits(j, stack) = 0
<1>1. ASSUME NEW l \in WaitsOn(j, stack) PROVE FALSE
  <2>1. l \in WaitsOf(stack) /\ WaitsFor(stack[l], j)
    BY DEF WaitsOn, WaitsOf, WaitsFor
  <2>2. /\ stack[l].ids \in Seq(Job) /\ stack[l] \in WaitFrame /\ WaitSound(stack[l], l)
    BY <2>1, PlaceFacts
  <2>3. stack[l].i \in DOMAIN stack[l].ids
    BY <2>1, <2>2 DEF WaitSound, WaitsFor, WaitFrame, Waiting
  <2>4. stack[l].ids[stack[l].i] = stack[k].ids[p]
    BY <2>1 DEF WaitsFor
  <2>5. k = l
    BY <2>1, <2>3, <2>4 DEF Apart
  <2>6. QED
    BY <2>1, <2>5 DEF WaitsFor
<1>2. WaitsOn(j, stack) = {}
  BY <1>1
<1>3. QED
  BY <1>2, FS_EmptySet DEF Waits

\* The exit event of a process that is gone is queued until it is handled.
LEMMA ExitIsQueued ==
  ASSUME DataInv, NEW j \in Job, FindJob(j), Lasts(j, stack) = 0, Waits(j, stack) = 0, phase[j] = "gone"
  PROVE  queue[j] # <<>> /\ mem[j] = "live"
<1>1. Times("exit", queue[j]) = 1 /\ mem[j] = "live"
  <2>1. JobSound(j) /\ Times("exit", queue[j]) \in Nat
    BY TimesIsNumber DEF DataInv, DataTypes
  <2>2. QED
    BY <2>1 DEF JobSound, JobIs, Sound, One, FindJob
<1>2. QED
  BY <1>1, TimesEmpty

\* So the drain above a jobwait() does not end before it.
LEMMA DrainEndTells ==
  ASSUME DataInv, TellsInv, DataInv', DrainEnd
  PROVE  TellsInv'
<1> SUFFICES ASSUME Careful PROVE Apart(stack') /\ \A k \in WaitsOf(stack') : Told(k)'
  BY DEF TellsInv
<1>1. /\ stack # <<>> /\ Top = Last(stack) /\ Top.kind = "drain" /\ Pop /\ StackSound(stack)
      /\ \A j \in Drained(Top) : queue[j] = <<>>
      /\ UNCHANGED <<statusPtr, parent, jobs, stopped, phase>>
  BY DEF DrainEnd, TopIs, Top, dataVars, procVars, DataInv
<1>2. /\ WaitsOf(stack') = WaitsOf(stack) \ {Len(stack)}
      /\ \A k \in WaitsOf(stack') : stack'[k] = stack[k] /\ \A c \in 1 .. k - 1 : stack'[c] = stack[c]
      /\ \A k \in WaitsOf(stack') : k # Len(stack) - 1 => Same(k)
      /\ Len(stack') = Len(stack) - 1 /\ Len(stack) \in Nat \ {0} /\ stack[Len(stack)] = Top
      /\ \A k \in WaitsOf(stack') : k \in 1 .. Len(stack) - 1
  BY <1>1, PopFrames
<1>3. Apart(stack')
  BY <1>2, ApartKept DEF TellsInv
<1>4. ASSUME NEW j \in Job PROVE Steady(j)
  <2>1. Lasts(j, stack') = Lasts(j, stack)
    <3>1. Times(Callback(j, "exit"), stack) = Times(Callback(j, "exit"), stack') + One(Last(stack) = Callback(j, "exit"))
      BY <1>1, PopFrames
    <3>2. Last(stack) # Callback(j, "exit")
      BY <1>1, CallbackFacts
    <3>3. Times(Callback(j, "exit"), stack') \in Nat
      BY TimesIsNumber DEF DataInv, StackSound
    <3>4. QED
      BY <3>1, <3>2, <3>3 DEF Lasts, One
  <2>2. QED
    BY <1>1, <2>1 DEF Steady, FindJob
<1>5. ASSUME NEW k \in WaitsOf(stack') PROVE Told(k)'
  <2>1. k \in WaitsOf(stack) /\ Told(k)
    BY <1>2 DEF TellsInv
  <2>2. CASE k # Len(stack) - 1
    BY <1>1, <1>2, <1>4, <2>1, <2>2, ToldKept
  <2>3. CASE k = Len(stack) - 1
    <3> DEFINE f == stack[k]
    <3>1. stack'[k] = f /\ stack[k + 1] = Top /\ k \in Nat
      BY <1>2, <2>3
    <3>2. ASSUME NEW p \in 1 .. Len(f.res), NEW j \in Job, j = f.ids[p]
          PROVE  Tells(j, p, k, f, FindJob(j)', statusPtr'[j], parent'[j], phase'[j], stack')
      <4>1. Tells(j, p, k, f, FindJob(j), statusPtr[j], parent[j], phase[j], stack)
        BY <2>1, <3>2 DEF Told
      <4>2. p \in DOMAIN f.ids
        BY <1>1, <2>1, PlaceFacts
      <4>3. ASSUME FindJob(j), Lasts(j, stack) = 0, f.pc \notin Waiting, phase[j] = "gone"
            PROVE  queue[j] # <<>> /\ mem[j] = "live"
        <5>1. Apart(stack)
          BY DEF TellsInv
        <5>2. Waits(j, stack) = 0
          BY <1>1, <2>1, <3>2, <4>2, <4>3, <5>1, NotWaited
        <5>3. QED
          BY <4>3, <5>2, ExitIsQueued
      <4>4. ASSUME FindJob(j), Lasts(j, stack) = 0, f.pc \notin Waiting,
                   ExitsAbove(k, DrainJob(j), phase[j], stack)
            PROVE  FALSE
        <5>1. Top = DrainJob(j) /\ phase[j] = "gone"
          BY <3>1, <4>4 DEF ExitsAbove
        <5>2. j \in Drained(Top)
          BY <5>1, DrainFacts DEF Drained
        <5>3. QED
          BY <1>1, <4>3, <4>4, <5>1, <5>2
      <4>5. ASSUME FindJob(j), Lasts(j, stack) = 0, f.pc \notin Waiting, parent[j] = k,
                   ExitsAbove(k, DrainParent(k), phase[j], stack)
            PROVE  FALSE
        <5>1. Top = DrainParent(k) /\ phase[j] = "gone"
          BY <3>1, <4>5 DEF ExitsAbove
        <5>2. Top.parent = k /\ k # NULL
          BY <3>1, <5>1, DrainFacts, JobsAssumption
        <5>3. mem[j] = "live"
          BY <4>3, <4>5, <5>1
        <5>4. j \in Drained(Top)
          BY <4>5, <5>2, <5>3 DEF Drained, Children
        <5>5. QED
          BY <1>1, <4>3, <4>5, <5>1, <5>4
      <4>6. p <= Len(f.ids)
        BY <1>1, <2>1, <4>2, PlaceFacts
      <4>7. Steady(j)
        BY <1>4
      <4> HIDE DEF f
      <4>8. f.res[p] = "-1" /\ f.broke = "no" /\ p <= DoneUpTo(f) => FALSE
        BY <4>1, <4>4 DEF Tells, Open, Waiting
      <4>9. f.res[p] = "-1" /\ f.pc = "waited" /\ p = f.i => FALSE
        BY <4>1, <4>5, <4>6 DEF Tells, Open, Waiting, EnteredUpTo
      <4>10. QED
        BY <4>1, <4>7, <4>8, <4>9 DEF Tells, Steady
    <3>3. \A p \in 1 .. Len(f.res) : f.ids[p] \in Job
      BY <1>1, <2>1, PlaceFacts
    <3> HIDE DEF f
    <3>4. QED
      BY <3>1, <3>2, <3>3 DEF Told
  <2>4. QED
    BY <2>2, <2>3
<1>6. QED
  BY <1>3, <1>5

\* The exit callback of a job returns: its list had the status.
LEMMA CallbackEndTells ==
  ASSUME DataInv, TellsInv, DataInv', CallbackEnd
  PROVE  TellsInv'
<1> SUFFICES ASSUME Careful PROVE Apart(stack') /\ \A k \in WaitsOf(stack') : Told(k)'
  BY DEF TellsInv
<1>1. /\ stack # <<>> /\ Top = Last(stack) /\ Top.kind = "cb" /\ Pop /\ StackSound(stack)
      /\ UNCHANGED <<statusPtr, parent, stopped, phase>>
      /\ IF Top.what = "exit" THEN jobs' = jobs \ {Top.job} ELSE UNCHANGED jobs
  BY DEF CallbackEnd, TopIs, Top, procVars, DataInv
<1>2. /\ WaitsOf(stack') = WaitsOf(stack) \ {Len(stack)}
      /\ \A k \in WaitsOf(stack') : stack'[k] = stack[k] /\ \A c \in 1 .. k - 1 : stack'[c] = stack[c]
      /\ \A k \in WaitsOf(stack') : k # Len(stack) - 1 => Same(k)
      /\ Len(stack') = Len(stack) - 1 /\ Len(stack) \in Nat \ {0} /\ stack[Len(stack)] = Top
      /\ \A k \in WaitsOf(stack') : k \in 1 .. Len(stack) - 1
  BY <1>1, PopFrames
<1>3. Apart(stack')
  BY <1>2, ApartKept DEF TellsInv
<1>4. ASSUME NEW j \in Job PROVE Steady(j)
  <2>1. /\ Lasts(j, stack) = Lasts(j, stack') + One(Last(stack) = Callback(j, "exit"))
        /\ Lasts(j, stack') \in Nat
    BY <1>1, PopFrames, TimesIsNumber DEF DataInv, StackSound, Lasts
  <2>2. CASE Top = Callback(j, "exit")
    <3>1. Lasts(j, stack) # 0
      BY <1>1, <2>1, <2>2 DEF One
    <3>2. ~FindJob(j) => ~FindJob(j)'
      BY <1>1 DEF FindJob
    <3>3. QED
      BY <1>1, <3>1, <3>2 DEF Steady
  <2>3. CASE Top # Callback(j, "exit")
    <3>1. Lasts(j, stack') = Lasts(j, stack)
      BY <1>1, <2>1, <2>3 DEF One
    <3>2. Top.what = "exit" => Top.job # j
      <4>1. Top \in AnyFrame
        BY <1>1, StackPop
      <4>2. QED
        BY <1>1, <2>3, <4>1, FrameKinds
    <3>3. FindJob(j) <=> FindJob(j)'
      BY <1>1, <3>2 DEF FindJob
    <3>4. QED
      BY <1>1, <3>1, <3>3 DEF Steady
  <2>4. QED
    BY <2>2, <2>3
<1>5. ASSUME NEW k \in WaitsOf(stack') PROVE Told(k)'
  <2>1. k \in WaitsOf(stack) /\ Told(k)
    BY <1>2 DEF TellsInv
  <2>2. k # Len(stack) - 1
    BY <1>1, <1>2, <2>1, DrainAbove
  <2>3. QED
    BY <1>1, <1>2, <1>4, <2>1, <2>2, ToldKept
<1>6. QED
  BY <1>3, <1>5

LEMMA ReturnTells ==
  ASSUME DataInv, TellsInv, DataInv', Return
  PROVE  TellsInv'
<1> SUFFICES ASSUME Careful PROVE Apart(stack') /\ \A k \in WaitsOf(stack') : Told(k)'
  BY DEF TellsInv
<1>1. /\ stack # <<>> /\ Top = Last(stack) /\ Top.kind = "wait" /\ Pop /\ StackSound(stack)
      /\ UNCHANGED <<statusPtr, parent, jobs, stopped, phase>>
  BY DEF Return, TopWait, TopIs, Top, dataVars, procVars, DataInv
<1>2. /\ WaitsOf(stack') = WaitsOf(stack) \ {Len(stack)}
      /\ \A k \in WaitsOf(stack') : stack'[k] = stack[k] /\ \A c \in 1 .. k - 1 : stack'[c] = stack[c]
      /\ \A k \in WaitsOf(stack') : k # Len(stack) - 1 => Same(k)
      /\ Len(stack') = Len(stack) - 1 /\ Len(stack) \in Nat \ {0} /\ stack[Len(stack)] = Top
      /\ \A k \in WaitsOf(stack') : k \in 1 .. Len(stack) - 1
  BY <1>1, PopFrames
<1>3. Apart(stack')
  BY <1>2, ApartKept DEF TellsInv
<1>4. ASSUME NEW j \in Job PROVE Steady(j)
  <2>1. /\ Lasts(j, stack) = Lasts(j, stack') + One(Last(stack) = Callback(j, "exit"))
        /\ Lasts(j, stack') \in Nat
    BY <1>1, PopFrames, TimesIsNumber DEF DataInv, StackSound, Lasts
  <2>2. Last(stack) # Callback(j, "exit")
    BY <1>1, CallbackFacts
  <2>3. QED
    BY <1>1, <2>1, <2>2 DEF Steady, FindJob, One
<1>5. ASSUME NEW k \in WaitsOf(stack') PROVE Told(k)'
  <2>1. k \in WaitsOf(stack) /\ Told(k)
    BY <1>2 DEF TellsInv
  <2>2. k # Len(stack) - 1
    BY <1>1, <1>2, <2>1, DrainAbove
  <2>3. QED
    BY <1>1, <1>2, <1>4, <2>1, <2>2, ToldKept
<1>6. QED
  BY <1>3, <1>5

\* The lists, with *status_ptr of j set: one place changes, if any.
LEMMA Written ==
  ASSUME DataTypes, NEW s, StackSound(s), NEW j \in Job, NEW value \in Status,
         NEW u, u = WithStatus(j, value, s), NEW k \in 1 .. Len(s)
  PROVE  /\ s[k].kind # "wait" => u[k] = s[k]
         /\ s[k].kind = "wait" =>
              /\ u[k].pc = s[k].pc /\ u[k].i = s[k].i /\ u[k].ids = s[k].ids /\ u[k].broke = s[k].broke
              /\ u[k].timed = s[k].timed /\ Len(u[k].res) = Len(s[k].res)
              /\ \A p \in 1 .. Len(s[k].res) :
                   u[k].res[p] = IF statusPtr[j] = [w |-> k, i |-> p] THEN value ELSE s[k].res[p]
<1> DEFINE at == statusPtr[j]
           f == s[k]
<1>1. at \in [w : Nat, i : Nat] \union {NULL} /\ Len(s) \in Nat
  BY DEF DataTypes, StackSound
<1>2. u[k] = IF f.kind = "wait" /\ at # NULL /\ f.w = at.w /\ at.i <= Len(f.res)
             THEN [f EXCEPT !.res[at.i] = value] ELSE f
  BY DEF WithStatus
<1>3. ASSUME f.kind = "wait"
      PROVE  /\ u[k].pc = f.pc /\ u[k].i = f.i /\ u[k].ids = f.ids /\ u[k].broke = f.broke
             /\ u[k].timed = f.timed /\ Len(u[k].res) = Len(f.res)
             /\ \A p \in 1 .. Len(f.res) : u[k].res[p] = IF at = [w |-> k, i |-> p] THEN value ELSE f.res[p]
  <2>1. /\ f \in WaitFrame /\ f.w = k /\ f.res \in Seq(Status) /\ Len(f.res) \in Nat
    <3>1. k \in WaitsOf(s)
      BY <1>1, <1>3 DEF WaitsOf, StackSound
    <3>2. QED
      BY <3>1, PlaceFacts DEF WaitSound
  <2>2. CASE at # NULL /\ f.w = at.w /\ at.i <= Len(f.res)
    <3> DEFINE r == [f.res EXCEPT ![at.i] = value]
    <3>1. u[k] = [f EXCEPT !.res = r]
      BY <1>2, <1>3, <2>2
    <3>2. at = [w |-> at.w, i |-> at.i]
      BY <1>1, <2>2
    <3>3. \A p : at = [w |-> k, i |-> p] <=> p = at.i
      BY <2>1, <2>2, <3>2
    <3>4. /\ Len(r) = Len(f.res)
          /\ \A p \in 1 .. Len(f.res) : r[p] = IF p = at.i THEN value ELSE f.res[p]
      BY <2>1
    <3> HIDE DEF r, at, f
    <3>5. /\ u[k].pc = f.pc /\ u[k].i = f.i /\ u[k].ids = f.ids /\ u[k].broke = f.broke
          /\ u[k].timed = f.timed /\ u[k].res = r
      BY <2>1, <3>1 DEF WaitFrame
    <3>6. QED
      BY <3>3, <3>4, <3>5
  <2>3. CASE ~(at # NULL /\ f.w = at.w /\ at.i <= Len(f.res))
    <3>1. u[k] = f
      BY <1>2, <2>3
    <3>2. \A p \in 1 .. Len(f.res) : at # [w |-> k, i |-> p]
      BY <2>1, <2>3, JobsAssumption
    <3> HIDE DEF f, at
    <3>3. QED
      BY <3>1, <3>2
  <2>4. QED
    BY <2>2, <2>3
<1>4. QED
  BY <1>2, <1>3

\* The status is written where the list is, unless the job was not found.
LEMMA HandleExitTells ==
  ASSUME DataInv, LinkInv, TellsInv, DataInv', NEW j \in Job, HandleExit(j)
  PROVE  TellsInv'
<1> SUFFICES ASSUME Careful PROVE Apart(stack') /\ \A k \in WaitsOf(stack') : Told(k)'
  BY DEF TellsInv
<1> DEFINE u == WithStatus(j, "status", stack)
           g == Callback(j, "exit")
<1>1. /\ UNCHANGED <<statusPtr, parent, jobs, stopped, phase>> /\ stack' = Append(u, g)
      /\ stack # <<>> /\ Last(stack).kind = "drain" /\ Times("exit", queue[j]) > 0
  BY HandlingFacts DEF HandleExit, procVars
<1>2. /\ phase[j] = "gone" /\ j \in jobs /\ mem[j] = "live"
      /\ Linked(j, mem[j], statusPtr[j], parent[j], stopped[j], stack)
  <2>1. JobSound(j) /\ Times("exit", queue[j]) \in Nat /\ Lasts(j, stack) \in Nat
    BY TimesIsNumber DEF DataInv, DataTypes, StackSound, Lasts
  <2>2. QED
    BY <1>1, <2>1 DEF JobSound, JobIs, Sound, One, LinkInv
<1>3. /\ StackSound(u) /\ Len(u) = Len(stack) /\ \A k \in 1 .. Len(stack) : Alike(stack[k], u[k])
      /\ SameCalls(stack, u) /\ DataTypes /\ StackSound(stack) /\ "status" \in Status
  <2>1. DataTypes /\ StackSound(stack) /\ "status" \in Status
    BY DEF DataInv, Status
  <2>2. QED
    BY <2>1, WithStatusAlike
<1>4. \A k \in 1 .. Len(stack) :
         /\ stack[k].kind # "wait" => u[k] = stack[k]
         /\ stack[k].kind = "wait" =>
              /\ u[k].pc = stack[k].pc /\ u[k].i = stack[k].i /\ u[k].ids = stack[k].ids
              /\ u[k].broke = stack[k].broke /\ Len(u[k].res) = Len(stack[k].res)
              /\ \A p \in 1 .. Len(stack[k].res) :
                   u[k].res[p] = IF statusPtr[j] = [w |-> k, i |-> p] THEN "status" ELSE stack[k].res[p]
  BY <1>3, Written
<1> HIDE DEF u
<1>5. stack \in Seq(AnyFrame) /\ u \in Seq(AnyFrame) /\ stack' \in Seq(AnyFrame) /\ Len(stack) \in Nat
  BY <1>3 DEF DataInv, StackSound
<1>6. g \in AnyFrame /\ g.kind = "cb" /\ \A x \in Job : x # j => g # Callback(x, "exit")
  BY CallbackFacts
<1> HIDE DEF g
<1>7. Grown(u, g, stack')
  BY <1>1, <1>5, <1>6, AppendGrows
<1>8. WaitsOf(stack') = WaitsOf(stack)
  <2>1. WaitsOf(stack') = WaitsOf(u)
    BY <1>5, <1>6, <1>7, WaitsOfGrown
  <2>2. WaitsOf(u) = WaitsOf(stack)
    BY <1>3, <1>5 DEF WaitsOf, Alike
  <2>3. QED
    BY <2>1, <2>2
<1>9. ASSUME NEW k \in WaitsOf(stack)
      PROVE  /\ k \in 1 .. Len(stack) - 1 /\ stack'[k] = u[k] /\ k < Len(stack')
             /\ stack'[k + 1] = stack[k + 1] /\ \A c \in 1 .. k : stack'[c] = u[c]
  <2>1. k \in 1 .. Len(stack) /\ stack[k].kind = "wait"
    BY <1>5, WaitsAreWaits
  <2>2. k # Len(stack)
    BY <1>1, <1>5, <2>1, PopFacts
  <2>3. k \in 1 .. Len(stack) - 1 /\ k + 1 \in 1 .. Len(stack) /\ stack[k + 1].kind = "drain"
    BY <1>3, <1>5, <2>1, <2>2, DrainAbove
  <2>4. \A c \in 1 .. Len(stack) : stack'[c] = u[c]
    BY <1>3, <1>7 DEF Grown
  <2>5. Len(stack') = Len(stack) + 1
    BY <1>3, <1>7 DEF Grown
  <2>6. u[k + 1] = stack[k + 1]
    BY <1>4, <2>3
  <2>7. k \in 1 .. Len(stack) /\ 1 .. k \subseteq 1 .. Len(stack) /\ k < Len(stack')
    BY <1>5, <2>3, <2>5
  <2>8. QED
    BY <2>3, <2>4, <2>6, <2>7
<1>10. Apart(stack')
  <2>1. \A k \in WaitsOf(stack') : stack'[k].ids = stack[k].ids
    BY <1>4, <1>5, <1>8, <1>9, WaitsAreWaits
  <2>2. ASSUME NEW k \in WaitsOf(stack'), NEW c \in 1 .. k - 1, stack'[c].kind = "cb"
        PROVE  stack[c].kind = "cb" /\ stack'[c].job = stack[c].job
    <3>1. c \in 1 .. Len(stack) /\ stack'[c] = u[c]
      BY <1>5, <1>8, <1>9
    <3>2. Alike(stack[c], u[c])
      BY <1>3, <3>1
    <3>3. QED
      BY <2>2, <3>1, <3>2 DEF Alike
  <2>3. QED
    BY <1>8, <2>1, <2>2, ApartKept DEF TellsInv
<1>11. \A x \in Job : x # j => Lasts(x, stack') = Lasts(x, stack)
  <2>1. ASSUME NEW x \in Job, x # j PROVE Lasts(x, stack') = Lasts(x, stack)
    <3>1. Times(Callback(x, "exit"), stack') = Times(Callback(x, "exit"), u) + One(g = Callback(x, "exit"))
      BY <1>5, <1>7, TimesGrown
    <3>2. g # Callback(x, "exit") /\ Times(Callback(x, "exit"), u) \in Nat /\ Lasts(x, u) = Lasts(x, stack)
      BY <1>3, <1>5, <1>6, <2>1, TimesIsNumber DEF SameCalls
    <3>3. QED
      BY <3>1, <3>2 DEF Lasts, One
  <2>2. QED
    BY <2>1
<1>12. ASSUME NEW k \in WaitsOf(stack) PROVE Told(k)'
  <2> DEFINE f == stack[k]
             h == stack'[k]
  <2>1. /\ h.pc = f.pc /\ h.i = f.i /\ h.ids = f.ids /\ h.broke = f.broke /\ Len(h.res) = Len(f.res)
        /\ \A p \in 1 .. Len(f.res) :
             h.res[p] = IF statusPtr[j] = [w |-> k, i |-> p] THEN "status" ELSE f.res[p]
    <3>1. k \in 1 .. Len(stack) /\ stack[k].kind = "wait" /\ h = u[k]
      BY <1>5, <1>9, WaitsAreWaits
    <3> HIDE DEF h
    <3>2. QED
      BY <1>4, <3>1
  <2>2. ASSUME NEW p \in Nat, statusPtr[j] = [w |-> k, i |-> p]
        PROVE  ~stopped[j] /\ Open(f) /\ f.ids[p] = j
    <3>1. statusPtr[j] # NULL /\ statusPtr[j].w = k /\ statusPtr[j].i = p
      BY <1>5, <1>9, <2>2, JobsAssumption
    <3>2. QED
      BY <1>2, <3>1 DEF Linked, Holds
  <2>3. ASSUME NEW p \in 1 .. Len(f.res), NEW x \in Job, x = f.ids[p]
        PROVE  Tells(x, p, k, h, FindJob(x)', statusPtr'[x], parent'[x], phase'[x], stack')
    <3>1. Tells(x, p, k, f, FindJob(x), statusPtr[x], parent[x], phase[x], stack)
      BY <2>3 DEF TellsInv, Told
    <3>2. (FindJob(x)' <=> FindJob(x)) /\ p \in Nat
      BY <1>1, <1>3, PlaceFacts DEF FindJob
    <3>3. \A d : ExitsAbove(k, d, phase[x], stack) => ExitsAbove(k, d, phase'[x], stack')
      BY <1>1, <1>9 DEF ExitsAbove
    <3>4. Open(h) = Open(f) /\ EnteredUpTo(h) = EnteredUpTo(f) /\ DoneUpTo(h) = DoneUpTo(f)
      BY <2>1 DEF Open, EnteredUpTo, DoneUpTo
    <3>5. CASE x # j
      <4>1. h.res[p] = f.res[p]
        BY <2>1, <2>2, <2>3, <3>2, <3>5
      <4>2. Lasts(x, stack') = Lasts(x, stack)
        BY <1>11, <3>5
      <4> HIDE DEF f, h
      <4>3. QED
        BY <1>1, <2>1, <3>1, <3>2, <3>3, <3>4, <4>1, <4>2 DEF Tells
    <3>6. CASE x = j /\ f.res[p] = "-3"
      <4>1. stopped[j] = TRUE
        BY <1>2, <1>3, <3>1, <3>6 DEF Tells, FindJob, DataTypes
      <4>2. h.res[p] = "-3"
        BY <2>1, <2>2, <3>2, <3>6, <4>1
      <4> HIDE DEF f, h
      <4>3. QED
        BY <1>1, <2>1, <3>1, <3>2, <3>6, <4>2 DEF Tells
    <3>7. CASE x = j /\ f.res[p] # "-3" /\ Open(f)
      <4>1. h.res[p] = "status"
        BY <2>1, <3>1, <3>7 DEF Tells
      <4> HIDE DEF f, h
      <4>2. QED
        BY <1>1, <2>1, <3>1, <3>4, <3>7, <4>1 DEF Tells
    <3>8. CASE x = j /\ f.res[p] # "-3" /\ ~Open(f)
      <4>1. h.res[p] = f.res[p]
        BY <2>1, <2>2, <3>2, <3>8
      <4> HIDE DEF f, h
      <4>2. ~Open(h) /\ f.pc \notin {"loop", "clear", "waited"}
        BY <3>4, <3>8 DEF Open
      <4>3. QED
        BY <2>1, <3>1, <3>4, <3>8, <4>1, <4>2 DEF Tells
    <3>9. QED
      BY <3>5, <3>6, <3>7, <3>8
  <2>4. \A p \in 1 .. Len(f.res) : f.ids[p] \in Job
    BY <1>3, PlaceFacts
  <2> HIDE DEF f
  <2>5. \A p \in 1 .. Len(h.res) : h.ids[p] \in Job /\ h.ids[p] = f.ids[p] /\ p \in 1 .. Len(f.res)
    BY <2>1, <2>4
  <2>6. QED
    BY <2>3, <2>5 DEF Told
<1>13. QED
  BY <1>8, <1>10, <1>12

-----------------------------------------------------------------------------
(***************************************************************************)
(* Steps of jobwait()                                                      *)
(***************************************************************************)

\* The innermost jobwait() goes on as g, without or with a queue to process:
\* the frames that it does not see are the same.
LEMMA OthersStay ==
  ASSUME DataInv, DataInv', TopIs("wait"), NEW g \in WaitFrame,
         Becomes(g) \/ \E d \in AnyFrame : d.kind = "drain" /\ Calls(g, d)
  PROVE  /\ Len(stack) \in WaitsOf(stack) /\ stack[Len(stack)] = Top /\ stack'[Len(stack)] = g
         /\ WaitsOf(stack') = WaitsOf(stack) /\ WaitSound(g, Len(stack))
         /\ \A k \in WaitsOf(stack) : k \in 1 .. Len(stack) /\ (k # Len(stack) => Same(k))
         /\ \A c \in 1 .. Len(stack) - 1 : stack'[c] = stack[c]
         /\ \A j \in Job : Lasts(j, stack') = Lasts(j, stack)
         /\ \A d \in AnyFrame : d.kind = "drain" /\ Calls(g, d) =>
              Len(stack') = Len(stack) + 1 /\ stack'[Len(stack) + 1] = d
<1> DEFINE n == Len(stack)
           c == Front(stack)
           b == Append(c, g)
<1>1. /\ stack \in Seq(AnyFrame) /\ stack # <<>> /\ stack' \in Seq(AnyFrame) /\ StackSound(stack)
      /\ Top.kind = "wait" /\ Top = Last(stack) /\ g \in AnyFrame /\ g.kind = "wait"
  BY DEF DataInv, StackSound, TopIs, Top, AnyFrame, WaitFrame
<1>2. /\ c \in Seq(AnyFrame) /\ Grown(c, Top, stack) /\ Len(c) = n - 1 /\ n \in Nat \ {0} /\ stack[n] = Top
  BY <1>1, FrontGrows, PopFacts
<1>3. b \in Seq(AnyFrame) /\ Grown(c, g, b)
  BY <1>1, <1>2, AppendGrows
<1>4. \A k \in WaitsOf(stack) : k \in 1 .. n
  BY <1>1, WaitsAreWaits
<1>5. Replaced(stack, g, stack')
  BY <1>1, BecomesReplaces, CallsReplaces
<1>6. stack' = b \/ \E d \in AnyFrame : d.kind = "drain" /\ stack' = Append(b, d)
  BY DEF Becomes, Calls, Callers
<1>7. \A d \in AnyFrame : Calls(g, d) => stack' = Append(b, d)
  BY DEF Calls, Callers
<1> HIDE DEF b, c
<1>8. Len(b) = n /\ b[n] = g /\ \A i \in 1 .. n - 1 : b[i] = stack[i]
  BY <1>2, <1>3 DEF Grown
<1>9. ASSUME NEW d \in AnyFrame, stack' = Append(b, d)
      PROVE  /\ Grown(b, d, stack') /\ Len(stack') = n + 1 /\ stack'[n + 1] = d
             /\ \A i \in 1 .. n : stack'[i] = b[i]
  <2>1. Grown(b, d, stack')
    BY <1>3, <1>9, AppendGrows
  <2>2. QED
    BY <1>8, <2>1 DEF Grown
<1>10. Len(stack') >= n /\ \A i \in 1 .. n : stack'[i] = b[i]
  BY <1>2, <1>6, <1>8, <1>9
<1>11. ASSUME NEW k \in WaitsOf(stack), k # n PROVE Same(k)
  <2>1. k \in 1 .. n /\ k < n /\ k + 1 \in 1 .. n
    BY <1>2, <1>4, <1>11
  <2>2. stack[k + 1].kind = "drain"
    BY <1>1, <2>1, DrainAbove
  <2>3. k + 1 \in 1 .. n - 1 /\ k \in 1 .. n - 1
    BY <1>1, <1>2, <2>1, <2>2
  <2>4. stack'[k] = stack[k] /\ stack'[k + 1] = stack[k + 1]
    BY <1>2, <1>8, <1>10, <2>3
  <2>5. QED
    BY <1>2, <1>10, <2>1, <2>4 DEF Same
<1>12. ASSUME NEW j \in Job PROVE Lasts(j, stack') = Lasts(j, stack)
  <2> DEFINE x == Callback(j, "exit")
  <2>1. x.kind = "cb"
    BY CallbackFacts
  <2> HIDE DEF x
  <2>2. x # Top /\ x # g /\ Times(x, c) \in Nat
    BY <1>1, <1>2, <2>1, TimesIsNumber
  <2>3. Times(x, stack) = Times(x, c) + One(Top = x) /\ Times(x, b) = Times(x, c) + One(g = x)
    BY <1>1, <1>2, <1>3, TimesGrown
  <2>4. Times(x, stack) = Times(x, c) /\ Times(x, b) = Times(x, c)
    BY <2>2, <2>3 DEF One
  <2>5. ASSUME NEW d \in AnyFrame, d.kind = "drain", stack' = Append(b, d)
        PROVE  Times(x, stack') = Times(x, b)
    <3>1. Grown(b, d, stack') /\ b \in Seq(AnyFrame) /\ stack' \in Seq(AnyFrame)
      BY <1>1, <1>3, <1>9, <2>5
    <3>2. Times(x, stack') = Times(x, b) + One(d = x)
      BY <3>1, TimesGrown
    <3>3. d # x
      BY <2>1, <2>5
    <3>4. QED
      BY <2>2, <2>4, <3>2, <3>3 DEF One
  <2>6. Times(x, stack') = Times(x, stack)
    BY <1>6, <2>4, <2>5
  <2>7. QED
    BY <2>6 DEF Lasts, x
<1>13. WaitSound(g, n)
  <2>1. n \in WaitsOf(stack') /\ stack'[n] = g
    BY <1>5 DEF Replaced
  <2>2. QED
    BY <2>1, PlaceFacts DEF DataInv
<1>14. stack'[n] = g /\ n \in WaitsOf(stack) /\ WaitsOf(stack') = WaitsOf(stack)
  BY <1>5 DEF Replaced
<1>15. \A i \in 1 .. n - 1 : stack'[i] = stack[i]
  BY <1>2, <1>8, <1>10
<1>16. QED
  BY <1>2, <1>4, <1>7, <1>9, <1>11, <1>12, <1>13, <1>14, <1>15

\* The other lists say what they said, of jobs that are in no other list.
LEMMA TopTells ==
  ASSUME DataInv, DataInv', TellsInv, TopIs("wait"), NEW g \in WaitFrame, g.ids = Top.ids,
         Becomes(g) \/ \E d \in AnyFrame : d.kind = "drain" /\ Calls(g, d),
         Careful => \A j \in Job : ~Listed(Len(stack), j) => Steady(j),
         Careful => \A p \in 1 .. Len(g.res) : \A j \in Job : j = g.ids[p] =>
                      Tells(j, p, Len(stack), g, FindJob(j)', statusPtr'[j], parent'[j], phase'[j], stack')
  PROVE  TellsInv'
<1> SUFFICES ASSUME Careful PROVE Apart(stack') /\ \A k \in WaitsOf(stack') : Told(k)'
  BY DEF TellsInv
<1> DEFINE n == Len(stack)
<1>1. /\ n \in WaitsOf(stack) /\ stack[n] = Top /\ stack'[n] = g /\ WaitsOf(stack') = WaitsOf(stack)
      /\ \A k \in WaitsOf(stack) : k \in 1 .. n /\ (k # n => Same(k))
      /\ \A c \in 1 .. n - 1 : stack'[c] = stack[c]
  BY OthersStay
<1>2. StackSound(stack) /\ StackSound(stack') /\ n \in Nat
  BY DEF DataInv, StackSound
<1>3. Apart(stack')
  <2>1. \A k \in WaitsOf(stack') : stack'[k].ids = stack[k].ids
    BY <1>1 DEF Same
  <2>2. \A k \in WaitsOf(stack') : \A c \in 1 .. k - 1 : stack'[c] = stack[c]
    BY <1>1, <1>2
  <2>3. QED
    BY <1>1, <2>1, <2>2, ApartKept DEF TellsInv
<1>4. ASSUME NEW k \in WaitsOf(stack) PROVE Told(k)'
  <2>1. CASE k = n
    <3>1. \A p \in 1 .. Len(g.res) : g.ids[p] \in Job
      BY <1>1, <1>2, PlaceFacts
    <3>2. QED
      BY <1>1, <2>1, <3>1 DEF Told
  <2>2. CASE k # n
    <3>1. ASSUME NEW j \in Job, Listed(k, j) PROVE Steady(j)
      <4>1. ~Listed(n, j)
        BY <1>1, <2>2, <3>1 DEF Listed, TellsInv, Apart
      <4>2. QED
        BY <4>1
    <3>2. QED
      BY <1>1, <1>2, <2>2, <3>1, ToldKept DEF TellsInv
  <2>3. QED
    BY <2>1, <2>2
<1>5. QED
  BY <1>1, <1>3, <1>4

\* The innermost jobwait() goes on as g and its list is the same: what it has
\* gained is that the job it was at is done.
LEMMA QuietTells ==
  ASSUME DataInv, DataInv', TellsInv, TopIs("wait"), NEW g \in WaitFrame, g.ids = Top.ids, g.res = Top.res,
         Becomes(g) \/ \E d \in AnyFrame : d.kind = "drain" /\ Calls(g, d),
         UNCHANGED <<statusPtr, parent, jobs, stopped, phase>>,
         Top.pc \in Ended => g.broke = Top.broke /\ g.pc \in Ended,
         g.pc \in Waiting \union {"waited"} => g.i = Top.i /\ (Top.pc \in Waiting \/ FindJob(ThisJob)),
         Open(g) => Open(Top) /\ Top.pc \notin {"enter", "entering"},
         g.broke = "no" =>
           /\ Top.broke = "no"
           /\ \/ DoneUpTo(g) <= DoneUpTo(Top)
              \/ /\ DoneUpTo(Top) = Top.i - 1 /\ DoneUpTo(g) = Top.i /\ Open(Top)
                 /\ \/ ~FindJob(ThisJob) \/ Top.pc = "waited"
                    \/ /\ g.pc \in {"loop", "clear"}
                       /\ ExitsAbove(Len(stack), DrainJob(ThisJob), phase[ThisJob], stack'),
         g.pc = "waited" => ExitsAbove(Len(stack), DrainParent(Len(stack)), phase[ThisJob], stack')
  PROVE  TellsInv'
<1> DEFINE n == Len(stack)
<1>1. /\ n \in WaitsOf(stack) /\ stack[n] = Top /\ \A j \in Job : Lasts(j, stack') = Lasts(j, stack)
  BY OthersStay
<1>2. /\ n \in Nat /\ Top.i \in Nat \ {0} /\ Len(Top.ids) \in Nat /\ Len(Top.res) \in Nat
      /\ StackSound(stack) /\ Top \in WaitFrame
  BY TopWaitFacts
<1>3. \A j \in Job : Steady(j)
  BY <1>1 DEF Steady, FindJob
<1>4. ASSUME Careful, NEW p \in 1 .. Len(Top.res), NEW j \in Job, j = Top.ids[p]
      PROVE  Tells(j, p, n, g, FindJob(j), statusPtr[j], parent[j], phase[j], stack')
  <2>1. Tells(j, p, n, Top, FindJob(j), statusPtr[j], parent[j], phase[j], stack)
    BY <1>1, <1>4 DEF TellsInv, Told
  <2>2. p = Top.i => j = ThisJob
    BY <1>4 DEF ThisJob
  <2>3. p \in Nat /\ DoneUpTo(Top) \in Int /\ p <= Len(Top.ids) /\ n \in Nat
    <3>1. p \in DOMAIN Top.ids
      BY <1>1, <1>2, PlaceFacts
    <3>2. Top.ids \in Seq(Job)
      BY TopWaitFacts
    <3>3. QED
      BY <1>2, <3>1, <3>2 DEF DoneUpTo
  <2>4. \A d : ~ExitsAbove(n, d, phase[j], stack)
    BY <1>2 DEF ExitsAbove
  <2>5. Lasts(j, stack') = Lasts(j, stack)
    BY <1>1
  <2> HIDE DEF n
  <2>6. g.res[p] = "-2" => g.broke = "interrupted" /\ g.pc \in Ended
    BY <2>1 DEF Tells, Ended
  <2>7. g.res[p] = "-3" => ~FindJob(j) /\ (p = g.i => g.pc \notin Waiting \union {"waited"})
    BY <2>1, <2>2 DEF Tells
  <2>8. Open(g) /\ g.res[p] # "-3" =>
          statusPtr[j] = [w |-> n, i |-> p] /\ (p <= EnteredUpTo(g) => parent[j] = n)
    BY <2>1, <2>3 DEF Tells, EnteredUpTo
  <2>9. Open(g) /\ g.res[p] = "-1" => FindJob(j) /\ Lasts(j, stack') = 0
    BY <2>1, <2>5 DEF Tells
  <2>10. ASSUME g.res[p] = "-1", g.broke = "no", p <= DoneUpTo(g)
         PROVE  g.pc \in {"loop", "clear"} /\ ExitsAbove(n, DrainJob(j), phase[j], stack')
    <3>1. ~(p <= DoneUpTo(Top))
      BY <2>1, <2>4, <2>10 DEF Tells
    <3>2. ~(DoneUpTo(g) <= DoneUpTo(Top))
      <4>1. DoneUpTo(g) \in Int
        BY <1>2 DEF DoneUpTo, WaitFrame
      <4>2. QED
        BY <2>3, <2>10, <3>1, <4>1
    <3>3. p = Top.i /\ Open(Top)
      BY <1>2, <2>3, <2>10, <3>1, <3>2
    <3>4. FindJob(j) /\ Top.pc # "waited"
      BY <2>1, <2>4, <2>10, <3>3 DEF Tells
    <3>5. QED
      BY <2>2, <2>10, <3>2, <3>3, <3>4 DEF n
  <2>11. g.res[p] = "-1" /\ g.pc = "waited" /\ p = g.i => ExitsAbove(n, DrainParent(n), phase[j], stack')
    BY <2>2 DEF n
  <2>12. QED
    BY <2>6, <2>7, <2>8, <2>9, <2>10, <2>11 DEF Tells, Ended
<1>5. ASSUME Careful
      PROVE  \A p \in 1 .. Len(g.res) : \A j \in Job : j = g.ids[p] =>
               Tells(j, p, n, g, FindJob(j)', statusPtr'[j], parent'[j], phase'[j], stack')
  <2>1. \A j \in Job : FindJob(j)' <=> FindJob(j)
    BY DEF FindJob
  <2>2. ASSUME NEW p \in 1 .. Len(g.res), NEW j \in Job, j = g.ids[p]
        PROVE  Tells(j, p, n, g, FindJob(j)', statusPtr'[j], parent'[j], phase'[j], stack')
    <3>1. Tells(j, p, n, g, FindJob(j), statusPtr[j], parent[j], phase[j], stack')
      BY <1>4, <1>5, <2>2
    <3>2. QED
      BY <2>1, <3>1 DEF Tells
  <2>3. QED
    BY <2>2
<1> HIDE DEF n
<1>6. QED
  BY <1>3, <1>5, TopTells DEF n

LEMMA TimedOutAtOnceTells ==
  ASSUME DataInv, TellsInv, DataInv', TimedOutAtOnce
  PROVE  TellsInv'
<1> DEFINE g == Broken("clear", "timeout")
<1>1. TopIs("wait") /\ Becomes(g) /\ Top.pc = "loop" /\ UNCHANGED <<statusPtr, parent, jobs, stopped, phase>>
  BY DEF TimedOutAtOnce, TopWait, Broken, dataVars, procVars
<1>2. g \in WaitFrame /\ g.ids = Top.ids /\ g.res = Top.res /\ g.pc = "clear" /\ g.broke = "timeout"
  BY <1>1, PcsAre, BrokeFacts DEF Ways
<1> HIDE DEF g
<1>3. QED
  BY <1>1, <1>2, QuietTells DEF Ended, Waiting, Open

\* The next job of the loop.
LEMMA StepDone ==
  ASSUME DataInv, TopIs("wait"), Top.pc \in {"loop", "waiting", "waited"}, NEW g, g = Step(Top, "loop", "clear")
  PROVE  /\ g \in WaitFrame /\ g.ids = Top.ids /\ g.res = Top.res /\ g.broke = Top.broke
         /\ g.pc \in {"loop", "clear"} /\ Open(g) /\ Open(Top)
         /\ DoneUpTo(Top) = Top.i - 1 /\ DoneUpTo(g) = Top.i
<1>1. /\ g \in WaitFrame /\ g.ids = Top.ids /\ g.res = Top.res /\ g.broke = Top.broke
      /\ Len(Top.ids) \in Nat /\ Top.i \in Nat
      /\ \/ Top.i < Len(Top.ids) /\ g.pc = "loop" /\ g.i = Top.i + 1
         \/ Top.i = Len(Top.ids) /\ g.pc = "clear" /\ g.i = 1
  BY PcsAre, TopStep
<1>2. QED
  BY <1>1 DEF Open, DoneUpTo, Waiting

LEMMA SkipTells ==
  ASSUME DataInv, TellsInv, DataInv', Skip
  PROVE  TellsInv'
<1> DEFINE g == Step(Top, "loop", "clear")
<1>1. /\ TopIs("wait") /\ Becomes(g) /\ Top.pc = "loop" /\ ~FindJob(ThisJob)
      /\ UNCHANGED <<statusPtr, parent, jobs, stopped, phase>>
  BY DEF Skip, TopWait, dataVars, procVars
<1>2. /\ g \in WaitFrame /\ g.ids = Top.ids /\ g.res = Top.res /\ g.broke = Top.broke
      /\ g.pc \in {"loop", "clear"} /\ Open(Top) /\ DoneUpTo(Top) = Top.i - 1 /\ DoneUpTo(g) = Top.i
  BY <1>1, StepDone
<1> HIDE DEF g
<1>3. QED
  BY <1>1, <1>2, QuietTells DEF Ended, Waiting

LEMMA WaitBeginTells ==
  ASSUME DataInv, TellsInv, DataInv', WaitBegin
  PROVE  TellsInv'
<1> DEFINE f == Step(Top, "loop", "clear")
           h == Goto("waiting")
           d == DrainJob(ThisJob)
<1>1. /\ TopIs("wait") /\ Top.pc = "loop" /\ FindJob(ThisJob)
      /\ UNCHANGED <<statusPtr, parent, jobs, stopped, phase>>
  BY DEF WaitBegin, TopWait
<1>2. ThisJob \in Job
  BY <1>1, TopWaitFacts
<1>3. CASE ProcRefcount(ThisJob) = 0
  <2>1. Calls(f, d)
    BY <1>3 DEF WaitBegin
  <2>2. phase[ThisJob] = "gone"
    BY <1>2, <1>3 DEF ProcRefcount, DataInv, DataTypes
  <2>3. /\ f \in WaitFrame /\ f.ids = Top.ids /\ f.res = Top.res /\ f.broke = Top.broke
        /\ f.pc \in {"loop", "clear"} /\ Open(Top) /\ DoneUpTo(Top) = Top.i - 1 /\ DoneUpTo(f) = Top.i
    BY <1>1, StepDone
  <2>4. d \in AnyFrame /\ d.kind = "drain"
    BY <1>2, DrainFacts
  <2> HIDE DEF f
  <2>5. ExitsAbove(Len(stack), d, phase[ThisJob], stack')
    <3> HIDE DEF d
    <3>1. Len(stack') = Len(stack) + 1 /\ stack'[Len(stack) + 1] = d
      BY <1>1, <2>1, <2>3, <2>4, OthersStay
    <3>2. Len(stack) \in Nat
      BY <1>1, TopWaitFacts
    <3>3. QED
      BY <2>2, <3>1, <3>2 DEF ExitsAbove
  <2>6. QED
    BY <1>1, <2>1, <2>3, <2>4, <2>5, QuietTells DEF Ended, Waiting
<1>4. CASE ProcRefcount(ThisJob) # 0
  <2>1. Becomes(h)
    BY <1>4 DEF WaitBegin
  <2>2. /\ h \in WaitFrame /\ h.ids = Top.ids /\ h.res = Top.res /\ h.pc = "waiting" /\ h.i = Top.i
        /\ h.broke = Top.broke
    BY <1>1, PcsAre, GotoFacts, TopWaitFacts DEF Goto, WaitFrame
  <2> HIDE DEF h
  <2>3. DoneUpTo(h) = DoneUpTo(Top) /\ Top.i \in Nat
    BY <1>1, <2>2, TopWaitFacts DEF DoneUpTo, Waiting
  <2>4. DoneUpTo(h) <= DoneUpTo(Top)
    BY <1>1, <2>3 DEF DoneUpTo, Waiting
  <2>5. QED
    BY <1>1, <2>1, <2>2, <2>4, QuietTells DEF Ended, Waiting, Open
<1>5. QED
  BY <1>3, <1>4

\* In process_wait a frame only moves on.
LEMMA WaitingTells ==
  ASSUME DataInv, TellsInv, DataInv', TopIs("wait"), Top.pc \in Waiting, NEW g \in WaitFrame,
         g.ids = Top.ids, g.res = Top.res, g.i = Top.i, g.broke = Top.broke \/ g.broke # "no",
         Becomes(g) \/ \E d \in AnyFrame : d.kind = "drain" /\ Calls(g, d),
         UNCHANGED <<statusPtr, parent, jobs, stopped, phase>>,
         g.pc \in Waiting \/ g.broke # "no" \/ g.pc = "waited",
         g.pc = "waited" => ExitsAbove(Len(stack), DrainParent(Len(stack)), phase[ThisJob], stack')
  PROVE  TellsInv'
<1>1. Top.i \in Nat
  BY TopWaitFacts
<1>2. g.broke = "no" => Top.broke = "no" /\ DoneUpTo(g) <= DoneUpTo(Top)
  BY <1>1 DEF DoneUpTo, Waiting
<1>3. QED
  BY <1>2, QuietTells DEF Ended, Waiting, Open

LEMMA WaitDrainTells ==
  ASSUME DataInv, TellsInv, DataInv', WaitDrain
  PROVE  TellsInv'
<1> DEFINE pc == IF Top.pc = "polling" THEN "polled" ELSE Top.pc
           g == Goto(pc)
           d == DrainParent(Top.w)
<1>1. /\ TopIs("wait") /\ Top.pc \in Waiting /\ pc \in Pcs /\ pc \in Waiting
      /\ UNCHANGED <<statusPtr, parent, jobs, stopped, phase>> /\ Calls(g, d)
  BY DEF WaitDrain, dataVars, procVars, Pcs, Waiting
<1> HIDE DEF pc
<1>2. /\ g \in WaitFrame /\ g.ids = Top.ids /\ g.res = Top.res /\ g.pc = pc /\ g.i = Top.i
      /\ g.broke = Top.broke
  BY <1>1, GotoFacts, TopWaitFacts DEF Goto, WaitFrame
<1>3. d \in AnyFrame /\ d.kind = "drain"
  BY <1>1, TopWaitFacts, DrainFacts DEF WaitFrame
<1> HIDE DEF g, d
<1>4. g.pc # "waited"
  BY <1>1, <1>2 DEF Waiting
<1>5. QED
  BY <1>1, <1>2, <1>3, <1>4, WaitingTells

LEMMA WaitPolledTells ==
  ASSUME DataInv, TellsInv, DataInv', WaitPolled
  PROVE  TellsInv'
<1> DEFINE g == Goto("polled")
<1>1. /\ TopIs("wait") /\ Top.pc \in Waiting
      /\ UNCHANGED <<statusPtr, parent, jobs, stopped, phase>> /\ Becomes(g)
  BY DEF WaitPolled, TopWait, procVars, Waiting
<1>2. /\ g \in WaitFrame /\ g.ids = Top.ids /\ g.res = Top.res /\ g.pc = "polled" /\ g.i = Top.i
      /\ g.broke = Top.broke
  BY <1>1, PcsAre, GotoFacts, TopWaitFacts DEF Goto, WaitFrame
<1> HIDE DEF g
<1>3. QED
  BY <1>1, <1>2, WaitingTells DEF Waiting

LEMMA WaitInterruptedTells ==
  ASSUME DataInv, TellsInv, DataInv', WaitInterrupted
  PROVE  TellsInv'
<1> DEFINE pc == IF Top.timed THEN "polling" ELSE "stopping"
           g == Broken(pc, "interrupted")
<1>1. /\ TopIs("wait") /\ Top.pc \in Waiting /\ pc \in Pcs /\ pc \in Waiting
      /\ UNCHANGED <<statusPtr, parent, jobs, stopped, phase>> /\ Becomes(g)
  BY DEF WaitInterrupted, TopWait, dataVars, Broken, Pcs, Waiting
<1> HIDE DEF pc
<1>2. /\ g \in WaitFrame /\ g.ids = Top.ids /\ g.res = Top.res /\ g.pc = pc /\ g.i = Top.i
      /\ g.broke = "interrupted"
  BY <1>1, BrokeFacts DEF Ways
<1> HIDE DEF g
<1>3. g.pc # "waited"
  BY <1>1, <1>2 DEF Waiting
<1>4. QED
  BY <1>1, <1>2, <1>3, WaitingTells

LEMMA WaitGivesUpTells ==
  ASSUME DataInv, TellsInv, DataInv', WaitGivesUp
  PROVE  TellsInv'
<1> DEFINE g == Broken("clear", IF Top.pc = "polled" THEN "interrupted" ELSE "timeout")
<1>1. /\ TopIs("wait") /\ Top.pc \in Waiting
      /\ UNCHANGED <<statusPtr, parent, jobs, stopped, phase>> /\ Becomes(g)
  BY DEF WaitGivesUp, dataVars, Broken, Waiting
<1>2. /\ g \in WaitFrame /\ g.ids = Top.ids /\ g.res = Top.res /\ g.pc = "clear" /\ g.i = Top.i
      /\ g.broke # "no"
  BY <1>1, PcsAre, BrokeFacts DEF Ways
<1> HIDE DEF g
<1>3. QED
  BY <1>1, <1>2, WaitingTells

\* The last reference is that of the wait: the handles of the process are closed.
LEMMA WaitExitedTells ==
  ASSUME DataInv, TellsInv, DataInv', WaitExited
  PROVE  TellsInv'
<1> DEFINE g == Goto("waited")
           d == DrainParent(Len(stack))
<1>1. /\ TopIs("wait") /\ Top.pc \in Waiting /\ ProcRefcount(ThisJob) = 1
      /\ UNCHANGED <<statusPtr, parent, jobs, stopped, phase>> /\ Calls(g, DrainParent(Top.w))
  BY DEF WaitExited, dataVars, Waiting
<1>2. /\ g \in WaitFrame /\ g.ids = Top.ids /\ g.res = Top.res /\ g.pc = "waited" /\ g.i = Top.i
      /\ g.broke = Top.broke
  BY <1>1, PcsAre, GotoFacts, TopWaitFacts DEF Goto, WaitFrame
<1>3. Top.w = Len(stack) /\ Len(stack) \in Nat /\ d \in AnyFrame /\ d.kind = "drain"
  BY <1>1, TopWaitFacts, DrainFacts DEF WaitSound
<1>4. phase[ThisJob] = "gone"
  <2>1. waiters[ThisJob] > 0 /\ waiters[ThisJob] \in Nat
    BY <1>1, WaitingFacts
  <2>2. QED
    BY <1>1, <2>1 DEF ProcRefcount
<1>5. Calls(g, d)
  BY <1>1, <1>3
<1> HIDE DEF g
<1>6. ExitsAbove(Len(stack), d, phase[ThisJob], stack')
  <2> HIDE DEF d
  <2>1. Len(stack') = Len(stack) + 1 /\ stack'[Len(stack) + 1] = d
    BY <1>1, <1>2, <1>3, <1>5, OthersStay
  <2>2. QED
    BY <1>3, <1>4, <2>1 DEF ExitsAbove
<1>7. QED
  BY <1>1, <1>2, <1>3, <1>5, <1>6, WaitingTells

LEMMA RestoreTells ==
  ASSUME DataInv, TellsInv, DataInv', Restore
  PROVE  TellsInv'
<1> DEFINE f == Goto("restoring")
           h == Step(Top, "restore", "return")
           d == DrainJob(ThisJob)
<1>1. /\ TopIs("wait") /\ Top.pc = "restore" /\ UNCHANGED <<statusPtr, parent, jobs, stopped, phase>>
  BY DEF Restore, TopWait, dataVars, procVars
<1>2. Calls(f, d) \/ Becomes(h)
  BY DEF Restore
<1>3. d \in AnyFrame /\ d.kind = "drain"
  BY <1>1, TopWaitFacts, DrainFacts
<1>4. f \in WaitFrame /\ f.ids = Top.ids /\ f.res = Top.res /\ f.pc = "restoring" /\ f.broke = Top.broke
  BY <1>1, PcsAre, GotoFacts, TopWaitFacts DEF Goto, WaitFrame
<1>5. /\ h \in WaitFrame /\ h.ids = Top.ids /\ h.res = Top.res /\ h.pc \in {"restore", "return"}
      /\ h.broke = Top.broke
  BY <1>1, PcsAre, TopStep
<1> HIDE DEF f, d, h
<1>6. ASSUME NEW g \in {f, h} PROVE DoneUpTo(g) <= DoneUpTo(Top)
  <2>1. Len(Top.ids) \in Nat /\ DoneUpTo(Top) = Len(Top.ids)
    BY <1>1, TopWaitFacts DEF DoneUpTo, Waiting
  <2>2. DoneUpTo(g) = Len(Top.ids)
    BY <1>4, <1>5 DEF DoneUpTo, Waiting
  <2>3. QED
    BY <2>1, <2>2
<1>7. CASE Calls(f, d)
  BY <1>1, <1>3, <1>4, <1>6, <1>7, QuietTells DEF Ended, Waiting, Open
<1>8. CASE Becomes(h)
  BY <1>1, <1>5, <1>6, <1>8, QuietTells DEF Ended, Waiting, Open
<1>9. QED
  BY <1>2, <1>7, <1>8

\* A place of the list of the innermost jobwait().
LEMMA TopPlace ==
  ASSUME DataInv, TellsInv, Careful, TopIs("wait"), NEW p \in 1 .. Len(Top.res), NEW j \in Job, j = Top.ids[p]
  PROVE  /\ Tells(j, p, Len(stack), Top, FindJob(j), statusPtr[j], parent[j], phase[j], stack)
         /\ \A d, ph : ~ExitsAbove(Len(stack), d, ph, stack)
         /\ p \in Nat /\ p <= Len(Top.ids) /\ Listed(Len(stack), j) /\ Len(stack) \in Nat
         /\ Top.pc # "return" => (j = ThisJob <=> p = Top.i)
<1> DEFINE n == Len(stack)
<1>1. /\ n \in Nat \ {0} /\ Top.i \in Nat \ {0} /\ Len(Top.ids) \in Nat /\ Len(Top.res) \in Nat
      /\ StackSound(stack) /\ Top \in WaitFrame /\ stack # <<>> /\ Top = Last(stack) /\ Top.kind = "wait"
      /\ Top.ids \in Seq(Job) /\ (Top.pc # "return" => Top.i <= Len(Top.ids))
  BY TopWaitFacts
<1>2. stack[n] = Top /\ n \in WaitsOf(stack)
  <2>1. stack \in Seq(AnyFrame)
    BY <1>1 DEF StackSound
  <2>2. stack[n] = Top
    BY <1>1, <2>1, PopFacts
  <2>3. QED
    BY <1>1, <2>1, <2>2 DEF WaitsOf
<1>3. p \in DOMAIN Top.ids
  BY <1>1, <1>2, PlaceFacts
<1>4. Tells(j, p, n, Top, FindJob(j), statusPtr[j], parent[j], phase[j], stack)
  BY <1>2 DEF TellsInv, Told
<1>5. Top.pc # "return" => (j = ThisJob <=> p = Top.i)
  <2>1. Top.pc # "return" => Top.i \in DOMAIN Top.ids
    BY <1>1
  <2>2. QED
    BY <1>2, <1>3, <2>1 DEF TellsInv, Apart, ThisJob
<1>6. QED
  BY <1>1, <1>2, <1>3, <1>4, <1>5 DEF ExitsAbove, Listed

\* The status -2 is written where the list is.
LEMMA InterruptedFrame ==
  ASSUME DataInv, TellsInv, DataInv', TopIs("wait"), Top.pc = "waited", Top.broke = "interrupted", Careful,
         stack' = WithStatus(ThisJob, "-2", Append(Callers, Goto("clear"))),
         UNCHANGED <<statusPtr, parent, jobs, stopped, phase>>
  PROVE  \E g \in WaitFrame :
           /\ Becomes(g) /\ g.ids = Top.ids /\ g.pc = "clear" /\ g.i = Top.i /\ g.broke = "interrupted"
           /\ g.timed = Top.timed /\ Len(g.res) = Len(Top.res) /\ Top.i \in 1 .. Len(Top.res)
           /\ \A p \in 1 .. Len(Top.res) : g.res[p] = IF p = Top.i THEN "-2" ELSE Top.res[p]
<1> DEFINE n == Len(stack)
           h == Goto("clear")
           c == Front(stack)
           u == Append(c, h)
           x == ThisJob
           i == Top.i
           r == [Top.res EXCEPT ![i] = "-2"]
           g == [h EXCEPT !.res[i] = "-2"]
           v == Append(c, g)
<1>1. /\ stack # <<>> /\ Top = Last(stack) /\ Top \in WaitFrame /\ StackSound(stack) /\ n \in Nat \ {0}
      /\ Top.ids \in Seq(Job) /\ Top.res \in Seq(Status) /\ i \in Nat \ {0} /\ i <= Len(Top.ids)
      /\ x \in Job /\ Len(Top.ids) \in Nat /\ Len(Top.res) = Len(Top.ids) /\ Top.w = n
  BY TopWaitFacts DEF WaitSound
<1>2. /\ h \in WaitFrame /\ h.ids = Top.ids /\ h.res = Top.res /\ h.pc = "clear" /\ h.i = i
      /\ h.broke = "interrupted" /\ h.timed = Top.timed /\ h.w = n /\ h.kind = "wait"
  BY <1>1, PcsAre, GotoFacts DEF Goto, WaitFrame
<1>3. statusPtr[x] = [w |-> n, i |-> i]
  <2>1. i \in 1 .. Len(Top.res) /\ x = Top.ids[i]
    BY <1>1 DEF ThisJob
  <2> HIDE DEF x, i
  <2>2. Tells(x, i, n, Top, FindJob(x), statusPtr[x], parent[x], phase[x], stack)
    BY <1>1, <2>1, TopPlace
  <2>3. QED
    BY <2>2 DEF Tells, Open, i
<1>4. /\ r \in Seq(Status) /\ Len(r) = Len(Top.res)
      /\ \A p \in 1 .. Len(Top.res) : r[p] = IF p = i THEN "-2" ELSE Top.res[p]
  BY <1>1 DEF Status
<1> HIDE DEF h, r
<1>5. /\ g \in WaitFrame /\ g.ids = Top.ids /\ g.res = r /\ g.pc = "clear" /\ g.i = i
      /\ g.broke = "interrupted" /\ g.timed = Top.timed /\ g.w = n /\ g.kind = "wait"
  <2>1. r = [h.res EXCEPT ![i] = "-2"]
    BY <1>2 DEF r
  <2>2. g = [h EXCEPT !.res = r]
    BY <2>1
  <2> HIDE DEF g
  <2>3. QED
    BY <1>2, <1>4, <2>2 DEF WaitFrame
<1>6. /\ stack \in Seq(AnyFrame) /\ c \in Seq(AnyFrame) /\ Len(c) = n - 1
      /\ \A k \in 1 .. n - 1 : c[k] = stack[k]
  BY <1>1, PopFacts DEF StackSound
<1>7. g \in AnyFrame /\ h \in AnyFrame
  BY <1>2, <1>5 DEF AnyFrame
<1>8. g = [h EXCEPT !.res[statusPtr[x].i] = "-2"]
  BY <1>3
<1>9. stack' = WithStatus(x, "-2", u)
  BY DEF Callers, h
<1> HIDE DEF g, c, x, i
<1>10. /\ Grown(c, h, u) /\ u \in Seq(AnyFrame) /\ Grown(c, g, v) /\ v \in Seq(AnyFrame)
  BY <1>6, <1>7, AppendGrows
<1> HIDE DEF u, v
<1>11. /\ Len(u) = n /\ u[n] = h /\ Len(v) = n /\ v[n] = g /\ \A k \in 1 .. n - 1 : u[k] = stack[k] /\ v[k] = stack[k]
  BY <1>1, <1>6, <1>10 DEF Grown
<1>12. statusPtr[x] # NULL /\ statusPtr[x].w = n /\ statusPtr[x].i = i
  BY <1>1, <1>3, JobsAssumption
<1>13. stack' = v
  <2> DEFINE e(k) == IF u[k].kind = "wait" /\ statusPtr[x] # NULL /\ u[k].w = statusPtr[x].w
                        /\ statusPtr[x].i <= Len(u[k].res)
                     THEN [u[k] EXCEPT !.res[statusPtr[x].i] = "-2"] ELSE u[k]
  <2>1. stack' = [k \in 1 .. n |-> e(k)]
    BY <1>9, <1>11 DEF WithStatus
  <2>2. v = [k \in 1 .. n |-> v[k]]
    BY <1>10, <1>11
  <2>3. e(n) = v[n]
    BY <1>1, <1>2, <1>8, <1>11, <1>12
  <2>4. ASSUME NEW k \in 1 .. n - 1 PROVE e(k) = v[k]
    <3>1. u[k] = stack[k] /\ v[k] = stack[k]
      BY <1>11
    <3>2. stack[k].kind = "wait" => stack[k].w # n
      <4>1. k \in 1 .. Len(stack) /\ k # n
        BY <1>1
      <4>2. QED
        BY <1>1, <4>1 DEF StackSound, FrameSound, WaitSound
    <3>3. QED
      BY <1>12, <3>1, <3>2
  <2> HIDE DEF e
  <2>5. \A k \in 1 .. n : e(k) = v[k]
    BY <1>1, <2>3, <2>4
  <2>6. QED
    BY <2>1, <2>2, <2>5
<1>14. Becomes(g)
  BY <1>13 DEF Becomes, v, c, Callers
<1>15. QED
  BY <1>1, <1>4, <1>5, <1>14 DEF i

LEMMA InterruptedTells ==
  ASSUME DataInv, TellsInv, DataInv', TopIs("wait"), Top.pc = "waited", Top.broke = "interrupted", Careful,
         stack' = WithStatus(ThisJob, "-2", Append(Callers, Goto("clear"))),
         UNCHANGED <<statusPtr, parent, jobs, stopped, phase>>
  PROVE  TellsInv'
<1> DEFINE n == Len(stack)
<1>1. TopIs("wait") /\ Top.pc = "waited"
  OBVIOUS
<1>2. PICK g \in WaitFrame :
        /\ Becomes(g) /\ g.ids = Top.ids /\ g.pc = "clear" /\ g.i = Top.i /\ g.broke = "interrupted"
        /\ Len(g.res) = Len(Top.res) /\ Top.i \in 1 .. Len(Top.res)
        /\ \A p \in 1 .. Len(Top.res) : g.res[p] = IF p = Top.i THEN "-2" ELSE Top.res[p]
  BY InterruptedFrame
<1>3. \A j \in Job : Steady(j)
  <2>1. \A j \in Job : Lasts(j, stack') = Lasts(j, stack)
    BY <1>2, OthersStay
  <2>2. QED
    BY <2>1 DEF Steady, FindJob
<1>4. ASSUME NEW p \in 1 .. Len(g.res), NEW j \in Job, j = g.ids[p]
       PROVE  Tells(j, p, n, g, FindJob(j)', statusPtr'[j], parent'[j], phase'[j], stack')
  <2>1. p \in 1 .. Len(Top.res) /\ j = Top.ids[p]
    BY <1>2, <1>4
  <2>2. /\ Tells(j, p, n, Top, FindJob(j), statusPtr[j], parent[j], phase[j], stack)
        /\ p \in Nat /\ p <= Len(Top.ids) /\ (j = ThisJob <=> p = Top.i)
    BY <2>1, TopPlace 
  <2>3. g.res[p] = IF p = Top.i THEN "-2" ELSE Top.res[p]
    BY <1>2, <2>1
  <2>4. (FindJob(j)' <=> FindJob(j)) /\ Lasts(j, stack') = Lasts(j, stack)
    BY <1>2, OthersStay DEF FindJob
  <2>5. Open(g) /\ Open(Top) /\ EnteredUpTo(g) = Len(Top.ids) /\ EnteredUpTo(Top) = Len(Top.ids)
    BY <1>1, <1>2 DEF Open, EnteredUpTo
  <2> HIDE DEF n
  <2>6. CASE p = Top.i
    <3>1. Top.res[p] # "-3"
      BY <2>2, <2>6 DEF Tells
    <3>2. QED
      BY <1>1, <1>2, <2>2, <2>3, <2>5, <2>6, <3>1 DEF Tells, Ended
  <2>7. CASE p # Top.i
    BY <1>1, <1>2, <2>2, <2>3, <2>4, <2>5, <2>7 DEF Tells, Ended, Waiting
  <2>8. QED
    BY <2>6, <2>7
<1>5. QED
  BY <1>2, <1>3, <1>4, TopTells

LEMMA WaitedTells ==
  ASSUME DataInv, TellsInv, DataInv', Waited
  PROVE  TellsInv'
<1> SUFFICES ASSUME Careful PROVE TellsInv'
  BY DEF TellsInv
<1> DEFINE f == Step(Top, "loop", "clear")
           g == Broken("clear", "timeout")
           l == Broken("clear", "lost")
<1>1. /\ TopIs("wait") /\ Top.pc = "waited" /\ UNCHANGED <<statusPtr, parent, jobs, stopped, phase>>
  BY DEF Waited, TopWait, dataVars, procVars
<1>2. \/ /\ Top.broke = "interrupted"
         /\ stack' = WithStatus(ThisJob, "-2", Append(Callers, Goto("clear")))
      \/ Becomes(f) \/ Becomes(g) \/ Becomes(l)
  <2>1. CASE Top.broke = "interrupted"
    BY <2>1 DEF Waited, StatusWritten, Broken
  <2>2. CASE Top.broke # "interrupted"
    BY <2>2 DEF Waited, Broken
  <2>3. QED
    BY <2>1, <2>2
<1>3. CASE /\ Top.broke = "interrupted"
           /\ stack' = WithStatus(ThisJob, "-2", Append(Callers, Goto("clear")))
  BY <1>1, <1>3, InterruptedTells
<1>4. CASE Becomes(f)
  <2>1. /\ f \in WaitFrame /\ f.ids = Top.ids /\ f.res = Top.res /\ f.broke = Top.broke
        /\ f.pc \in {"loop", "clear"} /\ Open(Top) /\ DoneUpTo(Top) = Top.i - 1 /\ DoneUpTo(f) = Top.i
    BY <1>1, StepDone
  <2> HIDE DEF f
  <2>2. QED
    BY <1>1, <1>4, <2>1, QuietTells DEF Ended, Waiting
<1>5. CASE Becomes(g)
  <2>1. g \in WaitFrame /\ g.ids = Top.ids /\ g.res = Top.res /\ g.pc = "clear" /\ g.broke = "timeout"
    BY <1>1, PcsAre, BrokeFacts DEF Ways
  <2> HIDE DEF g
  <2>2. QED
    BY <1>1, <1>5, <2>1, QuietTells DEF Ended, Waiting, Open
<1>6. CASE Becomes(l)
  <2>1. l \in WaitFrame /\ l.ids = Top.ids /\ l.res = Top.res /\ l.pc = "clear" /\ l.broke = "lost"
    BY <1>1, PcsAre, BrokeFacts DEF Ways
  <2> HIDE DEF l
  <2>2. QED
    BY <1>1, <1>6, <2>1, QuietTells DEF Ended, Waiting, Open
<1>7. QED
  BY <1>2, <1>3, <1>4, <1>5, <1>6

-----------------------------------------------------------------------------
(***************************************************************************)
(* Steps of jobwait() that come to a job, or leave it                      *)
(***************************************************************************)

\* No callback of a job in the list called the jobwait().
LEMMA NoLastBelow ==
  ASSUME DataInv, TellsInv, Careful, TopIs("wait"), NEW j \in Job, Listed(Len(stack), j)
  PROVE  Lasts(j, stack) = 0
<1> DEFINE n == Len(stack)
<1>1. stack # <<>> /\ Top = Last(stack) /\ Top.kind = "wait" /\ stack \in Seq(AnyFrame) /\ n \in Nat \ {0}
  BY TopWaitFacts DEF StackSound
<1>2. stack[n] = Top
  BY <1>1, PopFacts
<1>3. n \in WaitsOf(stack)
  BY <1>1, <1>2 DEF WaitsOf
<1>4. ASSUME NEW k \in DOMAIN stack PROVE stack[k] # Callback(j, "exit")
  <2>1. CASE k = n
    BY <1>1, <1>2, <2>1, CallbackFacts
  <2>2. CASE k # n
    <3>1. k \in 1 .. n - 1
      BY <1>1, <2>2
    <3>2. stack[k].kind = "cb" => stack[k].job # j
      BY <1>3, <3>1 DEF TellsInv, Apart, Listed
    <3>3. QED
      BY <3>2, CallbackFacts
  <2>3. QED
    BY <2>1, <2>2
<1>5. QED
  BY <1>1, <1>4, TimesIsNumber DEF Lasts

LEMMA EnterTells ==
  ASSUME DataInv, LinkInv, TellsInv, DataInv', Enter
  PROVE  TellsInv'
<1> SUFFICES ASSUME Careful PROVE TellsInv'
  BY DEF TellsInv
<1> DEFINE x == ThisJob
           n == Len(stack)
           i == Top.i
<1>1. TopIs("wait") /\ Open(Top) /\ Top.pc = "enter"
  BY DEF Enter, TopWait, Open
<1>2. /\ Top \in WaitFrame /\ x \in Job /\ Top.ids \in Seq(Job) /\ Top.res \in Seq(Status)
      /\ i \in Nat \ {0} /\ i <= Len(Top.ids) /\ Len(Top.ids) \in Nat
      /\ Top.w = n /\ Len(Top.res) = i - 1 /\ n \in Nat \ {0}
  BY <1>1, TopWaitFacts DEF WaitSound
<1>3. UNCHANGED <<jobs, stopped, parent, phase>>
  BY DEF Enter, procVars
<1>4. n \in WaitsOf(stack) /\ stack[n] = Top /\ Listed(n, x)
  <2>1. stack[n] = Top /\ stack \in Seq(AnyFrame) /\ Top.kind = "wait"
    BY <1>1, TopWaitFacts, PopFacts DEF StackSound
  <2>2. n \in WaitsOf(stack)
    BY <1>2, <2>1 DEF WaitsOf
  <2>3. i \in DOMAIN Top.ids /\ Top.ids[i] = x
    BY <1>2 DEF ThisJob
  <2>4. QED
    BY <2>1, <2>2, <2>3 DEF Listed
<1>5. Lasts(x, stack) = 0
  BY <1>1, <1>2, <1>4, NoLastBelow
<1>6. CASE FindJob(x)
  <2> DEFINE r == Append(Top.res, "-1")
             f == [Goto("entering") EXCEPT !.res = r]
             d == DrainJob(x)
  <2>1. /\ r \in Seq(Status) /\ Len(r) = i /\ r[i] = "-1"
        /\ \A p \in 1 .. i - 1 : r[p] = Top.res[p]
    BY <1>2 DEF Status
  <2>2. statusPtr' = [statusPtr EXCEPT ![x] = [w |-> n, i |-> i]] /\ Calls(f, d)
    <3>1. [Goto("entering") EXCEPT !.res = Append(@, "-1")] = f
      BY <1>2 DEF Goto, WaitFrame
    <3>2. QED
      BY <1>2, <1>6, <3>1 DEF Enter
  <2> HIDE DEF r
  <2>3. f \in WaitFrame /\ f.pc = "entering" /\ f.ids = Top.ids /\ f.res = r /\ f.i = i /\ f.broke = Top.broke
    <3> DEFINE h == [Top EXCEPT !.pc = "entering"]
    <3>1. h \in WaitFrame /\ h.pc = "entering" /\ h.ids = Top.ids /\ h.i = i /\ h.broke = Top.broke
      BY <1>2, PcsAre DEF WaitFrame
    <3>2. f = [h EXCEPT !.res = r]
      BY DEF Goto
    <3> HIDE DEF f, h
    <3>3. QED
      BY <2>1, <3>1, <3>2 DEF WaitFrame
  <2>4. d \in AnyFrame /\ d.kind = "drain"
    BY <1>2, DrainFacts
  <2> HIDE DEF f, d
  <2>5. \A j \in Job : Lasts(j, stack') = Lasts(j, stack)
    BY <1>1, <2>2, <2>3, <2>4, OthersStay
  <2> HIDE DEF x
  <2>6. /\ statusPtr'[x] = [w |-> n, i |-> i]
        /\ \A j \in Job : j # x => statusPtr'[j] = statusPtr[j]
    BY <1>2, <2>2 DEF DataInv, DataTypes
  <2>7. ASSUME NEW j \in Job, j # x PROVE Steady(j)
    BY <1>3, <2>5, <2>6, <2>7 DEF Steady, FindJob
  <2>8. \A j \in Job : FindJob(j)' <=> FindJob(j)
    BY <1>3 DEF FindJob
  <2>9. ASSUME NEW p \in 1 .. Len(f.res), NEW j \in Job, j = f.ids[p]
        PROVE  Tells(j, p, n, f, FindJob(j)', statusPtr'[j], parent'[j], phase'[j], stack')
    <3>1. CASE p = i
      <4>1. j = x
        BY <2>3, <2>9, <3>1 DEF x, ThisJob
      <4>2. f.res[p] = "-1"
        BY <2>1, <2>3, <3>1
      <4>3. ~(p <= EnteredUpTo(f)) /\ ~(p <= DoneUpTo(f))
        BY <1>2, <2>3, <3>1 DEF EnteredUpTo, DoneUpTo
      <4> HIDE DEF i, n
      <4>4. QED
        BY <1>5, <1>6, <2>3, <2>5, <2>6, <2>8, <3>1, <4>1, <4>2, <4>3 DEF Tells
    <3>2. CASE p # i
      <4>1. p \in 1 .. Len(Top.res) /\ j = Top.ids[p] /\ f.res[p] = Top.res[p]
        <5>1. j = Top.ids[p] /\ p \in 1 .. i
          BY <2>1, <2>3, <2>9
        <5>2. p \in 1 .. i - 1 /\ Len(Top.res) = i - 1
          BY <1>2, <3>2, <5>1
        <5>3. f.res[p] = Top.res[p]
          BY <2>1, <2>3, <5>2
        <5>4. QED
          BY <5>1, <5>2, <5>3
      <4>2. /\ Tells(j, p, n, Top, FindJob(j), statusPtr[j], parent[j], phase[j], stack)
            /\ p \in Nat /\ (j = ThisJob <=> p = i)
        BY <1>1, <4>1, TopPlace
      <4>3. j # x
        BY <3>2, <4>2 DEF x
      <4>4. EnteredUpTo(f) = EnteredUpTo(Top) /\ DoneUpTo(f) = 0 /\ ~(p <= 0)
        <5>1. EnteredUpTo(f) = i - 1 /\ EnteredUpTo(Top) = i - 1 /\ DoneUpTo(f) = 0
          BY <1>1, <2>3 DEF EnteredUpTo, DoneUpTo, Waiting
        <5>2. p \in 1 .. i - 1 /\ i \in Nat
          BY <1>2, <4>1
        <5> HIDE DEF i
        <5>3. QED
          BY <5>1, <5>2
      <4> HIDE DEF i, n
      <4>5. QED
        BY <1>1, <1>3, <2>3, <2>5, <2>6, <2>8, <4>1, <4>2, <4>3, <4>4 DEF Tells, Waiting, Ended, Open
    <3>3. QED
      BY <3>1, <3>2
  <2>10. QED
    BY <1>1, <1>4, <2>2, <2>3, <2>4, <2>7, <2>9, TopTells
<1>7. CASE ~FindJob(x)
  <2> DEFINE r == Append(Top.res, "-3")
             h == [Top EXCEPT !.res = r]
             g == Step(h, "enter", "loop")
  <2>1. /\ r \in Seq(Status) /\ Len(r) = i /\ r[i] = "-3"
        /\ \A p \in 1 .. i - 1 : r[p] = Top.res[p]
    BY <1>2 DEF Status
  <2>2. statusPtr' = statusPtr /\ Becomes(g)
    <3>1. [Top EXCEPT !.res = Append(@, "-3")] = h
      BY <1>2 DEF WaitFrame
    <3>2. QED
      BY <1>7, <3>1 DEF Enter
  <2> HIDE DEF r
  <2>3. h \in WaitFrame /\ h.ids = Top.ids /\ h.i = i /\ h.res = r /\ h.broke = Top.broke
    BY <1>2, <2>1 DEF WaitFrame
  <2> HIDE DEF h
  <2>4. /\ g \in WaitFrame /\ g.ids = Top.ids /\ g.res = r /\ g.broke = Top.broke
        /\ \/ i < Len(Top.ids) /\ g.pc = "enter" /\ g.i = i + 1
           \/ i = Len(Top.ids) /\ g.pc = "loop" /\ g.i = 1
    <3>1. h.i <= Len(h.ids) /\ "enter" \in Pcs /\ "loop" \in Pcs
      BY <1>2, <2>3, PcsAre
    <3>2. /\ g \in WaitFrame /\ g.ids = h.ids /\ g.res = h.res /\ g.broke = h.broke
          /\ \/ h.i < Len(h.ids) /\ g.pc = "enter" /\ g.i = h.i + 1
             \/ h.i = Len(h.ids) /\ g.pc = "loop" /\ g.i = 1
      BY <2>3, <3>1, StepFacts
    <3>3. QED
      BY <2>3, <3>2
  <2> HIDE DEF g
  <2>5. \A j \in Job : Lasts(j, stack') = Lasts(j, stack)
    BY <1>1, <2>2, <2>4, OthersStay
  <2>6. \A j \in Job : FindJob(j)' <=> FindJob(j)
    BY <1>3 DEF FindJob
  <2>7. \A j \in Job : Steady(j)
    BY <1>3, <2>2, <2>5, <2>6 DEF Steady
  <2>8. DoneUpTo(g) = 0 /\ EnteredUpTo(g) = i /\ EnteredUpTo(Top) = i - 1 /\ Open(g)
    BY <1>1, <1>2, <2>4 DEF DoneUpTo, EnteredUpTo, Waiting, Open
  <2>9. ASSUME NEW p \in 1 .. Len(g.res), NEW j \in Job, j = g.ids[p]
        PROVE  Tells(j, p, n, g, FindJob(j)', statusPtr'[j], parent'[j], phase'[j], stack')
    <3>1. CASE p = i
      <4>1. j = x /\ g.res[p] = "-3"
        BY <2>1, <2>4, <2>9, <3>1 DEF ThisJob
      <4>2. g.pc \notin Waiting \union {"waited"}
        BY <2>4 DEF Waiting
      <4> HIDE DEF i, n, x
      <4>3. QED
        BY <1>7, <2>6, <4>1, <4>2 DEF Tells
    <3>2. CASE p # i
      <4>1. p \in 1 .. Len(Top.res) /\ j = Top.ids[p] /\ g.res[p] = Top.res[p]
        <5>1. j = Top.ids[p] /\ p \in 1 .. i
          BY <2>1, <2>4, <2>9
        <5>2. p \in 1 .. i - 1 /\ Len(Top.res) = i - 1
          BY <1>2, <3>2, <5>1
        <5>3. g.res[p] = Top.res[p]
          BY <2>1, <2>4, <5>2
        <5>4. QED
          BY <5>1, <5>2, <5>3
      <4>2. Tells(j, p, n, Top, FindJob(j), statusPtr[j], parent[j], phase[j], stack)
        BY <1>1, <4>1, TopPlace
      <4>3. p <= EnteredUpTo(Top) /\ ~(p <= DoneUpTo(g)) /\ g.pc \notin Waiting \union {"waited"}
        BY <1>2, <2>4, <2>8, <4>1 DEF Waiting
      <4> HIDE DEF i, n, x
      <4>4. QED
        BY <1>1, <1>3, <2>2, <2>4, <2>5, <2>6, <2>8, <4>1, <4>2, <4>3 DEF Tells, Ended
    <3>3. QED
      BY <3>1, <3>2
  <2>10. QED
    BY <1>1, <2>2, <2>4, <2>7, <2>9, TopTells
<1>8. QED
  BY <1>6, <1>7

LEMMA EnteredTells ==
  ASSUME DataInv, TellsInv, DataInv', Entered
  PROVE  TellsInv'
<1> SUFFICES ASSUME Careful PROVE TellsInv'
  BY DEF TellsInv
<1> DEFINE x == ThisJob
           n == Len(stack)
           i == Top.i
           g == Step(Top, "enter", "loop")
<1>1. TopIs("wait") /\ Open(Top) /\ Top.pc = "entering" /\ UNCHANGED <<jobs, stopped, statusPtr, phase>>
  BY DEF Entered, TopWait, Open, dataVars, procVars
<1>2. /\ x \in Job /\ Top.w = n /\ n \in Nat /\ i \in Nat \ {0} /\ Len(Top.ids) \in Nat /\ Top.ids \in Seq(Job)
      /\ Len(Top.res) = i /\ i <= Len(Top.ids)
  BY <1>1, TopWaitFacts DEF WaitSound
<1>3. parent' = [parent EXCEPT ![x] = n] /\ Becomes(g)
  BY <1>2 DEF Entered
<1>4. /\ g \in WaitFrame /\ g.ids = Top.ids /\ g.res = Top.res /\ g.broke = Top.broke
      /\ \/ i < Len(Top.ids) /\ g.pc = "enter" /\ g.i = i + 1
         \/ i = Len(Top.ids) /\ g.pc = "loop" /\ g.i = 1
  BY <1>1, PcsAre, TopStep
<1> HIDE DEF g
<1>5. \A j \in Job : Lasts(j, stack') = Lasts(j, stack)
  BY <1>1, <1>3, <1>4, OthersStay
<1>6. \A j \in Job : FindJob(j)' <=> FindJob(j)
  BY <1>1 DEF FindJob
<1>7. Listed(n, x)
  <2>1. i \in 1 .. Len(Top.res) /\ x = Top.ids[i]
    BY <1>2 DEF ThisJob
  <2> HIDE DEF x, i
  <2>2. QED
    BY <1>1, <1>2, <2>1, TopPlace
<1> HIDE DEF x
<1>8. parent'[x] = n /\ \A j \in Job : j # x => parent'[j] = parent[j]
  BY <1>2, <1>3 DEF DataInv, DataTypes
<1>9. ASSUME NEW j \in Job, ~Listed(n, j) PROVE Steady(j)
  BY <1>1, <1>5, <1>6, <1>7, <1>8, <1>9 DEF Steady
<1>10. DoneUpTo(g) = 0 /\ EnteredUpTo(g) = i /\ EnteredUpTo(Top) = i - 1 /\ Open(g)
  BY <1>1, <1>2, <1>4 DEF DoneUpTo, EnteredUpTo, Waiting, Open
<1>11. ASSUME NEW p \in 1 .. Len(g.res), NEW j \in Job, j = g.ids[p]
       PROVE  Tells(j, p, n, g, FindJob(j)', statusPtr'[j], parent'[j], phase'[j], stack')
  <2>1. p \in 1 .. Len(Top.res) /\ j = Top.ids[p] /\ g.res[p] = Top.res[p]
    BY <1>4, <1>11
  <2>2. /\ Tells(j, p, n, Top, FindJob(j), statusPtr[j], parent[j], phase[j], stack)
        /\ p \in Nat /\ (j = x <=> p = i)
    BY <1>1, <2>1, TopPlace DEF x
  <2>3. ~(p <= DoneUpTo(g)) /\ g.pc \notin Waiting \union {"waited"}
    BY <1>2, <1>4, <1>10, <2>1 DEF Waiting
  <2>4. p # i => p <= EnteredUpTo(Top)
    BY <1>2, <1>10, <2>1
  <2>5. p # i => parent'[j] = parent[j]
    BY <1>8, <2>2
  <2>6. p = i => parent'[j] = n
    BY <1>8, <2>2
  <2> HIDE DEF i, n
  <2>7. QED
    BY <1>1, <1>4, <1>5, <1>6, <1>10, <2>1, <2>2, <2>3, <2>4, <2>5, <2>6 DEF Tells, Ended
<1>12. QED
  BY <1>1, <1>3, <1>4, <1>9, <1>11, TopTells

-----------------------------------------------------------------------------
(***************************************************************************)
(* Steps of jobwait() that leave the jobs, and the call                    *)
(***************************************************************************)

\* When the loop is over no -1 is left to a list that was neither timed out nor
\* interrupted.
LEMMA OverTells ==
  ASSUME DataInv, DataInv', TellsInv, TopIs("wait"), Top.pc \in {"clear", "restore", "restoring"},
         NEW g \in WaitFrame, g.ids = Top.ids, g.res = Top.res, g.broke = Top.broke,
         g.pc \in {"restore", "return"}, Becomes(g), UNCHANGED <<jobs, stopped, phase>>,
         \A j \in Job : ~Listed(Len(stack), j) => statusPtr'[j] = statusPtr[j] /\ parent'[j] = parent[j]
  PROVE  TellsInv'
<1> DEFINE n == Len(stack)
<1>1. \A j \in Job : Lasts(j, stack') = Lasts(j, stack)
  BY OthersStay
<1>2. \A j \in Job : FindJob(j)' <=> FindJob(j)
  BY DEF FindJob
<1>3. ASSUME NEW j \in Job, ~Listed(n, j) PROVE Steady(j)
  BY <1>1, <1>2, <1>3 DEF Steady
<1>4. ASSUME Careful, NEW p \in 1 .. Len(g.res), NEW j \in Job, j = g.ids[p]
      PROVE  Tells(j, p, n, g, FindJob(j)', statusPtr'[j], parent'[j], phase'[j], stack')
  <2>1. p \in 1 .. Len(Top.res) /\ j = Top.ids[p] /\ g.res[p] = Top.res[p]
    BY <1>4
  <2>2. /\ Tells(j, p, n, Top, FindJob(j), statusPtr[j], parent[j], phase[j], stack)
        /\ \A d, ph : ~ExitsAbove(n, d, ph, stack) /\ p <= Len(Top.ids)
    BY <1>4, <2>1, TopPlace
  <2>3. DoneUpTo(Top) = Len(Top.ids) /\ ~Open(g) /\ g.pc \in Ended
        /\ g.pc \notin Waiting \union {"waited"}
    BY DEF DoneUpTo, Waiting, Open, Ended
  <2> HIDE DEF n
  <2>4. QED
    BY <1>2, <2>1, <2>2, <2>3 DEF Tells
<1>5. QED
  BY <1>3, <1>4, TopTells

LEMMA ClearTells ==
  ASSUME DataInv, TellsInv, DataInv', Clear
  PROVE  TellsInv'
<1> DEFINE g == [Goto("restore") EXCEPT !.i = 1]
<1>1. TopIs("wait") /\ Top.pc = "clear" /\ Becomes(g) /\ UNCHANGED <<jobs, stopped, phase, parent>>
  BY DEF Clear, TopWait, procVars
<1>2. /\ Top \in WaitFrame /\ stack[Len(stack)] = Top
      /\ \A k \in Job : statusPtr'[k] = IF k \in Range(Top.ids) /\ FindJob(k) THEN NULL ELSE statusPtr[k]
  BY <1>1, TopWaitFacts, PopFacts DEF StackSound, Clear
<1>3. g \in WaitFrame /\ g.ids = Top.ids /\ g.res = Top.res /\ g.broke = Top.broke /\ g.pc = "restore"
  <2> DEFINE h == [Top EXCEPT !.pc = "restore"]
  <2>1. h \in WaitFrame /\ h.ids = Top.ids /\ h.res = Top.res /\ h.broke = Top.broke /\ h.pc = "restore"
    BY <1>2, PcsAre DEF WaitFrame
  <2>2. g = [h EXCEPT !.i = 1]
    BY DEF Goto
  <2> HIDE DEF g, h
  <2>3. h \in WaitFrame /\ h.ids = Top.ids /\ h.res = Top.res /\ h.broke = Top.broke /\ h.pc = "restore"
    BY <2>1
  <2>4. g = [h EXCEPT !.i = 1]
    BY <2>2
  <2>5. h \in WaitFrame
    BY <2>3
  <2>6. g \in WaitFrame
    BY <2>4, <2>5 DEF WaitFrame
  <2>7. g.ids = h.ids /\ g.res = h.res /\ g.pc = h.pc /\ g.broke = h.broke
    BY <2>4, <2>5 DEF WaitFrame
  <2>8. QED
    BY <2>3, <2>6, <2>7
<1> HIDE DEF g
<1>4. ASSUME NEW j \in Job, ~Listed(Len(stack), j) PROVE statusPtr'[j] = statusPtr[j]
  BY <1>2, <1>4 DEF Listed, Range
<1>5. QED
  BY <1>1, <1>3, <1>4, OverTells

LEMMA RestoredTells ==
  ASSUME DataInv, TellsInv, DataInv', Restored
  PROVE  TellsInv'
<1> DEFINE g == Step(Top, "restore", "return")
           x == ThisJob
<1>1. TopIs("wait") /\ Top.pc = "restoring" /\ Becomes(g) /\ UNCHANGED <<jobs, stopped, phase, statusPtr>>
  BY DEF Restored, TopWait, dataVars, procVars
<1>2. /\ g \in WaitFrame /\ g.ids = Top.ids /\ g.res = Top.res /\ g.pc \in {"restore", "return"}
      /\ g.broke = Top.broke
  BY <1>1, PcsAre, TopStep
<1> HIDE DEF g
<1>3. Listed(Len(stack), x) /\ x \in Job
  <2>1. /\ stack[Len(stack)] = Top /\ Top.i \in Nat \ {0} /\ Top.i <= Len(Top.ids) /\ Top.ids \in Seq(Job)
        /\ x \in Job
    BY <1>1, TopWaitFacts, PopFacts DEF StackSound
  <2>2. Top.i \in DOMAIN Top.ids
    BY <2>1
  <2>3. QED
    BY <2>1, <2>2 DEF Listed, ThisJob
<1>4. parent' = [parent EXCEPT ![x] = Main] /\ parent \in [Job -> 0 .. MaxDepth]
  BY DEF Restored, DataInv, DataTypes
<1> HIDE DEF x
<1>5. \A j \in Job : j # x => parent'[j] = parent[j]
  BY <1>4
<1>6. \A j \in Job : ~Listed(Len(stack), j) => statusPtr'[j] = statusPtr[j] /\ parent'[j] = parent[j]
  BY <1>1, <1>3, <1>5
<1>7. QED
  BY <1>1, <1>2, <1>6, OverTells

\* The jobs that jobwait() is given are in no other list, nor do they call it.
LEMMA StartTells ==
  ASSUME DataInv, TellsInv, DataInv', NEW ids \in Lists, NEW timed \in BOOLEAN, JobWait(ids, timed)
  PROVE  TellsInv'
<1> SUFFICES ASSUME Careful PROVE Apart(stack') /\ \A k \in WaitsOf(stack') : Told(k)'
  BY DEF TellsInv
<1> DEFINE g == [kind |-> "wait", w |-> Len(stack) + 1, ids |-> ids, timed |-> timed,
                 pc |-> IF ids = <<>> THEN "return" ELSE "enter", i |-> 1, res |-> <<>>, broke |-> "no"]
           n == Len(stack) + 1
<1>1. /\ UNCHANGED <<jobs, stopped, statusPtr, parent, phase>>
      /\ IsInjective(ids)
      /\ \A j \in Range(ids) : ~WaitedFor(j) /\ \A f \in Frames("cb") : f.job # j
      /\ stack' = Append(stack, g)
  BY DEF JobWait, dataVars, procVars, Push
<1>2. /\ stack \in Seq(AnyFrame) /\ stack' \in Seq(AnyFrame) /\ ids \in Seq(Job) /\ Len(stack) \in Nat
      /\ StackSound(stack) /\ (stack # <<>> => Last(stack).kind # "wait")
  <2>1. stack # <<>> => Last(stack).kind # "wait"
    BY DEF JobWait, UserTurn, TopIs, Top
  <2>2. StackSound(stack)
    BY DEF DataInv
  <2>3. stack \in Seq(AnyFrame) /\ stack' \in Seq(AnyFrame) /\ ids \in Seq(Job) /\ Len(stack) \in Nat
    BY JobsAssumption DEF DataInv, StackSound
  <2>4. QED
    BY <2>1, <2>2, <2>3
<1>3. g \in WaitFrame /\ g \in AnyFrame /\ g.kind = "wait" /\ g.ids = ids /\ g.res = <<>>
  <2>1. g \in WaitFrame
    BY <1>2, PcsAre DEF WaitFrame, Ways
  <2>2. QED
    BY <2>1 DEF AnyFrame
<1> HIDE DEF g
<1>4. Grown(stack, g, stack')
  BY <1>1, <1>2, <1>3, AppendGrows
<1>5. /\ WaitsOf(stack') = WaitsOf(stack) \union {n} /\ stack'[n] = g
      /\ \A k \in WaitsOf(stack) : stack'[k] = stack[k]
  BY <1>2, <1>3, <1>4, WaitsOfGrown
<1>6. ASSUME NEW k \in WaitsOf(stack)
      PROVE  k \in 1 .. Len(stack) - 1 /\ Same(k) /\ \A c \in 1 .. k - 1 : stack'[c] = stack[c]
  <2>1. k \in 1 .. Len(stack) /\ stack[k].kind = "wait"
    BY <1>2, WaitsAreWaits
  <2>2. k # Len(stack)
    <3>1. stack # <<>>
      BY <1>2, <2>1
    <3>2. Last(stack) = stack[Len(stack)]
      BY <1>2, <3>1, PopFacts
    <3>3. QED
      BY <1>2, <2>1, <3>1, <3>2
  <2>3. QED
    BY <1>2, <1>4, <2>1, <2>2 DEF Grown, Same
<1>7. ASSUME NEW j \in Job PROVE Steady(j)
  <2>1. Lasts(j, stack') = Lasts(j, stack)
    <3>1. Callback(j, "exit") # g /\ Times(Callback(j, "exit"), stack) \in Nat
      <4>1. Callback(j, "exit") # g
        BY <1>3, CallbackFacts
      <4>2. QED
        BY <1>2, <4>1, TimesIsNumber
    <3>2. Times(Callback(j, "exit"), stack') = Times(Callback(j, "exit"), stack) + One(g = Callback(j, "exit"))
      BY <1>2, <1>4, TimesGrown
    <3>3. QED
      BY <3>1, <3>2 DEF Lasts, One
  <2>2. QED
    BY <1>1, <2>1 DEF Steady, FindJob
<1>8. ASSUME NEW k \in WaitsOf(stack') PROVE Told(k)'
  <2>1. CASE k = n
    <3>1. stack'[k] = g
      BY <1>5, <2>1
    <3>2. QED
      BY <1>3, <3>1 DEF Told
  <2>2. CASE k # n
    <3>1. k \in WaitsOf(stack) /\ Told(k)
      BY <1>5, <2>2 DEF TellsInv
    <3>2. QED
      BY <1>2, <1>6, <1>7, <3>1, ToldKept
  <2>3. QED
    BY <2>1, <2>2
<1>9. \A k \in WaitsOf(stack) : \A p \in DOMAIN stack[k].ids : stack[k].ids[p] \notin Range(ids)
  <2>1. ASSUME NEW k \in WaitsOf(stack), NEW p \in DOMAIN stack[k].ids, stack[k].ids[p] \in Range(ids)
        PROVE  FALSE
    <3>1. stack[k] \in Frames("wait") /\ stack[k].ids[p] \in Range(stack[k].ids)
      BY <2>1 DEF WaitsOf, Frames, Range
    <3>2. WaitedFor(stack[k].ids[p])
      BY <3>1 DEF WaitedFor
    <3>3. QED
      BY <1>1, <2>1, <3>2
  <2>2. QED
    BY <2>1
<1>10. \A c \in 1 .. Len(stack) : stack[c].kind = "cb" => stack[c].job \notin Range(ids)
  <2>1. ASSUME NEW c \in 1 .. Len(stack), stack[c].kind = "cb" PROVE stack[c] \in Frames("cb")
    BY <1>2, <2>1 DEF Frames, Range
  <2>2. QED
    BY <1>1, <2>1
<1>11. \A c \in 1 .. Len(stack) : stack'[c] = stack[c]
  BY <1>4 DEF Grown
<1>12. ASSUME NEW k \in WaitsOf(stack'), NEW p \in DOMAIN stack'[k].ids
       PROVE  /\ \A l \in WaitsOf(stack') : \A q \in DOMAIN stack'[l].ids :
                   stack'[k].ids[p] = stack'[l].ids[q] => k = l /\ p = q
              /\ \A c \in 1 .. k - 1 : stack'[c].kind = "cb" => stack'[c].job # stack'[k].ids[p]
  <2>1. CASE k = n
    <3>1. stack'[k].ids = ids /\ ids[p] \in Range(ids) /\ p \in DOMAIN ids
      BY <1>3, <1>5, <1>12, <2>1 DEF Range
    <3>2. ASSUME NEW l \in WaitsOf(stack'), NEW q \in DOMAIN stack'[l].ids, ids[p] = stack'[l].ids[q]
          PROVE  k = l /\ p = q
      <4>1. CASE l = n
        <5>1. stack'[l].ids = ids
          BY <1>3, <1>5, <4>1
        <5>2. QED
          BY <1>1, <2>1, <3>1, <3>2, <4>1, <5>1 DEF IsInjective
      <4>2. CASE l # n
        BY <1>5, <1>9, <3>1, <3>2, <4>2
      <4>3. QED
        BY <4>1, <4>2
    <3>3. \A c \in 1 .. k - 1 : stack'[c].kind = "cb" => stack'[c].job # ids[p]
      BY <1>2, <1>10, <1>11, <2>1, <3>1
    <3>4. QED
      BY <3>1, <3>2, <3>3
  <2>2. CASE k # n
    <3>1. k \in WaitsOf(stack) /\ stack'[k] = stack[k] /\ p \in DOMAIN stack[k].ids
      BY <1>5, <1>12, <2>2
    <3>2. Apart(stack)
      BY DEF TellsInv
    <3>3. ASSUME NEW l \in WaitsOf(stack'), NEW q \in DOMAIN stack'[l].ids,
                 stack[k].ids[p] = stack'[l].ids[q]
          PROVE  k = l /\ p = q
      <4>1. CASE l = n
        <5>1. stack'[l].ids = ids
          BY <1>3, <1>5, <4>1
        <5>2. stack'[l].ids[q] \in Range(ids)
          BY <3>3, <5>1 DEF Range
        <5>3. QED
          BY <1>9, <3>1, <3>3, <5>2
      <4>2. CASE l # n
        <5>1. l \in WaitsOf(stack) /\ stack'[l] = stack[l]
          BY <1>5, <4>2
        <5>2. QED
          BY <3>1, <3>2, <3>3, <5>1 DEF Apart
      <4>3. QED
        BY <4>1, <4>2
    <3>4. \A c \in 1 .. k - 1 : stack'[c].kind = "cb" => stack'[c].job # stack[k].ids[p]
      BY <1>6, <3>1, <3>2 DEF Apart
    <3>5. QED
      BY <3>1, <3>3, <3>4
  <2>3. QED
    BY <2>1, <2>2
<1>13. QED
  BY <1>8, <1>12 DEF Apart

LEMMA InitTells ==
  ASSUME Init
  PROVE  TellsInv
BY DEF Init, WaitsOf, TellsInv, Apart

LEMMA NextTells ==
  ASSUME DataInv, LinkInv, TellsInv, DataInv', [Next]_jobsVars
  PROVE  TellsInv'
<1>1. ASSUME NEW j \in Job,
             \/ Output(j) \/ Exit(j) \/ Closed(j)
             \/ HandleOutput(j) \/ HandleClose(j) \/ HandleExit(j) \/ HandleDelayed(j)
             \/ JobStart(j) \/ JobStartFails(j) \/ JobStop(j) \/ TermClose(j) \/ TermWiped(j)
      PROVE  TellsInv'
  <2>1. CASE Output(j) \/ Exit(j) \/ Closed(j)
    BY <2>1, PollTells
  <2>2. CASE HandleOutput(j) \/ HandleClose(j) \/ HandleExit(j) \/ HandleDelayed(j)
    BY <2>2, HandleOutputTells, HandlerTells, HandleExitTells
  <2>3. CASE JobStart(j) \/ JobStop(j)
    BY <2>3, JobStartTells
  <2>4. CASE JobStartFails(j) \/ TermClose(j) \/ TermWiped(j)
    BY <2>4, UserTells
  <2>5. QED
    BY <1>1, <2>1, <2>2, <2>3, <2>4
<1>2. ASSUME NEW ids \in Lists, NEW timed \in BOOLEAN, JobWait(ids, timed) PROVE TellsInv'
  BY <1>2, StartTells
<1>3. CASE PollFast \/ DrainMain \/ DrainEnd \/ CallbackEnd \/ Interrupt
  BY <1>3, PollTells, DrainMainTells, DrainEndTells, CallbackEndTells, UserTells
<1>4. CASE \/ Enter \/ Entered \/ TimedOutAtOnce \/ Skip \/ WaitPolled \/ WaitBegin \/ WaitDrain
           \/ WaitInterrupted
  BY <1>4, EnterTells, EnteredTells, TimedOutAtOnceTells, SkipTells, WaitPolledTells, WaitBeginTells,
     WaitDrainTells, WaitInterruptedTells
<1>5. CASE WaitExited \/ WaitGivesUp \/ Waited \/ Clear \/ Restore \/ Restored \/ Return
  BY <1>5, WaitExitedTells, WaitGivesUpTells, WaitedTells, ClearTells, RestoreTells, RestoredTells,
     ReturnTells
<1>6. CASE UNCHANGED jobsVars
  <2>1. UNCHANGED <<stack, statusPtr, parent, jobs, stopped, phase>>
    BY <1>6 DEF jobsVars, dataVars, procVars
  <2>2. QED
    BY <2>1, FramesStay DEF FindJob
<1>7. QED
  BY <1>1, <1>2, <1>3, <1>4, <1>5, <1>6 DEF Next

\* The list of every jobwait() says what became of its jobs.
THEOREM TellsInductive == Spec => []TellsInv
<1>1. Init => TellsInv
  BY InitTells
<1>2. DataInv /\ LinkInv /\ TellsInv /\ DataInv' /\ [Next]_jobsVars => TellsInv'
  BY NextTells
<1>3. QED
  BY <1>1, <1>2, Inductive, LinkInductive, PTL DEF Spec

-----------------------------------------------------------------------------
(***************************************************************************)
(* The inductive invariant: who was interrupted                            *)
(***************************************************************************)

\* A list in which one place, and no other, is -2.
OneInterrupted(res) == \E p \in 1 .. Len(res) : \A q \in 1 .. Len(res) : res[q] = "-2" <=> q = p

\* A jobwait() f is interrupted in process_wait only, and then waits for no
\* other job: above its frame nothing is called once its loop is over.  So what
\* it wrote to its list is not written over by the exit of a job.
Says(f, above) ==
  /\ f.pc \in {"enter", "entering", "loop", "waiting"} => f.broke = "no"
  /\ f.pc \in {"stopping", "polling", "polled", "waited"} => f.broke \in {"no", "interrupted"}
  /\ f.pc = "clear" /\ above => f.broke = "no"
  /\ f.pc \in Ended /\ f.broke = "interrupted" /\ ~f.timed => OneInterrupted(f.res)

SaysInv == Careful => \A k \in WaitsOf(stack) : Says(stack[k], k < Len(stack))

\* A step that leaves the frames alone, or takes the innermost one away.
LEMMA SaysKept ==
  ASSUME SaysInv, WaitsOf(stack') \subseteq WaitsOf(stack),
         \A k \in WaitsOf(stack') : stack'[k] = stack[k] /\ (k < Len(stack') => k < Len(stack))
  PROVE  SaysInv'
BY DEF SaysInv, Says

LEMMA SaysSame ==
  ASSUME SaysInv, UNCHANGED stack
  PROVE  SaysInv'
BY SaysKept

\* Above the frames of jobwait() a frame is pushed.
LEMMA PushFrames ==
  ASSUME NEW s \in Seq(AnyFrame), NEW u \in Seq(AnyFrame), NEW g \in AnyFrame, u = Append(s, g),
         s # <<>> => Last(s).kind # "wait"
  PROVE  /\ WaitsOf(u) = IF g.kind = "wait" THEN WaitsOf(s) \union {Len(s) + 1} ELSE WaitsOf(s)
         /\ u[Len(s) + 1] = g /\ Len(s) + 1 \notin WaitsOf(s)
         /\ \A k \in WaitsOf(s) : u[k] = s[k] /\ k < Len(s)
<1>1. Grown(s, g, u)
  BY AppendGrows
<1>2. /\ WaitsOf(u) = IF g.kind = "wait" THEN WaitsOf(s) \union {Len(s) + 1} ELSE WaitsOf(s)
      /\ \A k \in WaitsOf(s) : u[k] = s[k]
      /\ u[Len(s) + 1] = g /\ Len(s) + 1 \notin WaitsOf(s) /\ Len(s) \in Nat
  BY <1>1, WaitsOfGrown
<1>3. ASSUME NEW k \in WaitsOf(s) PROVE k < Len(s)
  <2>1. k \in 1 .. Len(s) /\ s[k].kind = "wait"
    BY WaitsAreWaits
  <2>2. s # <<>>
    BY <1>2, <2>1
  <2>3. Last(s) = s[Len(s)]
    BY <2>2, PopFacts
  <2>4. QED
    BY <1>2, <2>1, <2>2, <2>3
<1>4. QED
  BY <1>2, <1>3

LEMMA PushSays ==
  ASSUME DataInv, DataInv', SaysInv, NEW g \in AnyFrame, g.kind # "wait", stack' = Append(stack, g),
         stack # <<>> => Last(stack).kind # "wait"
  PROVE  SaysInv'
<1>1. stack \in Seq(AnyFrame) /\ stack' \in Seq(AnyFrame)
  BY DEF DataInv, StackSound
<1>2. WaitsOf(stack') = WaitsOf(stack) /\ \A k \in WaitsOf(stack) : stack'[k] = stack[k] /\ k < Len(stack)
  BY <1>1, PushFrames
<1>3. QED
  BY <1>2, SaysKept

LEMMA PopSays ==
  ASSUME DataInv, SaysInv, stack # <<>>, Pop
  PROVE  SaysInv'
<1>1. /\ WaitsOf(stack') \subseteq WaitsOf(stack)
      /\ \A k \in WaitsOf(stack') : stack'[k] = stack[k] /\ k < Len(stack)
  <2>1. /\ WaitsOf(stack') = WaitsOf(stack) \ {Len(stack)} /\ Len(stack) \in Nat
        /\ \A k \in WaitsOf(stack') : stack'[k] = stack[k] /\ k \in 1 .. Len(stack) - 1
    BY PopFrames
  <2>2. QED
    BY <2>1
<1>2. QED
  BY <1>1, SaysKept

\* A new jobwait() was not interrupted.
LEMMA JobWaitSays ==
  ASSUME DataInv, DataInv', SaysInv, NEW ids \in Lists, NEW timed \in BOOLEAN, JobWait(ids, timed)
  PROVE  SaysInv'
<1> DEFINE g == [kind |-> "wait", w |-> Len(stack) + 1, ids |-> ids, timed |-> timed,
                 pc |-> IF ids = <<>> THEN "return" ELSE "enter", i |-> 1, res |-> <<>>, broke |-> "no"]
<1>1. /\ stack \in Seq(AnyFrame) /\ stack' \in Seq(AnyFrame) /\ stack' = Append(stack, g)
      /\ ids \in Seq(Job) /\ Len(stack) + 1 \in Nat
      /\ (stack # <<>> => Last(stack).kind # "wait")
  BY JobsAssumption DEF DataInv, StackSound, JobWait, Push, UserTurn, TopIs, Top
<1>2. g \in WaitFrame /\ g.kind = "wait" /\ g.broke = "no"
  BY <1>1, PcsAre DEF WaitFrame, Ways
<1> HIDE DEF g
<1>3. g \in AnyFrame
  BY <1>2 DEF AnyFrame
<1>4. /\ WaitsOf(stack') = WaitsOf(stack) \union {Len(stack) + 1} /\ stack'[Len(stack) + 1] = g
      /\ \A k \in WaitsOf(stack) : stack'[k] = stack[k] /\ k < Len(stack)
  BY <1>1, <1>2, <1>3, PushFrames
<1>5. \A above : Says(g, above)
  BY <1>2 DEF Says
<1>6. QED
  BY <1>4, <1>5 DEF SaysInv, Says

\* The exit of a job writes to a list that is open, and not that of a jobwait()
\* that was interrupted and is over.
LEMMA HandleExitSays ==
  ASSUME DataInv, LinkInv, SaysInv, DataInv', NEW j \in Job, HandleExit(j)
  PROVE  SaysInv'
<1> SUFFICES ASSUME Careful PROVE \A k \in WaitsOf(stack') : Says(stack'[k], k < Len(stack'))
  BY DEF SaysInv
<1> DEFINE u == WithStatus(j, "status", stack)
           g == Callback(j, "exit")
<1>1. /\ stack' = Append(u, g) /\ stack # <<>> /\ Last(stack).kind = "drain" /\ Times("exit", queue[j]) > 0
  BY HandlingFacts DEF HandleExit
<1>2. mem[j] = "live" /\ Linked(j, mem[j], statusPtr[j], parent[j], stopped[j], stack)
  <2>1. JobSound(j) /\ Times("exit", queue[j]) \in Nat /\ Lasts(j, stack) \in Nat
    BY TimesIsNumber DEF DataInv, DataTypes, StackSound, Lasts
  <2>2. QED
    BY <1>1, <2>1 DEF JobSound, JobIs, Sound, One, LinkInv
<1>3. /\ DataTypes /\ StackSound(stack) /\ "status" \in Status
      /\ stack \in Seq(AnyFrame) /\ stack' \in Seq(AnyFrame) /\ Len(stack) \in Nat
  BY DEF DataInv, StackSound, Status
<1>4. /\ StackSound(u) /\ Len(u) = Len(stack) /\ \A k \in 1 .. Len(stack) : Alike(stack[k], u[k])
  BY <1>3, WithStatusAlike
<1>5. \A k \in 1 .. Len(stack) : stack[k].kind = "wait" =>
        /\ u[k].pc = stack[k].pc /\ u[k].broke = stack[k].broke /\ u[k].timed = stack[k].timed
        /\ Len(u[k].res) = Len(stack[k].res)
        /\ \A p \in 1 .. Len(stack[k].res) :
             u[k].res[p] = IF statusPtr[j] = [w |-> k, i |-> p] THEN "status" ELSE stack[k].res[p]
  BY <1>3, Written
<1>6. g \in AnyFrame /\ g.kind = "cb" /\ u \in Seq(AnyFrame)
  BY <1>4, CallbackFacts DEF StackSound
<1> HIDE DEF u, g
<1>7. Grown(u, g, stack')
  BY <1>1, <1>3, <1>6, AppendGrows
<1>8. WaitsOf(stack') = WaitsOf(stack)
  <2>1. WaitsOf(stack') = WaitsOf(u)
    BY <1>3, <1>6, <1>7, WaitsOfGrown
  <2>2. WaitsOf(u) = WaitsOf(stack)
    BY <1>3, <1>4, <1>6 DEF WaitsOf, Alike
  <2>3. QED
    BY <2>1, <2>2
<1>9. ASSUME NEW k \in WaitsOf(stack) PROVE Says(stack'[k], k < Len(stack'))
  <2> DEFINE f == stack[k]
             h == stack'[k]
  <2>1. k \in 1 .. Len(stack) /\ f.kind = "wait"
    BY <1>3, WaitsAreWaits
  <2>2. k < Len(stack)
    <3>1. k # Len(stack)
      BY <1>1, <1>3, <2>1, PopFacts
    <3>2. QED
      BY <1>3, <2>1, <3>1
  <2>3. h = u[k]
    BY <1>4, <1>7, <2>1 DEF Grown
  <2> HIDE DEF h
  <2>4. /\ h.pc = f.pc /\ h.broke = f.broke /\ h.timed = f.timed /\ Len(h.res) = Len(f.res)
        /\ \A p \in 1 .. Len(f.res) :
             h.res[p] = IF statusPtr[j] = [w |-> k, i |-> p] THEN "status" ELSE f.res[p]
    BY <1>5, <2>1, <2>3
  <2>5. Says(f, TRUE)
    <3>1. Says(f, k < Len(stack))
      BY DEF SaysInv
    <3>2. QED
      BY <2>2, <3>1 DEF Says
  <2>6. ASSUME f.pc \in Ended, f.broke = "interrupted", NEW p \in Nat PROVE statusPtr[j] # [w |-> k, i |-> p]
    <3>1. ~Open(f)
      BY <2>5, <2>6 DEF Says, Open, Ended
    <3>2. ASSUME statusPtr[j] = [w |-> k, i |-> p] PROVE FALSE
      <4>1. statusPtr[j] # NULL /\ statusPtr[j].w = k
        BY <1>3, <2>1, <3>2, JobsAssumption
      <4>2. Open(f)
        BY <1>2, <4>1 DEF Linked, Holds
      <4>3. QED
        BY <3>1, <4>2
    <3>3. QED
      BY <3>2
  <2> HIDE DEF f
  <2>7. ASSUME f.pc \in Ended, f.broke = "interrupted", ~f.timed PROVE OneInterrupted(h.res)
    <3>1. OneInterrupted(f.res)
      BY <2>5, <2>7 DEF Says
    <3>2. ASSUME NEW p \in 1 .. Len(f.res) PROVE h.res[p] = f.res[p]
      <4>1. p \in Nat
        OBVIOUS
      <4>2. statusPtr[j] # [w |-> k, i |-> p]
        BY <2>6, <2>7, <4>1
      <4>3. QED
        BY <2>4, <4>2
    <3>3. PICK p \in 1 .. Len(f.res) : \A q \in 1 .. Len(f.res) : f.res[q] = "-2" <=> q = p
      BY <3>1 DEF OneInterrupted
    <3>4. p \in 1 .. Len(h.res) /\ \A q \in 1 .. Len(h.res) : h.res[q] = "-2" <=> q = p
      BY <2>4, <3>2, <3>3
    <3>5. QED
      BY <3>4 DEF OneInterrupted
  <2>8. Says(h, k < Len(stack'))
    BY <2>4, <2>5, <2>7 DEF Says
  <2>9. QED
    BY <2>8 DEF h
<1>10. QED
  BY <1>8, <1>9

\* The innermost jobwait() goes on as g.
LEMMA TopSays ==
  ASSUME DataInv, DataInv', SaysInv, TopIs("wait"), NEW g \in WaitFrame,
         Becomes(g) \/ \E d \in AnyFrame : d.kind = "drain" /\ Calls(g, d),
         Careful => (Becomes(g) => Says(g, FALSE)) /\ (~Becomes(g) => Says(g, TRUE))
  PROVE  SaysInv'
<1> SUFFICES ASSUME Careful PROVE \A k \in WaitsOf(stack') : Says(stack'[k], k < Len(stack'))
  BY DEF SaysInv
<1>1. /\ WaitsOf(stack') = WaitsOf(stack) /\ stack'[Len(stack)] = g /\ stack # <<>>
      /\ \A k \in WaitsOf(stack) : k \in 1 .. Len(stack) /\ (k # Len(stack) => Same(k))
  BY OthersStay DEF TopIs
<1>2. ASSUME NEW k \in WaitsOf(stack), k # Len(stack) PROVE Says(stack'[k], k < Len(stack'))
  <2>1. k < Len(stack) /\ k < Len(stack') /\ stack'[k] = stack[k]
    BY <1>1, <1>2 DEF Same, DataInv, StackSound
  <2>2. QED
    BY <2>1 DEF SaysInv, Says
<1>3. Says(g, Len(stack) < Len(stack'))
  <2>1. Becomes(g) => ~(Len(stack) < Len(stack'))
    <3>1. stack \in Seq(AnyFrame) /\ Len(Front(stack)) = Len(stack) - 1 /\ Front(stack) \in Seq(AnyFrame)
          /\ Len(stack) \in Nat
      BY <1>1, PopFacts DEF DataInv, StackSound
    <3>2. Becomes(g) => Len(stack') = Len(stack)
      BY <3>1 DEF Becomes, Callers
    <3>3. QED
      BY <3>1, <3>2
  <2>2. CASE Becomes(g)
    BY <2>1, <2>2 DEF Says
  <2>3. CASE ~Becomes(g)
    BY <2>3 DEF Says
  <2>4. QED
    BY <2>2, <2>3
<1>4. QED
  BY <1>1, <1>2, <1>3

\* What changes neither how long a frame waits nor, but for Broken, its end.
LEMMA FrameStays ==
  ASSUME DataInv, TopIs("wait"), NEW pc \in Pcs, NEW next \in Pcs
  PROVE  /\ Goto(pc).timed = Top.timed /\ Goto(pc).broke = Top.broke /\ Goto(pc).res = Top.res
         /\ Goto(pc).pc = pc /\ Goto(pc) \in WaitFrame
         /\ Top.pc # "return" =>
              /\ Step(Top, pc, next).timed = Top.timed /\ Step(Top, pc, next).broke = Top.broke
              /\ Step(Top, pc, next).res = Top.res
              /\ Step(Top, pc, next).pc \in {pc, next} /\ Step(Top, pc, next) \in WaitFrame
<1>1. Top \in WaitFrame /\ Top.i \in Nat \ {0}
  BY TopWaitFacts
<1>2. Goto(pc).timed = Top.timed /\ Goto(pc).broke = Top.broke
  BY <1>1 DEF Goto, WaitFrame
<1>3. Step(Top, pc, next).timed = Top.timed
  <2>1. CASE Top.i < Len(Top.ids)
    <3>1. Step(Top, pc, next) = [Top EXCEPT !.pc = pc, !.i = Top.i + 1]
      BY <2>1 DEF Step
    <3>2. QED
      BY <1>1, <3>1 DEF WaitFrame
  <2>2. CASE ~(Top.i < Len(Top.ids))
    <3>1. Step(Top, pc, next) = [Top EXCEPT !.pc = next, !.i = 1]
      BY <2>2 DEF Step
    <3>2. QED
      BY <1>1, <3>1 DEF WaitFrame
  <2>3. QED
    BY <2>1, <2>2
<1>4. Top.pc # "return" =>
        /\ Step(Top, pc, next).broke = Top.broke /\ Step(Top, pc, next).res = Top.res
        /\ Step(Top, pc, next).pc \in {pc, next} /\ Step(Top, pc, next) \in WaitFrame
  BY TopStep
<1>5. QED
  BY <1>2, <1>3, <1>4, GotoFacts

\* What the innermost jobwait() says.
LEMMA TopSaid ==
  ASSUME DataInv, SaysInv, TopIs("wait"), Careful
  PROVE  Says(Top, FALSE) /\ Top \in WaitFrame
<1>1. stack # <<>> /\ Top = Last(stack) /\ Top.kind = "wait" /\ stack \in Seq(AnyFrame) /\ Len(stack) \in Nat \ {0}
      /\ Top \in WaitFrame
  BY TopWaitFacts DEF StackSound
<1>2. stack[Len(stack)] = Top /\ Len(stack) \in WaitsOf(stack)
  <2>1. stack[Len(stack)] = Top
    BY <1>1, PopFacts
  <2>2. Len(stack) \in DOMAIN stack
    BY <1>1
  <2>3. QED
    BY <1>1, <2>1, <2>2 DEF WaitsOf
<1>3. QED
  BY <1>1, <1>2 DEF SaysInv, Says

\* Steps up to the end of the loop: no list is over.
LEMMA LoopSays ==
  ASSUME DataInv, DataInv', SaysInv,
         \/ Enter \/ Entered \/ TimedOutAtOnce \/ Skip \/ WaitPolled \/ WaitBegin \/ WaitDrain
         \/ WaitInterrupted \/ WaitExited \/ WaitGivesUp
  PROVE  SaysInv'
<1> USE DEF Ended
<1> SUFFICES ASSUME Careful PROVE SaysInv'
  BY DEF SaysInv
<1>1. TopIs("wait") /\ Top.pc # "return"
  BY DEF Enter, Entered, TimedOutAtOnce, Skip, WaitPolled, WaitBegin, WaitDrain, WaitInterrupted,
         WaitExited, WaitGivesUp, TopWait
<1>2. Says(Top, FALSE) /\ Top \in WaitFrame /\ ThisJob \in Job /\ Top.w \in Nat /\ Top.timed \in BOOLEAN
  BY <1>1, TopSaid, TopWaitFacts DEF WaitFrame
<1>3. /\ \A j \in Job : DrainJob(j) \in AnyFrame /\ DrainJob(j).kind = "drain"
      /\ DrainParent(Top.w) \in AnyFrame /\ DrainParent(Top.w).kind = "drain"
  BY <1>2, DrainFacts
<1>4. ASSUME NEW g \in WaitFrame, Becomes(g) => Says(g, FALSE), ~Becomes(g) => Says(g, TRUE),
             Becomes(g) \/ Calls(g, DrainJob(ThisJob)) \/ Calls(g, DrainParent(Top.w))
      PROVE  SaysInv'
  BY <1>1, <1>2, <1>3, <1>4, TopSays
<1>5. CASE Enter
  <2> DEFINE f == [Goto("entering") EXCEPT !.res = Append(Top.res, "-1")]
             h == [Top EXCEPT !.res = Append(Top.res, "-3")]
             g == Step(h, "enter", "loop")
  <2>1. Top.pc = "enter" /\ Top.broke = "no" /\ Top.res \in Seq(Status) /\ Top.i <= Len(Top.ids)
    BY <1>1, <1>2, <1>5, TopWaitFacts DEF Enter, TopWait, Says
  <2>2. Append(Top.res, "-1") \in Seq(Status) /\ Append(Top.res, "-3") \in Seq(Status)
    BY <2>1 DEF Status
  <2>3. f \in WaitFrame /\ f.pc = "entering" /\ f.broke = "no"
    <3> DEFINE e == Goto("entering")
    <3>1. e \in WaitFrame /\ e.pc = "entering" /\ e.broke = "no"
      BY <1>1, <2>1, PcsAre, FrameStays
    <3>2. f = [e EXCEPT !.res = Append(Top.res, "-1")]
      OBVIOUS
    <3> HIDE DEF e, f
    <3>3. QED
      BY <2>2, <3>1, <3>2 DEF WaitFrame
  <2>4. g \in WaitFrame /\ g.pc \in {"enter", "loop"} /\ g.broke = "no"
    <3>1. h \in WaitFrame /\ h.i <= Len(h.ids) /\ h.broke = "no"
      BY <1>2, <2>1, <2>2 DEF WaitFrame
    <3> HIDE DEF h
    <3>2. QED
      BY <3>1, PcsAre, StepFacts
  <2>5. Calls(f, DrainJob(ThisJob)) \/ Becomes(g)
    <3>1. Goto("entering").res = Top.res
      BY <1>1, PcsAre, FrameStays
    <3>2. f = [Goto("entering") EXCEPT !.res = Append(@, "-1")] /\ h = [Top EXCEPT !.res = Append(@, "-3")]
      BY <1>2, <3>1 DEF Goto, WaitFrame
    <3>3. QED
      BY <1>5, <3>2 DEF Enter
  <2> HIDE DEF f, g
  <2>6. Says(f, FALSE) /\ Says(f, TRUE) /\ Says(g, FALSE) /\ Says(g, TRUE)
    BY <2>3, <2>4 DEF Says
  <2>7. QED
    BY <1>4, <2>3, <2>4, <2>5, <2>6
<1>6. CASE Entered \/ Skip
  <2> DEFINE g == Step(Top, "enter", "loop")
             h == Step(Top, "loop", "clear")
  <2>1. Top.pc \in {"entering", "loop"} /\ Top.broke = "no" /\ (Becomes(g) \/ Becomes(h))
    BY <1>2, <1>6 DEF Entered, Skip, TopWait, Says
  <2>2. /\ g \in WaitFrame /\ g.broke = "no" /\ g.pc \in {"enter", "loop"}
        /\ h \in WaitFrame /\ h.broke = "no" /\ h.pc \in {"loop", "clear"}
    BY <1>1, <2>1, PcsAre, FrameStays
  <2> HIDE DEF g, h
  <2>3. Says(g, FALSE) /\ Says(g, TRUE) /\ Says(h, FALSE) /\ Says(h, TRUE)
    BY <2>2 DEF Says
  <2>4. QED
    BY <1>4, <2>1, <2>2, <2>3
<1>7. CASE TimedOutAtOnce
  <2> DEFINE g == Broken("clear", "timeout")
  <2>1. Becomes(g) /\ "clear" \in Pcs /\ "timeout" \in Ways
    BY <1>7, PcsAre DEF TimedOutAtOnce, Broken, Ways
  <2>2. g \in WaitFrame /\ g.pc = "clear" /\ g.broke = "timeout"
    BY <1>1, <2>1, BrokeFacts
  <2> HIDE DEF g
  <2>3. Says(g, FALSE)
    BY <2>2 DEF Says
  <2>4. QED
    BY <1>4, <2>1, <2>2, <2>3
<1>8. CASE WaitBegin
  <2> DEFINE g == Step(Top, "loop", "clear")
             h == Goto("waiting")
  <2>1. Top.pc = "loop" /\ Top.broke = "no" /\ (Calls(g, DrainJob(ThisJob)) \/ Becomes(h))
    BY <1>2, <1>8 DEF WaitBegin, TopWait, Says
  <2>2. /\ g \in WaitFrame /\ g.broke = "no" /\ g.pc \in {"loop", "clear"}
        /\ h \in WaitFrame /\ h.broke = "no" /\ h.pc = "waiting"
    BY <1>1, <2>1, PcsAre, FrameStays
  <2> HIDE DEF g, h
  <2>3. Says(g, FALSE) /\ Says(g, TRUE) /\ Says(h, FALSE) /\ Says(h, TRUE)
    BY <2>2 DEF Says
  <2>4. QED
    BY <1>4, <2>1, <2>2, <2>3
<1>9. CASE WaitDrain \/ WaitPolled
  <2> DEFINE pc == IF Top.pc = "polling" THEN "polled" ELSE Top.pc
             g == Goto(pc)
  <2>1. /\ Top.pc \in {"waiting", "stopping", "polling"} /\ (Becomes(g) \/ Calls(g, DrainParent(Top.w)))
        /\ pc \in {"waiting", "stopping", "polled"} /\ (pc = "waiting" => Top.pc = "waiting")
    BY <1>9 DEF WaitDrain, WaitPolled, TopWait
  <2> HIDE DEF pc
  <2>2. g \in WaitFrame /\ g.broke = Top.broke /\ g.pc = pc
    BY <1>1, <2>1, PcsAre, FrameStays
  <2> HIDE DEF g
  <2>3. Says(g, FALSE) /\ Says(g, TRUE)
    BY <1>2, <2>1, <2>2 DEF Says
  <2>4. QED
    BY <1>4, <2>1, <2>2, <2>3
<1>10. CASE WaitInterrupted
  <2> DEFINE pc == IF Top.timed THEN "polling" ELSE "stopping"
             g == Broken(pc, "interrupted")
  <2>1. Becomes(g) /\ pc \in {"polling", "stopping"}
    BY <1>10 DEF WaitInterrupted, Broken
  <2> HIDE DEF pc
  <2>2. g \in WaitFrame /\ g.broke = "interrupted" /\ g.pc = pc
    BY <1>1, <2>1, PcsAre, BrokeFacts DEF Ways
  <2> HIDE DEF g
  <2>3. QED
    BY <1>4, <2>1, <2>2 DEF Says
<1>11. CASE WaitExited
  <2> DEFINE g == Goto("waited")
  <2>1. Top.pc \in {"waiting", "stopping", "polled"} /\ Calls(g, DrainParent(Top.w))
    BY <1>11 DEF WaitExited
  <2>2. g \in WaitFrame /\ g.broke = Top.broke /\ g.pc = "waited"
    BY <1>1, PcsAre, FrameStays
  <2> HIDE DEF g
  <2>3. Says(g, FALSE) /\ Says(g, TRUE)
    BY <1>2, <2>1, <2>2 DEF Says
  <2>4. QED
    BY <1>4, <2>1, <2>2, <2>3
<1>12. CASE WaitGivesUp
  <2> DEFINE broke == IF Top.pc = "polled" THEN "interrupted" ELSE "timeout"
             g == Broken("clear", broke)
  <2>1. Becomes(g) /\ Top.timed /\ broke \in Ways /\ "clear" \in Pcs
    BY <1>12, PcsAre DEF WaitGivesUp, Broken, Ways
  <2> HIDE DEF broke
  <2>2. g \in WaitFrame /\ g.pc = "clear" /\ g.timed
    BY <1>1, <2>1, BrokeFacts
  <2> HIDE DEF g
  <2>3. Says(g, FALSE)
    BY <2>2 DEF Says
  <2>4. QED
    BY <1>4, <2>1, <2>2, <2>3
<1>13. QED
  BY <1>5, <1>6, <1>7, <1>8, <1>9, <1>10, <1>11, <1>12

\* process_wait returned: -2 is written, at one place, in a list that has none.
LEMMA WaitedSays ==
  ASSUME DataInv, TellsInv, DataInv', SaysInv, Waited
  PROVE  SaysInv'
<1> USE DEF Ended
<1> SUFFICES ASSUME Careful PROVE SaysInv'
  BY DEF SaysInv
<1> DEFINE f == Step(Top, "loop", "clear")
           g == Broken("clear", "timeout")
           l == Broken("clear", "lost")
<1>1. /\ TopIs("wait") /\ Top.pc = "waited" /\ UNCHANGED <<statusPtr, parent, jobs, stopped, phase>>
  BY DEF Waited, TopWait, dataVars, procVars
<1>2. Says(Top, FALSE) /\ Top \in WaitFrame
  BY <1>1, TopSaid
<1>3. CASE Top.broke = "interrupted" /\ stack' = WithStatus(ThisJob, "-2", Append(Callers, Goto("clear")))
  <2>1. PICK h \in WaitFrame :
          /\ Becomes(h) /\ h.ids = Top.ids /\ h.pc = "clear" /\ h.i = Top.i /\ h.broke = "interrupted"
          /\ h.timed = Top.timed /\ Len(h.res) = Len(Top.res) /\ Top.i \in 1 .. Len(Top.res)
          /\ \A p \in 1 .. Len(Top.res) : h.res[p] = IF p = Top.i THEN "-2" ELSE Top.res[p]
    BY <1>1, <1>3, InterruptedFrame
  <2>2. ASSUME NEW p \in 1 .. Len(Top.res) PROVE Top.res[p] # "-2"
    <3>1. Top.ids[p] \in Job
      <4>1. StackSound(stack) /\ Len(stack) \in WaitsOf(stack) /\ stack[Len(stack)] = Top
        BY <1>1, <2>1, OthersStay DEF DataInv
      <4>2. QED
        BY <4>1, PlaceFacts
    <3>2. PICK j \in Job : j = Top.ids[p]
      BY <3>1
    <3>3. Tells(j, p, Len(stack), Top, FindJob(j), statusPtr[j], parent[j], phase[j], stack)
      BY <1>1, <3>2, TopPlace
    <3>4. QED
      BY <1>1, <3>3 DEF Tells
  <2>3. OneInterrupted(h.res)
    <3>1. \A q \in 1 .. Len(Top.res) : h.res[q] = "-2" <=> q = Top.i
      BY <2>1, <2>2
    <3>2. Top.i \in 1 .. Len(h.res) /\ \A q \in 1 .. Len(h.res) : h.res[q] = "-2" <=> q = Top.i
      BY <2>1, <3>1
    <3>3. QED
      BY <3>2 DEF OneInterrupted
  <2>4. Says(h, FALSE)
    BY <2>1, <2>3 DEF Says
  <2>5. QED
    BY <1>1, <2>1, <2>4, TopSays
<1>4. CASE Top.broke # "interrupted" /\ Becomes(f)
  <2>1. Top.broke = "no"
    BY <1>1, <1>2, <1>4 DEF Says
  <2>2. f \in WaitFrame /\ f.broke = "no" /\ f.pc \in {"loop", "clear"}
    BY <1>1, <2>1, PcsAre, FrameStays
  <2> HIDE DEF f
  <2>3. Says(f, FALSE) /\ Says(f, TRUE)
    BY <2>2 DEF Says
  <2>4. QED
    BY <1>1, <1>4, <2>2, <2>3, TopSays
<1>5. ASSUME NEW h \in {g, l}, Becomes(h) PROVE SaysInv'
  <2>1. h \in WaitFrame /\ h.pc = "clear" /\ h.broke \in {"timeout", "lost"}
    BY <1>1, PcsAre, BrokeFacts DEF Ways
  <2> HIDE DEF g, l
  <2>2. Says(h, FALSE)
    BY <2>1 DEF Says
  <2>3. QED
    BY <1>1, <1>5, <2>1, <2>2, TopSays
<1>6. QED
  BY <1>3, <1>4, <1>5 DEF Waited, StatusWritten, Broken

\* The list is as it was, to the end.
LEMMA OverSays ==
  ASSUME DataInv, DataInv', SaysInv, Clear \/ Restore \/ Restored
  PROVE  SaysInv'
<1> SUFFICES ASSUME Careful PROVE SaysInv'
  BY DEF SaysInv
<1> DEFINE f == Goto("restoring")
           g == Step(Top, "restore", "return")
           e == Goto("restore")
           h == [e EXCEPT !.i = 1]
<1>1. TopIs("wait") /\ Top.pc \in {"clear", "restore", "restoring"}
  BY DEF Clear, Restore, Restored, TopWait
<1>2. Says(Top, FALSE) /\ Top \in WaitFrame /\ ThisJob \in Job
  BY <1>1, TopSaid, TopWaitFacts
<1>3. Becomes(h) \/ Becomes(g) \/ Calls(f, DrainJob(ThisJob))
  BY DEF Clear, Restore, Restored
<1>4. DrainJob(ThisJob) \in AnyFrame /\ DrainJob(ThisJob).kind = "drain"
  BY <1>2, DrainFacts
<1>5. /\ f \in WaitFrame /\ f.pc = "restoring" /\ f.broke = Top.broke /\ f.timed = Top.timed /\ f.res = Top.res
      /\ g \in WaitFrame /\ g.pc \in {"restore", "return"} /\ g.broke = Top.broke /\ g.timed = Top.timed
      /\ g.res = Top.res
      /\ e \in WaitFrame /\ e.pc = "restore" /\ e.broke = Top.broke /\ e.timed = Top.timed /\ e.res = Top.res
  BY <1>1, PcsAre, FrameStays
<1>6. h \in WaitFrame /\ h.pc = "restore" /\ h.broke = Top.broke /\ h.timed = Top.timed /\ h.res = Top.res
  <2>1. h = [e EXCEPT !.i = 1] /\ 1 \in Nat \ {0}
    OBVIOUS
  <2> HIDE DEF e, h
  <2>2. QED
    BY <1>5, <2>1 DEF WaitFrame
<1> HIDE DEF e, f, g, h
<1>7. ASSUME NEW x \in {f, g, h} PROVE Says(x, FALSE) /\ (~Becomes(x) => Says(x, TRUE))
  BY <1>1, <1>2, <1>5, <1>6 DEF Says, Ended
<1>8. QED
  BY <1>1, <1>3, <1>4, <1>5, <1>6, <1>7, TopSays

LEMMA NextSays ==
  ASSUME DataInv, LinkInv, TellsInv, SaysInv, DataInv', [Next]_jobsVars
  PROVE  SaysInv'
<1>1. ASSUME NEW j \in Job,
             \/ Output(j) \/ Exit(j) \/ Closed(j)
             \/ HandleOutput(j) \/ HandleClose(j) \/ HandleExit(j) \/ HandleDelayed(j)
             \/ JobStart(j) \/ JobStartFails(j) \/ JobStop(j) \/ TermClose(j) \/ TermWiped(j)
      PROVE  SaysInv'
  <2>1. CASE Output(j) \/ Exit(j) \/ Closed(j) \/ HandleClose(j) \/ HandleDelayed(j)
    BY <2>1, SaysSame DEF Output, Exit, Closed, HandleClose, HandleDelayed
  <2>2. CASE JobStart(j) \/ JobStartFails(j) \/ JobStop(j) \/ TermClose(j) \/ TermWiped(j)
    BY <2>2, SaysSame DEF JobStart, JobStartFails, JobStop, TermClose, TermWiped
  <2>3. CASE HandleOutput(j)
    <3> DEFINE g == Callback(j, "out")
    <3>1. /\ stack' = Append(stack, g) \/ stack' = stack
          /\ stack # <<>> => Last(stack).kind # "wait"
      BY <2>3 DEF HandleOutput, Push, Handling, TopIs, Top
    <3>2. g \in AnyFrame /\ g.kind = "cb"
      BY CallbackFacts
    <3> HIDE DEF g
    <3>3. QED
      BY <3>1, <3>2, PushSays, SaysSame
  <2>4. CASE HandleExit(j)
    BY <2>4, HandleExitSays
  <2>5. QED
    BY <1>1, <2>1, <2>2, <2>3, <2>4
<1>2. ASSUME NEW ids \in Lists, NEW timed \in BOOLEAN, JobWait(ids, timed) PROVE SaysInv'
  BY <1>2, JobWaitSays
<1>3. CASE PollFast \/ Interrupt \/ UNCHANGED jobsVars
  BY <1>3, SaysSame DEF PollFast, Interrupt, jobsVars
<1>4. CASE DrainMain
  <2> DEFINE g == DrainParent(Main)
  <2>1. stack' = Append(stack, g) /\ (stack # <<>> => Last(stack).kind # "wait")
    BY <1>4 DEF DrainMain, Push, UserTurn, TopIs, Top
  <2>2. g \in AnyFrame /\ g.kind = "drain"
    BY DrainFacts DEF Main
  <2> HIDE DEF g
  <2>3. QED
    BY <2>1, <2>2, PushSays
<1>5. CASE DrainEnd \/ CallbackEnd \/ Return
  BY <1>5, PopSays DEF DrainEnd, CallbackEnd, Return, TopWait, TopIs
<1>6. CASE \/ Enter \/ Entered \/ TimedOutAtOnce \/ Skip \/ WaitPolled \/ WaitBegin \/ WaitDrain
           \/ WaitInterrupted \/ WaitExited \/ WaitGivesUp
  BY <1>6, LoopSays
<1>7. CASE Waited \/ Clear \/ Restore \/ Restored
  BY <1>7, WaitedSays, OverSays
<1>8. QED
  BY <1>1, <1>2, <1>3, <1>4, <1>5, <1>6, <1>7 DEF Next

\* A jobwait() without a timeout that was interrupted says so once its loop is
\* over.
THEOREM SaysInductive == Spec => []SaysInv
<1>1. Init => SaysInv
  BY DEF Init, WaitsOf, SaysInv
<1>2. DataInv /\ LinkInv /\ TellsInv /\ SaysInv /\ DataInv' /\ [Next]_jobsVars => SaysInv'
  BY NextSays
<1>3. QED
  BY <1>1, <1>2, Inductive, LinkInductive, TellsInductive, PTL DEF Spec

\* f_jobwait: a list that is returned has a place for every job that was given;
\* none is -1 unless the wait timed out or was interrupted; -2 is that of an
\* interrupted wait, and one without a timeout, whose -2 was not lost, says it
\* of one job, when the callbacks are careful.
THEOREM WaitTells == Spec => [](Careful => JobWaitTells)
<1>1. ASSUME DataInv, TellsInv, SaysInv, Careful, NEW f \in Frames("wait"), f.pc = "return"
      PROVE  /\ f.broke = "no" => "-1" \notin Range(f.res)
             /\ "-2" \in Range(f.res) => f.broke = "interrupted"
             /\ Len(f.res) = Len(f.ids)
             /\ f.broke = "interrupted" /\ ~f.timed =>
                  \E p \in DOMAIN f.res : \A q \in DOMAIN f.res : f.res[q] = "-2" <=> q = p
  <2>1. PICK k \in 1 .. Len(stack) : stack[k] = f /\ f.kind = "wait" /\ stack[k] \in AnyFrame
    BY <1>1, FramesAt DEF DataInv
  <2>2. k \in WaitsOf(stack) /\ StackSound(stack)
    BY <1>1, <2>1 DEF WaitsOf, DataInv, StackSound
  <2>3. /\ WaitSound(f, k) /\ Len(f.res) \in Nat /\ Len(f.ids) \in Nat /\ f.res \in Seq(Status)
        /\ \A p \in 1 .. Len(f.res) : f.ids[p] \in Job
    BY <2>1, <2>2, PlaceFacts
  <2>4. Len(f.res) = Len(f.ids)
    BY <1>1, <2>3 DEF WaitSound
  <2>5. DoneUpTo(f) = Len(f.ids)
    BY <1>1 DEF DoneUpTo, Waiting
  <2>6. ASSUME NEW p \in 1 .. Len(f.res)
        PROVE  /\ f.res[p] = "-2" => f.broke = "interrupted"
               /\ f.res[p] = "-1" => f.broke # "no"
    <3> DEFINE j == f.ids[p]
    <3>1. Tells(j, p, k, f, FindJob(j), statusPtr[j], parent[j], phase[j], stack)
      BY <1>1, <2>1, <2>2 DEF TellsInv, Told
    <3>2. p <= DoneUpTo(f)
      BY <2>3, <2>4, <2>5
    <3> HIDE DEF j
    <3>3. QED
      BY <1>1, <3>1, <3>2 DEF Tells
  <2>7. f.broke = "interrupted" /\ ~f.timed => OneInterrupted(f.res)
    <3>1. Says(f, k < Len(stack))
      BY <1>1, <2>1, <2>2 DEF SaysInv
    <3>2. QED
      BY <1>1, <3>1 DEF Says, Ended
  <2>8. DOMAIN f.res = 1 .. Len(f.res)
    BY <2>3
  <2>9. ASSUME NEW x \in Range(f.res) PROVE \E p \in 1 .. Len(f.res) : f.res[p] = x
    BY <2>8 DEF Range
  <2>10. /\ f.broke = "no" => "-1" \notin Range(f.res)
         /\ "-2" \in Range(f.res) => f.broke = "interrupted"
    BY <2>6, <2>9
  <2>11. OneInterrupted(f.res) => \E p \in DOMAIN f.res : \A q \in DOMAIN f.res : f.res[q] = "-2" <=> q = p
    BY <2>8 DEF OneInterrupted
  <2>12. QED
    BY <2>4, <2>7, <2>10, <2>11
<1>2. DataInv /\ TellsInv /\ SaysInv => (Careful => JobWaitTells)
  BY <1>1 DEF JobWaitTells
<1>3. QED
  BY <1>2, Inductive, TellsInductive, SaysInductive, PTL

-----------------------------------------------------------------------------
(***************************************************************************)
(* The life of the process of a job, step by step                          *)
(***************************************************************************)

LifeStep(j) == [Life(j)!Next]_(Life(j)!lifeVars)

\* A step that changes nothing of the life of j.
LEMMA LifeSame ==
  ASSUME NEW j \in Job, LifeOf(j)' = LifeOf(j), waiters'[j] = waiters[j], ExitsOf(j)' = ExitsOf(j)
  PROVE  LifeStep(j)
<1>1. phase'[j] = "gone" <=> phase[j] = "gone"
  BY DEF LifeOf
<1>2. CalledOf(j)' = CalledOf(j)
  BY <1>1 DEF CalledOf
<1>3. QED
  BY <1>2 DEF LifeStep, Life!lifeVars

LEMMA LifeUnchanged ==
  ASSUME UNCHANGED <<phase, waiters, queue>>
  PROVE  \A j \in Job : LifeStep(j)
<1>1. \A j \in Job : /\ LifeOf(j)' = LifeOf(j) /\ waiters'[j] = waiters[j]
                     /\ ExitsOf(j)' = ExitsOf(j)
  BY DEF LifeOf, ExitsOf, Times
<1>2. QED
  BY <1>1, LifeSame

\* What is known of the exit of j.
LEMMA ExitFacts ==
  ASSUME DataInv, NEW j \in Job
  PROVE  /\ phase[j] \in Phases /\ waiters[j] \in Nat /\ ExitsOf(j) \in Nat
         /\ ExitsOf(j) > 0 => phase[j] = "gone" /\ waiters[j] = 0 /\ ExitsOf(j) = 1
         /\ waiters[j] > 0 \/ j \in jobs => phase[j] # "none"
         /\ mem[j] = "none" => phase[j] = "none"
         /\ phase[j] = "none" => waiters[j] = 0
<1>1. DataTypes /\ stack \in Seq(AnyFrame) /\ JobSound(j)
  BY DEF DataInv, StackSound
<1>2. phase[j] \in Phases /\ waiters[j] \in Nat
  BY <1>1, TypesOfJob
<1>3. ExitsOf(j) \in Nat /\ Lasts(j, stack) \in Nat
  BY <1>1, EventCounts, CallTypes DEF ExitsOf
<1>4. ExitsOf(j) + Lasts(j, stack) = One(phase[j] = "gone" /\ waiters[j] = 0 /\ j \in jobs)
  BY <1>1 DEF JobSound, JobIs, Sound, ExitsOf
<1>5. /\ waiters[j] > 0 \/ j \in jobs => phase[j] # "none"
      /\ mem[j] = "none" => phase[j] = "none"
      /\ phase[j] = "none" => waiters[j] = 0
  BY <1>1, <1>2 DEF JobSound, JobIs, Sound
<1>6. QED
  BY <1>2, <1>3, <1>4, <1>5 DEF One

\* An event that is no exit event is put, taken, or put back.
LEMMA LifeQueued ==
  ASSUME DataInv, NEW j \in Job, UNCHANGED waiters,
         \A k \in Job : LifeOf(k)' = LifeOf(k) /\ (k # j => queue'[k] = queue[k]),
         Times("exit", queue'[j]) = Times("exit", queue[j])
  PROVE  \A k \in Job : LifeStep(k)
<1>1. \A k \in Job : ExitsOf(k)' = ExitsOf(k)
  BY DEF ExitsOf
<1>2. QED
  BY <1>1, LifeSame

LEMMA PutLife ==
  ASSUME DataInv, NEW j \in Job, NEW e \in Event \ {"exit"}, Put(j, e), UNCHANGED waiters,
         \A k \in Job : LifeOf(k)' = LifeOf(k)
  PROVE  \A k \in Job : LifeStep(k)
<1>1. /\ \A k \in Job : k # j => queue'[k] = queue[k]
      /\ Times("exit", queue[j]) \in Nat
      /\ Times("exit", queue'[j]) = Times("exit", queue[j]) + (IF e = "exit" THEN 1 ELSE 0)
  BY QueuePut DEF DataInv
<1>2. Times("exit", queue'[j]) = Times("exit", queue[j])
  BY <1>1
<1>3. QED
  BY <1>1, <1>2, LifeQueued

LEMMA TookLife ==
  ASSUME DataInv, NEW j \in Job, NEW e \in Event \ {"exit"}, Handling(j, e),
         queue' = [queue EXCEPT ![j] = Tail(@)], UNCHANGED waiters,
         \A k \in Job : LifeOf(k)' = LifeOf(k)
  PROVE  \A k \in Job : LifeStep(k)
<1>1. DataTypes /\ queue[j] # <<>> /\ Head(queue[j]) = e
  BY DEF DataInv, Handling
<1>2. /\ \A k \in Job : k # j => queue'[k] = queue[k]
      /\ \A x : /\ Times(x, queue'[j]) \in Nat
                /\ Times(x, queue[j]) = Times(x, queue'[j]) + (IF e = x THEN 1 ELSE 0)
  <2>1. queue' = [queue EXCEPT ![j] = Tail(@)]
    OBVIOUS
  <2>2. QED
    BY <1>1, <2>1, QueueTook, Zenon
<1>3. Times("exit", queue'[j]) = Times("exit", queue[j])
  <2>1. /\ Times("exit", queue'[j]) \in Nat
        /\ Times("exit", queue[j]) = Times("exit", queue'[j]) + (IF e = "exit" THEN 1 ELSE 0)
    BY <1>2
  <2>2. QED
    BY <2>1
<1>4. QED
  BY <1>2, <1>3, LifeQueued

-----------------------------------------------------------------------------
\* The steps that are steps of a life.

LEMMA ExitLife ==
  ASSUME DataInv, NEW j \in Job, Exit(j)
  PROVE  \A k \in Job : LifeStep(k)
<1>1. /\ phase[j] = "running" /\ phase' = [phase EXCEPT ![j] = "exited"]
      /\ Put(j, "close") /\ UNCHANGED waiters
  BY DEF Exit
<1>2. DataTypes /\ phase \in [Job -> Phases]
  BY DEF DataInv, DataTypes
<1>3. "close" \in Event
  BY DEF Event
<1>4. /\ \A k \in Job : k # j => queue'[k] = queue[k]
      /\ Times("exit", queue[j]) \in Nat
      /\ Times("exit", queue'[j]) = Times("exit", queue[j]) + (IF "close" = "exit" THEN 1 ELSE 0)
  BY <1>1, <1>2, <1>3, QueuePut
<1>5. \A k \in Job : ExitsOf(k)' = ExitsOf(k) /\ waiters'[k] = waiters[k]
  BY <1>1, <1>4 DEF ExitsOf
<1>6. ASSUME NEW k \in Job, k # j PROVE LifeStep(k)
  <2>1. LifeOf(k)' = LifeOf(k)
    BY <1>1, <1>2, <1>6 DEF LifeOf
  <2>2. QED
    BY <1>5, <2>1, LifeSame
<1>7. phase'[j] = "exited" /\ LifeOf(j) = "running" /\ LifeOf(j)' = "ended"
  BY <1>1, <1>2 DEF LifeOf
<1>8. CalledOf(j)' = CalledOf(j)
  BY <1>1, <1>7 DEF CalledOf
<1>9. Life(j)!End
  BY <1>5, <1>7, <1>8 DEF Life!End
<1>10. QED
  BY <1>6, <1>9 DEF LifeStep, Life!Next

LEMMA ClosedLife ==
  ASSUME DataInv, NEW j \in Job, Closed(j)
  PROVE  \A k \in Job : LifeStep(k)
<1>1. /\ phase[j] = "closing" /\ phase' = [phase EXCEPT ![j] = "gone"] /\ UNCHANGED waiters
      /\ IF waiters[j] = 0 THEN Put(j, "exit") ELSE UNCHANGED queue
  BY DEF Closed
<1>2. DataTypes /\ phase \in [Job -> Phases]
  BY DEF DataInv, DataTypes
<1>3. ExitsOf(j) = 0 /\ waiters[j] \in Nat
  BY <1>1, ExitFacts
<1>4. /\ \A k \in Job : k # j => queue'[k] = queue[k]
      /\ Times("exit", queue'[j]) = Times("exit", queue[j]) + (IF waiters[j] = 0 THEN 1 ELSE 0)
  <2>1. CASE waiters[j] = 0
    <3>1. Put(j, "exit") /\ "exit" \in Event
      BY <1>1, <2>1 DEF Event
    <3>2. QED
      BY <1>2, <2>1, <3>1, QueuePut
  <2>2. CASE waiters[j] # 0
    BY <1>1, <1>3, <2>2 DEF ExitsOf
  <2>3. QED
    BY <2>1, <2>2
<1>5. ASSUME NEW k \in Job, k # j PROVE LifeStep(k)
  <2>1. LifeOf(k)' = LifeOf(k) /\ ExitsOf(k)' = ExitsOf(k) /\ waiters'[k] = waiters[k]
    BY <1>1, <1>2, <1>4, <1>5 DEF LifeOf, ExitsOf
  <2>2. QED
    BY <2>1, LifeSame
<1>6. ExitsOf(j)' = (IF waiters[j] = 0 THEN 1 ELSE 0)
  BY <1>3, <1>4 DEF ExitsOf
<1>7. phase'[j] = "gone" /\ LifeOf(j) = "ended" /\ LifeOf(j)' = "gone"
  BY <1>1, <1>2 DEF LifeOf
<1>8. CalledOf(j) = 0 /\ CalledOf(j)' = 0
  BY <1>1, <1>6 DEF CalledOf
<1>9. Life(j)!Close
  BY <1>1, <1>3, <1>6, <1>7, <1>8 DEF Life!Close, Life!Release
<1>10. QED
  BY <1>5, <1>9 DEF LifeStep, Life!Next

LEMMA HandleExitLife ==
  ASSUME DataInv, NEW j \in Job, HandleExit(j)
  PROVE  \A k \in Job : LifeStep(k)
<1>1. /\ Handling(j, "exit") /\ queue' = [queue EXCEPT ![j] = Tail(@)]
      /\ UNCHANGED <<phase, waiters>>
  BY DEF HandleExit, procVars
<1>2. DataTypes /\ queue[j] # <<>> /\ Head(queue[j]) = "exit"
  BY <1>1 DEF DataInv, Handling
<1>3. /\ \A k \in Job : k # j => queue'[k] = queue[k]
      /\ Times("exit", queue'[j]) \in Nat
      /\ Times("exit", queue[j]) = Times("exit", queue'[j]) + (IF "exit" = "exit" THEN 1 ELSE 0)
  BY <1>1, <1>2, QueueTook
<1>4. \A k \in Job : LifeOf(k)' = LifeOf(k) /\ waiters'[k] = waiters[k]
  BY <1>1 DEF LifeOf
<1>5. ASSUME NEW k \in Job, k # j PROVE LifeStep(k)
  <2>1. ExitsOf(k)' = ExitsOf(k)
    BY <1>3, <1>5 DEF ExitsOf
  <2>2. QED
    BY <1>4, <2>1, LifeSame
<1>6. ExitsOf(j)' \in Nat /\ ExitsOf(j) = ExitsOf(j)' + 1
  BY <1>3 DEF ExitsOf
<1>7. /\ ExitsOf(j) = 1 /\ ExitsOf(j)' = 0
      /\ phase[j] = "gone" /\ waiters[j] = 0
  BY <1>6, ExitFacts
<1>8. CalledOf(j) = 0 /\ CalledOf(j)' = 1
  BY <1>1, <1>7 DEF CalledOf
<1>9. Life(j)!CallBack
  BY <1>4, <1>7, <1>8 DEF Life!CallBack
<1>10. QED
  BY <1>5, <1>9 DEF LifeStep, Life!Next

LEMMA JobStartLife ==
  ASSUME DataInv, NEW j \in Job, JobStart(j)
  PROVE  \A k \in Job : LifeStep(k)
<1>1. /\ mem[j] = "none" /\ phase' = [phase EXCEPT ![j] = "running"]
      /\ UNCHANGED <<queue, waiters>>
  BY DEF JobStart
<1>2. phase \in [Job -> Phases] /\ phase[j] = "none"
  BY <1>1, ExitFacts DEF DataInv, DataTypes
<1>3. \A k \in Job : ExitsOf(k)' = ExitsOf(k) /\ waiters'[k] = waiters[k]
  BY <1>1 DEF ExitsOf, Times
<1>4. ASSUME NEW k \in Job, k # j PROVE LifeStep(k)
  <2>1. LifeOf(k)' = LifeOf(k)
    BY <1>1, <1>2, <1>4 DEF LifeOf
  <2>2. QED
    BY <1>3, <2>1, LifeSame
<1>5. phase'[j] = "running" /\ LifeOf(j) = "none" /\ LifeOf(j)' = "running"
  BY <1>1, <1>2 DEF LifeOf
<1>6. CalledOf(j)' = CalledOf(j)
  BY <1>2, <1>5 DEF CalledOf
<1>7. Life(j)!Start
  BY <1>3, <1>5, <1>6 DEF Life!Start
<1>8. QED
  BY <1>4, <1>7 DEF LifeStep, Life!Next

LEMMA WaitBeginLife ==
  ASSUME DataInv, WaitBegin
  PROVE  \A k \in Job : LifeStep(k)
<1>1. PICK j : j = ThisJob
  OBVIOUS
<1>2. /\ FindJob(j) /\ UNCHANGED <<queue, phase>>
      /\ IF ProcRefcount(j) = 0 THEN UNCHANGED waiters
                                ELSE waiters' = [waiters EXCEPT ![j] = @ + 1]
  BY <1>1 DEF WaitBegin
<1>3. j \in Job /\ j \in jobs
  BY <1>2, InTheMap DEF FindJob
<1>4. phase[j] # "none" /\ phase[j] \in Phases /\ waiters[j] \in Nat
  BY <1>3, ExitFacts
<1>5. CASE ProcRefcount(j) = 0
  BY <1>2, <1>5, LifeUnchanged
<1>6. CASE ProcRefcount(j) # 0
  <2>1. waiters \in [Job -> Nat] /\ waiters' = [waiters EXCEPT ![j] = @ + 1]
    BY <1>2, <1>6 DEF DataInv, DataTypes
  <2>2. \A k \in Job : LifeOf(k)' = LifeOf(k) /\ ExitsOf(k)' = ExitsOf(k)
    BY <1>2 DEF LifeOf, ExitsOf, Times
  <2>3. ASSUME NEW k \in Job, k # j PROVE LifeStep(k)
    <3>1. waiters'[k] = waiters[k]
      BY <2>1, <2>3
    <3>2. QED
      BY <2>2, <2>3, <3>1, LifeSame
  <2>4. waiters'[j] = waiters[j] + 1
    BY <1>3, <2>1
  <2>5. phase[j] = "gone" => waiters[j] > 0
    BY <1>4, <1>6 DEF ProcRefcount
  <2>6. CalledOf(j) = 0 /\ CalledOf(j)' = 0
    BY <1>2, <1>4, <2>4, <2>5 DEF CalledOf
  <2>7. Life(j)!Referred
    BY <1>4, <2>5 DEF Life!Referred, LifeOf, Phases
  <2>8. Life(j)!WaitBegin
    BY <1>3, <2>2, <2>4, <2>6, <2>7 DEF Life!WaitBegin
  <2>9. QED
    BY <2>3, <2>8 DEF LifeStep, Life!Next
<1>7. QED
  BY <1>5, <1>6

LEMMA WaitExitedLife ==
  ASSUME DataInv, WaitExited
  PROVE  \A k \in Job : LifeStep(k)
<1>1. PICK j : j = ThisJob
  OBVIOUS
<1>2. /\ TopIs("wait") /\ Top.pc \in Waiting /\ ProcRefcount(j) = 1
      /\ waiters' = [waiters EXCEPT ![j] = 0] /\ Put(j, "exit") /\ UNCHANGED phase
  BY <1>1 DEF WaitExited, Waiting
<1>3. j \in Job /\ waiters[j] > 0 /\ waiters[j] \in Nat
  BY <1>1, <1>2, WaitingFacts
<1>4. phase[j] = "gone" /\ waiters[j] = 1
  BY <1>2, <1>3 DEF ProcRefcount
<1>5. ExitsOf(j) = 0
  BY <1>3, <1>4, ExitFacts
<1>6. DataTypes /\ waiters \in [Job -> Nat] /\ "exit" \in Event
  BY DEF DataInv, DataTypes, Event
<1>7. /\ \A k \in Job : k # j => queue'[k] = queue[k]
      /\ Times("exit", queue'[j]) = Times("exit", queue[j]) + (IF "exit" = "exit" THEN 1 ELSE 0)
  BY <1>2, <1>3, <1>6, QueuePut
<1>8. \A k \in Job : LifeOf(k)' = LifeOf(k)
  BY <1>2 DEF LifeOf
<1>9. ASSUME NEW k \in Job, k # j PROVE LifeStep(k)
  <2>1. waiters'[k] = waiters[k] /\ ExitsOf(k)' = ExitsOf(k)
    BY <1>2, <1>6, <1>7, <1>9 DEF ExitsOf
  <2>2. QED
    BY <1>8, <1>9, <2>1, LifeSame
<1>10. waiters'[j] = 0 /\ ExitsOf(j)' = 1
  BY <1>2, <1>3, <1>5, <1>6, <1>7 DEF ExitsOf
<1>11. CalledOf(j) = 0 /\ CalledOf(j)' = 0 /\ LifeOf(j) = "gone"
  BY <1>4, <1>10 DEF CalledOf, LifeOf
<1>12. Life(j)!WaitEnd
  BY <1>3, <1>4, <1>5, <1>8, <1>10, <1>11 DEF Life!WaitEnd, Life!Release
<1>13. QED
  BY <1>9, <1>12 DEF LifeStep, Life!Next

LEMMA WaitGivesUpLife ==
  ASSUME DataInv, WaitGivesUp
  PROVE  \A k \in Job : LifeStep(k)
<1>1. PICK j : j = ThisJob
  OBVIOUS
<1>2. /\ TopIs("wait") /\ Top.pc \in Waiting /\ ProcRefcount(j) # 1
      /\ waiters' = [waiters EXCEPT ![j] = @ - 1] /\ UNCHANGED <<queue, phase>>
  BY <1>1 DEF WaitGivesUp, Waiting
<1>3. j \in Job /\ waiters[j] > 0 /\ waiters[j] \in Nat
  BY <1>1, <1>2, WaitingFacts
<1>4. phase[j] = "gone" => waiters[j] > 1
  BY <1>2, <1>3 DEF ProcRefcount
<1>5. waiters \in [Job -> Nat]
  BY DEF DataInv, DataTypes
<1>6. \A k \in Job : LifeOf(k)' = LifeOf(k) /\ ExitsOf(k)' = ExitsOf(k)
  BY <1>2 DEF LifeOf, ExitsOf, Times
<1>7. ASSUME NEW k \in Job, k # j PROVE LifeStep(k)
  <2>1. waiters'[k] = waiters[k]
    BY <1>2, <1>5, <1>7
  <2>2. QED
    BY <1>6, <1>7, <2>1, LifeSame
<1>8. waiters'[j] = waiters[j] - 1
  BY <1>2, <1>3, <1>5
<1>9. CalledOf(j) = 0 /\ CalledOf(j)' = 0
  BY <1>2, <1>3, <1>4, <1>8 DEF CalledOf
<1>10. LifeOf(j) = "gone" => waiters[j] > 1
  BY <1>4 DEF LifeOf
<1>11. Life(j)!GiveUp
  BY <1>3, <1>6, <1>8, <1>9, <1>10 DEF Life!GiveUp
<1>12. QED
  BY <1>7, <1>11 DEF LifeStep, Life!Next

\* Every step is one of the life of each process, or none of it.
LEMMA LifeSteps ==
  ASSUME DataInv, [Next]_jobsVars
  PROVE  \A j \in Job : LifeStep(j)
<1>0. {"out", "close", "delayed"} \subseteq Event \ {"exit"} /\ phase \in [Job -> Phases]
  BY DEF Event, DataInv, DataTypes
<1>1. UNCHANGED phase => \A k \in Job : LifeOf(k)' = LifeOf(k)
  BY DEF LifeOf
<1>2. ASSUME NEW j \in Job, Output(j) PROVE \A k \in Job : LifeStep(k)
  <2>1. Put(j, "out") /\ UNCHANGED <<phase, waiters>>
    BY <1>2 DEF Output
  <2>2. QED
    BY <1>0, <1>1, <2>1, PutLife
<1>3. ASSUME NEW j \in Job, TermClose(j) PROVE \A k \in Job : LifeStep(k)
  <2>1. Put(j, "delayed") /\ UNCHANGED <<phase, waiters>>
    BY <1>3 DEF TermClose
  <2>2. QED
    BY <1>0, <1>1, <2>1, PutLife
<1>4. ASSUME NEW j \in Job, HandleOutput(j) PROVE \A k \in Job : LifeStep(k)
  <2>1. /\ Handling(j, "out") /\ queue' = [queue EXCEPT ![j] = Tail(@)]
        /\ UNCHANGED <<phase, waiters>>
    BY <1>4 DEF HandleOutput, procVars
  <2>2. QED
    BY <1>0, <1>1, <2>1, TookLife
<1>5. ASSUME NEW j \in Job, HandleClose(j) PROVE \A k \in Job : LifeStep(k)
  <2>1. /\ Handling(j, "close") /\ queue' = [queue EXCEPT ![j] = Tail(@)]
        /\ phase' = [phase EXCEPT ![j] = "closing"] /\ UNCHANGED waiters
    BY <1>5 DEF HandleClose
  <2>2. phase[j] = "exited"
    <3>1. DataTypes /\ Times("close", queue[j]) > 0 /\ JobSound(j)
      BY <1>5, <2>1, HandlingFacts DEF DataInv
    <3>2. Times("close", queue[j]) = One(phase[j] = "exited")
      BY <3>1 DEF JobSound, JobIs, Sound
    <3>3. QED
      BY <3>1, <3>2 DEF One
  <2>3. \A k \in Job : LifeOf(k)' = LifeOf(k)
    BY <1>0, <2>1, <2>2 DEF LifeOf
  <2>4. QED
    BY <1>0, <2>1, <2>3, TookLife
<1>6. ASSUME NEW j \in Job, HandleDelayed(j) PROVE \A k \in Job : LifeStep(k)
  <2>1. /\ Handling(j, "delayed") /\ UNCHANGED <<phase, waiters>>
        /\ \/ queue' = [queue EXCEPT ![j] = Append(Tail(@), "delayed")]
           \/ queue' = [queue EXCEPT ![j] = Tail(@)]
    BY <1>6 DEF HandleDelayed, procVars
  <2>2. CASE queue' = [queue EXCEPT ![j] = Tail(@)]
    BY <1>0, <1>1, <2>1, <2>2, TookLife
  <2>3. CASE queue' = [queue EXCEPT ![j] = Append(Tail(@), "delayed")]
    <3> DEFINE q == Tail(queue[j])
               r == Append(q, "delayed")
    <3>1. /\ queue \in [Job -> Seq(Event)] /\ queue[j] \in Seq(Event) /\ queue[j] # <<>>
          /\ Head(queue[j]) = "delayed" /\ "delayed" \in Event
      BY <2>1 DEF DataInv, DataTypes, Handling, Event
    <3>2. q \in Seq(Event) /\ Times("exit", queue[j]) = Times("exit", q) + One("delayed" = "exit")
      BY <3>1, TimesTail
    <3> HIDE DEF q
    <3>3. r \in Seq(Event) /\ Grown(q, "delayed", r)
      BY <3>1, <3>2, AppendGrows
    <3>4. queue' = [queue EXCEPT ![j] = r]
      BY <2>3 DEF q
    <3> HIDE DEF r
    <3>5. Times("exit", r) = Times("exit", q) + One("delayed" = "exit")
      BY <3>1, <3>2, <3>3, TimesGrown
    <3>6. Times("exit", r) = Times("exit", queue[j])
      BY <3>2, <3>5
    <3>7. queue'[j] = r /\ \A k \in Job : k # j => queue'[k] = queue[k]
      BY <3>1, <3>4
    <3>8. QED
      BY <1>1, <2>1, <3>6, <3>7, LifeQueued
  <2>4. QED
    BY <2>1, <2>2, <2>3
<1>7. CASE UNCHANGED <<phase, waiters, queue>>
  BY <1>7, LifeUnchanged
<1>8. CASE \E j \in Job : JobStartFails(j) \/ JobStop(j) \/ TermWiped(j)
  BY <1>7, <1>8 DEF JobStartFails, JobStop, TermWiped, procVars
<1>9. CASE \E ids \in Lists, timed \in BOOLEAN : JobWait(ids, timed)
  BY <1>7, <1>9 DEF JobWait, procVars
<1>10. CASE PollFast \/ DrainMain \/ DrainEnd \/ CallbackEnd \/ Interrupt
  BY <1>7, <1>10 DEF PollFast, DrainMain, DrainEnd, CallbackEnd, Interrupt, procVars
<1>11. CASE Enter \/ Entered \/ TimedOutAtOnce \/ Skip \/ WaitPolled \/ WaitDrain \/ WaitInterrupted
  BY <1>7, <1>11
     DEF Enter, Entered, TimedOutAtOnce, Skip, WaitPolled, WaitDrain, WaitInterrupted, procVars
<1>12. CASE Waited \/ Clear \/ Restore \/ Restored \/ Return
  BY <1>7, <1>12 DEF Waited, Clear, Restore, Restored, Return, procVars
<1>13. CASE UNCHANGED jobsVars
  BY <1>7, <1>13 DEF jobsVars, procVars
<1>14. QED
  BY <1>2, <1>3, <1>4, <1>5, <1>6, <1>8, <1>9, <1>10, <1>11, <1>12, <1>13, ExitLife, ClosedLife,
     HandleExitLife, JobStartLife, WaitBeginLife, WaitExitedLife, WaitGivesUpLife DEF Next

LEMMA LifeStarts ==
  ASSUME Init, NEW j \in Job
  PROVE  Life(j)!Init
<1>1. phase[j] = "none" /\ waiters[j] = 0 /\ queue[j] = <<>>
  BY DEF Init
<1>2. ExitsOf(j) = 0
  BY <1>1, TimesEmpty DEF ExitsOf
<1>3. CalledOf(j) = 0 /\ LifeOf(j) = "none"
  BY <1>1 DEF CalledOf, LifeOf
<1>4. QED
  BY <1>1, <1>2, <1>3 DEF Life!Init

\* The process of every job lives the life of ProcessLife: ImplementsLife, and
\* what it stands for, the specification ProcessLife of each process.
THEOREM LifeRefinement == Spec => ImplementsLife /\ \A j \in Job : Life(j)!Spec
<1>1. Init => \A j \in Job : Life(j)!Init
  BY LifeStarts
<1>2. DataInv /\ [Next]_jobsVars => \A j \in Job : [Life(j)!Next]_(Life(j)!lifeVars)
  BY LifeSteps DEF LifeStep
<1>3. Spec => ImplementsLife
  BY <1>1, <1>2, Inductive, PTL DEF Spec, ImplementsLife
<1>4. ASSUME NEW j \in Job PROVE Spec => Life(j)!Spec
  <2>1. Init => Life(j)!Init
    BY LifeStarts
  <2>2. DataInv /\ [Next]_jobsVars => [Life(j)!Next]_(Life(j)!lifeVars)
    BY LifeSteps DEF LifeStep
  <2>3. QED
    BY <2>1, <2>2, Inductive, PTL DEF Spec, Life!Spec
<1>5. QED
  BY <1>3, <1>4
=============================================================================
