----------------------------- MODULE ProcessProofs -----------------------------
(***************************************************************************)
(* Theorems about Process, for any finite set of processes and any setups. *)
(*                                                                         *)
(* The argument: the references count what is not closed (Refs), so that   *)
(* they reach zero once, and that queues the exit event behind every other *)
(* event of the process (ExitEvents).  The handles are closed because the  *)
(* exit was noticed, or because a detached process is let go (Closes); an  *)
(* exit is noticed once, from a zombie whose handle is still open.         *)
(* stopRequests counts at least the processes that were asked to stop and  *)
(* whose exit was not noticed yet (Kills).                                 *)
(***************************************************************************)
EXTENDS Process, SequenceLemmas, TLAPS

ProcEvent == [proc : Proc, kind : {"close", "exit"}]

\* The types, but for the bound of refcount.
ChildTypes ==
  /\ child \in [Proc -> {"none", "running", "zombie", "reaped"}]
  /\ killed \in [Proc -> BOOLEAN]
  /\ sigchld \in BOOLEAN

ProcTypes ==
  /\ refcount \in [Proc -> Nat]
  /\ stream \in [Proc -> [Streams -> {"none", "open", "closing", "freed"}]]
  /\ handle \in [Proc -> {"none", "open", "closing", "freed"}]
  /\ stoppedTime \in [Proc -> 0 .. 3]
  /\ termSent \in [Proc -> BOOLEAN]
  /\ noticed \in [Proc -> BOOLEAN]

LoopTypes ==
  /\ children \subseteq Proc
  /\ stopRequests \in Nat
  /\ killTimer \in BOOLEAN
  /\ events \in Seq(ProcEvent)
  /\ exitCbs \in [Proc -> Nat]

WaitTypes ==
  /\ waiting \in [proc : Proc \union {"none"}, ms : {"none", "forever", "timed"},
                  interrupted : BOOLEAN, result : {"none", "-2", Status}]
  /\ gotInt \in BOOLEAN
  /\ exiting \in {"no", "teardown", "done"}
  /\ setup \in Setups

Types == ChildTypes /\ ProcTypes /\ LoopTypes /\ WaitTypes

\* Nothing is left of a wait that returned.
Waits == waiting.proc = "none" => waiting = NotWaiting

\* The streams and the handle that are not freed, and the wait.
Live(st) == Cardinality({s \in Streams : st[s] \in {"open", "closing"}})
HandleRef(h) == IF h \in {"open", "closing"} THEN 1 ELSE 0
WaitRef(p) == IF WaitHolds(p) THEN 1 ELSE 0

Held(p) == Live(stream[p]) + HandleRef(handle[p]) + WaitRef(p)

Refs ==
  \A p \in Proc :
    /\ refcount[p] = Held(p)
    /\ p \in children <=> refcount[p] > 0

\* Nothing is known of a process before it is spawned.
BornOf(p) ==
  /\ child[p] = "none" => /\ stream[p] = [s \in Streams |-> "none"] /\ ~noticed[p]
                          /\ exitCbs[p] = 0 /\ ~WaitingFor(p)
                          /\ \A i \in DOMAIN events : events[i].proc # p
  /\ child[p] = "none" <=> handle[p] = "none"

Born == \A p \in Proc : BornOf(p)

\* Asked to stop, and the exit not noticed.
Asked == {p \in Proc : stoppedTime[p] > 0 /\ ~noticed[p]}

Kills ==
  /\ Cardinality(Asked) <= stopRequests
  /\ Asked # {} => killTimer

\* The exit event is the last one of its process, and there is one.
ExitEvents ==
  /\ \A i \in DOMAIN events : events[i].kind = "exit" =>
       /\ refcount[events[i].proc] = 0
       /\ exitCbs[events[i].proc] = 0
       /\ \A j \in DOMAIN events : i < j => events[j].proc # events[i].proc
  /\ \A p \in Proc :
       /\ refcount[p] > 0 => exitCbs[p] = 0
       /\ exitCbs[p] <= 1
       /\ exitCbs[p] = 1 => \A i \in DOMAIN events : events[i].proc # p

\* A detached process is closed without an exit when nvim exits.
LetGo(p) == exiting # "no" /\ p \in Detached

Closes ==
  /\ \A p \in Proc :
       /\ handle[p] \in {"closing", "freed"} => noticed[p] \/ LetGo(p)
       /\ noticed[p] => child[p] = "reaped"
  /\ \A i \in DOMAIN events : events[i].kind = "close" =>
       noticed[events[i].proc] \/ LetGo(events[i].proc)
  /\ \A i \in DOMAIN events : events[i].kind = "close" /\ ~LetGo(events[i].proc) =>
       /\ handle[events[i].proc] = "open"
       /\ \A j \in DOMAIN events : events[j] = events[i] => j = i

IndInv == Types /\ Waits /\ Refs /\ Born /\ Kills /\ ExitEvents /\ Closes

(***************************************************************************)
(* What the operators of process.c do                                      *)
(***************************************************************************)

\* The setup is one of those that the assumption is about.
LEMMA SetupFacts ==
  ASSUME WaitTypes
  PROVE  /\ Pty \subseteq Proc /\ Detached \subseteq Proc
         /\ \A w \in setup.waits : w.proc \in Proc /\ w.ms \in {"forever", "timed"}
         /\ "none" \notin Proc /\ IsFiniteSet(Proc)
<1>1. setup \in Setups
  BY DEF WaitTypes
<1>2. setup.pty \subseteq Proc /\ setup.detached \subseteq Proc
      /\ setup.waits \subseteq [proc : Proc, ms : {"forever", "timed"}]
  BY <1>1, ProcessAssumption
<1>3. QED
  BY <1>2, ProcessAssumption DEF Pty, Detached

\* decref of n references that are there.
LEMMA ReleasedFacts ==
  ASSUME refcount \in [Proc -> Nat], children \subseteq Proc,
         NEW evs \in Seq(ProcEvent), NEW p \in Proc, NEW n \in Nat, refcount[p] >= n,
         Released(p, n, evs)
  PROVE  /\ refcount' \in [Proc -> Nat]
         /\ refcount'[p] = refcount[p] - n
         /\ \A q \in Proc : q # p => refcount'[q] = refcount[q]
         /\ children' = IF refcount[p] = n THEN children \ {p} ELSE children
         /\ events' = IF refcount[p] = n THEN Append(evs, Event(p, "exit")) ELSE evs
         /\ Event(p, "exit") \in ProcEvent
         /\ events' \in Seq(ProcEvent)
<1>1. refcount' = [refcount EXCEPT ![p] = refcount[p] - n] /\ refcount[p] - n \in Nat
  BY DEF Released
<1>2. Event(p, "exit") \in ProcEvent
  BY DEF Event, ProcEvent
<1>3. /\ children' = IF refcount[p] = n THEN children \ {p} ELSE children
      /\ events' = IF refcount[p] = n THEN Append(evs, Event(p, "exit")) ELSE evs
  BY DEF Released
<1>4. events' \in Seq(ProcEvent)
  BY <1>2, <1>3, AppendFacts
<1>5. QED
  BY <1>1, <1>2, <1>3, <1>4

StreamTypes(st) == st \in [Streams -> {"none", "open", "closing", "freed"}]

\* Streams in the same states as far as references go.
SameLive(st, old) ==
  \A s \in Streams : st[s] \in {"open", "closing"} <=> old[s] \in {"open", "closing"}

LEMMA SameLiveFacts ==
  ASSUME NEW st, NEW old, SameLive(st, old)
  PROVE  Live(st) = Live(old)
<1>1. {s \in Streams : st[s] \in {"open", "closing"}}
        = {s \in Streams : old[s] \in {"open", "closing"}}
  BY Zenon DEF SameLive
<1>2. QED
  BY <1>1, Zenon DEF Live

\* Closing some streams of p changes no reference.
LEMMA ClosedStreamsFacts ==
  ASSUME stream \in [Proc -> [Streams -> {"none", "open", "closing", "freed"}]],
         NEW p \in Proc, NEW ss
  PROVE  /\ StreamTypes(ClosedStreams(p, ss)[p])
         /\ SameLive(ClosedStreams(p, ss)[p], stream[p])
         /\ \A q \in Proc : q # p => ClosedStreams(p, ss)[q] = stream[q]
         /\ ClosedStreams(p, ss) \in [Proc -> [Streams -> {"none", "open", "closing", "freed"}]]
         /\ stream[p] = [s \in Streams |-> "none"] => ClosedStreams(p, ss)[p] = stream[p]
<1> DEFINE new == [s \in Streams |-> IF s \in ss /\ stream[p][s] = "open" THEN "closing"
                                     ELSE stream[p][s]]
<1>1. ClosedStreams(p, ss) = [stream EXCEPT ![p] = new]
  BY DEF ClosedStreams
<1>2. stream[p] \in [Streams -> {"none", "open", "closing", "freed"}]
  OBVIOUS
<1>3. new \in [Streams -> {"none", "open", "closing", "freed"}]
  BY <1>2
<1>4. \A s \in Streams : new[s] \in {"open", "closing"} <=> stream[p][s] \in {"open", "closing"}
  BY <1>2
<1>5. stream[p] = [s \in Streams |-> "none"] => new = stream[p]
  <2>1. ASSUME stream[p] = [s \in Streams |-> "none"] PROVE new = stream[p]
    <3>1. \A s \in Streams : stream[p][s] = "none"
      BY <2>1
    <3>2. new = [s \in Streams |-> "none"]
      BY <3>1
    <3>3. QED
      BY <2>1, <3>2
  <2>2. QED
    BY <2>1
<1> HIDE DEF new
<1>6. /\ ClosedStreams(p, ss)[p] = new
      /\ \A q \in Proc : q # p => ClosedStreams(p, ss)[q] = stream[q]
      /\ ClosedStreams(p, ss) \in [Proc -> [Streams -> {"none", "open", "closing", "freed"}]]
  BY <1>1, <1>3
<1>7. QED
  BY <1>3, <1>4, <1>5, <1>6 DEF StreamTypes, SameLive

\* process_stop: streams are closed, and each new request is counted.
LEMMA StoppedFacts ==
  ASSUME ProcTypes, WaitTypes, NEW ps \in SUBSET Proc, Stopped(ps)
  PROVE  /\ stoppedTime' \in [Proc -> 0 .. 3]
         /\ \A p \in Proc : stoppedTime'[p] = IF p \in ps /\ stoppedTime[p] = 0 THEN 1
                                              ELSE stoppedTime[p]
         /\ stream' \in [Proc -> [Streams -> {"none", "open", "closing", "freed"}]]
         /\ \A p \in Proc : /\ SameLive(stream'[p], stream[p])
                            /\ stream[p] = [s \in Streams |-> "none"] => stream'[p] = stream[p]
<1> DEFINE new == {p \in ps : stoppedTime[p] = 0}
<1>1. stoppedTime' = [p \in Proc |-> IF p \in new THEN 1 ELSE stoppedTime[p]]
  BY DEF Stopped
<1>2. stream' = [p \in Proc |->
                   IF p \notin new THEN stream[p]
                   ELSE ClosedStreams(p, IF p \in Pty THEN Streams ELSE {"in"})[p]]
  BY DEF Stopped
<1>3. stoppedTime \in [Proc -> 0 .. 3]
      /\ stream \in [Proc -> [Streams -> {"none", "open", "closing", "freed"}]]
  BY DEF ProcTypes
<1>4. stoppedTime' \in [Proc -> 0 .. 3]
      /\ \A p \in Proc : stoppedTime'[p] = IF p \in ps /\ stoppedTime[p] = 0 THEN 1
                                           ELSE stoppedTime[p]
  BY <1>1, <1>3
<1>5. ASSUME NEW p \in Proc
      PROVE  /\ stream'[p] \in [Streams -> {"none", "open", "closing", "freed"}]
             /\ SameLive(stream'[p], stream[p])
             /\ stream[p] = [s \in Streams |-> "none"] => stream'[p] = stream[p]
  <2>1. CASE p \notin new
    <3>1. stream'[p] = stream[p]
      BY <1>2, <2>1
    <3>2. QED
      BY <1>3, <3>1 DEF SameLive
  <2>2. CASE p \in new
    <3> DEFINE ss == IF p \in Pty THEN Streams ELSE {"in"}
    <3>1. stream'[p] = ClosedStreams(p, ss)[p]
      BY <1>2, <2>2
    <3> HIDE DEF ss
    <3>2. QED
      BY <1>3, <3>1, ClosedStreamsFacts DEF StreamTypes
  <2>3. QED
    BY <2>1, <2>2
<1>6. stream' \in [Proc -> [Streams -> {"none", "open", "closing", "freed"}]]
  <2>1. stream' = [p \in Proc |-> stream'[p]]
    BY <1>2
  <2>2. QED
    BY <1>5, <2>1
<1>7. QED
  BY <1>4, <1>5, <1>6

\* Close events for a set of processes, behind the events that are queued.
CloseEvents(ps) == SetToSeq({Event(p, "close") : p \in ps})

LEMMA CloseEventsFacts ==
  ASSUME IsFiniteSet(Proc), events \in Seq(ProcEvent), NEW ps \in SUBSET Proc
  PROVE  LET new == events \o CloseEvents(ps)
         IN  /\ new \in Seq(ProcEvent)
             /\ Len(events) \in Nat /\ DOMAIN events = 1 .. Len(events)
             /\ DOMAIN new \subseteq Nat \ {0} /\ DOMAIN events \subseteq DOMAIN new
             /\ \A i \in DOMAIN events : new[i] = events[i]
             /\ \A i \in DOMAIN new \ DOMAIN events : new[i].kind = "close" /\ new[i].proc \in ps
             /\ \A i, j \in DOMAIN new \ DOMAIN events : new[i] = new[j] => i = j
<1> DEFINE E == {Event(p, "close") : p \in ps}
           new == events \o CloseEvents(ps)
<1>1. IsFiniteSet(E)
  <2>1. IsFiniteSet(ps)
    BY FS_Subset
  <2>2. [p \in ps |-> Event(p, "close")] \in Surjection(ps, E)
    BY DEF Surjection
  <2>3. QED
    BY <2>1, <2>2, FS_Surjection, Zenon
<1>2. E \subseteq ProcEvent
  BY DEF Event, ProcEvent
<1>3. \A e \in E : e.kind = "close" /\ e.proc \in ps
  BY DEF Event
<1> HIDE DEF E
<1>4. CloseEvents(ps) = SetToSeq(E)
  BY Zenon DEF CloseEvents, E
<1>5. CloseEvents(ps) \in Seq(E)
      /\ \A i, j \in DOMAIN CloseEvents(ps) : CloseEvents(ps)[i] = CloseEvents(ps)[j] => i = j
  BY <1>1, <1>4, SetToSeqFacts, Zenon
<1>6. CloseEvents(ps) \in Seq(ProcEvent)
  BY <1>2, <1>5
<1> DEFINE added == CloseEvents(ps)
<1> HIDE DEF added
<1>7. /\ new \in Seq(ProcEvent) /\ Len(events) \in Nat /\ Len(added) \in Nat
      /\ DOMAIN events = 1 .. Len(events) /\ DOMAIN added = 1 .. Len(added)
      /\ DOMAIN new = 1 .. Len(events) + Len(added)
      /\ \A i \in 1 .. Len(events) : new[i] = events[i]
      /\ \A i \in 1 .. Len(added) : new[Len(events) + i] = added[i]
  BY <1>6, ConcatFacts DEF added
<1> HIDE DEF new
<1>8. ASSUME NEW i \in DOMAIN new \ DOMAIN events
      PROVE  i - Len(events) \in DOMAIN added /\ new[i] = added[i - Len(events)] /\ i \in Nat
  <2>1. i - Len(events) \in 1 .. Len(added)
    BY <1>7
  <2>2. new[Len(events) + (i - Len(events))] = added[i - Len(events)]
    BY <1>7, <2>1
  <2>3. Len(events) + (i - Len(events)) = i /\ i \in Nat
    BY <1>7
  <2>4. QED
    BY <1>7, <2>1, <2>2, <2>3
<1>9. ASSUME NEW i \in DOMAIN new \ DOMAIN events
      PROVE  new[i].kind = "close" /\ new[i].proc \in ps
  <2>1. new[i] \in E
    BY <1>5, <1>8 DEF added
  <2>2. QED
    BY <1>3, <2>1
<1>10. ASSUME NEW i \in DOMAIN new \ DOMAIN events, NEW j \in DOMAIN new \ DOMAIN events,
              new[i] = new[j]
       PROVE  i = j
  <2>1. i - Len(events) = j - Len(events)
    BY <1>5, <1>8, <1>10 DEF added
  <2>2. QED
    BY <1>7, <1>8, <2>1
<1>11. DOMAIN new \subseteq Nat \ {0} /\ DOMAIN events \subseteq DOMAIN new
  BY <1>7
<1>12. QED
  BY <1>7, <1>9, <1>10, <1>11 DEF new

\* The processes that a SIGCHLD reaps, and those of them that it finds.
LEMMA SigchldFacts ==
  ASSUME Types, Sigchld
  PROVE  \E found, dead \in SUBSET Proc :
           /\ found \subseteq dead
           /\ \A p \in dead : child[p] = "zombie"
           /\ \A p \in found : handle[p] = "open" \/ p \in children
           /\ child' = [p \in Proc |-> IF p \in dead THEN "reaped" ELSE child[p]]
           /\ noticed' = [p \in Proc |-> noticed[p] \/ p \in found]
           /\ Answered({p \in found : stoppedTime[p] > 0})
           /\ events' = events \o CloseEvents(found)
<1> DEFINE zombies == {p \in Proc : child[p] = "zombie"}
           own == {p \in zombies \ Pty : handle[p] = "open"}
           handler == zombies # {} /\ \E p \in Pty : child[p] # "none"
<1>1. PICK taken \in IF handler THEN {{p} : p \in zombies} ELSE {{}} :
         LET found == own \union (taken \cap children)
         IN  /\ child' = [p \in Proc |-> IF p \in own \union taken THEN "reaped" ELSE child[p]]
             /\ noticed' = [p \in Proc |-> noticed[p] \/ p \in found]
             /\ Answered({p \in found : stoppedTime[p] > 0})
             /\ events' = events \o SetToSeq({Event(p, "close") : p \in found})
  BY DEF Sigchld
<1> DEFINE found == own \union (taken \cap children)
           dead == own \union taken
<1>2. taken \subseteq zombies
  BY Zenon
<1>3. found \subseteq dead /\ dead \in SUBSET Proc /\ found \in SUBSET Proc
      /\ (\A p \in dead : child[p] = "zombie")
      /\ (\A p \in found : handle[p] = "open" \/ p \in children)
  BY <1>2
<1>4. /\ child' = [p \in Proc |-> IF p \in dead THEN "reaped" ELSE child[p]]
      /\ noticed' = [p \in Proc |-> noticed[p] \/ p \in found]
      /\ Answered({p \in found : stoppedTime[p] > 0})
      /\ events' = events \o CloseEvents(found)
  BY <1>1, Zenon DEF CloseEvents
<1> HIDE DEF found, dead
<1>5. QED
  BY <1>3, <1>4

(***************************************************************************)
(* Types                                                                   *)
(***************************************************************************)

LEMMA ChildTypesStep ==
  ASSUME Types, [Next]_processVars
  PROVE  ChildTypes'
<1>1. ChildTypes
  BY DEF Types
<1>2. ASSUME NEW p \in Proc, Spawn(p) \/ ChildExits(p) PROVE ChildTypes'
  BY <1>1, <1>2 DEF Spawn, ChildExits, ChildTypes
<1>3. CASE Sigchld
  BY <1>1, <1>3 DEF Sigchld, ChildTypes
<1>4. CASE KillTick
  <2>1. killed' \in [Proc -> BOOLEAN]
    BY <1>1, <1>4, Zenon DEF KillTick, ChildTypes
  <2>2. QED
    BY <1>1, <1>4, <2>1 DEF KillTick, ChildTypes
<1>5. CASE UNCHANGED childVars
  BY <1>1, <1>5 DEF childVars, ChildTypes
<1>6. QED
  BY <1>2, <1>3, <1>4, <1>5
     DEF Next, Step, processVars, stateVars, TimePasses, HandleClosed, Stop, StreamClosed,
         CloseStream, HandleClose, HandleExit, WaitBegin, Interrupt, WaitInterrupted,
         WaitExited, WaitGivesUp, WaitReturn, Teardown, TeardownEnd

(***************************************************************************)
(* References                                                              *)
(***************************************************************************)

LEMMA StreamsCount == Cardinality(Streams) = 2
<1>1. IsFiniteSet({"in"}) /\ Cardinality({"in"}) = 1
  BY FS_Singleton
<1>2. Cardinality({"in"} \union {"out"}) = 2
  BY <1>1, FS_AddElement
<1>3. Streams = {"in"} \union {"out"}
  BY DEF Streams
<1>4. QED
  BY <1>2, <1>3

LEMMA LiveFacts ==
  ASSUME NEW st
  PROVE  /\ Live(st) \in 0 .. 2
         /\ \A s \in Streams : st[s] \in {"open", "closing"} => Live(st) >= 1
         /\ (\A s \in Streams : st[s] \in {"open", "closing"}) => Live(st) = 2
         /\ (\A s \in Streams : st[s] \notin {"open", "closing"}) => Live(st) = 0
<1> DEFINE L == {s \in Streams : st[s] \in {"open", "closing"}}
<1>1. L = {} \/ L = {"in"} \/ L = {"out"} \/ L = {"in"} \union {"out"}
  BY DEF Streams
<1>2. Cardinality({}) = 0 /\ Cardinality({"in"}) = 1 /\ Cardinality({"out"}) = 1
      /\ Cardinality({"in"} \union {"out"}) = 2
  <2>1. IsFiniteSet({"in"}) /\ Cardinality({"in"}) = 1 /\ Cardinality({"out"}) = 1
    BY FS_Singleton
  <2>2. Cardinality({"in"} \union {"out"}) = 2
    BY <2>1, FS_AddElement
  <2>3. QED
    BY <2>1, <2>2, FS_EmptySet
<1>3. Live(st) = Cardinality(L)
  BY DEF Live
<1>4. (\E s \in Streams : st[s] \in {"open", "closing"}) => L # {}
  BY Zenon
<1>5. (\A s \in Streams : st[s] \in {"open", "closing"}) => L = {"in"} \union {"out"}
  BY DEF Streams
<1>6. (\A s \in Streams : st[s] \notin {"open", "closing"}) => L = {}
  BY DEF Streams
<1> HIDE DEF L
<1>7. Cardinality(L) \in 0 .. 2 /\ (L # {} => Cardinality(L) >= 1)
  <2>1. \/ L = {} /\ Cardinality(L) = 0
        \/ Cardinality(L) = 1 \/ Cardinality(L) = 2
    BY <1>1, <1>2, Zenon
  <2>2. QED
    BY <2>1
<1>8. QED
  BY <1>2, <1>3, <1>4, <1>5, <1>6, <1>7

LEMMA FreedFacts ==
  ASSUME NEW st, NEW new, NEW s \in Streams, st[s] \in {"open", "closing"},
         new[s] \notin {"open", "closing"},
         \A r \in Streams : r # s => new[r] = st[r]
  PROVE  Live(new) = Live(st) - 1
<1> DEFINE L == {r \in Streams : st[r] \in {"open", "closing"}}
<1>1. {r \in Streams : new[r] \in {"open", "closing"}} = L \ {s} /\ s \in L
  OBVIOUS
<1>2. IsFiniteSet(L)
  <2>1. IsFiniteSet({"in"} \union {"out"})
    BY FS_Singleton, FS_AddElement
  <2>2. L \in SUBSET ({"in"} \union {"out"})
    BY DEF Streams
  <2>3. QED
    BY <2>1, <2>2, FS_Subset
<1>3. Cardinality(L \ {s}) = Cardinality(L) - 1
  BY <1>1, <1>2, FS_RemoveElement
<1>4. QED
  BY <1>1, <1>3, Zenon DEF Live

\* There is a reference where something is not closed.
LEMMA RefPositive ==
  ASSUME Types, Refs, NEW p \in Proc
  PROVE  /\ \A s \in Streams : stream[p][s] \in {"open", "closing"} => refcount[p] >= 1
         /\ handle[p] \in {"open", "closing"} => refcount[p] >= 1
         /\ WaitHolds(p) => refcount[p] >= 1
         /\ refcount[p] \in 0 .. 4
<1>1. refcount[p] = Live(stream[p]) + HandleRef(handle[p]) + WaitRef(p)
  BY DEF Refs, Held
<1>2. Live(stream[p]) \in 0 .. 2 /\ HandleRef(handle[p]) \in 0 .. 1 /\ WaitRef(p) \in 0 .. 1
  BY LiveFacts DEF HandleRef, WaitRef
<1>3. \A s \in Streams : stream[p][s] \in {"open", "closing"} => Live(stream[p]) >= 1
  BY LiveFacts
<1>4. handle[p] \in {"open", "closing"} => HandleRef(handle[p]) = 1
  BY DEF HandleRef
<1>5. WaitHolds(p) => WaitRef(p) = 1
  BY DEF WaitRef
<1>6. QED
  BY <1>1, <1>2, <1>3, <1>4, <1>5

\* The process that is waited for is one of Proc, and the wait ends with its result.
LEMMA WaitFacts ==
  ASSUME Types, Waits, waiting.proc # "none"
  PROVE  waiting.proc \in Proc /\ waiting # NotWaiting
         /\ (waiting.result = "none" => WaitHolds(waiting.proc))
<1>1. waiting.proc \in Proc
  BY DEF Types, WaitTypes
<1>2. waiting # NotWaiting
  BY DEF NotWaiting
<1>3. QED
  BY <1>1, <1>2 DEF WaitHolds, WaitingFor

\* The event that is handled next is the first one of its process.
LEMMA HandledFacts ==
  ASSUME Types, Waits, NEW i \in 1 .. Len(events), Handled(i)
  PROVE  /\ i \in DOMAIN events /\ events[i] \in ProcEvent /\ events[i].proc \in Proc
         /\ \A j \in DOMAIN events : j < i => events[j].proc # events[i].proc
<1>1. events \in Seq(ProcEvent) /\ Len(events) \in Nat /\ DOMAIN events = 1 .. Len(events)
  BY DEF Types, LoopTypes
<1>2. events[i] \in ProcEvent
  BY <1>1
<1>3. \A j \in DOMAIN events : j < i => j \in 1 .. i - 1
  BY <1>1
<1>4. \A j \in DOMAIN events : j < i => events[j].proc # events[i].proc
  BY <1>1, <1>3 DEF Handled, Focus, WaitingFor
<1>5. QED
  BY <1>1, <1>2, <1>4 DEF ProcEvent

\* What process_close_handles does to the references, for p with its events evs.
LEMMA CloseHandlesFacts ==
  ASSUME Types, Refs, NEW p \in Proc, NEW evs \in Seq(ProcEvent), CloseHandles(p, evs)
  PROVE  /\ stream' = ClosedStreams(p, Streams)
         /\ handle' \in [Proc -> {"none", "open", "closing", "freed"}]
         /\ \A q \in Proc : q # p => handle'[q] = handle[q]
         /\ refcount' \in [Proc -> Nat] /\ children' \subseteq Proc /\ events' \in Seq(ProcEvent)
         /\ \/ UNCHANGED <<handle, refcount, children>> /\ handle[p] # "open" /\ events' = evs
            \/ /\ UNCHANGED <<refcount, children>> /\ events' = evs
               /\ handle[p] = "open" /\ handle'[p] = "closing"
            \/ handle[p] = "open" /\ handle'[p] = "freed" /\ Released(p, 1, evs)
<1>1. ProcTypes /\ LoopTypes
  BY DEF Types
<1>2. stream' = ClosedStreams(p, Streams)
  BY DEF CloseHandles
<1>3. CASE handle[p] # "open"
  BY <1>1, <1>2, <1>3 DEF CloseHandles, ProcTypes, LoopTypes
<1>4. CASE handle[p] = "open" /\ p \in Pty
  <2>1. refcount[p] >= 1
    BY <1>4, RefPositive
  <2>2. handle' = [handle EXCEPT ![p] = "freed"] /\ Released(p, 1, evs)
    BY <1>4 DEF CloseHandles
  <2>3. refcount' \in [Proc -> Nat] /\ children' \subseteq Proc /\ events' \in Seq(ProcEvent)
    BY <1>1, <2>1, <2>2, ReleasedFacts DEF ProcTypes, LoopTypes
  <2>4. QED
    BY <1>1, <1>2, <1>4, <2>2, <2>3 DEF ProcTypes
<1>5. CASE handle[p] = "open" /\ p \notin Pty
  <2>1. handle' = [handle EXCEPT ![p] = "closing"] /\ events' = evs
        /\ UNCHANGED <<refcount, children>>
    BY <1>5 DEF CloseHandles
  <2>2. QED
    BY <1>1, <1>2, <1>5, <2>1 DEF ProcTypes, LoopTypes
<1>6. QED
  BY <1>3, <1>4, <1>5

LEMMA ProcTypesStep ==
  ASSUME Types, Waits, Refs, [Next]_processVars
  PROVE  ProcTypes'
<1>1. ProcTypes /\ LoopTypes /\ WaitTypes
  BY DEF Types
<1>2. ASSUME NEW p \in Proc, Spawn(p) PROVE ProcTypes'
  <2>1. Cardinality(Streams) + 1 = 3
    BY StreamsCount
  <2>2. refcount' \in [Proc -> Nat]
    BY <1>1, <1>2, <2>1 DEF Spawn, ProcTypes
  <2>3. [s \in Streams |-> "open"] \in [Streams -> {"none", "open", "closing", "freed"}]
    OBVIOUS
  <2>4. stream' \in [Proc -> [Streams -> {"none", "open", "closing", "freed"}]]
    BY <1>1, <1>2, <2>3 DEF Spawn, ProcTypes
  <2>5. QED
    BY <1>1, <1>2, <2>2, <2>4 DEF Spawn, ProcTypes
<1>3. ASSUME NEW p \in Proc, TimePasses(p) PROVE ProcTypes'
  <2>1. stoppedTime' \in [Proc -> 0 .. 3]
    BY <1>1, <1>3 DEF TimePasses, ProcTypes
  <2>2. QED
    BY <1>1, <1>3, <2>1 DEF TimePasses, ProcTypes
<1>4. ASSUME NEW p \in Proc, NEW s \in Streams, StreamClosed(p, s) PROVE ProcTypes'
  <2>1. refcount[p] >= 1 /\ Released(p, 1, events)
    BY <1>4, RefPositive DEF StreamClosed
  <2>2. refcount' \in [Proc -> Nat]
    BY <1>1, <2>1, ReleasedFacts DEF ProcTypes, LoopTypes
  <2>3. stream' = [stream EXCEPT ![p][s] = "freed"]
    BY <1>4 DEF StreamClosed
  <2>4. stream' \in [Proc -> [Streams -> {"none", "open", "closing", "freed"}]]
    BY <1>1, <2>3 DEF ProcTypes
  <2>5. QED
    BY <1>1, <1>4, <2>2, <2>4 DEF StreamClosed, ProcTypes
<1>5. ASSUME NEW p \in Proc, HandleClosed(p) PROVE ProcTypes'
  <2>1. refcount[p] >= 1 /\ Released(p, 1, events)
    BY <1>5, RefPositive DEF HandleClosed
  <2>2. refcount' \in [Proc -> Nat]
    BY <1>1, <2>1, ReleasedFacts DEF ProcTypes, LoopTypes
  <2>3. QED
    BY <1>1, <1>5, <2>2 DEF HandleClosed, ProcTypes
<1>6. ASSUME NEW i \in 1 .. Len(events), HandleClose(i) PROVE ProcTypes'
  <2> DEFINE p == events[i].proc
             evs == RemoveAt(events, i)
  <2>1. i \in DOMAIN events /\ p \in Proc /\ evs \in Seq(ProcEvent)
    BY <1>1, <1>6, HandledFacts, RemoveAtFacts DEF HandleClose, LoopTypes
  <2>2. CloseHandles(p, evs)
    BY <1>6 DEF HandleClose
  <2> HIDE DEF p, evs
  <2>3. /\ handle' \in [Proc -> {"none", "open", "closing", "freed"}]
        /\ refcount' \in [Proc -> Nat] /\ stream' = ClosedStreams(p, Streams)
    BY <2>1, <2>2, CloseHandlesFacts
  <2>4. stream' \in [Proc -> [Streams -> {"none", "open", "closing", "freed"}]]
    BY <1>1, <2>1, <2>3, ClosedStreamsFacts DEF ProcTypes
  <2>5. QED
    BY <1>1, <1>6, <2>3, <2>4 DEF HandleClose, ProcTypes
<1>7. ASSUME NEW p \in Proc, NEW s \in Streams, CloseStream(p, s) PROVE ProcTypes'
  <2>1. stream' = ClosedStreams(p, {s})
    BY <1>7 DEF CloseStream
  <2>2. stream' \in [Proc -> [Streams -> {"none", "open", "closing", "freed"}]]
    BY <1>1, <2>1, ClosedStreamsFacts DEF ProcTypes
  <2>3. QED
    BY <1>1, <1>7, <2>2 DEF CloseStream, ProcTypes
<1>8. ASSUME NEW ps \in SUBSET Proc, Stopped(ps), UNCHANGED <<refcount, handle, termSent, noticed>>
      PROVE  ProcTypes'
  BY <1>1, <1>8, StoppedFacts DEF ProcTypes
<1>9. ASSUME NEW p \in Proc, Stop(p) PROVE ProcTypes'
  <2>1. Stopped({p}) /\ UNCHANGED <<refcount, handle, termSent, noticed>>
    BY <1>9 DEF Stop
  <2>2. QED
    BY <1>8, <2>1
<1>10. CASE WaitInterrupted
  <2>1. /\ Stopped({waiting.proc}) /\ waiting.proc # "none"
        /\ UNCHANGED <<refcount, handle, termSent, noticed>>
    BY <1>10 DEF WaitInterrupted, WaitPolls
  <2>2. QED
    BY <1>8, <2>1, WaitFacts
<1>11. CASE Sigchld
  <2>1. noticed' \in [Proc -> BOOLEAN]
    BY <1>1, <1>11, Zenon DEF Sigchld, ProcTypes
  <2>2. QED
    BY <1>1, <1>11, <2>1 DEF Sigchld, ProcTypes
<1>12. CASE KillTick
  <2>1. termSent' \in [Proc -> BOOLEAN]
    BY <1>1, <1>12, Zenon DEF KillTick, ProcTypes
  <2>2. QED
    BY <1>1, <1>12, <2>1 DEF KillTick, ProcTypes
<1>13. ASSUME NEW w \in setup.waits, WaitBegin(w.proc, w.ms) PROVE ProcTypes'
  <2>1. w.proc \in Proc
    BY <1>1, SetupFacts
  <2>2. refcount' \in [Proc -> Nat]
    BY <1>1, <1>13, <2>1 DEF WaitBegin, ProcTypes
  <2>3. QED
    BY <1>1, <1>13, <2>2 DEF WaitBegin, ProcTypes
<1>14. CASE WaitExited
  <2>1. waiting.proc \in Proc /\ refcount[waiting.proc] = 1 /\ Released(waiting.proc, 1, events)
    BY <1>14, WaitFacts DEF WaitExited, WaitPolls
  <2>2. refcount' \in [Proc -> Nat]
    BY <1>1, <2>1, ReleasedFacts DEF ProcTypes, LoopTypes
  <2>3. QED
    BY <1>1, <1>14, <2>2 DEF WaitExited, WaitPolls, ProcTypes
<1>15. CASE WaitGivesUp
  <2>1. waiting.proc \in Proc /\ refcount[waiting.proc] >= 1
    BY <1>15, WaitFacts, RefPositive DEF WaitGivesUp, WaitPolls
  <2>2. refcount' \in [Proc -> Nat]
    BY <1>1, <1>15, <2>1 DEF WaitGivesUp, WaitPolls, ProcTypes
  <2>3. QED
    BY <1>1, <1>15, <2>2 DEF WaitGivesUp, WaitPolls, ProcTypes
<1>16. CASE Teardown
  <2> DEFINE ps == children \ Detached
             new == {p \in ps \ Pty : stoppedTime[p] = 0}
  <2>1. /\ termSent' = [p \in Proc |-> termSent[p] \/ p \in ps \ Pty]
        /\ stoppedTime' = [p \in Proc |-> IF p \in new THEN 1 ELSE stoppedTime[p]]
        /\ stream' = [p \in Proc |-> IF p \in new THEN ClosedStreams(p, {"in"})[p]
                                     ELSE IF p \in ps \cap Pty THEN ClosedStreams(p, Streams)[p]
                                     ELSE stream[p]]
        /\ UNCHANGED <<refcount, handle, noticed>>
    BY <1>16 DEF Teardown
  <2> HIDE DEF ps, new
  <2>2. termSent' \in [Proc -> BOOLEAN]
    BY <1>1, <2>1, Zenon DEF ProcTypes
  <2>3. stoppedTime' \in [Proc -> 0 .. 3]
    BY <1>1, <2>1 DEF ProcTypes
  <2>4. \A p \in Proc : stream'[p] \in [Streams -> {"none", "open", "closing", "freed"}]
    BY <1>1, <2>1, ClosedStreamsFacts DEF ProcTypes, StreamTypes
  <2>5. stream' \in [Proc -> [Streams -> {"none", "open", "closing", "freed"}]]
    BY <2>1, <2>4
  <2>6. QED
    BY <1>1, <2>1, <2>2, <2>3, <2>5 DEF ProcTypes
<1>17. CASE UNCHANGED procVars
  BY <1>1, <1>17, SMTT(30) DEF procVars, ProcTypes
<1>18. QED
  BY <1>2, <1>3, <1>4, <1>5, <1>6, <1>7, <1>9, <1>10, <1>11, <1>12, <1>13, <1>14, <1>15,
     <1>16, <1>17
     DEF Next, Step, processVars, stateVars, ChildExits, HandleExit, Interrupt, WaitReturn,
         TeardownEnd

LEMMA LoopTypesStep ==
  ASSUME Types, Waits, Refs, [Next]_processVars
  PROVE  LoopTypes'
<1>1. ProcTypes /\ LoopTypes /\ WaitTypes
  BY DEF Types
<1>2. IsFiniteSet(Proc)
  BY ProcessAssumption
<1>3. \A ps \in SUBSET Proc : Cardinality(ps) \in Nat
  BY <1>2, FS_Subset, FS_CardinalityType
<1>4. ASSUME NEW p \in Proc, Spawn(p) PROVE LoopTypes'
  BY <1>1, <1>4 DEF Spawn, LoopTypes
<1>5. ASSUME NEW p \in Proc, Released(p, 1, events), refcount[p] >= 1,
             UNCHANGED <<stopRequests, killTimer, exitCbs>>
      PROVE  LoopTypes'
  <2>1. children' \subseteq Proc /\ events' \in Seq(ProcEvent)
    BY <1>1, <1>5, ReleasedFacts DEF ProcTypes, LoopTypes
  <2>2. QED
    BY <1>1, <1>5, <2>1 DEF LoopTypes
<1>6. ASSUME NEW p \in Proc, NEW s \in Streams, StreamClosed(p, s) PROVE LoopTypes'
  BY <1>5, <1>6, RefPositive DEF StreamClosed
<1>7. ASSUME NEW p \in Proc, HandleClosed(p) PROVE LoopTypes'
  BY <1>5, <1>7, RefPositive DEF HandleClosed
<1>8. ASSUME NEW i \in 1 .. Len(events), HandleClose(i) PROVE LoopTypes'
  <2> DEFINE p == events[i].proc
             evs == RemoveAt(events, i)
  <2>1. i \in DOMAIN events /\ p \in Proc /\ evs \in Seq(ProcEvent)
    BY <1>1, <1>8, HandledFacts, RemoveAtFacts DEF HandleClose, LoopTypes
  <2>2. CloseHandles(p, evs)
    BY <1>8 DEF HandleClose
  <2> HIDE DEF p, evs
  <2>3. children' \subseteq Proc /\ events' \in Seq(ProcEvent)
    BY <2>1, <2>2, CloseHandlesFacts
  <2>4. QED
    BY <1>1, <1>8, <2>3 DEF HandleClose, LoopTypes
<1>9. ASSUME NEW i \in 1 .. Len(events), HandleExit(i) PROVE LoopTypes'
  <2>1. events' \in Seq(ProcEvent) /\ events[i].proc \in Proc
    BY <1>1, <1>9, HandledFacts, RemoveAtFacts DEF HandleExit, LoopTypes
  <2>2. exitCbs' \in [Proc -> Nat]
    BY <1>1, <1>9, <2>1 DEF HandleExit, LoopTypes
  <2>3. QED
    BY <1>1, <1>9, <2>1, <2>2 DEF HandleExit, LoopTypes
<1>10. ASSUME NEW ps \in SUBSET Proc, Stopped(ps), UNCHANGED <<children, events, exitCbs>>
       PROVE  LoopTypes'
  <2> DEFINE new == {p \in ps : stoppedTime[p] = 0}
  <2>1. Cardinality(new) \in Nat
    BY <1>3
  <2>2. stopRequests' \in Nat
    BY <1>1, <1>10, <2>1 DEF Stopped, LoopTypes
  <2>3. killTimer' \in BOOLEAN
    BY <1>1, <1>10, Zenon DEF Stopped, LoopTypes
  <2>4. QED
    BY <1>1, <1>10, <2>2, <2>3 DEF LoopTypes
<1>11. ASSUME NEW p \in Proc, Stop(p) PROVE LoopTypes'
  <2>1. Stopped({p}) /\ UNCHANGED <<children, events, exitCbs>>
    BY <1>11 DEF Stop
  <2>2. QED
    BY <1>10, <2>1
<1>12. CASE WaitInterrupted
  <2>1. Stopped({waiting.proc}) /\ waiting.proc # "none" /\ UNCHANGED <<children, events, exitCbs>>
    BY <1>12 DEF WaitInterrupted, WaitPolls
  <2>2. QED
    BY <1>10, <2>1, WaitFacts
<1>13. CASE Sigchld
  <2>1. PICK found \in SUBSET Proc : Answered({p \in found : stoppedTime[p] > 0})
                                    /\ events' = events \o CloseEvents(found)
    BY <1>13, SigchldFacts
  <2> DEFINE answered == {p \in found : stoppedTime[p] > 0}
  <2>2. events' \in Seq(ProcEvent)
    BY <1>1, <1>2, <2>1, CloseEventsFacts DEF LoopTypes
  <2>3. stopRequests' \in Nat /\ killTimer' \in BOOLEAN
    <3>1. Cardinality(answered) \in Nat
      BY <1>3
    <3>2. Answered(answered)
      BY <2>1
    <3> HIDE DEF answered
    <3>3. stopRequests' \in Nat
      BY <1>1, <3>1, <3>2 DEF Answered, LoopTypes
    <3>4. killTimer' \in BOOLEAN
      BY <1>1, <3>2, Zenon DEF Answered, LoopTypes
    <3>5. QED
      BY <3>3, <3>4
  <2>4. QED
    BY <1>1, <1>13, <2>2, <2>3 DEF Sigchld, LoopTypes
<1>14. CASE WaitExited
  <2>1. /\ waiting.proc \in Proc /\ refcount[waiting.proc] >= 1 /\ Released(waiting.proc, 1, events)
        /\ UNCHANGED <<stopRequests, killTimer, exitCbs>>
    BY <1>14, WaitFacts DEF WaitExited, WaitPolls
  <2>2. QED
    BY <1>5, <2>1
<1>15. CASE Teardown
  <2> DEFINE new == {p \in (children \ Detached) \ Pty : stoppedTime[p] = 0}
  <2>1. /\ events' = events \o CloseEvents(children \cap Detached)
        /\ stopRequests' = stopRequests + Cardinality(new)
        /\ killTimer' = (killTimer \/ new # {})
        /\ UNCHANGED <<children, exitCbs>>
    BY <1>15, Zenon DEF Teardown, CloseEvents
  <2>2. new \in SUBSET Proc /\ children \cap Detached \in SUBSET Proc
    BY <1>1 DEF LoopTypes
  <2>3. events' \in Seq(ProcEvent)
    BY <1>1, <1>2, <2>1, <2>2, CloseEventsFacts DEF LoopTypes
  <2>4. Cardinality(new) \in Nat
    BY <1>3, <2>2
  <2> HIDE DEF new
  <2>5. stopRequests' \in Nat
    BY <1>1, <2>1, <2>4 DEF LoopTypes
  <2>6. killTimer' \in BOOLEAN
    BY <1>1, <2>1, Zenon DEF LoopTypes
  <2>7. QED
    BY <1>1, <2>1, <2>3, <2>5, <2>6 DEF LoopTypes
<1>16. CASE UNCHANGED loopVars
  BY <1>1, <1>16 DEF loopVars, LoopTypes
<1>17. QED
  BY <1>4, <1>6, <1>7, <1>8, <1>9, <1>11, <1>12, <1>13, <1>14, <1>15, <1>16
     DEF Next, Step, processVars, stateVars, ChildExits, TimePasses, CloseStream, KillTick,
         WaitBegin, Interrupt, WaitGivesUp, WaitReturn, TeardownEnd

LEMMA WaitsStep ==
  ASSUME Types, Waits, [Next]_processVars
  PROVE  WaitTypes' /\ Waits'
<1>1. WaitTypes
  BY DEF Types
<1>2. NotWaiting.proc = "none"
      /\ NotWaiting \in [proc : Proc \union {"none"}, ms : {"none", "forever", "timed"},
                         interrupted : BOOLEAN, result : {"none", "-2", Status}]
  BY DEF NotWaiting
<1>3. ASSUME NEW w \in setup.waits, WaitBegin(w.proc, w.ms) PROVE WaitTypes' /\ Waits'
  <2>1. w.proc \in Proc /\ w.ms \in {"forever", "timed"} /\ "none" \notin Proc
    BY <1>1, SetupFacts
  <2>2. /\ \/ waiting' = [NotWaiting EXCEPT !.proc = w.proc, !.ms = w.ms]
           \/ waiting' = [NotWaiting EXCEPT !.proc = w.proc, !.ms = w.ms, !.result = Status]
        /\ UNCHANGED <<gotInt, exiting, setup>>
    BY <1>3 DEF WaitBegin, Next, processVars
  <2>3. waiting'.proc = w.proc
        /\ waiting' \in [proc : Proc \union {"none"}, ms : {"none", "forever", "timed"},
                         interrupted : BOOLEAN, result : {"none", "-2", Status}]
    BY <2>1, <2>2 DEF NotWaiting
  <2>4. QED
    BY <1>1, <2>1, <2>2, <2>3 DEF WaitTypes, Waits
<1>4. CASE Interrupt
  BY <1>1, <1>4 DEF Interrupt, WaitPolls, WaitTypes, Waits, Next, processVars
<1>5. CASE WaitInterrupted
  <2>1. /\ waiting' = [waiting EXCEPT !.interrupted = TRUE] /\ waiting.proc # "none"
        /\ gotInt' = FALSE /\ UNCHANGED <<exiting, setup>>
    BY <1>5 DEF WaitInterrupted, WaitPolls, Next, processVars
  <2>2. waiting'.proc = waiting.proc
        /\ waiting' \in [proc : Proc \union {"none"}, ms : {"none", "forever", "timed"},
                         interrupted : BOOLEAN, result : {"none", "-2", Status}]
    BY <1>1, <2>1 DEF WaitTypes
  <2>3. QED
    BY <1>1, <2>1, <2>2, WaitFacts DEF WaitTypes, Waits
<1>6. CASE WaitExited
  <2>1. /\ waiting' = [waiting EXCEPT !.result = IF waiting.interrupted THEN "-2" ELSE Status]
        /\ waiting.proc # "none" /\ UNCHANGED <<gotInt, exiting, setup>>
    BY <1>6 DEF WaitExited, WaitPolls, Next, processVars
  <2>2. waiting'.proc = waiting.proc
        /\ waiting' \in [proc : Proc \union {"none"}, ms : {"none", "forever", "timed"},
                         interrupted : BOOLEAN, result : {"none", "-2", Status}]
    BY <1>1, <2>1 DEF WaitTypes
  <2>3. QED
    BY <1>1, <2>1, <2>2, WaitFacts DEF WaitTypes, Waits
<1>7. CASE WaitGivesUp \/ WaitReturn
  BY <1>1, <1>2, <1>7 DEF WaitGivesUp, WaitPolls, WaitReturn, WaitTypes, Waits, Next, processVars
<1>8. CASE Teardown \/ TeardownEnd
  BY <1>1, <1>2, <1>8 DEF Teardown, TeardownEnd, waitVars, WaitTypes, Waits, Next, processVars
<1>9. CASE UNCHANGED <<waitVars, exiting, setup>>
  BY <1>1, <1>9 DEF waitVars, WaitTypes, Waits
<1>10. QED
  BY <1>3, <1>4, <1>5, <1>6, <1>7, <1>8, <1>9
     DEF Next, Step, processVars, stateVars, Spawn, ChildExits, TimePasses, HandleClosed, Stop,
         StreamClosed, CloseStream, HandleClose, HandleExit, Sigchld, KillTick

(***************************************************************************)
(* References, step by step                                                *)
(***************************************************************************)

LEMMA HeldType ==
  ASSUME NEW p
  PROVE  Held(p) \in 0 .. 4 /\ HandleRef(handle[p]) \in 0 .. 1 /\ WaitRef(p) \in 0 .. 1
<1>1. Live(stream[p]) \in 0 .. 2
  BY LiveFacts
<1>2. QED
  BY <1>1 DEF Held, HandleRef, WaitRef

\* A step that changes no reference of any process.
LEMMA RefsSame ==
  ASSUME Refs, UNCHANGED <<refcount, children, handle, waiting>>,
         \A p \in Proc : SameLive(stream'[p], stream[p])
  PROVE  Refs'
<1>1. ASSUME NEW p \in Proc PROVE Held(p)' = Held(p)
  <2>1. Live(stream'[p]) = Live(stream[p])
    BY SameLiveFacts
  <2>2. QED
    BY <2>1 DEF Held, WaitRef, WaitHolds, WaitingFor
<1>2. QED
  BY <1>1 DEF Refs

\* A step that gives up one reference of p.
LEMMA RefsReleased ==
  ASSUME Types, Refs, NEW p \in Proc, NEW evs \in Seq(ProcEvent), Released(p, 1, evs),
         refcount[p] >= 1, Held(p)' = Held(p) - 1,
         \A q \in Proc : q # p => Held(q)' = Held(q)
  PROVE  Refs'
<1>1. /\ refcount' \in [Proc -> Nat] /\ refcount'[p] = refcount[p] - 1
      /\ \A q \in Proc : q # p => refcount'[q] = refcount[q]
      /\ children' = IF refcount[p] = 1 THEN children \ {p} ELSE children
  BY ReleasedFacts DEF Types, ProcTypes, LoopTypes
<1>2. refcount \in [Proc -> Nat]
  BY DEF Types, ProcTypes
<1>3. ASSUME NEW q \in Proc PROVE refcount'[q] = Held(q)'
  BY <1>1, <1>3 DEF Refs
<1>4. ASSUME NEW q \in Proc PROVE q \in children' <=> refcount'[q] > 0
  <2>1. q \in children <=> refcount[q] > 0
    BY DEF Refs
  <2>2. CASE q = p
    BY <1>1, <1>2, <2>1, <2>2
  <2>3. CASE q # p
    BY <1>1, <2>1, <2>3
  <2>4. QED
    BY <2>2, <2>3
<1>5. QED
  BY <1>3, <1>4 DEF Refs

LEMMA RefsStep ==
  ASSUME Types, Waits, Refs, Born, [Next]_processVars
  PROVE  Refs'
<1>1. ProcTypes /\ LoopTypes /\ WaitTypes
  BY DEF Types
<1>2. ASSUME NEW p \in Proc, Spawn(p) PROVE Refs'
  <2>1. /\ stream' = [stream EXCEPT ![p] = [s \in Streams |-> "open"]]
        /\ handle' = [handle EXCEPT ![p] = "open"]
        /\ refcount' = [refcount EXCEPT ![p] = 3]
        /\ children' = children \union {p}
        /\ waiting = NotWaiting /\ waiting' = waiting
    BY <1>2, StreamsCount DEF Spawn, waitVars
  <2>2. waiting.proc = "none" /\ waiting'.proc = "none" /\ "none" \notin Proc
    BY <1>1, <2>1, SetupFacts DEF NotWaiting
  <2>3. \A q \in Proc : WaitRef(q) = 0 /\ WaitRef(q)' = 0
    BY <2>2 DEF WaitRef, WaitHolds, WaitingFor
  <2>4. Held(p)' = 3
    <3>1. \A s \in Streams : stream'[p][s] = "open"
      BY <1>1, <2>1 DEF ProcTypes
    <3>2. Live(stream'[p]) = 2
      BY <3>1, LiveFacts
    <3>3. handle'[p] = "open"
      BY <1>1, <2>1 DEF ProcTypes
    <3>4. QED
      BY <2>3, <3>2, <3>3 DEF Held, HandleRef
  <2>5. ASSUME NEW q \in Proc, q # p PROVE Held(q)' = Held(q)
    BY <1>1, <2>1, <2>3, <2>5 DEF Held, ProcTypes
  <2>6. refcount'[p] = 3 /\ \A q \in Proc : q # p => refcount'[q] = refcount[q]
    BY <1>1, <2>1 DEF ProcTypes
  <2>7. QED
    BY <2>1, <2>4, <2>5, <2>6 DEF Refs
<1>3. ASSUME NEW p \in Proc, NEW s \in Streams, StreamClosed(p, s) PROVE Refs'
  <2>1. /\ stream[p][s] = "closing" /\ stream' = [stream EXCEPT ![p][s] = "freed"]
        /\ Released(p, 1, events) /\ UNCHANGED <<handle, waiting>>
    BY <1>3 DEF StreamClosed, waitVars
  <2>2. refcount[p] >= 1
    BY <2>1, RefPositive
  <2>3. stream'[p][s] = "freed" /\ \A r \in Streams : r # s => stream'[p][r] = stream[p][r]
    BY <1>1, <2>1 DEF ProcTypes
  <2>4. Live(stream'[p]) = Live(stream[p]) - 1
    BY <2>1, <2>3, FreedFacts
  <2>5. \A q \in Proc : WaitRef(q)' = WaitRef(q)
    BY <2>1 DEF WaitRef, WaitHolds, WaitingFor
  <2>6. Held(p)' = Held(p) - 1
    <3>1. Live(stream[p]) \in 0 .. 2 /\ HandleRef(handle[p]) \in 0 .. 1 /\ WaitRef(p) \in 0 .. 1
      BY LiveFacts, HeldType
    <3>2. QED
      BY <2>1, <2>4, <2>5, <3>1 DEF Held
  <2>7. ASSUME NEW q \in Proc, q # p PROVE Held(q)' = Held(q)
    <3>1. stream'[q] = stream[q]
      BY <1>1, <2>1, <2>7 DEF ProcTypes
    <3>2. QED
      BY <2>1, <2>5, <3>1 DEF Held
  <2>8. events \in Seq(ProcEvent)
    BY <1>1 DEF LoopTypes
  <2>9. QED
    BY <2>1, <2>2, <2>6, <2>7, <2>8, RefsReleased
<1>4. ASSUME NEW p \in Proc, NEW evs \in Seq(ProcEvent), Released(p, 1, evs),
             handle[p] \in {"open", "closing"}, handle'[p] = "freed",
             \A q \in Proc : q # p => handle'[q] = handle[q],
             \A q \in Proc : SameLive(stream'[q], stream[q]), waiting' = waiting
      PROVE  Refs'
  <2>1. refcount[p] >= 1
    BY <1>4, RefPositive
  <2>2. \A q \in Proc : Live(stream'[q]) = Live(stream[q]) /\ WaitRef(q)' = WaitRef(q)
    BY <1>4, SameLiveFacts DEF WaitRef, WaitHolds, WaitingFor
  <2>3. HandleRef(handle[p]) = 1 /\ HandleRef(handle'[p]) = 0
    BY <1>4 DEF HandleRef
  <2>4. Held(p)' = Held(p) - 1
    <3>1. Live(stream[p]) \in 0 .. 2 /\ WaitRef(p) \in 0 .. 1
      BY LiveFacts, HeldType
    <3>2. QED
      BY <2>2, <2>3, <3>1 DEF Held
  <2>5. \A q \in Proc : q # p => Held(q)' = Held(q)
    BY <1>4, <2>2 DEF Held
  <2>6. QED
    BY <1>4, <2>1, <2>4, <2>5, RefsReleased
<1>5. ASSUME NEW p \in Proc, HandleClosed(p) PROVE Refs'
  <2>1. /\ handle[p] = "closing" /\ handle' = [handle EXCEPT ![p] = "freed"]
        /\ Released(p, 1, events) /\ UNCHANGED <<stream, waiting>>
    BY <1>5 DEF HandleClosed, waitVars
  <2>2. handle'[p] = "freed" /\ \A q \in Proc : q # p => handle'[q] = handle[q]
    BY <1>1, <2>1 DEF ProcTypes
  <2>3. \A q \in Proc : SameLive(stream'[q], stream[q])
    BY <2>1 DEF SameLive
  <2>4. events \in Seq(ProcEvent)
    BY <1>1 DEF LoopTypes
  <2>5. QED
    BY <1>4, <2>1, <2>2, <2>3, <2>4
<1>6. ASSUME NEW i \in 1 .. Len(events), HandleClose(i) PROVE Refs'
  <2> DEFINE p == events[i].proc
             evs == RemoveAt(events, i)
  <2>1. i \in DOMAIN events /\ p \in Proc /\ evs \in Seq(ProcEvent)
    BY <1>1, <1>6, HandledFacts, RemoveAtFacts DEF HandleClose, LoopTypes
  <2>2. CloseHandles(p, evs) /\ waiting' = waiting
    BY <1>6 DEF HandleClose, waitVars
  <2> HIDE DEF p, evs
  <2>3. /\ stream' = ClosedStreams(p, Streams)
        /\ \A q \in Proc : q # p => handle'[q] = handle[q]
        /\ \/ UNCHANGED <<handle, refcount, children>>
           \/ UNCHANGED <<refcount, children>> /\ handle[p] = "open" /\ handle'[p] = "closing"
           \/ handle[p] = "open" /\ handle'[p] = "freed" /\ Released(p, 1, evs)
    BY <2>1, <2>2, CloseHandlesFacts
  <2>4. \A q \in Proc : SameLive(stream'[q], stream[q])
    <3>1. SameLive(stream'[p], stream[p]) /\ \A q \in Proc : q # p => stream'[q] = stream[q]
      BY <1>1, <2>1, <2>3, ClosedStreamsFacts DEF ProcTypes
    <3>2. QED
      BY <3>1 DEF SameLive
  <2>5. CASE UNCHANGED <<handle, refcount, children>>
    BY <2>2, <2>4, <2>5, RefsSame
  <2>6. CASE UNCHANGED <<refcount, children>> /\ handle[p] = "open" /\ handle'[p] = "closing"
    <3>1. ASSUME NEW q \in Proc PROVE Held(q)' = Held(q)
      <4>1. Live(stream'[q]) = Live(stream[q])
        BY <2>4, SameLiveFacts
      <4>2. HandleRef(handle'[q]) = HandleRef(handle[q])
        BY <2>3, <2>6 DEF HandleRef
      <4>3. WaitRef(q)' = WaitRef(q)
        BY <2>2 DEF WaitRef, WaitHolds, WaitingFor
      <4>4. QED
        BY <4>1, <4>2, <4>3 DEF Held
    <3>2. QED
      BY <2>6, <3>1 DEF Refs
  <2>7. CASE handle[p] = "open" /\ handle'[p] = "freed" /\ Released(p, 1, evs)
    BY <1>4, <2>1, <2>2, <2>3, <2>4, <2>7
  <2>8. QED
    BY <2>3, <2>5, <2>6, <2>7
<1>7. ASSUME NEW p \in Proc, NEW s \in Streams, CloseStream(p, s) PROVE Refs'
  <2>1. stream' = ClosedStreams(p, {s}) /\ UNCHANGED <<refcount, children, handle, waiting>>
    BY <1>7 DEF CloseStream, loopVars, waitVars
  <2>2. \A q \in Proc : SameLive(stream'[q], stream[q])
    <3>1. SameLive(stream'[p], stream[p]) /\ \A q \in Proc : q # p => stream'[q] = stream[q]
      BY <1>1, <2>1, ClosedStreamsFacts DEF ProcTypes
    <3>2. QED
      BY <3>1 DEF SameLive
  <2>3. QED
    BY <2>1, <2>2, RefsSame
<1>8. ASSUME NEW p \in Proc, Stop(p) PROVE Refs'
  <2>1. Stopped({p}) /\ UNCHANGED <<refcount, children, handle, waiting>>
    BY <1>8 DEF Stop, waitVars
  <2>2. \A q \in Proc : SameLive(stream'[q], stream[q])
    BY <1>1, <2>1, StoppedFacts
  <2>3. QED
    BY <2>1, <2>2, RefsSame
<1>9. CASE WaitInterrupted
  <2>1. /\ Stopped({waiting.proc}) /\ UNCHANGED <<refcount, children, handle>>
        /\ waiting' = [waiting EXCEPT !.interrupted = TRUE] /\ waiting.proc # "none"
    BY <1>9 DEF WaitInterrupted, WaitPolls
  <2>2. waiting'.proc = waiting.proc /\ waiting'.result = waiting.result /\ waiting.proc \in Proc
    BY <1>1, <2>1, WaitFacts DEF WaitTypes
  <2>3. ASSUME NEW q \in Proc PROVE Held(q)' = Held(q)
    <3>1. SameLive(stream'[q], stream[q])
      BY <1>1, <2>1, <2>2, StoppedFacts
    <3>2. Live(stream'[q]) = Live(stream[q])
      BY <3>1, SameLiveFacts
    <3>3. WaitRef(q)' = WaitRef(q)
      BY <2>2 DEF WaitRef, WaitHolds, WaitingFor
    <3>4. QED
      BY <2>1, <3>2, <3>3 DEF Held
  <2>4. QED
    BY <2>1, <2>3 DEF Refs
<1>10. ASSUME NEW w \in setup.waits, WaitBegin(w.proc, w.ms) PROVE Refs'
  <2> DEFINE p == w.proc
  <2>1. p \in Proc /\ "none" \notin Proc
    BY <1>1, SetupFacts
  <2>0. CASE refcount[p] = 0
    <3>1. /\ waiting = NotWaiting /\ UNCHANGED <<refcount, stream, handle, children>>
          /\ waiting' = [NotWaiting EXCEPT !.proc = p, !.ms = w.ms, !.result = Status]
      BY <1>10, <2>0 DEF WaitBegin, loopVars
    <3>2. waiting.proc = "none" /\ waiting'.result # "none"
      BY <3>1 DEF NotWaiting, Status
    <3>3. \A q \in Proc : WaitRef(q)' = WaitRef(q)
      BY <2>1, <3>2 DEF WaitRef, WaitHolds, WaitingFor
    <3>4. QED
      BY <3>1, <3>3 DEF Refs, Held
  <2>9. SUFFICES ASSUME refcount[p] # 0 PROVE Refs'
    BY <2>0
  <2>2. /\ waiting = NotWaiting /\ waiting' = [NotWaiting EXCEPT !.proc = p, !.ms = w.ms]
        /\ refcount' = [refcount EXCEPT ![p] = @ + 1] /\ refcount[p] > 0
        /\ UNCHANGED <<stream, handle, children>>
    BY <1>10, <2>9 DEF WaitBegin, loopVars
  <2>3. waiting.proc = "none" /\ waiting'.proc = p /\ waiting'.result = "none"
    BY <2>2 DEF NotWaiting
  <2> HIDE DEF p
  <2>4. WaitRef(p) = 0 /\ WaitRef(p)' = 1 /\ \A q \in Proc : q # p => WaitRef(q)' = WaitRef(q)
    BY <2>1, <2>3 DEF WaitRef, WaitHolds, WaitingFor
  <2>5. Held(p)' = Held(p) + 1 /\ \A q \in Proc : q # p => Held(q)' = Held(q)
    <3>1. Live(stream[p]) \in 0 .. 2 /\ HandleRef(handle[p]) \in 0 .. 1
      BY LiveFacts, HeldType
    <3>2. QED
      BY <2>2, <2>4, <3>1 DEF Held
  <2>6. refcount'[p] = refcount[p] + 1 /\ \A q \in Proc : q # p => refcount'[q] = refcount[q]
    BY <1>1, <2>1, <2>2 DEF ProcTypes
  <2>7. refcount[p] \in Nat
    BY <1>1, <2>1 DEF ProcTypes
  <2>8. QED
    BY <2>1, <2>2, <2>5, <2>6, <2>7 DEF Refs
<1>11. CASE WaitExited
  <2>0. PICK p \in Proc : p = waiting.proc
    BY <1>1, <1>11, WaitFacts DEF WaitExited, WaitPolls
  <2>1. /\ p \in Proc /\ refcount[p] = 1 /\ Released(p, 1, events) /\ WaitHolds(p)
        /\ waiting' = [waiting EXCEPT !.result = IF waiting.interrupted THEN "-2" ELSE Status]
        /\ UNCHANGED <<stream, handle>>
    BY <1>1, <1>11, <2>0 DEF WaitExited, WaitPolls, WaitHolds, WaitingFor
  <2>2. waiting'.proc = p /\ waiting'.result # "none"
    BY <1>1, <2>0, <2>1 DEF WaitTypes, Status
  <2>3. WaitRef(p) = 1 /\ WaitRef(p)' = 0 /\ \A q \in Proc : q # p => WaitRef(q)' = WaitRef(q)
    BY <2>1, <2>2 DEF WaitRef, WaitHolds, WaitingFor
  <2>4. Held(p)' = Held(p) - 1 /\ \A q \in Proc : q # p => Held(q)' = Held(q)
    <3>1. Live(stream[p]) \in 0 .. 2 /\ HandleRef(handle[p]) \in 0 .. 1
      BY LiveFacts, HeldType
    <3>2. QED
      BY <2>1, <2>3, <3>1 DEF Held
  <2>5. events \in Seq(ProcEvent)
    BY <1>1 DEF LoopTypes
  <2>6. QED
    BY <2>1, <2>4, <2>5, RefsReleased
<1>12. CASE WaitGivesUp
  <2>0. PICK p \in Proc : p = waiting.proc
    BY <1>1, <1>12, WaitFacts DEF WaitGivesUp, WaitPolls
  <2>1. /\ p \in Proc /\ WaitHolds(p) /\ refcount[p] # 1
        /\ refcount' = [refcount EXCEPT ![p] = @ - 1]
        /\ waiting' = NotWaiting /\ UNCHANGED <<stream, handle, children>>
    BY <1>12, <2>0 DEF WaitGivesUp, WaitPolls, loopVars, WaitHolds, WaitingFor
  <2>2. waiting'.proc = "none" /\ "none" \notin Proc
    BY <1>1, <2>1, SetupFacts DEF NotWaiting
  <2>3. WaitRef(p) = 1 /\ WaitRef(p)' = 0 /\ \A q \in Proc : q # p => WaitRef(q)' = WaitRef(q)
    BY <2>1, <2>2 DEF WaitRef, WaitHolds, WaitingFor
  <2>4. Held(p)' = Held(p) - 1 /\ \A q \in Proc : q # p => Held(q)' = Held(q)
    <3>1. Live(stream[p]) \in 0 .. 2 /\ HandleRef(handle[p]) \in 0 .. 1
      BY LiveFacts, HeldType
    <3>2. QED
      BY <2>1, <2>3, <3>1 DEF Held
  <2>5. refcount[p] >= 1
    BY <2>1, RefPositive
  <2>6. refcount'[p] = refcount[p] - 1 /\ \A q \in Proc : q # p => refcount'[q] = refcount[q]
    BY <1>1, <2>1 DEF ProcTypes
  <2>7. refcount[p] \in Nat
    BY <1>1, <2>1 DEF ProcTypes
  <2>8. QED
    BY <2>1, <2>4, <2>5, <2>6, <2>7 DEF Refs
<1>13. CASE WaitReturn
  <2>1. waiting' = NotWaiting /\ waiting.result # "none"
        /\ UNCHANGED <<refcount, stream, handle, children>>
    BY <1>13 DEF WaitReturn, procVars, loopVars
  <2>2. \A q \in Proc : WaitRef(q) = 0 /\ WaitRef(q)' = 0
    BY <1>1, <2>1, SetupFacts DEF WaitRef, WaitHolds, WaitingFor, NotWaiting
  <2>3. \A q \in Proc : Held(q)' = Held(q)
    BY <2>1, <2>2 DEF Held
  <2>4. QED
    BY <2>1, <2>3 DEF Refs
<1>14. CASE Teardown
  <2> DEFINE ps == children \ Detached
             new == {p \in ps \ Pty : stoppedTime[p] = 0}
  <2>1. /\ stream' = [p \in Proc |-> IF p \in new THEN ClosedStreams(p, {"in"})[p]
                                     ELSE IF p \in ps \cap Pty THEN ClosedStreams(p, Streams)[p]
                                     ELSE stream[p]]
        /\ UNCHANGED <<refcount, children, handle, waiting>>
    BY <1>14 DEF Teardown, waitVars
  <2> HIDE DEF ps, new
  <2>2. ASSUME NEW p \in Proc PROVE SameLive(stream'[p], stream[p])
    <3>1. /\ SameLive(ClosedStreams(p, {"in"})[p], stream[p])
          /\ SameLive(ClosedStreams(p, Streams)[p], stream[p])
          /\ SameLive(stream[p], stream[p])
      BY <1>1, ClosedStreamsFacts DEF ProcTypes, SameLive
    <3>2. QED
      BY <2>1, <3>1
  <2>3. QED
    BY <2>1, <2>2, RefsSame
<1>15. CASE UNCHANGED <<refcount, children, handle, stream, waiting>>
  <2>1. \A p \in Proc : SameLive(stream'[p], stream[p])
    BY <1>15 DEF SameLive
  <2>2. QED
    BY <1>15, <2>1, RefsSame
<1>16. QED
  BY <1>2, <1>3, <1>5, <1>6, <1>7, <1>8, <1>9, <1>10, <1>11, <1>12, <1>13, <1>14, <1>15
     DEF Next, Step, processVars, stateVars, procVars, loopVars, waitVars, ChildExits,
         TimePasses, HandleExit, Sigchld, KillTick, Interrupt, TeardownEnd

(***************************************************************************)
(* The queue of events, step by step                                       *)
(***************************************************************************)

\* What is left of the events, in their order.
Kept(evs) ==
  /\ evs \in Seq(ProcEvent)
  /\ \A a, b \in DOMAIN evs : \E c, d \in DOMAIN events :
       /\ evs[a] = events[c] /\ evs[b] = events[d]
       /\ a < b => c < d
       /\ a # b => c # d

\* One event is taken out, and no other.
LEMMA TakenFacts ==
  ASSUME events \in Seq(ProcEvent), NEW i \in DOMAIN events
  PROVE  /\ Kept(RemoveAt(events, i))
         /\ \A a \in DOMAIN RemoveAt(events, i) : \E c \in DOMAIN events :
              c # i /\ RemoveAt(events, i)[a] = events[c]
<1> DEFINE evs == RemoveAt(events, i)
           from(k) == IF k < i THEN k ELSE k + 1
<1>1. /\ evs \in Seq(ProcEvent) /\ DOMAIN evs = 1 .. Len(events) - 1
      /\ \A k \in 1 .. Len(events) - 1 : evs[k] = IF k < i THEN events[k] ELSE events[k + 1]
  BY RemoveAtFacts
<1>2. DOMAIN events = 1 .. Len(events) /\ Len(events) \in Nat
  OBVIOUS
<1> HIDE DEF evs
<1>3. \A k \in DOMAIN evs : from(k) \in DOMAIN events /\ from(k) # i /\ evs[k] = events[from(k)]
  BY <1>1, <1>2
<1>4. \A k, l \in DOMAIN evs : (k < l => from(k) < from(l)) /\ (k # l => from(k) # from(l))
  BY <1>1, <1>2
<1> HIDE DEF from
<1>5. Kept(evs)
  BY <1>1, <1>3, <1>4 DEF Kept
<1>6. \A a \in DOMAIN evs : \E c \in DOMAIN events : c # i /\ evs[a] = events[c]
  BY <1>3
<1>7. QED
  BY <1>5, <1>6 DEF evs

LEMMA ProcOf ==
  ASSUME NEW evs \in Seq(ProcEvent), NEW i \in DOMAIN evs
  PROVE  evs[i] \in ProcEvent /\ evs[i].proc \in Proc
<1>1. evs[i] \in ProcEvent
  OBVIOUS
<1>2. QED
  BY <1>1 DEF ProcEvent

LEMMA KeptAll ==
  ASSUME events \in Seq(ProcEvent)
  PROVE  Kept(events)
  BY DEF Kept

LEMMA KeptOne ==
  ASSUME NEW evs, Kept(evs), NEW a \in DOMAIN evs
  PROVE  \E c \in DOMAIN events : evs[a] = events[c]
  BY DEF Kept

\* A process among the children was spawned.
LEMMA ChildIsBorn ==
  ASSUME Types, Refs, Born, NEW p \in Proc, refcount[p] > 0
  PROVE  child[p] # "none"
<1>1. SUFFICES ASSUME child[p] = "none" PROVE FALSE
  OBVIOUS
<1>2. stream[p] = [s \in Streams |-> "none"] /\ handle[p] = "none" /\ ~WaitingFor(p)
  BY <1>1 DEF Born, BornOf
<1>3. Live(stream[p]) = 0
  BY <1>2, LiveFacts
<1>4. refcount[p] = 0
  BY <1>2, <1>3 DEF Refs, Held, HandleRef, WaitRef, WaitHolds
<1>5. QED
  BY <1>4

\* No event of p after the events of a step, where there was none before.
LEMMA FreshReleased ==
  ASSUME events \in Seq(ProcEvent), NEW evs, Kept(evs), NEW q \in Proc, NEW p \in Proc, q # p,
         Released(q, 1, evs), \A i \in DOMAIN events : events[i].proc # p
  PROVE  \A i \in DOMAIN events' : events'[i].proc # p
<1>1. \A i \in DOMAIN evs : evs[i].proc # p
  BY KeptOne
<1>2. events' = evs \/ events' = Append(evs, Event(q, "exit"))
  BY DEF Released
<1>3. Event(q, "exit") \in ProcEvent /\ Event(q, "exit").proc = q
  BY DEF Event, ProcEvent
<1>4. evs \in Seq(ProcEvent)
  BY DEF Kept
<1>5. CASE events' = Append(evs, Event(q, "exit"))
  <2>1. /\ DOMAIN evs = 1 .. Len(evs) /\ DOMAIN events' = 1 .. Len(evs) + 1 /\ Len(evs) \in Nat
        /\ events'[Len(evs) + 1] = Event(q, "exit")
        /\ \A i \in 1 .. Len(evs) : events'[i] = evs[i]
    BY <1>3, <1>4, <1>5, AppendFacts
  <2>2. QED
    BY <1>1, <1>3, <2>1
<1>6. QED
  BY <1>1, <1>2, <1>5

LEMMA FreshClosed ==
  ASSUME events \in Seq(ProcEvent), NEW ps \in SUBSET Proc, events' = events \o CloseEvents(ps),
         NEW p \in Proc, p \notin ps, \A i \in DOMAIN events : events[i].proc # p
  PROVE  \A i \in DOMAIN events' : events'[i].proc # p
<1>1. IsFiniteSet(Proc)
  BY ProcessAssumption
<1>2. /\ \A i \in DOMAIN events : events'[i] = events[i]
      /\ \A i \in DOMAIN events' \ DOMAIN events : events'[i].proc \in ps
  BY <1>1, CloseEventsFacts
<1>3. QED
  BY <1>2

(***************************************************************************)
(* Processes that were not spawned, step by step                           *)
(***************************************************************************)

\* A step that leaves p, which was not spawned, as it is.
LEMMA BornKept ==
  ASSUME NEW p \in Proc, BornOf(p), child'[p] = child[p], handle'[p] = handle[p],
         child[p] = "none" => /\ stream'[p] = stream[p] /\ noticed'[p] = noticed[p]
                              /\ exitCbs'[p] = exitCbs[p]
                              /\ waiting' \in {waiting, NotWaiting}
                                 \/ waiting'.proc # p
                              /\ \A i \in DOMAIN events' : events'[i].proc # p
  PROVE  BornOf(p)'
<1>1. p # "none"
  BY ProcessAssumption
<1>2. NotWaiting.proc = "none"
  BY DEF NotWaiting
<1>3. QED
  BY <1>1, <1>2 DEF BornOf, WaitingFor

\* A step that leaves p a process that was spawned.
LEMMA BornIsBorn ==
  ASSUME NEW p \in Proc, child'[p] # "none", handle'[p] # "none"
  PROVE  BornOf(p)'
  BY DEF BornOf

\* A step of q, which was spawned, that gives up a reference.
LEMMA BornReleased ==
  ASSUME Types, Born, NEW q \in Proc, child[q] # "none", NEW evs, Kept(evs), Released(q, 1, evs),
         child' = child, noticed' = noticed, exitCbs' = exitCbs,
         waiting' \in {waiting, NotWaiting} \/ waiting'.proc = q,
         \A p \in Proc : p # q => handle'[p] = handle[p] /\ stream'[p] = stream[p],
         handle'[q] # "none"
  PROVE  Born'
<1>1. ASSUME NEW p \in Proc, p # q PROVE BornOf(p)'
  <2>1. BornOf(p) /\ events \in Seq(ProcEvent)
    BY DEF Born, Types, LoopTypes
  <2>2. child[p] = "none" => \A i \in DOMAIN events' : events'[i].proc # p
    BY <1>1, <2>1, FreshReleased DEF BornOf
  <2>3. QED
    BY <1>1, <2>1, <2>2, BornKept
<1>2. BornOf(q)'
  BY BornIsBorn
<1>3. QED
  BY <1>1, <1>2 DEF Born

LEMMA BornStep ==
  ASSUME Types, Waits, Refs, Born, [Next]_processVars
  PROVE  Born'
<1>1. ProcTypes /\ LoopTypes /\ WaitTypes /\ ChildTypes
  BY DEF Types
<1>2. \A p \in Proc : BornOf(p)
  BY DEF Born
<1>3. Kept(events)
  BY <1>1, KeptAll DEF LoopTypes
<1>4. ASSUME NEW p \in Proc, Spawn(p) PROVE Born'
  <2>1. child'[p] # "none" /\ handle'[p] # "none"
    BY <1>1, <1>4 DEF Spawn, ChildTypes, ProcTypes
  <2>2. ASSUME NEW q \in Proc, q # p PROVE BornOf(q)'
    <3>1. /\ child'[q] = child[q] /\ handle'[q] = handle[q] /\ stream'[q] = stream[q]
          /\ UNCHANGED <<noticed, exitCbs, waiting, events>>
      BY <1>1, <1>4, <2>2 DEF Spawn, ChildTypes, ProcTypes, waitVars
    <3>2. QED
      BY <1>2, <3>1, BornKept DEF BornOf
  <2>3. QED
    BY <2>1, <2>2, BornIsBorn DEF Born
<1>5. ASSUME NEW p \in Proc, ChildExits(p) PROVE Born'
  <2>1. /\ child[p] = "running" /\ child'[p] = "zombie"
        /\ \A q \in Proc : q # p => child'[q] = child[q]
        /\ UNCHANGED <<handle, stream, noticed, exitCbs, waiting, events>>
    BY <1>1, <1>5 DEF ChildExits, ChildTypes, procVars, loopVars, waitVars
  <2>2. BornOf(p)'
    BY <1>2, <2>1, BornIsBorn DEF BornOf
  <2>3. \A q \in Proc : q # p => BornOf(q)'
    BY <1>2, <2>1, BornKept DEF BornOf
  <2>4. QED
    BY <2>2, <2>3 DEF Born
<1>6. ASSUME NEW p \in Proc, NEW s \in Streams, StreamClosed(p, s) PROVE Born'
  <2>1. /\ stream[p][s] = "closing" /\ stream' = [stream EXCEPT ![p][s] = "freed"]
        /\ Released(p, 1, events)
        /\ UNCHANGED <<child, noticed, exitCbs, handle, waiting>>
    BY <1>6 DEF StreamClosed, childVars, waitVars
  <2>2. child[p] # "none" /\ handle'[p] # "none"
    BY <1>2, <2>1 DEF BornOf
  <2>3. \A q \in Proc : q # p => stream'[q] = stream[q]
    BY <1>1, <2>1 DEF ProcTypes
  <2>4. QED
    BY <1>3, <2>1, <2>2, <2>3, BornReleased
<1>7. ASSUME NEW p \in Proc, HandleClosed(p) PROVE Born'
  <2>1. /\ handle[p] = "closing" /\ handle' = [handle EXCEPT ![p] = "freed"]
        /\ Released(p, 1, events)
        /\ UNCHANGED <<child, noticed, exitCbs, stream, waiting>>
    BY <1>7 DEF HandleClosed, childVars, waitVars
  <2>2. child[p] # "none" /\ handle'[p] = "freed"
    BY <1>1, <1>2, <2>1 DEF BornOf, ProcTypes
  <2>3. \A q \in Proc : q # p => handle'[q] = handle[q]
    BY <1>1, <2>1 DEF ProcTypes
  <2>4. QED
    BY <1>3, <2>1, <2>2, <2>3, BornReleased
<1>8. ASSUME NEW i \in 1 .. Len(events), HandleClose(i) PROVE Born'
  <2>1. i \in DOMAIN events /\ events[i].proc \in Proc
    BY <1>1, <1>8, HandledFacts DEF HandleClose
  <2>2. PICK p \in Proc : p = events[i].proc
    BY <2>1
  <2>3. PICK evs : evs = RemoveAt(events, i)
    OBVIOUS
  <2>4. Kept(evs) /\ evs \in Seq(ProcEvent)
    <3>1. Kept(evs)
      BY <1>1, <2>1, <2>3, TakenFacts DEF LoopTypes
    <3>2. QED
      BY <3>1 DEF Kept
  <2>5. CloseHandles(p, evs) /\ UNCHANGED <<child, noticed, exitCbs, waiting>>
    BY <1>8, <2>2, <2>3 DEF HandleClose, childVars, waitVars
  <2>6. child[p] # "none"
    BY <1>2, <2>1, <2>2 DEF BornOf
  <2>7. /\ stream' = ClosedStreams(p, Streams)
        /\ \A q \in Proc : q # p => handle'[q] = handle[q]
        /\ \/ UNCHANGED <<handle, refcount, children>> /\ events' = evs
           \/ handle[p] = "open" /\ handle'[p] = "closing" /\ events' = evs
           \/ handle[p] = "open" /\ handle'[p] = "freed" /\ Released(p, 1, evs)
    BY <2>4, <2>5, CloseHandlesFacts
  <2>8. \A q \in Proc : q # p => stream'[q] = stream[q]
    BY <1>1, <2>7, ClosedStreamsFacts DEF ProcTypes
  <2>9. handle'[p] # "none"
    BY <1>2, <2>6, <2>7 DEF BornOf
  <2>10. CASE events' = evs
    <3>1. ASSUME NEW q \in Proc, q # p PROVE BornOf(q)'
      <4>1. child[q] = "none" => \A j \in DOMAIN evs : evs[j].proc # q
        BY <1>2, <2>4, KeptOne DEF BornOf
      <4>2. QED
        BY <1>2, <2>5, <2>7, <2>8, <2>10, <3>1, <4>1, BornKept
    <3>2. BornOf(p)'
      BY <2>5, <2>6, <2>9, BornIsBorn
    <3>3. QED
      BY <3>1, <3>2 DEF Born
  <2>11. CASE Released(p, 1, evs)
    BY <2>4, <2>5, <2>6, <2>7, <2>8, <2>9, <2>11, BornReleased
  <2>12. QED
    BY <2>7, <2>10, <2>11
<1>9. ASSUME NEW i \in 1 .. Len(events), HandleExit(i) PROVE Born'
  <2>1. i \in DOMAIN events /\ events[i].proc \in Proc
    BY <1>1, <1>9, HandledFacts DEF HandleExit
  <2>2. /\ events' = RemoveAt(events, i)
        /\ exitCbs' = [exitCbs EXCEPT ![events[i].proc] = @ + 1]
        /\ UNCHANGED <<child, handle, stream, noticed, waiting>>
    BY <1>9 DEF HandleExit, childVars, procVars, waitVars
  <2>3. Kept(events')
    BY <1>1, <2>1, <2>2, TakenFacts DEF LoopTypes
  <2>4. ASSUME NEW p \in Proc PROVE BornOf(p)'
    <3>1. child[p] = "none" => /\ \A j \in DOMAIN events' : events'[j].proc # p
                               /\ exitCbs'[p] = exitCbs[p]
      BY <1>1, <1>2, <2>1, <2>2, <2>3, KeptOne DEF BornOf, LoopTypes
    <3>2. QED
      BY <1>2, <2>2, <3>1, BornKept
  <2>5. QED
    BY <2>4 DEF Born
<1>10. ASSUME UNCHANGED <<child, handle, noticed, exitCbs, events>>,
              waiting' \in {waiting, NotWaiting}
                \/ \E q \in Proc : child[q] # "none" /\ waiting'.proc = q,
              \A p \in Proc : stream[p] = [s \in Streams |-> "none"] => stream'[p] = stream[p]
       PROVE  Born'
  <2>1. ASSUME NEW p \in Proc PROVE BornOf(p)'
    BY <1>2, <1>10, BornKept DEF BornOf
  <2>2. QED
    BY <2>1 DEF Born
<1>11. ASSUME NEW p \in Proc, NEW s \in Streams, CloseStream(p, s) PROVE Born'
  <2>1. stream' = ClosedStreams(p, {s})
        /\ UNCHANGED <<child, handle, noticed, exitCbs, events, waiting>>
    BY <1>11 DEF CloseStream, childVars, loopVars, waitVars
  <2>2. \A q \in Proc : stream[q] = [r \in Streams |-> "none"] => stream'[q] = stream[q]
    BY <1>1, <2>1, ClosedStreamsFacts DEF ProcTypes
  <2>3. QED
    BY <1>10, <2>1, <2>2
<1>12. ASSUME NEW p \in Proc, Stop(p) PROVE Born'
  <2>1. Stopped({p}) /\ UNCHANGED <<child, handle, noticed, exitCbs, events, waiting>>
    BY <1>12 DEF Stop, childVars, waitVars
  <2>2. \A q \in Proc : stream[q] = [r \in Streams |-> "none"] => stream'[q] = stream[q]
    BY <1>1, <2>1, StoppedFacts
  <2>3. QED
    BY <1>10, <2>1, <2>2
<1>13. CASE WaitInterrupted
  <2>1. /\ Stopped({waiting.proc}) /\ waiting.proc # "none"
        /\ waiting' = [waiting EXCEPT !.interrupted = TRUE]
        /\ UNCHANGED <<child, handle, noticed, exitCbs, events>>
    BY <1>13 DEF WaitInterrupted, WaitPolls, childVars
  <2>2. waiting.proc \in Proc /\ waiting'.proc = waiting.proc
    BY <1>1, <2>1, WaitFacts DEF WaitTypes
  <2>3. child[waiting.proc] # "none"
    BY <1>2, <2>2 DEF BornOf, WaitingFor
  <2>4. \A q \in Proc : stream[q] = [r \in Streams |-> "none"] => stream'[q] = stream[q]
    BY <1>1, <2>1, <2>2, StoppedFacts
  <2>5. QED
    BY <1>10, <2>1, <2>2, <2>3, <2>4
<1>14. ASSUME NEW w \in setup.waits, WaitBegin(w.proc, w.ms) PROVE Born'
  <2>1. w.proc \in Proc
    BY <1>1, SetupFacts
  <2>2. /\ child[w.proc] # "none"
        /\ \/ waiting' = [NotWaiting EXCEPT !.proc = w.proc, !.ms = w.ms]
           \/ waiting' = [NotWaiting EXCEPT !.proc = w.proc, !.ms = w.ms, !.result = Status]
        /\ UNCHANGED <<child, handle, noticed, exitCbs, events, stream>>
    BY <1>14 DEF WaitBegin, childVars, loopVars
  <2>3. waiting'.proc = w.proc
    BY <2>2 DEF NotWaiting
  <2>4. QED
    BY <1>10, <2>1, <2>2, <2>3
<1>15. CASE WaitExited
  <2>1. PICK p \in Proc : p = waiting.proc
    BY <1>15, WaitFacts DEF WaitExited, WaitPolls
  <2>2. /\ Released(p, 1, events)
        /\ waiting' = [waiting EXCEPT !.result = IF waiting.interrupted THEN "-2" ELSE Status]
        /\ UNCHANGED <<child, handle, stream, noticed, exitCbs>>
    BY <1>15, <2>1 DEF WaitExited, WaitPolls, childVars
  <2>3. waiting'.proc = p
    BY <1>1, <2>1, <2>2 DEF WaitTypes
  <2>4. child[p] # "none" /\ handle'[p] # "none"
    BY <1>2, <2>1, <2>2 DEF BornOf, WaitingFor
  <2>5. QED
    BY <1>3, <2>2, <2>3, <2>4, BornReleased
<1>16. CASE WaitGivesUp \/ WaitReturn
  BY <1>10, <1>16 DEF WaitGivesUp, WaitPolls, WaitReturn, childVars, procVars, loopVars
<1>17. CASE Sigchld
  <2>1. PICK found, dead \in SUBSET Proc :
          /\ found \subseteq dead
          /\ \A p \in dead : child[p] = "zombie"
          /\ child' = [p \in Proc |-> IF p \in dead THEN "reaped" ELSE child[p]]
          /\ noticed' = [p \in Proc |-> noticed[p] \/ p \in found]
          /\ events' = events \o CloseEvents(found)
    BY <1>17, SigchldFacts
  <2>2. UNCHANGED <<handle, stream, exitCbs, waiting>>
    BY <1>17 DEF Sigchld, waitVars
  <2>3. ASSUME NEW p \in dead, p \in Proc PROVE BornOf(p)'
    BY <1>2, <2>1, <2>2, <2>3, BornIsBorn DEF BornOf
  <2>4. ASSUME NEW p \in Proc, p \notin dead PROVE BornOf(p)'
    <3>1. child'[p] = child[p] /\ p \notin found
      BY <2>1, <2>4
    <3>2. noticed'[p] = noticed[p]
      <4>1. noticed'[p] = (noticed[p] \/ p \in found) /\ noticed[p] \in BOOLEAN
        BY <1>1, <2>1, Zenon DEF ProcTypes
      <4>2. QED
        BY <3>1, <4>1
    <3>3. child[p] = "none" => \A j \in DOMAIN events' : events'[j].proc # p
      BY <1>1, <1>2, <2>1, <3>1, FreshClosed DEF BornOf, LoopTypes
    <3>4. QED
      BY <1>2, <2>2, <3>1, <3>2, <3>3, BornKept
  <2>5. QED
    BY <2>3, <2>4 DEF Born
<1>18. CASE Teardown
  <2>1. PICK ps, new : ps = children \ Detached /\ new = {p \in ps \ Pty : stoppedTime[p] = 0}
    OBVIOUS
  <2>2. /\ stream' = [p \in Proc |-> IF p \in new THEN ClosedStreams(p, {"in"})[p]
                                     ELSE IF p \in ps \cap Pty THEN ClosedStreams(p, Streams)[p]
                                     ELSE stream[p]]
        /\ events' = events \o CloseEvents(children \cap Detached)
        /\ UNCHANGED <<child, handle, noticed, exitCbs, waiting>>
    BY <1>18, <2>1, Zenon DEF Teardown, CloseEvents, childVars, waitVars
  <2>3. ASSUME NEW p \in Proc PROVE BornOf(p)'
    <3>1. child[p] = "none" => p \notin children
      BY <1>1, ChildIsBorn DEF Refs
    <3>2. child[p] = "none" => \A j \in DOMAIN events' : events'[j].proc # p
      <4>1. children \cap Detached \in SUBSET Proc
        BY <1>1 DEF LoopTypes
      <4>2. QED
        BY <1>1, <1>2, <2>2, <3>1, <4>1, FreshClosed, ZenonT(60) DEF BornOf, LoopTypes
    <3>3. child[p] = "none" => stream'[p] = stream[p]
      BY <2>1, <2>2, <3>1
    <3>4. QED
      BY <1>2, <2>2, <3>2, <3>3, BornKept
  <2>4. QED
    BY <2>3 DEF Born
<1>19. CASE UNCHANGED <<child, handle, noticed, exitCbs, events, stream, waiting>>
  BY <1>10, <1>19
<1>20. QED
  BY <1>4, <1>5, <1>6, <1>7, <1>8, <1>9, <1>11, <1>12, <1>13, <1>14, <1>15, <1>16, <1>17, <1>18,
     <1>19
     DEF Next, Step, processVars, stateVars, childVars, procVars, loopVars, waitVars, TimePasses,
         KillTick, Interrupt, TeardownEnd

(***************************************************************************)
(* Exit events, step by step                                               *)
(***************************************************************************)

\* What ExitEvents says of a sequence of events.
ExitsIn(evs) ==
  \A i \in DOMAIN evs : evs[i].kind = "exit" =>
    /\ refcount[evs[i].proc] = 0
    /\ exitCbs[evs[i].proc] = 0
    /\ \A j \in DOMAIN evs : i < j => evs[j].proc # evs[i].proc

GoneIn(evs) ==
  \A p \in Proc : exitCbs[p] = 1 => \A i \in DOMAIN evs : evs[i].proc # p

LEMMA KeptExits ==
  ASSUME ExitEvents, NEW evs, Kept(evs)
  PROVE  ExitsIn(evs) /\ GoneIn(evs)
<1>1. ASSUME NEW i \in DOMAIN evs, evs[i].kind = "exit"
      PROVE  /\ refcount[evs[i].proc] = 0 /\ exitCbs[evs[i].proc] = 0
             /\ \A j \in DOMAIN evs : i < j => evs[j].proc # evs[i].proc
  <2>1. PICK c \in DOMAIN events : evs[i] = events[c]
    BY KeptOne
  <2>2. refcount[evs[i].proc] = 0 /\ exitCbs[evs[i].proc] = 0
    BY <1>1, <2>1 DEF ExitEvents
  <2>3. ASSUME NEW j \in DOMAIN evs, i < j PROVE evs[j].proc # evs[i].proc
    <3>1. PICK d, e \in DOMAIN events : evs[i] = events[d] /\ evs[j] = events[e] /\ d < e
      BY <2>3 DEF Kept
    <3>2. QED
      BY <1>1, <3>1 DEF ExitEvents
  <2>4. QED
    BY <2>2, <2>3
<1>2. GoneIn(evs)
  BY KeptOne DEF ExitEvents, GoneIn
<1>3. QED
  BY <1>1, <1>2 DEF ExitsIn

\* A step that changes neither references nor callbacks.
LEMMA ExitsKept ==
  ASSUME ExitEvents, Kept(events'), UNCHANGED <<refcount, exitCbs>>
  PROVE  ExitEvents'
<1>1. ExitsIn(events') /\ GoneIn(events')
  BY KeptExits
<1>2. QED
  BY <1>1 DEF ExitsIn, GoneIn, ExitEvents

\* A step that gives up a reference of p, and may take out an event.
LEMMA ExitsReleased ==
  ASSUME Types, ExitEvents, NEW p \in Proc, NEW evs, Kept(evs), refcount[p] >= 1,
         Released(p, 1, evs), exitCbs' = exitCbs
  PROVE  ExitEvents'
<1>1. ProcTypes /\ LoopTypes /\ evs \in Seq(ProcEvent)
  BY DEF Types, Kept
<1>2. /\ refcount' \in [Proc -> Nat] /\ refcount'[p] = refcount[p] - 1
      /\ \A q \in Proc : q # p => refcount'[q] = refcount[q]
      /\ events' = IF refcount[p] = 1 THEN Append(evs, Event(p, "exit")) ELSE evs
      /\ Event(p, "exit") \in ProcEvent
  BY <1>1, ReleasedFacts DEF ProcTypes, LoopTypes
<1>3. ExitsIn(evs) /\ GoneIn(evs)
  BY KeptExits
<1>4. exitCbs[p] = 0 /\ refcount[p] \in Nat
  BY <1>1 DEF ExitEvents, ProcTypes
<1>5. \A i \in DOMAIN evs : evs[i].kind = "exit" => evs[i].proc # p
  BY <1>3, <1>4 DEF ExitsIn
<1>6. \A i \in DOMAIN evs : evs[i].proc \in Proc
  BY <1>1, ProcOf
<1>7. \A q \in Proc : (refcount'[q] > 0 => exitCbs'[q] = 0) /\ exitCbs'[q] <= 1
  BY <1>2, <1>4 DEF ExitEvents
<1>8. CASE events' = evs
  <2>1. \A i \in DOMAIN evs : evs[i].kind = "exit" => refcount'[evs[i].proc] = 0
    BY <1>2, <1>3, <1>5, <1>6 DEF ExitsIn
  <2>2. QED
    BY <1>3, <1>7, <1>8, <2>1 DEF ExitEvents, ExitsIn, GoneIn
<1>9. CASE refcount[p] = 1 /\ events' = Append(evs, Event(p, "exit"))
  <2>1. /\ DOMAIN evs = 1 .. Len(evs) /\ DOMAIN events' = 1 .. Len(evs) + 1 /\ Len(evs) \in Nat
        /\ events'[Len(evs) + 1] = Event(p, "exit")
        /\ \A i \in 1 .. Len(evs) : events'[i] = evs[i]
    BY <1>1, <1>2, <1>9, AppendFacts
  <2>2. Event(p, "exit").proc = p
    BY DEF Event
  <2>3. refcount'[p] = 0 /\ exitCbs'[p] = 0
    BY <1>2, <1>4, <1>9
  <2>4. ASSUME NEW i \in DOMAIN events', events'[i].kind = "exit"
        PROVE  /\ refcount'[events'[i].proc] = 0 /\ exitCbs'[events'[i].proc] = 0
               /\ \A j \in DOMAIN events' : i < j => events'[j].proc # events'[i].proc
    <3>1. CASE i = Len(evs) + 1
      BY <2>1, <2>2, <2>3, <3>1
    <3>2. CASE i \in DOMAIN evs
      <4>1. /\ evs[i].proc # p /\ evs[i].proc \in Proc /\ events'[i] = evs[i]
            /\ refcount[evs[i].proc] = 0 /\ exitCbs[evs[i].proc] = 0
            /\ \A j \in DOMAIN evs : i < j => evs[j].proc # evs[i].proc
        BY <1>3, <1>5, <1>6, <2>1, <2>4, <3>2 DEF ExitsIn
      <4>2. QED
        BY <1>2, <2>1, <2>2, <4>1
    <3>3. QED
      BY <2>1, <3>1, <3>2
  <2>5. \A q \in Proc : exitCbs'[q] = 1 => \A i \in DOMAIN events' : events'[i].proc # q
    BY <1>3, <1>4, <2>1, <2>2 DEF GoneIn
  <2>6. QED
    BY <1>7, <2>4, <2>5 DEF ExitEvents
<1>10. QED
  BY <1>2, <1>8, <1>9

\* Close events of processes that have references.
LEMMA ExitsClosed ==
  ASSUME Types, ExitEvents, NEW ps \in SUBSET Proc, \A p \in ps : refcount[p] > 0,
         events' = events \o CloseEvents(ps), UNCHANGED <<refcount, exitCbs>>
  PROVE  ExitEvents'
<1>1. IsFiniteSet(Proc) /\ events \in Seq(ProcEvent)
  BY ProcessAssumption DEF Types, LoopTypes
<1>2. /\ Len(events) \in Nat /\ DOMAIN events = 1 .. Len(events)
      /\ DOMAIN events' \subseteq Nat \ {0} /\ DOMAIN events \subseteq DOMAIN events'
      /\ \A i \in DOMAIN events : events'[i] = events[i]
      /\ \A i \in DOMAIN events' \ DOMAIN events : events'[i].kind = "close" /\ events'[i].proc \in ps
  BY <1>1, CloseEventsFacts
<1>3. ASSUME NEW i \in DOMAIN events', events'[i].kind = "exit"
      PROVE  /\ refcount'[events'[i].proc] = 0 /\ exitCbs'[events'[i].proc] = 0
             /\ \A j \in DOMAIN events' : i < j => events'[j].proc # events'[i].proc
  <2>1. /\ i \in DOMAIN events /\ events'[i] = events[i]
        /\ refcount[events[i].proc] = 0 /\ exitCbs[events[i].proc] = 0
        /\ \A j \in DOMAIN events : i < j => events[j].proc # events[i].proc
    BY <1>2, <1>3 DEF ExitEvents
  <2>2. QED
    BY <1>2, <2>1
<1>4. ASSUME NEW p \in Proc, exitCbs[p] = 1 PROVE \A i \in DOMAIN events' : events'[i].proc # p
  <2>1. p \notin ps
    BY <1>4 DEF ExitEvents
  <2>2. QED
    BY <1>1, <1>4, <2>1, FreshClosed DEF ExitEvents
<1>5. QED
  BY <1>3, <1>4 DEF ExitEvents

LEMMA ExitEventsStep ==
  ASSUME Types, Waits, Refs, Born, ExitEvents, [Next]_processVars
  PROVE  ExitEvents'
<1>1. ProcTypes /\ LoopTypes /\ WaitTypes
  BY DEF Types
<1>2. Kept(events)
  BY <1>1, KeptAll DEF LoopTypes
<1>3. \A i \in DOMAIN events : events[i].proc \in Proc
  BY <1>1, ProcOf DEF LoopTypes
<1>4. ASSUME NEW p \in Proc, Spawn(p) PROVE ExitEvents'
  <2>1. /\ child[p] = "none" /\ refcount' = [refcount EXCEPT ![p] = 3]
        /\ UNCHANGED <<events, exitCbs>>
    BY <1>4, StreamsCount DEF Spawn
  <2>2. exitCbs[p] = 0 /\ \A i \in DOMAIN events : events[i].proc # p
    BY <2>1 DEF Born, BornOf
  <2>3. \A q \in Proc : q # p => refcount'[q] = refcount[q]
    BY <1>1, <2>1 DEF ProcTypes
  <2>4. QED
    BY <1>3, <2>1, <2>2, <2>3 DEF ExitEvents
<1>5. ASSUME NEW p \in Proc, NEW s \in Streams, StreamClosed(p, s) PROVE ExitEvents'
  <2>1. Released(p, 1, events) /\ exitCbs' = exitCbs /\ refcount[p] >= 1
    BY <1>5, RefPositive DEF StreamClosed
  <2>2. QED
    BY <1>2, <2>1, ExitsReleased
<1>6. ASSUME NEW p \in Proc, HandleClosed(p) PROVE ExitEvents'
  <2>1. Released(p, 1, events) /\ exitCbs' = exitCbs /\ refcount[p] >= 1
    BY <1>6, RefPositive DEF HandleClosed
  <2>2. QED
    BY <1>2, <2>1, ExitsReleased
<1>7. ASSUME NEW i \in 1 .. Len(events), HandleClose(i) PROVE ExitEvents'
  <2>1. i \in DOMAIN events /\ events[i].proc \in Proc
    BY <1>1, <1>7, HandledFacts DEF HandleClose
  <2>2. PICK p \in Proc : p = events[i].proc
    BY <2>1
  <2>3. PICK evs : evs = RemoveAt(events, i)
    OBVIOUS
  <2>4. Kept(evs)
    BY <1>1, <2>1, <2>3, TakenFacts DEF LoopTypes
  <2>5. CloseHandles(p, evs) /\ exitCbs' = exitCbs /\ evs \in Seq(ProcEvent)
    BY <1>7, <2>2, <2>3, <2>4 DEF HandleClose, Kept
  <2>6. \/ refcount' = refcount /\ events' = evs
        \/ handle[p] = "open" /\ Released(p, 1, evs)
    BY <2>5, CloseHandlesFacts
  <2>7. CASE refcount' = refcount /\ events' = evs
    BY <2>4, <2>5, <2>7, ExitsKept
  <2>8. CASE handle[p] = "open" /\ Released(p, 1, evs)
    BY <2>4, <2>5, <2>8, RefPositive, ExitsReleased
  <2>9. QED
    BY <2>6, <2>7, <2>8
<1>8. ASSUME NEW i \in 1 .. Len(events), HandleExit(i) PROVE ExitEvents'
  <2>1. i \in DOMAIN events /\ events[i].proc \in Proc
        /\ \A j \in DOMAIN events : j < i => events[j].proc # events[i].proc
    BY <1>1, <1>8, HandledFacts DEF HandleExit
  <2>2. PICK p \in Proc : p = events[i].proc
    BY <2>1
  <2>3. /\ events' = RemoveAt(events, i) /\ events[i].kind = "exit"
        /\ exitCbs' = [exitCbs EXCEPT ![p] = @ + 1] /\ refcount' = refcount
    BY <1>8, <2>2 DEF HandleExit, procVars
  <2>4. refcount[p] = 0 /\ exitCbs[p] = 0 /\ \A j \in DOMAIN events : j # i => events[j].proc # p
    BY <1>1, <2>1, <2>2, <2>3 DEF ExitEvents, LoopTypes
  <2>5. Kept(events') /\ \A a \in DOMAIN events' : \E c \in DOMAIN events :
                           c # i /\ events'[a] = events[c]
    BY <1>1, <2>1, <2>3, TakenFacts DEF LoopTypes
  <2>6. \A a \in DOMAIN events' : events'[a].proc # p /\ events'[a].proc \in Proc
    BY <1>3, <2>4, <2>5
  <2>7. exitCbs'[p] = 1 /\ \A q \in Proc : q # p => exitCbs'[q] = exitCbs[q]
    BY <1>1, <2>3, <2>4 DEF LoopTypes
  <2>8. ExitsIn(events') /\ GoneIn(events')
    BY <2>5, KeptExits
  <2>9. \A q \in Proc : exitCbs'[q] = 1 => \A a \in DOMAIN events' : events'[a].proc # q
    BY <2>6, <2>7, <2>8 DEF GoneIn
  <2>10. \A q \in Proc : (refcount'[q] > 0 => exitCbs'[q] = 0) /\ exitCbs'[q] <= 1
    BY <2>3, <2>4, <2>7 DEF ExitEvents
  <2>11. \A a \in DOMAIN events' : events'[a].kind = "exit" =>
           /\ refcount'[events'[a].proc] = 0 /\ exitCbs'[events'[a].proc] = 0
           /\ \A j \in DOMAIN events' : a < j => events'[j].proc # events'[a].proc
    BY <2>3, <2>6, <2>7, <2>8 DEF ExitsIn
  <2>12. QED
    BY <2>9, <2>10, <2>11 DEF ExitEvents
<1>9. ASSUME NEW w \in setup.waits, WaitBegin(w.proc, w.ms) PROVE ExitEvents'
  <2>1. PICK p \in Proc : p = w.proc
    BY <1>1, SetupFacts
  <2>2. /\ \/ refcount[p] > 0 /\ refcount' = [refcount EXCEPT ![p] = @ + 1]
           \/ refcount' = refcount
        /\ UNCHANGED <<events, exitCbs>>
    BY <1>9, <2>1 DEF WaitBegin, loopVars
  <2>3. \A q \in Proc : (refcount'[q] > 0 <=> refcount[q] > 0) /\ (refcount'[q] = 0 <=> refcount[q] = 0)
    BY <1>1, <2>2 DEF ProcTypes
  <2>4. QED
    BY <1>3, <2>2, <2>3 DEF ExitEvents
<1>10. CASE WaitExited
  <2>1. /\ waiting.proc \in Proc /\ Released(waiting.proc, 1, events) /\ exitCbs' = exitCbs
        /\ refcount[waiting.proc] >= 1
    BY <1>10, WaitFacts DEF WaitExited, WaitPolls
  <2>2. QED
    BY <1>2, <2>1, ExitsReleased
<1>11. CASE WaitGivesUp
  <2>1. PICK p \in Proc : p = waiting.proc
    BY <1>11, WaitFacts DEF WaitGivesUp, WaitPolls
  <2>2. /\ refcount[p] # 1 /\ refcount[p] >= 1 /\ refcount' = [refcount EXCEPT ![p] = @ - 1]
        /\ UNCHANGED <<events, exitCbs>>
    BY <1>11, <2>1, WaitFacts, RefPositive DEF WaitGivesUp, WaitPolls, loopVars
  <2>3. \A q \in Proc : (refcount'[q] > 0 <=> refcount[q] > 0) /\ (refcount'[q] = 0 <=> refcount[q] = 0)
    BY <1>1, <2>2 DEF ProcTypes
  <2>4. QED
    BY <1>3, <2>2, <2>3 DEF ExitEvents
<1>12. CASE Sigchld
  <2>1. PICK found \in SUBSET Proc :
          /\ \A p \in found : handle[p] = "open" \/ p \in children
          /\ events' = events \o CloseEvents(found)
    BY <1>12, SigchldFacts
  <2>2. \A p \in found : refcount[p] > 0
    <3>1. \A p \in found : handle[p] = "open" => refcount[p] >= 1
      BY RefPositive
    <3>2. \A p \in found : p \in children => refcount[p] > 0
      BY DEF Refs
    <3>3. QED
      BY <1>1, <2>1, <3>1, <3>2 DEF ProcTypes
  <2>3. UNCHANGED <<refcount, exitCbs>>
    BY <1>12 DEF Sigchld
  <2>4. QED
    BY <2>1, <2>2, <2>3, ExitsClosed
<1>13. CASE Teardown
  <2>1. events' = events \o CloseEvents(children \cap Detached) /\ UNCHANGED <<refcount, exitCbs>>
    BY <1>13, Zenon DEF Teardown, CloseEvents
  <2>2. children \cap Detached \in SUBSET Proc /\ \A p \in children : refcount[p] > 0
    BY <1>1 DEF LoopTypes, Refs
  <2>3. QED
    BY <2>1, <2>2, ExitsClosed
<1>14. CASE UNCHANGED <<refcount, exitCbs, events>>
  BY <1>14 DEF ExitEvents
<1>15. QED
  BY <1>4, <1>5, <1>6, <1>7, <1>8, <1>9, <1>10, <1>11, <1>12, <1>13, <1>14
     DEF Next, Step, processVars, stateVars, procVars, loopVars, waitVars, ChildExits, TimePasses,
         CloseStream, Stop, KillTick, Interrupt, WaitInterrupted, WaitReturn, TeardownEnd

(***************************************************************************)
(* Closes, step by step                                                    *)
(***************************************************************************)

\* What Closes says of a sequence of events.
ClosesIn(evs) ==
  /\ \A i \in DOMAIN evs : evs[i].kind = "close" => noticed[evs[i].proc] \/ LetGo(evs[i].proc)
  /\ \A i \in DOMAIN evs : evs[i].kind = "close" /\ ~LetGo(evs[i].proc) =>
       /\ handle[evs[i].proc] = "open"
       /\ \A j \in DOMAIN evs : evs[j] = evs[i] => j = i

\* What it says of the processes.
ClosedFor(p) ==
  /\ handle[p] \in {"closing", "freed"} => noticed[p] \/ LetGo(p)
  /\ noticed[p] => child[p] = "reaped"

LEMMA KeptCloses ==
  ASSUME Closes, NEW evs, Kept(evs)
  PROVE  ClosesIn(evs)
<1>1. ASSUME NEW i \in DOMAIN evs, evs[i].kind = "close"
      PROVE  noticed[evs[i].proc] \/ LetGo(evs[i].proc)
  BY <1>1, KeptOne DEF Closes
<1>2. ASSUME NEW i \in DOMAIN evs, evs[i].kind = "close", ~LetGo(evs[i].proc)
      PROVE  /\ handle[evs[i].proc] = "open"
             /\ \A j \in DOMAIN evs : evs[j] = evs[i] => j = i
  <2>1. handle[evs[i].proc] = "open"
    BY <1>2, KeptOne DEF Closes
  <2>2. ASSUME NEW j \in DOMAIN evs, evs[j] = evs[i], j # i PROVE FALSE
    <3>1. PICK c, d \in DOMAIN events : evs[i] = events[c] /\ evs[j] = events[d] /\ c # d
      BY <2>2 DEF Kept
    <3>2. QED
      BY <1>2, <2>2, <3>1 DEF Closes
  <2>3. QED
    BY <2>1, <2>2
<1>3. QED
  BY <1>1, <1>2 DEF ClosesIn

\* An exit event behind the others says nothing of a close.
LEMMA ClosesAppended ==
  ASSUME NEW evs \in Seq(ProcEvent), ClosesIn(evs), NEW p \in Proc
  PROVE  ClosesIn(Append(evs, Event(p, "exit")))
<1>1. Event(p, "exit") \in ProcEvent /\ Event(p, "exit").kind = "exit"
  BY DEF Event, ProcEvent
<1> DEFINE new == Append(evs, Event(p, "exit"))
<1>2. /\ DOMAIN evs = 1 .. Len(evs) /\ DOMAIN new = 1 .. Len(evs) + 1 /\ Len(evs) \in Nat
      /\ new[Len(evs) + 1] = Event(p, "exit")
      /\ \A i \in 1 .. Len(evs) : new[i] = evs[i]
  BY <1>1, AppendFacts
<1> HIDE DEF new
<1>3. \A i \in DOMAIN new : new[i].kind = "close" => i \in DOMAIN evs /\ new[i] = evs[i]
  BY <1>1, <1>2
<1>4. ASSUME NEW i \in DOMAIN new, new[i].kind = "close"
      PROVE  noticed[new[i].proc] \/ LetGo(new[i].proc)
  BY <1>3, <1>4 DEF ClosesIn
<1>5. ASSUME NEW i \in DOMAIN new, new[i].kind = "close", ~LetGo(new[i].proc)
      PROVE  handle[new[i].proc] = "open" /\ \A j \in DOMAIN new : new[j] = new[i] => j = i
  BY <1>3, <1>5 DEF ClosesIn
<1>6. QED
  BY <1>4, <1>5 DEF ClosesIn, new

\* A step after which the events are some that were there, and no process with
\* a close event left changes its handle.
LEMMA ClosesKept ==
  ASSUME Types, Closes, NEW evs, Kept(evs),
         events' = evs \/ \E p \in Proc : events' = Append(evs, Event(p, "exit")),
         UNCHANGED <<child, noticed, exiting, setup>>,
         \A p \in Proc : \/ handle'[p] = handle[p]
                         \/ /\ noticed[p] \/ LetGo(p)
                            /\ \A i \in DOMAIN evs : evs[i].kind = "close" =>
                                 evs[i].proc # p \/ LetGo(p)
  PROVE  Closes'
<1>1. evs \in Seq(ProcEvent)
  BY DEF Kept
<1>2. ClosesIn(evs) /\ \A i \in DOMAIN evs : evs[i].proc \in Proc
  BY <1>1, KeptCloses, ProcOf
<1>3. ClosesIn(events') /\ events' \in Seq(ProcEvent)
  <2>1. CASE events' = evs
    BY <1>1, <1>2, <2>1
  <2>2. ASSUME NEW p \in Proc, events' = Append(evs, Event(p, "exit"))
        PROVE  ClosesIn(events') /\ events' \in Seq(ProcEvent)
    <3>1. Event(p, "exit") \in ProcEvent
      BY DEF Event, ProcEvent
    <3>2. QED
      BY <1>1, <1>2, <2>2, <3>1, ClosesAppended, AppendFacts
  <2>3. QED
    BY <2>1, <2>2
<1>4. \A p : LetGo(p)' = LetGo(p)
  BY DEF LetGo, Detached
<1>5. ASSUME NEW i \in DOMAIN events', events'[i].kind = "close"
      PROVE  i \in DOMAIN evs /\ events'[i] = evs[i]
  <2>1. CASE events' = evs
    BY <1>5, <2>1
  <2>2. ASSUME NEW p \in Proc, events' = Append(evs, Event(p, "exit"))
        PROVE  i \in DOMAIN evs /\ events'[i] = evs[i]
    <3>1. Event(p, "exit") \in ProcEvent /\ Event(p, "exit").kind = "exit"
      BY DEF Event, ProcEvent
    <3>2. /\ DOMAIN evs = 1 .. Len(evs) /\ DOMAIN events' = 1 .. Len(evs) + 1 /\ Len(evs) \in Nat
          /\ events'[Len(evs) + 1] = Event(p, "exit")
          /\ \A j \in 1 .. Len(evs) : events'[j] = evs[j]
      BY <1>1, <2>2, <3>1, AppendFacts
    <3>3. QED
      BY <1>5, <3>1, <3>2
  <2>3. QED
    BY <2>1, <2>2
<1>6. ASSUME NEW i \in DOMAIN events', events'[i].kind = "close", ~LetGo(events'[i].proc)
      PROVE  handle'[events'[i].proc] = "open"
  <2>1. i \in DOMAIN evs /\ events'[i] = evs[i] /\ evs[i].proc \in Proc
    BY <1>2, <1>5, <1>6
  <2>2. handle[evs[i].proc] = "open"
    BY <1>2, <1>6, <2>1 DEF ClosesIn
  <2>3. QED
    BY <1>6, <2>1, <2>2
<1>7. \A p \in Proc : /\ handle'[p] \in {"closing", "freed"} => noticed'[p] \/ LetGo(p)'
                      /\ noticed'[p] => child'[p] = "reaped"
  BY <1>4, SMTT(30) DEF Closes
<1>8. QED
  BY <1>3, <1>4, <1>6, <1>7 DEF Closes, ClosesIn

LEMMA ClosesStep ==
  ASSUME Types, Waits, Refs, Born, Closes, [Next]_processVars
  PROVE  Closes'
<1>1. ProcTypes /\ LoopTypes /\ WaitTypes /\ ChildTypes
  BY DEF Types
<1>2. Kept(events) /\ setup' = setup
  BY <1>1, KeptAll DEF LoopTypes, Next, processVars
<1>3. \A i \in DOMAIN events : events[i] \in ProcEvent /\ events[i].proc \in Proc
  BY <1>1, ProcOf DEF LoopTypes
<1>4. ASSUME NEW p \in Proc, Released(p, 1, events), UNCHANGED <<child, noticed, exiting, handle>>
      PROVE  Closes'
  <2>1. events' = events \/ events' = Append(events, Event(p, "exit"))
    BY <1>4 DEF Released
  <2>2. QED
    BY <1>2, <1>4, <2>1, ClosesKept
<1>5. ASSUME NEW p \in Proc, Spawn(p) PROVE Closes'
  <2>1. /\ child[p] = "none" /\ child' = [child EXCEPT ![p] = "running"]
        /\ handle' = [handle EXCEPT ![p] = "open"]
        /\ UNCHANGED <<noticed, exiting, events>>
    BY <1>5 DEF Spawn
  <2>2. ~noticed[p] /\ \A i \in DOMAIN events : events[i].proc # p
    BY <2>1 DEF Born, BornOf
  <2>3. /\ handle'[p] = "open"
        /\ \A q \in Proc : q # p => handle'[q] = handle[q] /\ child'[q] = child[q]
    BY <1>1, <2>1 DEF ProcTypes, ChildTypes
  <2>4. \A q : LetGo(q)' = LetGo(q)
    BY <1>2, <2>1 DEF LetGo, Detached
  <2>5. QED
    BY <1>3, <2>1, <2>2, <2>3, <2>4 DEF Closes
<1>6. ASSUME NEW p \in Proc, ChildExits(p) PROVE Closes'
  <2>1. /\ child[p] = "running" /\ \A q \in Proc : q # p => child'[q] = child[q]
        /\ UNCHANGED <<handle, noticed, exiting, events>>
    BY <1>1, <1>6 DEF ChildExits, procVars, loopVars, ChildTypes
  <2>2. ~noticed[p]
    BY <2>1 DEF Closes
  <2>3. \A q : LetGo(q)' = LetGo(q)
    BY <1>2, <2>1 DEF LetGo, Detached
  <2>4. QED
    BY <2>1, <2>2, <2>3 DEF Closes
<1>7. ASSUME NEW p \in Proc, NEW s \in Streams, StreamClosed(p, s) PROVE Closes'
  BY <1>4, <1>7 DEF StreamClosed, childVars
<1>8. ASSUME NEW p \in Proc, HandleClosed(p) PROVE Closes'
  <2>1. /\ handle[p] = "closing" /\ handle' = [handle EXCEPT ![p] = "freed"]
        /\ Released(p, 1, events) /\ UNCHANGED <<child, noticed, exiting>>
    BY <1>8 DEF HandleClosed, childVars
  <2>2. noticed[p] \/ LetGo(p)
    BY <2>1 DEF Closes
  <2>3. \A i \in DOMAIN events : events[i].kind = "close" => events[i].proc # p \/ LetGo(p)
    BY <2>1 DEF Closes
  <2>4. \A q \in Proc : q # p => handle'[q] = handle[q]
    BY <1>1, <2>1 DEF ProcTypes
  <2>5. events' = events \/ events' = Append(events, Event(p, "exit"))
    BY <2>1 DEF Released
  <2>6. QED
    BY <1>2, <2>1, <2>2, <2>3, <2>4, <2>5, ClosesKept
<1>9. ASSUME NEW i \in 1 .. Len(events), HandleClose(i) PROVE Closes'
  <2>1. i \in DOMAIN events /\ events[i].kind = "close"
    BY <1>1, <1>9, HandledFacts DEF HandleClose
  <2>2. PICK p \in Proc : p = events[i].proc
    BY <1>3, <2>1
  <2>3. PICK evs : evs = RemoveAt(events, i)
    OBVIOUS
  <2>4. Kept(evs) /\ \A a \in DOMAIN evs : \E c \in DOMAIN events : c # i /\ evs[a] = events[c]
    BY <1>1, <2>1, <2>3, TakenFacts DEF LoopTypes
  <2>5. /\ CloseHandles(p, evs) /\ evs \in Seq(ProcEvent)
        /\ UNCHANGED <<child, noticed, exiting>>
    BY <1>9, <2>2, <2>3, <2>4 DEF HandleClose, Kept, childVars
  <2>6. /\ \A q \in Proc : q # p => handle'[q] = handle[q]
        /\ events' = evs \/ Released(p, 1, evs)
    BY <2>5, CloseHandlesFacts
  <2>7. events' = evs \/ events' = Append(evs, Event(p, "exit"))
    BY <2>6 DEF Released
  <2>8. noticed[p] \/ LetGo(p)
    BY <2>1, <2>2 DEF Closes
  <2>9. ASSUME NEW a \in DOMAIN evs, evs[a].kind = "close", evs[a].proc = p, ~LetGo(p) PROVE FALSE
    <3>1. PICK c \in DOMAIN events : c # i /\ evs[a] = events[c]
      BY <2>4
    <3>2. events[c] = events[i]
      BY <1>3, <2>1, <2>2, <2>9, <3>1 DEF ProcEvent
    <3>3. QED
      BY <2>1, <2>2, <2>9, <3>1, <3>2 DEF Closes
  <2>10. QED
    BY <1>2, <2>4, <2>5, <2>6, <2>7, <2>8, <2>9, ClosesKept
<1>10. ASSUME NEW i \in 1 .. Len(events), HandleExit(i) PROVE Closes'
  <2>1. i \in DOMAIN events /\ events' = RemoveAt(events, i)
        /\ UNCHANGED <<child, noticed, exiting, handle>>
    BY <1>1, <1>10, HandledFacts DEF HandleExit, childVars, procVars
  <2>2. Kept(events')
    BY <1>1, <2>1, TakenFacts DEF LoopTypes
  <2>3. QED
    BY <1>2, <2>1, <2>2, ClosesKept
<1>11. CASE WaitExited
  <2>1. waiting.proc \in Proc /\ Released(waiting.proc, 1, events)
        /\ UNCHANGED <<child, noticed, exiting, handle>>
    BY <1>11, WaitFacts DEF WaitExited, WaitPolls, childVars
  <2>2. QED
    BY <1>4, <2>1
<1>12. CASE Sigchld
  <2>1. PICK found, dead \in SUBSET Proc :
          /\ found \subseteq dead
          /\ \A p \in dead : child[p] = "zombie"
          /\ child' = [p \in Proc |-> IF p \in dead THEN "reaped" ELSE child[p]]
          /\ noticed' = [p \in Proc |-> noticed[p] \/ p \in found]
          /\ events' = events \o CloseEvents(found)
    BY <1>12, SigchldFacts
  <2>2. UNCHANGED <<handle, exiting>> /\ \A p : LetGo(p)' = LetGo(p)
    BY <1>2, <1>12 DEF Sigchld, LetGo, Detached
  <2>3. \A p \in Proc : noticed'[p] <=> noticed[p] \/ p \in found
    BY <1>1, <2>1, Zenon DEF ProcTypes
  <2>4. ASSUME NEW p \in found
        PROVE  ~noticed[p] /\ (LetGo(p) \/ handle[p] = "open")
               /\ (\A i \in DOMAIN events : events[i].kind = "close" => events[i].proc # p \/ LetGo(p))
    <3>1. child[p] = "zombie" /\ p \in Proc
      BY <2>1
    <3>2. ~noticed[p] /\ handle[p] # "none"
      BY <3>1 DEF Closes, Born, BornOf
    <3>3. LetGo(p) \/ handle[p] = "open"
      BY <1>1, <3>1, <3>2 DEF Closes, ProcTypes
    <3>4. \A i \in DOMAIN events : events[i].kind = "close" => events[i].proc # p \/ LetGo(p)
      BY <3>2 DEF Closes
    <3>5. QED
      BY <3>2, <3>3, <3>4
  <2>5. /\ events' \in Seq(ProcEvent) /\ DOMAIN events \subseteq DOMAIN events'
        /\ \A i \in DOMAIN events : events'[i] = events[i]
        /\ \A i \in DOMAIN events' \ DOMAIN events :
             events'[i].kind = "close" /\ events'[i].proc \in found
        /\ \A i, j \in DOMAIN events' \ DOMAIN events : events'[i] = events'[j] => i = j
    BY <1>1, <2>1, CloseEventsFacts, ProcessAssumption DEF LoopTypes
  <2>6. ASSUME NEW p \in Proc PROVE ClosedFor(p)'
    <3>1. ClosedFor(p)
      BY DEF Closes, ClosedFor
    <3>2. noticed'[p] => child'[p] = "reaped"
      BY <2>1, <2>3, <3>1 DEF ClosedFor
    <3>3. QED
      BY <2>2, <2>3, <3>1, <3>2 DEF ClosedFor
  <2>7. ASSUME NEW i \in DOMAIN events', events'[i].kind = "close"
        PROVE  noticed'[events'[i].proc] \/ LetGo(events'[i].proc)
    <3>1. events'[i].proc \in Proc
      BY <2>5, ProcOf
    <3>2. CASE i \in DOMAIN events
      BY <2>2, <2>3, <2>5, <2>7, <3>1, <3>2 DEF Closes
    <3>3. CASE i \notin DOMAIN events
      BY <2>3, <2>5, <3>1, <3>3
    <3>4. QED
      BY <3>2, <3>3
  <2>8. ASSUME NEW i \in DOMAIN events', events'[i].kind = "close", ~LetGo(events'[i].proc)
        PROVE  /\ handle'[events'[i].proc] = "open"
               /\ \A j \in DOMAIN events' : events'[j] = events'[i] => j = i
    <3>1. CASE i \in DOMAIN events
      <4>1. events[i].proc \notin found
        BY <2>4, <2>5, <2>8, <3>1
      <4>2. \A j \in DOMAIN events' : events'[j] = events'[i] => j \in DOMAIN events
        BY <2>5, <3>1, <4>1
      <4>3. QED
        BY <2>2, <2>5, <2>8, <3>1, <4>2 DEF Closes
    <3>2. CASE i \notin DOMAIN events
      <4>1. events'[i].proc \in found
        BY <2>5, <3>2
      <4>2. \A j \in DOMAIN events' : events'[j] = events'[i] => j \notin DOMAIN events
        BY <2>4, <2>5, <2>8, <4>1
      <4>3. QED
        BY <2>2, <2>4, <2>5, <2>8, <3>2, <4>1, <4>2
    <3>3. QED
      BY <3>1, <3>2
  <2>9. QED
    BY <2>2, <2>6, <2>7, <2>8 DEF Closes, ClosedFor
<1>13. CASE Teardown
  <2>1. PICK ps \in SUBSET Proc : ps = children \cap Detached
    BY <1>1 DEF LoopTypes
  <2>2. /\ events' = events \o CloseEvents(ps) /\ exiting = "no" /\ exiting' = "teardown"
        /\ UNCHANGED <<child, noticed, handle>>
    BY <1>13, <2>1, Zenon DEF Teardown, CloseEvents, childVars
  <2>3. \A p : ~LetGo(p) /\ (LetGo(p)' <=> p \in Detached)
    BY <1>2, <2>2 DEF LetGo, Detached
  <2>4. /\ DOMAIN events \subseteq DOMAIN events'
        /\ \A i \in DOMAIN events : events'[i] = events[i]
        /\ \A i \in DOMAIN events' \ DOMAIN events :
             events'[i].kind = "close" /\ events'[i].proc \in ps
    BY <1>1, <2>2, CloseEventsFacts, ProcessAssumption DEF LoopTypes
  <2>5. \A i \in DOMAIN events' : events'[i].proc \notin Detached => i \in DOMAIN events
    BY <2>1, <2>3, <2>4
  <2>6. \A p \in Proc : ClosedFor(p)'
    BY <2>2, <2>3 DEF Closes, ClosedFor
  <2>7. ASSUME NEW i \in DOMAIN events', events'[i].kind = "close", events'[i].proc \notin Detached
        PROVE  /\ noticed'[events'[i].proc] /\ handle'[events'[i].proc] = "open"
               /\ \A j \in DOMAIN events' : events'[j] = events'[i] => j = i
    <3>1. i \in DOMAIN events /\ events'[i] = events[i]
      BY <2>4, <2>5, <2>7
    <3>2. \A j \in DOMAIN events' : events'[j] = events'[i] => j \in DOMAIN events
      BY <2>5, <2>7
    <3>3. QED
      BY <2>2, <2>3, <2>4, <2>7, <3>1, <3>2 DEF Closes
  <2>8. QED
    BY <2>3, <2>6, <2>7 DEF Closes, ClosedFor
<1>14. CASE UNCHANGED <<child, noticed, handle, events>> /\ (exiting' = "no" <=> exiting = "no")
  <2>1. \A p : LetGo(p)' = LetGo(p)
    BY <1>2, <1>14 DEF LetGo, Detached
  <2>2. QED
    BY <1>14, <2>1 DEF Closes
<1>15. QED
  BY <1>5, <1>6, <1>7, <1>8, <1>9, <1>10, <1>11, <1>12, <1>13, <1>14
     DEF Next, Step, processVars, stateVars, childVars, procVars, loopVars, waitVars, TimePasses,
         CloseStream, Stop, KillTick, WaitBegin, Interrupt, WaitInterrupted, WaitGivesUp,
         WaitReturn, TeardownEnd

(***************************************************************************)
(* Stop requests, step by step                                             *)
(***************************************************************************)

LEMMA AskedFinite ==
  ASSUME NEW T \in SUBSET Proc
  PROVE  IsFiniteSet(T) /\ Cardinality(T) \in Nat
<1>1. IsFiniteSet(Proc)
  BY ProcessAssumption
<1>2. IsFiniteSet(T)
  BY <1>1, FS_Subset
<1>3. QED
  BY <1>2, FS_CardinalityType

\* No process is asked anew, and none of those that were is forgotten.
LEMMA KillsSame ==
  ASSUME Kills, UNCHANGED <<stopRequests, killTimer>>,
         \A p \in Proc : (stoppedTime'[p] > 0 <=> stoppedTime[p] > 0) /\ noticed'[p] = noticed[p]
  PROVE  Kills'
<1>1. Asked' = Asked
  BY DEF Asked
<1>2. QED
  BY <1>1 DEF Kills

\* Each process that is asked anew is counted.
LEMMA KillsMore ==
  ASSUME Types, Kills, NEW new \in SUBSET Proc, noticed' = noticed,
         \A p \in Proc : stoppedTime'[p] = IF p \in new THEN 1 ELSE stoppedTime[p],
         stopRequests' = stopRequests + Cardinality(new),
         killTimer' = (killTimer \/ new # {})
  PROVE  Kills'
<1>1. Asked \in SUBSET Proc /\ Asked' \in SUBSET Proc /\ Asked \union new \in SUBSET Proc
      /\ Asked \cap new \in SUBSET Proc
  BY DEF Asked
<1>2. Asked' \subseteq Asked \union new
  BY DEF Asked
<1>3. Cardinality(Asked') <= Cardinality(Asked \union new)
  BY <1>1, <1>2, AskedFinite, FS_Subset
<1>4. Cardinality(Asked \union new)
        = Cardinality(Asked) + Cardinality(new) - Cardinality(Asked \cap new)
  BY <1>1, AskedFinite, FS_Union
<1>5. /\ Cardinality(Asked) \in Nat /\ Cardinality(new) \in Nat
      /\ Cardinality(Asked \cap new) \in Nat /\ Cardinality(Asked \union new) \in Nat
      /\ Cardinality(Asked') \in Nat
  BY <1>1, AskedFinite
<1>6. Cardinality(Asked') <= stopRequests'
  <2>1. stopRequests \in Nat /\ Cardinality(Asked) <= stopRequests
    BY DEF Types, LoopTypes, Kills
  <2>2. QED
    BY <1>3, <1>4, <1>5, <2>1
<1>7. Asked' # {} => killTimer'
  BY <1>2, Zenon DEF Kills
<1>8. QED
  BY <1>6, <1>7 DEF Kills

\* Each process whose exit is noticed and that was asked is counted off.
LEMMA KillsFewer ==
  ASSUME Types, Kills, NEW found \in SUBSET Proc, \A p \in found : ~noticed[p],
         stoppedTime' = stoppedTime,
         \A p \in Proc : noticed'[p] <=> noticed[p] \/ p \in found,
         Answered({p \in found : stoppedTime[p] > 0})
  PROVE  Kills'
<1>1. PICK answered \in SUBSET Proc : answered = {p \in found : stoppedTime[p] > 0}
  OBVIOUS
<1>2. Asked \in SUBSET Proc /\ answered \subseteq Asked /\ Asked \cap answered = answered
  BY <1>1 DEF Asked
<1>3. Asked' = Asked \ answered
  BY <1>1 DEF Asked
<1>4. Cardinality(Asked') = Cardinality(Asked) - Cardinality(answered)
  BY <1>2, <1>3, AskedFinite, FS_Difference
<1>5. Cardinality(Asked) \in Nat /\ Cardinality(answered) \in Nat /\ Cardinality(Asked') \in Nat
  <2>1. Asked' \in SUBSET Proc
    BY <1>2, <1>3
  <2>2. QED
    BY <1>2, <2>1, AskedFinite
<1>6. stopRequests \in Nat /\ Cardinality(Asked) <= stopRequests
  BY DEF Types, LoopTypes, Kills
<1>7. Answered(answered)
  BY <1>1
<1>8. PICK left \in Int : left = stopRequests - Cardinality(answered)
  BY <1>5, <1>6
<1>9. /\ stopRequests' = IF left > 0 THEN left ELSE 0
      /\ killTimer' = (killTimer /\ (answered = {} \/ left > 0))
  BY <1>7, <1>8, Zenon DEF Answered
<1>10. Cardinality(Asked') <= stopRequests'
  BY <1>4, <1>5, <1>6, <1>8, <1>9
<1>11. Asked' # {} => killTimer'
  <2>1. ASSUME Asked' # {} PROVE left > 0 /\ killTimer
    <3>1. Cardinality(Asked') # 0
      <4>1. IsFiniteSet(Asked')
        BY <1>2, <1>3, AskedFinite
      <4>2. QED
        BY <2>1, <4>1, FS_EmptySet
    <3>2. left > 0
      BY <1>4, <1>5, <1>6, <1>8, <3>1
    <3>3. killTimer
      BY <1>3, <2>1, SMTT(30) DEF Kills
    <3>4. QED
      BY <3>2, <3>3
  <2>2. QED
    BY <1>9, <2>1, Zenon
<1>12. QED
  BY <1>10, <1>11 DEF Kills

LEMMA KillsStep ==
  ASSUME Types, Waits, Kills, Closes, [Next]_processVars
  PROVE  Kills'
<1>1. ProcTypes /\ LoopTypes /\ WaitTypes
  BY DEF Types
<1>2. ASSUME NEW p \in Proc, TimePasses(p) PROVE Kills'
  <2>1. /\ stoppedTime[p] \in {1, 2} /\ stoppedTime' = [stoppedTime EXCEPT ![p] = @ + 1]
        /\ UNCHANGED <<noticed, stopRequests, killTimer>>
    BY <1>2 DEF TimePasses, loopVars
  <2>2. \A q \in Proc : stoppedTime'[q] > 0 <=> stoppedTime[q] > 0
    BY <1>1, <2>1 DEF ProcTypes
  <2>3. QED
    BY <2>1, <2>2, KillsSame
<1>3. ASSUME NEW ps \in SUBSET Proc, Stopped(ps), noticed' = noticed PROVE Kills'
  <2>1. PICK new \in SUBSET Proc : new = {p \in ps : stoppedTime[p] = 0}
    OBVIOUS
  <2>2. /\ stoppedTime' = [p \in Proc |-> IF p \in new THEN 1 ELSE stoppedTime[p]]
        /\ stopRequests' = stopRequests + Cardinality(new)
        /\ killTimer' = (killTimer \/ new # {})
    BY <1>3, <2>1, Zenon DEF Stopped
  <2>3. \A p \in Proc : stoppedTime'[p] = IF p \in new THEN 1 ELSE stoppedTime[p]
    BY <2>2
  <2>4. QED
    BY <1>3, <2>2, <2>3, KillsMore
<1>4. ASSUME NEW p \in Proc, Stop(p) PROVE Kills'
  <2>1. Stopped({p}) /\ noticed' = noticed
    BY <1>4 DEF Stop
  <2>2. QED
    BY <1>3, <2>1
<1>5. CASE WaitInterrupted
  <2>1. waiting.proc \in Proc /\ Stopped({waiting.proc}) /\ noticed' = noticed
    BY <1>5, WaitFacts DEF WaitInterrupted, WaitPolls
  <2>2. QED
    BY <1>3, <2>1
<1>6. CASE Sigchld
  <2>1. PICK found, dead \in SUBSET Proc :
          /\ found \subseteq dead
          /\ \A p \in dead : child[p] = "zombie"
          /\ noticed' = [p \in Proc |-> noticed[p] \/ p \in found]
          /\ Answered({p \in found : stoppedTime[p] > 0})
    BY <1>6, SigchldFacts
  <2>2. \A p \in Proc : noticed'[p] <=> noticed[p] \/ p \in found
    BY <1>1, <2>1, Zenon DEF ProcTypes
  <2>3. \A p \in found : ~noticed[p]
    BY <2>1 DEF Closes
  <2>4. stoppedTime' = stoppedTime
    BY <1>6 DEF Sigchld
  <2>5. QED
    BY <2>1, <2>2, <2>3, <2>4, KillsFewer
<1>7. CASE Teardown
  <2>1. PICK new \in SUBSET Proc : new = {p \in (children \ Detached) \ Pty : stoppedTime[p] = 0}
    BY <1>1 DEF LoopTypes
  <2>2. /\ stoppedTime' = [p \in Proc |-> IF p \in new THEN 1 ELSE stoppedTime[p]]
        /\ stopRequests' = stopRequests + Cardinality(new)
        /\ killTimer' = (killTimer \/ new # {})
        /\ noticed' = noticed
    BY <1>7, <2>1, Zenon DEF Teardown
  <2>3. \A p \in Proc : stoppedTime'[p] = IF p \in new THEN 1 ELSE stoppedTime[p]
    BY <2>2
  <2>4. QED
    BY <2>2, <2>3, KillsMore
<1>8. CASE UNCHANGED <<stoppedTime, noticed, stopRequests, killTimer>>
  BY <1>8, KillsSame
<1>9. QED
  BY <1>2, <1>4, <1>5, <1>6, <1>7, <1>8
     DEF Next, Step, processVars, stateVars, childVars, procVars, loopVars, waitVars, Spawn,
         ChildExits, StreamClosed, HandleClosed, CloseStream, HandleClose, HandleExit, KillTick,
         WaitBegin, Interrupt, WaitExited, WaitGivesUp, WaitReturn, TeardownEnd

(***************************************************************************)
(* The invariant, and what follows from it                                 *)
(***************************************************************************)

LEMMA InitHolds == Init => IndInv
<1>1. SUFFICES ASSUME Init PROVE IndInv
  OBVIOUS
<1>2. /\ child = [p \in Proc |-> "none"] /\ killed = [p \in Proc |-> FALSE] /\ sigchld = FALSE
      /\ refcount = [p \in Proc |-> 0]
      /\ stream = [p \in Proc |-> [s \in Streams |-> "none"]]
      /\ handle = [p \in Proc |-> "none"] /\ stoppedTime = [p \in Proc |-> 0]
      /\ termSent = [p \in Proc |-> FALSE] /\ noticed = [p \in Proc |-> FALSE]
      /\ children = {} /\ stopRequests = 0 /\ killTimer = FALSE /\ events = <<>>
      /\ exitCbs = [p \in Proc |-> 0] /\ waiting = NotWaiting /\ gotInt = FALSE
      /\ exiting = "no" /\ setup \in Setups
  BY <1>1 DEF Init
<1>3. NotWaiting.proc = "none" /\ "none" \notin Proc
      /\ NotWaiting \in [proc : Proc \union {"none"}, ms : {"none", "forever", "timed"},
                         interrupted : BOOLEAN, result : {"none", "-2", Status}]
  BY ProcessAssumption DEF NotWaiting
<1>4. DOMAIN events = {} /\ events \in Seq(ProcEvent)
  BY <1>2
<1>5. Types
  <2>1. ChildTypes
    BY <1>2 DEF ChildTypes
  <2>2. ProcTypes
    BY <1>2 DEF ProcTypes
  <2>3. LoopTypes
    BY <1>2, <1>4 DEF LoopTypes
  <2>4. WaitTypes
    BY <1>2, <1>3 DEF WaitTypes
  <2>5. QED
    BY <2>1, <2>2, <2>3, <2>4 DEF Types
<1>6. Waits
  BY <1>2 DEF Waits
<1>7. Refs
  <2>1. ASSUME NEW p \in Proc PROVE Held(p) = 0
    <3>1. Live(stream[p]) = 0
      <4>1. \A s \in Streams : stream[p][s] = "none"
        BY <1>2
      <4>2. QED
        BY <4>1, LiveFacts
    <3>2. HandleRef(handle[p]) = 0 /\ WaitRef(p) = 0
      BY <1>2, <1>3 DEF HandleRef, WaitRef, WaitHolds, WaitingFor
    <3>3. QED
      BY <3>1, <3>2 DEF Held
  <2>2. QED
    BY <1>2, <2>1 DEF Refs
<1>8. Born
  BY <1>2, <1>3, <1>4 DEF Born, BornOf, WaitingFor
<1>9. Kills
  <2>1. Asked = {}
    BY <1>2 DEF Asked
  <2>2. QED
    BY <1>2, <2>1, FS_EmptySet DEF Kills
<1>10. ExitEvents
  BY <1>2, <1>4 DEF ExitEvents
<1>11. Closes
  BY <1>2, <1>4 DEF Closes
<1>12. QED
  BY <1>5, <1>6, <1>7, <1>8, <1>9, <1>10, <1>11 DEF IndInv

LEMMA NextHolds == IndInv /\ [Next]_processVars => IndInv'
<1>1. SUFFICES ASSUME IndInv, [Next]_processVars PROVE IndInv'
  OBVIOUS
<1>2. Types /\ Waits /\ Refs /\ Born /\ Kills /\ ExitEvents /\ Closes
  BY <1>1 DEF IndInv
<1>3. ChildTypes' /\ ProcTypes' /\ LoopTypes' /\ WaitTypes' /\ Waits'
  BY <1>1, <1>2, ChildTypesStep, ProcTypesStep, LoopTypesStep, WaitsStep
<1>4. Refs' /\ Born' /\ Kills' /\ ExitEvents' /\ Closes'
  BY <1>1, <1>2, RefsStep, BornStep, KillsStep, ExitEventsStep, ClosesStep
<1>5. QED
  BY <1>3, <1>4 DEF IndInv, Types

LEMMA Inductive == Spec => []IndInv
<1>1. QED
  BY InitHolds, NextHolds, PTL DEF Spec

\* The variables keep their types, and refcount its bound.
THEOREM TypeCorrect == Spec => []TypeOK
<1>1. ASSUME IndInv PROVE TypeOK
  <2>1. ChildTypes /\ ProcTypes /\ LoopTypes /\ WaitTypes /\ Types /\ Refs
    BY <1>1 DEF IndInv, Types
  <2>2. \A p \in Proc : refcount[p] \in 0 .. Cardinality(Streams) + 2
    BY <2>1, RefPositive, StreamsCount
  <2>3. refcount \in [Proc -> 0 .. Cardinality(Streams) + 2]
    BY <2>1, <2>2 DEF ProcTypes
  <2>4. events \in Seq([proc : Proc, kind : {"close", "exit"}])
    BY <2>1 DEF LoopTypes, ProcEvent
  <2>5. waiting.proc \in Proc \union {"none"}
    BY <2>1 DEF WaitTypes
  <2>6. {termSent, noticed, killed} \subseteq [Proc -> BOOLEAN]
        /\ {sigchld, killTimer, gotInt} \subseteq BOOLEAN
    BY <2>1 DEF ChildTypes, ProcTypes, LoopTypes, WaitTypes
  <2>7. QED
    BY <2>1, <2>3, <2>4, <2>5, <2>6 DEF TypeOK, ChildTypes, ProcTypes, LoopTypes, WaitTypes
<1>2. QED
  BY <1>1, Inductive, PTL

\* The references are those that the streams, the handle and the function that
\* waits hold, and a process is among the children as long as there is one.
THEOREM RefcountExact == Spec => []RefcountIsExact
<1>1. ASSUME IndInv, TypeOK PROVE RefcountIsExact
  BY <1>1, Zenon DEF IndInv, Refs, Held, Live, HandleRef, WaitRef, RefcountIsExact
<1>2. QED
  BY <1>1, Inductive, TypeCorrect, PTL

\* Nobody closes a process that is closed, but for one that is let go at exit.
THEOREM ClosedOnce == Spec => []NotClosedTwice
<1>1. ASSUME IndInv PROVE NotClosedTwice
  <2>1. Closes /\ LoopTypes
    BY <1>1 DEF IndInv, Types
  <2>2. ASSUME NEW i \in 1 .. Len(events), events[i].kind = "close", ~LetGo(events[i].proc)
        PROVE  handle[events[i].proc] = "open" /\ \A j \in 1 .. i - 1 : events[j] # events[i]
    <3>1. events \in Seq(ProcEvent) /\ DOMAIN events = 1 .. Len(events) /\ Len(events) \in Nat
      BY <2>1 DEF LoopTypes
    <3>2. \A j \in 1 .. i - 1 : j \in DOMAIN events /\ j # i
      BY <3>1
    <3>3. QED
      BY <2>1, <2>2, <3>1, <3>2 DEF Closes
  <2>3. QED
    BY <2>2 DEF NotClosedTwice, LetGo
<1>2. QED
  BY <1>1, Inductive, PTL

\* The exit callback is called once, with the status, after every other call
\* about the process and never while somebody waits for it.
THEOREM Freed == Spec => []FreedOnce
<1>1. ASSUME IndInv, NotClosedTwice PROVE FreedOnce
  <2>1. Types /\ ProcTypes /\ LoopTypes /\ Refs /\ Born /\ ExitEvents /\ Closes
    BY <1>1 DEF IndInv, Types
  <2>2. ASSUME NEW p \in Proc, exitCbs[p] = 1
        PROVE  /\ ~WaitHolds(p) /\ \A i \in 1 .. Len(events) : events[i].proc # p
               /\ p \notin Detached => child[p] = "reaped"
    <3>1. refcount[p] = 0
      BY <2>1, <2>2 DEF ExitEvents, ProcTypes
    <3>2. ~WaitHolds(p) /\ handle[p] \notin {"open", "closing"}
      BY <2>1, <3>1, RefPositive
    <3>3. \A i \in 1 .. Len(events) : events[i].proc # p
      BY <2>1, <2>2 DEF ExitEvents, LoopTypes
    <3>4. handle[p] # "none"
      BY <2>1, <2>2 DEF Born, BornOf
    <3>5. noticed[p] \/ p \in Detached
      BY <2>1, <3>2, <3>4 DEF Closes, ProcTypes, LetGo
    <3>6. QED
      BY <2>1, <3>2, <3>3, <3>5 DEF Closes
  <2>3. \A p \in Proc : exitCbs[p] <= 1
    BY <2>1 DEF ExitEvents
  <2>4. QED
    BY <1>1, <2>2, <2>3 DEF FreedOnce
<1>2. QED
  BY <1>1, Inductive, ClosedOnce, PTL

\* As long as a process was asked to stop and its exit was not noticed, the timer
\* that will kill it runs.
THEOREM KillTimer == Spec => []KillTimerIsArmed
<1>1. ASSUME IndInv PROVE KillTimerIsArmed
  <2>1. Kills /\ LoopTypes
    BY <1>1 DEF IndInv, Types
  <2>2. ASSUME NEW p \in Proc, stoppedTime[p] > 0, ~noticed[p] PROVE killTimer /\ stopRequests > 0
    <3>1. p \in Asked /\ Asked \in SUBSET Proc
      BY <2>2 DEF Asked
    <3>2. IsFiniteSet(Asked) /\ Cardinality(Asked) \in Nat /\ Cardinality(Asked) # 0
      BY <3>1, AskedFinite, FS_EmptySet
    <3>3. QED
      BY <2>1, <3>1, <3>2 DEF Kills, LoopTypes
  <2>3. QED
    BY <2>2 DEF KillTimerIsArmed
<1>2. QED
  BY <1>1, Inductive, PTL

(***************************************************************************)
(* The life of a process, step by step                                     *)
(***************************************************************************)

LifeStep(p) == [Life(p)!Next]_(Life(p)!lifeVars)

\* A step that changes nothing of the life of p.
LEMMA LifeSame ==
  ASSUME NEW p \in Proc, child'[p] = "none" <=> child[p] = "none", refcount'[p] = refcount[p],
         WaitersOf(p)' = WaitersOf(p), Ended(p)' <=> Ended(p), ExitsOf(p)' = ExitsOf(p),
         exitCbs'[p] = exitCbs[p]
  PROVE  LifeStep(p)
<1>1. LifeOf(p)' = LifeOf(p)
  BY DEF LifeOf
<1>2. QED
  BY <1>1 DEF LifeStep, Life!lifeVars

\* The exit events of p are in events if and only if they were in evs.
ExitIn(p, evs) == \E i \in DOMAIN evs : evs[i] = Event(p, "exit")

LEMMA ExitAppended ==
  ASSUME NEW evs \in Seq(ProcEvent), NEW e \in ProcEvent, NEW p \in Proc
  PROVE  ExitIn(p, Append(evs, e)) <=> ExitIn(p, evs) \/ e = Event(p, "exit")
<1> DEFINE new == Append(evs, e)
<1>1. /\ DOMAIN evs = 1 .. Len(evs) /\ DOMAIN new = 1 .. Len(evs) + 1 /\ Len(evs) \in Nat
      /\ new[Len(evs) + 1] = e
      /\ \A i \in 1 .. Len(evs) : new[i] = evs[i]
  BY AppendFacts
<1> HIDE DEF new
<1>2. ASSUME ExitIn(p, new) PROVE ExitIn(p, evs) \/ e = Event(p, "exit")
  <2>1. PICK i \in DOMAIN new : new[i] = Event(p, "exit")
    BY <1>2 DEF ExitIn
  <2>2. CASE i = Len(evs) + 1
    BY <1>1, <2>1, <2>2
  <2>3. CASE i \in 1 .. Len(evs)
    BY <1>1, <2>1, <2>3 DEF ExitIn
  <2>4. QED
    BY <1>1, <2>2, <2>3
<1>3. ASSUME ExitIn(p, evs) PROVE ExitIn(p, new)
  <2>1. PICK i \in DOMAIN evs : evs[i] = Event(p, "exit")
    BY <1>3 DEF ExitIn
  <2>2. i \in DOMAIN new /\ new[i] = Event(p, "exit")
    BY <1>1, <2>1
  <2>3. QED
    BY <2>2 DEF ExitIn
<1>4. ASSUME e = Event(p, "exit") PROVE ExitIn(p, new)
  <2>1. Len(evs) + 1 \in DOMAIN new
    BY <1>1
  <2>2. QED
    BY <1>1, <1>4, <2>1 DEF ExitIn
<1>5. QED
  BY <1>2, <1>3, <1>4 DEF new

\* Close events change nothing.
LEMMA ExitKeptClosed ==
  ASSUME events \in Seq(ProcEvent), NEW ps \in SUBSET Proc, events' = events \o CloseEvents(ps),
         NEW p \in Proc
  PROVE  ExitIn(p, events') <=> ExitIn(p, events)
<1>1. IsFiniteSet(Proc)
  BY ProcessAssumption
<1>2. /\ \A i \in DOMAIN events : events'[i] = events[i]
      /\ DOMAIN events \subseteq DOMAIN events'
      /\ \A i \in DOMAIN events' \ DOMAIN events : events'[i].kind = "close"
  BY <1>1, CloseEventsFacts
<1>3. Event(p, "exit").kind # "close"
  BY DEF Event
<1>4. QED
  BY <1>2, <1>3, Zenon DEF ExitIn

\* Nor does the removal of an event that is not an exit event of p.
LEMMA ExitKeptRemoved ==
  ASSUME events \in Seq(ProcEvent), NEW i \in DOMAIN events, NEW p \in Proc,
         events[i] # Event(p, "exit")
  PROVE  ExitIn(p, RemoveAt(events, i)) <=> ExitIn(p, events)
<1> DEFINE evs == RemoveAt(events, i)
           to(k) == IF k < i THEN k ELSE k - 1
<1>1. /\ DOMAIN evs = 1 .. Len(events) - 1
      /\ \A k \in 1 .. Len(events) - 1 : evs[k] = IF k < i THEN events[k] ELSE events[k + 1]
  BY RemoveAtFacts
<1>2. DOMAIN events = 1 .. Len(events) /\ Len(events) \in Nat
  OBVIOUS
<1>3. \A a \in DOMAIN evs : \E c \in DOMAIN events : evs[a] = events[c]
  BY TakenFacts
<1> HIDE DEF evs
<1>4. \A k \in DOMAIN events : k # i => to(k) \in DOMAIN evs /\ evs[to(k)] = events[k]
  BY <1>1, <1>2
<1> HIDE DEF to
<1>5. ASSUME ExitIn(p, events) PROVE ExitIn(p, evs)
  <2>1. PICK k \in DOMAIN events : events[k] = Event(p, "exit")
    BY <1>5 DEF ExitIn
  <2>2. to(k) \in DOMAIN evs /\ evs[to(k)] = Event(p, "exit")
    BY <1>4, <2>1
  <2>3. QED
    BY <2>2 DEF ExitIn
<1>6. ASSUME ExitIn(p, evs) PROVE ExitIn(p, events)
  BY <1>3, <1>6, Zenon DEF ExitIn
<1>7. QED
  BY <1>5, <1>6 DEF evs

\* A process that is left without references to its handles has ended.
LEMMA GoneHasEnded ==
  ASSUME Types', Refs', Born', Closes', NEW p \in Proc, child'[p] # "none",
         refcount'[p] = WaitersOf(p)'
  PROVE  Ended(p)'
<1>1. refcount'[p] = Live(stream'[p]) + HandleRef(handle'[p]) + WaitRef(p)'
  BY DEF Refs, Held
<1>2. WaitRef(p)' = WaitersOf(p)' /\ WaitRef(p)' \in 0 .. 1
  BY DEF WaitRef, WaitersOf
<1>3. Live(stream'[p]) \in 0 .. 2 /\ HandleRef(handle'[p]) \in 0 .. 1
  BY LiveFacts DEF HandleRef
<1>4. HandleRef(handle'[p]) = 0
  BY <1>1, <1>2, <1>3
<1>5. handle'[p] \in {"closing", "freed"}
  BY <1>4 DEF HandleRef, Born, BornOf, Types, ProcTypes
<1>6. QED
  BY <1>5 DEF Closes, Ended, LetGo

\* The reference of a stream or of the handle is given up.
LEMMA ReleasedLife ==
  ASSUME IndInv, IndInv', NEW q \in Proc, NEW evs \in Seq(ProcEvent), Released(q, 1, evs),
         \A p \in Proc : ExitIn(p, evs) <=> ExitIn(p, events),
         Live(stream[q]) + HandleRef(handle[q]) >= 1,
         UNCHANGED <<child, exitCbs, noticed, exiting, setup, waiting>>
  PROVE  \A p \in Proc : LifeStep(p)
<1>0. Types /\ Refs /\ Born /\ ExitEvents /\ ProcTypes /\ LoopTypes
      /\ Types' /\ Refs' /\ Born' /\ Closes'
  BY DEF IndInv, Types
<1>1. refcount[q] = Live(stream[q]) + HandleRef(handle[q]) + WaitRef(q)
  BY <1>0 DEF Refs, Held
<1>2. Live(stream[q]) \in 0 .. 2 /\ HandleRef(handle[q]) \in 0 .. 1 /\ WaitRef(q) \in 0 .. 1
  BY LiveFacts, HeldType
<1>3. WaitersOf(q) \in 0 .. 1 /\ refcount[q] >= WaitersOf(q) + 1 /\ refcount[q] \in Nat
  BY <1>1, <1>2 DEF WaitRef, WaitersOf
<1>4. /\ refcount'[q] = refcount[q] - 1
      /\ \A p \in Proc : p # q => refcount'[p] = refcount[p]
      /\ events' = IF refcount[q] = 1 THEN Append(evs, Event(q, "exit")) ELSE evs
      /\ Event(q, "exit") \in ProcEvent
  BY <1>0, <1>3, ReleasedFacts DEF ProcTypes, LoopTypes
<1>5. \A p \in Proc : /\ WaitersOf(p)' = WaitersOf(p) /\ (Ended(p)' <=> Ended(p))
                      /\ child'[p] = child[p] /\ exitCbs'[p] = exitCbs[p]
  BY DEF WaitersOf, WaitHolds, WaitingFor, Ended, Detached
<1>6. \A p \in Proc : ExitsOf(p) = (IF ExitIn(p, events) THEN 1 ELSE 0)
                      /\ ExitsOf(p)' = (IF ExitIn(p, events') THEN 1 ELSE 0)
  BY DEF ExitsOf, ExitIn
<1>7. \A p \in Proc : ExitIn(p, events') <=> ExitIn(p, events) \/ (refcount[q] = 1 /\ p = q)
  <2>1. \A p \in Proc : Event(q, "exit") = Event(p, "exit") <=> p = q
    BY DEF Event
  <2>2. QED
    BY <1>4, <2>1, ExitAppended
<1>8. ASSUME NEW p \in Proc, p # q PROVE LifeStep(p)
  <2>1. ExitsOf(p)' = ExitsOf(p)
    BY <1>6, <1>7, <1>8
  <2>2. QED
    BY <1>4, <1>5, <1>8, <2>1, LifeSame
<1>9. child[q] # "none"
  BY <1>0, <1>3, ChildIsBorn
<1>10. CASE refcount[q] = WaitersOf(q) + 1
  <2>1. refcount'[q] = WaitersOf(q)'
    BY <1>3, <1>4, <1>5, <1>10
  <2>2. Ended(q)'
    BY <1>0, <1>5, <1>9, <2>1, GoneHasEnded
  <2>3. LifeOf(q) = "ended" /\ LifeOf(q)' = "gone"
    BY <1>3, <1>5, <1>9, <1>10, <2>1, <2>2 DEF LifeOf
  <2>4. ~ExitIn(q, events)
    <3>1. \A i \in DOMAIN events : events[i] # Event(q, "exit")
      BY <1>0, <1>3 DEF ExitEvents, Event
    <3>2. QED
      BY <3>1 DEF ExitIn
  <2>5. ExitsOf(q) = 0 /\ ExitsOf(q)' = IF WaitersOf(q) = 0 THEN 1 ELSE 0
    BY <1>3, <1>6, <1>7, <1>10, <2>4
  <2>6. Life(q)!Close
    BY <1>5, <2>3, <2>5 DEF Life!Close, Life!Release
  <2>7. LifeStep(q)
    BY <2>6 DEF LifeStep, Life!Next
  <2>8. QED
    BY <1>8, <2>7
<1>11. CASE refcount[q] # WaitersOf(q) + 1
  <2>1. refcount[q] # WaitersOf(q) /\ refcount'[q] # WaitersOf(q)' /\ refcount[q] # 1
    BY <1>3, <1>4, <1>5, <1>11
  <2>2. LifeOf(q)' = LifeOf(q)
    BY <1>5, <2>1 DEF LifeOf
  <2>3. ExitsOf(q)' = ExitsOf(q)
    BY <1>6, <1>7, <2>1
  <2>4. LifeStep(q)
    BY <1>5, <2>2, <2>3 DEF LifeStep, Life!lifeVars
  <2>5. QED
    BY <1>8, <2>4
<1>12. QED
  BY <1>10, <1>11

\* Every step is one of the life of each process, or none of it.
LEMMA LifeSteps ==
  ASSUME IndInv, [Next]_processVars
  PROVE  \A p \in Proc : LifeStep(p)
<1>0. /\ IndInv' /\ Types /\ ProcTypes /\ LoopTypes /\ WaitTypes /\ ChildTypes
      /\ Waits /\ Refs /\ Born /\ ExitEvents /\ Closes
  BY NextHolds DEF IndInv, Types
<1>1. \A p \in Proc : /\ ExitsOf(p) = (IF ExitIn(p, events) THEN 1 ELSE 0)
                      /\ ExitsOf(p)' = (IF ExitIn(p, events') THEN 1 ELSE 0)
  BY DEF ExitsOf, ExitIn
<1>2. setup' = setup
  BY DEF Next, processVars
<1>3. ASSUME NEW p \in Proc, Spawn(p) PROVE \A q \in Proc : LifeStep(q)
  <2>1. /\ child[p] = "none" /\ child' = [child EXCEPT ![p] = "running"]
        /\ refcount' = [refcount EXCEPT ![p] = 3] /\ exiting = "no"
        /\ UNCHANGED <<noticed, events, exitCbs, waiting, exiting>>
    BY <1>3, StreamsCount DEF Spawn, waitVars
  <2>2. \A q \in Proc : WaitersOf(q)' = WaitersOf(q) /\ (Ended(q)' <=> Ended(q))
                        /\ ExitsOf(q)' = ExitsOf(q)
    BY <1>2, <2>1 DEF WaitersOf, WaitHolds, WaitingFor, Ended, Detached, ExitsOf
  <2>3. ASSUME NEW q \in Proc, q # p PROVE LifeStep(q)
    <3>1. child'[q] = child[q] /\ refcount'[q] = refcount[q] /\ exitCbs'[q] = exitCbs[q]
      BY <1>0, <2>1, <2>3 DEF ChildTypes, ProcTypes
    <3>2. QED
      BY <2>2, <3>1, LifeSame
  <2>4. ~noticed[p] /\ ~Ended(p)
    BY <1>0, <2>1 DEF Born, BornOf, Ended
  <2>5. child'[p] = "running" /\ refcount'[p] = 3 /\ WaitersOf(p)' # 3
    BY <1>0, <2>1 DEF ChildTypes, ProcTypes, WaitersOf
  <2>6. LifeOf(p) = "none" /\ LifeOf(p)' = "running"
    BY <2>1, <2>2, <2>4, <2>5 DEF LifeOf
  <2>7. Life(p)!Start
    BY <2>1, <2>2, <2>6 DEF Life!Start
  <2>8. QED
    BY <2>3, <2>7 DEF LifeStep, Life!Next
<1>4. ASSUME NEW p \in Proc, NEW s \in Streams, StreamClosed(p, s) PROVE \A q \in Proc : LifeStep(q)
  <2>1. /\ stream[p][s] = "closing" /\ Released(p, 1, events)
        /\ UNCHANGED <<child, exitCbs, noticed, exiting, waiting>>
    BY <1>4 DEF StreamClosed, childVars, waitVars
  <2>2. Live(stream[p]) \in 0 .. 2 /\ Live(stream[p]) >= 1 /\ HandleRef(handle[p]) \in 0 .. 1
    BY <2>1, LiveFacts, HeldType
  <2>3. events \in Seq(ProcEvent) /\ Live(stream[p]) + HandleRef(handle[p]) >= 1
    BY <1>0, <2>2 DEF LoopTypes
  <2>4. QED
    BY <1>0, <1>2, <2>1, <2>3, ReleasedLife
<1>5. ASSUME NEW p \in Proc, HandleClosed(p) PROVE \A q \in Proc : LifeStep(q)
  <2>1. /\ handle[p] = "closing" /\ Released(p, 1, events)
        /\ UNCHANGED <<child, exitCbs, noticed, exiting, waiting>>
    BY <1>5 DEF HandleClosed, childVars, waitVars
  <2>2. Live(stream[p]) \in 0 .. 2 /\ HandleRef(handle[p]) = 1
    BY <2>1, LiveFacts DEF HandleRef
  <2>3. events \in Seq(ProcEvent) /\ Live(stream[p]) + HandleRef(handle[p]) >= 1
    BY <1>0, <2>2 DEF LoopTypes
  <2>4. QED
    BY <1>0, <1>2, <2>1, <2>3, ReleasedLife
<1>6. ASSUME NEW i \in 1 .. Len(events), HandleClose(i) PROVE \A q \in Proc : LifeStep(q)
  <2>1. i \in DOMAIN events /\ events[i].proc \in Proc /\ events[i].kind = "close"
    BY <1>0, <1>6, HandledFacts DEF HandleClose
  <2>2. PICK p \in Proc : p = events[i].proc
    BY <2>1
  <2>3. PICK evs : evs = RemoveAt(events, i)
    OBVIOUS
  <2>4. evs \in Seq(ProcEvent) /\ CloseHandles(p, evs)
        /\ UNCHANGED <<child, exitCbs, noticed, exiting, waiting>>
    BY <1>0, <1>6, <2>1, <2>2, <2>3, RemoveAtFacts DEF HandleClose, LoopTypes, childVars, waitVars
  <2>5. \A q \in Proc : ExitIn(q, evs) <=> ExitIn(q, events)
    <3>1. \A q \in Proc : events[i] # Event(q, "exit")
      BY <2>1 DEF Event
    <3>2. QED
      BY <1>0, <2>1, <2>3, <3>1, ExitKeptRemoved DEF LoopTypes
  <2>6. \/ UNCHANGED refcount /\ events' = evs
        \/ handle[p] = "open" /\ Released(p, 1, evs)
    BY <1>0, <2>4, CloseHandlesFacts
  <2>7. CASE UNCHANGED refcount /\ events' = evs
    <3>1. \A q \in Proc : WaitersOf(q)' = WaitersOf(q) /\ (Ended(q)' <=> Ended(q))
      BY <1>2, <2>4 DEF WaitersOf, WaitHolds, WaitingFor, Ended, Detached
    <3>2. \A q \in Proc : ExitsOf(q)' = ExitsOf(q)
      BY <1>1, <2>5, <2>7
    <3>3. QED
      BY <2>4, <2>7, <3>1, <3>2, LifeSame
  <2>8. CASE handle[p] = "open" /\ Released(p, 1, evs)
    <3>1. Live(stream[p]) \in 0 .. 2 /\ HandleRef(handle[p]) = 1
      BY <2>8, LiveFacts DEF HandleRef
    <3>2. Live(stream[p]) + HandleRef(handle[p]) >= 1
      BY <3>1
    <3>3. QED
      BY <1>0, <1>2, <2>4, <2>5, <2>8, <3>2, ReleasedLife
  <2>9. QED
    BY <2>6, <2>7, <2>8
<1>7. ASSUME NEW i \in 1 .. Len(events), HandleExit(i) PROVE \A q \in Proc : LifeStep(q)
  <2>1. i \in DOMAIN events /\ events[i] \in ProcEvent /\ events[i].proc \in Proc
        /\ events[i].kind = "exit"
    BY <1>0, <1>7, HandledFacts DEF HandleExit
  <2>2. PICK p \in Proc : p = events[i].proc
    BY <2>1
  <2>3. /\ events' = RemoveAt(events, i) /\ exitCbs' = [exitCbs EXCEPT ![p] = @ + 1]
        /\ UNCHANGED <<child, refcount, noticed, exiting, waiting>>
    BY <1>7, <2>2 DEF HandleExit, procVars, childVars, waitVars
  <2>4. events[i] = Event(p, "exit")
    BY <2>1, <2>2 DEF Event, ProcEvent
  <2>5. \A q \in Proc : WaitersOf(q)' = WaitersOf(q) /\ (Ended(q)' <=> Ended(q))
                        /\ LifeOf(q)' = LifeOf(q)
    BY <1>2, <2>3 DEF WaitersOf, WaitHolds, WaitingFor, Ended, Detached, LifeOf
  <2>6. ASSUME NEW q \in Proc, q # p PROVE LifeStep(q)
    <3>1. events[i] # Event(q, "exit")
      BY <2>4, <2>6 DEF Event
    <3>2. ExitsOf(q)' = ExitsOf(q)
      BY <1>0, <1>1, <2>1, <2>3, <3>1, ExitKeptRemoved DEF LoopTypes
    <3>3. exitCbs'[q] = exitCbs[q]
      BY <1>0, <2>3, <2>6 DEF LoopTypes
    <3>4. QED
      BY <2>5, <3>2, <3>3 DEF LifeStep, Life!lifeVars
  <2>7. ExitsOf(p) = 1
    BY <1>1, <2>1, <2>4 DEF ExitIn
  <2>8. ExitsOf(p)' = 0
    <3>1. \A j \in DOMAIN events : j # i => events[j].proc # p
      <4>1. \A j \in DOMAIN events : i < j => events[j].proc # p
        BY <1>0, <2>1, <2>2 DEF ExitEvents
      <4>2. \A j \in DOMAIN events : j < i => events[j].proc # p
        BY <1>0, <1>7, <2>2, HandledFacts DEF HandleExit
      <4>3. QED
        BY <1>0, <4>1, <4>2 DEF LoopTypes
    <3>2. \A a \in DOMAIN events' : \E c \in DOMAIN events : c # i /\ events'[a] = events[c]
      BY <1>0, <2>1, <2>3, TakenFacts DEF LoopTypes
    <3>3. \A a \in DOMAIN events' : events'[a].proc # p
      BY <3>1, <3>2
    <3>4. ~ExitIn(p, events')
      BY <3>3 DEF ExitIn, Event
    <3>5. QED
      BY <1>1, <3>4
  <2>9. exitCbs'[p] = exitCbs[p] + 1
    BY <1>0, <2>3 DEF LoopTypes
  <2>10. Life(p)!CallBack
    BY <2>5, <2>7, <2>8, <2>9 DEF Life!CallBack
  <2>11. QED
    BY <2>6, <2>10 DEF LifeStep, Life!Next
<1>8. ASSUME NEW w \in setup.waits, WaitBegin(w.proc, w.ms) PROVE \A q \in Proc : LifeStep(q)
  <2>1. PICK p \in Proc : p = w.proc
    BY <1>0, SetupFacts
  <2>0. CASE refcount[p] = 0
    <3>1. /\ waiting = NotWaiting
          /\ waiting' = [NotWaiting EXCEPT !.proc = p, !.ms = w.ms, !.result = Status]
          /\ UNCHANGED <<child, refcount, noticed, events, exitCbs, exiting>>
      BY <1>8, <2>0, <2>1 DEF WaitBegin, childVars, loopVars
    <3>2. waiting.proc = "none" /\ waiting'.result # "none" /\ "none" \notin Proc
      BY <1>0, <3>1, SetupFacts DEF NotWaiting, Status
    <3>3. \A q \in Proc : WaitersOf(q)' = WaitersOf(q)
      BY <3>2 DEF WaitersOf, WaitHolds, WaitingFor
    <3>4. \A q \in Proc : (Ended(q)' <=> Ended(q)) /\ ExitsOf(q)' = ExitsOf(q)
      BY <1>2, <3>1 DEF Ended, Detached, ExitsOf
    <3>5. QED
      BY <3>1, <3>3, <3>4, LifeSame
  <2>12. SUFFICES ASSUME refcount[p] # 0 PROVE \A q \in Proc : LifeStep(q)
    BY <2>0
  <2>2. /\ waiting = NotWaiting /\ waiting' = [NotWaiting EXCEPT !.proc = p, !.ms = w.ms]
        /\ child[p] # "none" /\ refcount[p] > 0 /\ refcount' = [refcount EXCEPT ![p] = @ + 1]
        /\ UNCHANGED <<child, noticed, events, exitCbs, exiting>>
    BY <1>8, <2>1, <2>12 DEF WaitBegin, childVars, loopVars
  <2>3. waiting.proc = "none" /\ waiting'.proc = p /\ waiting'.result = "none" /\ "none" \notin Proc
    BY <1>0, <2>2, SetupFacts DEF NotWaiting
  <2>4. /\ WaitersOf(p) = 0 /\ WaitersOf(p)' = 1
        /\ \A q \in Proc : q # p => WaitersOf(q)' = WaitersOf(q)
    BY <2>3 DEF WaitersOf, WaitHolds, WaitingFor
  <2>5. \A q \in Proc : (Ended(q)' <=> Ended(q)) /\ ExitsOf(q)' = ExitsOf(q)
    BY <1>2, <2>2 DEF Ended, Detached, ExitsOf
  <2>6. refcount[p] \in Nat /\ refcount'[p] = refcount[p] + 1
        /\ \A q \in Proc : q # p => refcount'[q] = refcount[q]
    BY <1>0, <2>2 DEF ProcTypes
  <2>7. ASSUME NEW q \in Proc, q # p PROVE LifeStep(q)
    BY <2>2, <2>4, <2>5, <2>6, <2>7, LifeSame
  <2>8. refcount[p] # WaitersOf(p) /\ refcount'[p] # WaitersOf(p)'
    BY <2>2, <2>4, <2>6
  <2>9. LifeOf(p)' = LifeOf(p) /\ LifeOf(p) \in {"running", "ended"}
    BY <2>2, <2>5, <2>8 DEF LifeOf
  <2>10. Life(p)!WaitBegin
    BY <2>2, <2>4, <2>5, <2>9 DEF Life!WaitBegin, Life!Referred
  <2>11. QED
    BY <2>7, <2>10 DEF LifeStep, Life!Next
<1>9. CASE WaitExited
  <2>1. PICK p \in Proc : p = waiting.proc
    BY <1>0, <1>9, WaitFacts DEF WaitExited, WaitPolls
  <2>2. /\ refcount[p] = 1 /\ Released(p, 1, events) /\ WaitHolds(p)
        /\ waiting' = [waiting EXCEPT !.result = IF waiting.interrupted THEN "-2" ELSE Status]
        /\ UNCHANGED <<child, noticed, exitCbs, exiting>>
    BY <1>9, <2>1 DEF WaitExited, WaitPolls, WaitHolds, WaitingFor, childVars
  <2>3. waiting'.proc = p /\ waiting'.result # "none"
    BY <1>0, <2>1, <2>2 DEF WaitTypes, Status
  <2>4. /\ WaitersOf(p) = 1 /\ WaitersOf(p)' = 0
        /\ \A q \in Proc : q # p => WaitersOf(q)' = WaitersOf(q)
    BY <2>1, <2>2, <2>3 DEF WaitersOf, WaitHolds, WaitingFor
  <2>5. /\ refcount'[p] = 0 /\ \A q \in Proc : q # p => refcount'[q] = refcount[q]
        /\ events' = Append(events, Event(p, "exit")) /\ Event(p, "exit") \in ProcEvent
    BY <1>0, <2>2, ReleasedFacts DEF ProcTypes, LoopTypes
  <2>6. \A q \in Proc : ExitIn(q, events') <=> ExitIn(q, events) \/ q = p
    <3>1. \A q \in Proc : Event(p, "exit") = Event(q, "exit") <=> q = p
      BY DEF Event
    <3>2. \A q \in Proc : ExitIn(q, events') <=> ExitIn(q, events) \/ Event(p, "exit") = Event(q, "exit")
      BY <1>0, <2>5, ExitAppended DEF LoopTypes
    <3>3. QED
      BY <3>1, <3>2
  <2>7. \A q \in Proc : Ended(q)' <=> Ended(q)
    BY <1>2, <2>2 DEF Ended, Detached
  <2>8. ASSUME NEW q \in Proc, q # p PROVE LifeStep(q)
    <3>1. ExitsOf(q)' = ExitsOf(q)
      BY <1>1, <2>6, <2>8
    <3>2. QED
      BY <2>2, <2>4, <2>5, <2>7, <2>8, <3>1, LifeSame
  <2>9. child[p] # "none"
    BY <1>0, <2>2, ChildIsBorn
  <2>10. LifeOf(p) = "gone" /\ LifeOf(p)' = "gone"
    BY <2>2, <2>4, <2>5, <2>9 DEF LifeOf
  <2>11. ~ExitIn(p, events)
    <3>1. \A i \in DOMAIN events : events[i] # Event(p, "exit")
      BY <1>0, <2>2 DEF ExitEvents, Event
    <3>2. QED
      BY <3>1 DEF ExitIn
  <2>12. ExitsOf(p) = 0 /\ ExitsOf(p)' = 1
    BY <1>1, <2>6, <2>11
  <2>13. Life(p)!WaitEnd
    BY <2>2, <2>4, <2>10, <2>12 DEF Life!WaitEnd, Life!Release
  <2>14. QED
    BY <2>8, <2>13 DEF LifeStep, Life!Next
<1>10. CASE WaitGivesUp
  <2>1. PICK p \in Proc : p = waiting.proc
    BY <1>0, <1>10, WaitFacts DEF WaitGivesUp, WaitPolls
  <2>2. /\ WaitHolds(p) /\ refcount[p] # 1 /\ refcount' = [refcount EXCEPT ![p] = @ - 1]
        /\ waiting' = NotWaiting /\ UNCHANGED <<child, noticed, events, exitCbs, exiting>>
    BY <1>10, <2>1 DEF WaitGivesUp, WaitPolls, loopVars, childVars, WaitHolds, WaitingFor
  <2>3. waiting'.proc = "none" /\ "none" \notin Proc
    BY <1>0, <2>2, SetupFacts DEF NotWaiting
  <2>4. /\ WaitersOf(p) = 1 /\ WaitersOf(p)' = 0
        /\ \A q \in Proc : q # p => WaitersOf(q)' = WaitersOf(q)
    BY <2>1, <2>2, <2>3 DEF WaitersOf, WaitHolds, WaitingFor
  <2>5. refcount[p] >= 1 /\ refcount[p] \in Nat
    BY <1>0, <2>2, RefPositive DEF ProcTypes
  <2>6. refcount'[p] = refcount[p] - 1 /\ \A q \in Proc : q # p => refcount'[q] = refcount[q]
    BY <1>0, <2>2 DEF ProcTypes
  <2>7. \A q \in Proc : (Ended(q)' <=> Ended(q)) /\ ExitsOf(q)' = ExitsOf(q)
    BY <1>2, <2>2 DEF Ended, Detached, ExitsOf
  <2>8. ASSUME NEW q \in Proc, q # p PROVE LifeStep(q)
    BY <2>2, <2>4, <2>6, <2>7, <2>8, LifeSame
  <2>9. child[p] # "none"
    BY <1>0, <2>5, ChildIsBorn
  <2>10. refcount[p] # WaitersOf(p) /\ refcount'[p] # WaitersOf(p)'
    BY <2>2, <2>4, <2>5, <2>6
  <2>11. LifeOf(p)' = LifeOf(p) /\ LifeOf(p) # "gone"
    BY <2>2, <2>7, <2>9, <2>10 DEF LifeOf
  <2>12. Life(p)!GiveUp
    BY <2>2, <2>4, <2>7, <2>11 DEF Life!GiveUp
  <2>13. QED
    BY <2>8, <2>12 DEF LifeStep, Life!Next
<1>11. CASE Sigchld
  <2>1. PICK found, dead \in SUBSET Proc :
          /\ \A p \in dead : child[p] = "zombie"
          /\ child' = [p \in Proc |-> IF p \in dead THEN "reaped" ELSE child[p]]
          /\ noticed' = [p \in Proc |-> noticed[p] \/ p \in found]
          /\ events' = events \o CloseEvents(found)
    BY <1>0, <1>11, SigchldFacts
  <2>2. UNCHANGED <<refcount, exitCbs, waiting, exiting>>
    BY <1>11 DEF Sigchld, waitVars
  <2>3. ASSUME NEW p \in Proc PROVE LifeStep(p)
    <3>1. ExitsOf(p)' = ExitsOf(p)
      BY <1>0, <1>1, <2>1, ExitKeptClosed DEF LoopTypes
    <3>2. WaitersOf(p)' = WaitersOf(p)
      BY <2>2 DEF WaitersOf, WaitHolds, WaitingFor
    <3>3. (child'[p] = "none" <=> child[p] = "none") /\ (Ended(p) => Ended(p)')
      BY <1>2, <2>1, <2>2 DEF Ended, Detached
    <3>4. LifeOf(p)' = LifeOf(p) \/ (LifeOf(p) = "running" /\ LifeOf(p)' = "ended")
      BY <2>2, <3>2, <3>3 DEF LifeOf
    <3>5. CASE LifeOf(p)' = LifeOf(p)
      BY <2>2, <3>1, <3>2, <3>5 DEF LifeStep, Life!lifeVars
    <3>6. CASE LifeOf(p) = "running" /\ LifeOf(p)' = "ended"
      BY <2>2, <3>1, <3>2, <3>6 DEF LifeStep, Life!Next, Life!End
    <3>7. QED
      BY <3>4, <3>5, <3>6
  <2>4. QED
    BY <2>3
<1>12. CASE Teardown
  <2>1. /\ exiting = "no" /\ exiting' = "teardown"
        /\ events' = events \o CloseEvents(children \cap Detached)
        /\ UNCHANGED <<child, refcount, noticed, exitCbs, waiting>>
    BY <1>12, Zenon DEF Teardown, CloseEvents, childVars, waitVars
  <2>2. children \cap Detached \in SUBSET Proc
    BY <1>0 DEF LoopTypes
  <2>3. ASSUME NEW p \in Proc PROVE LifeStep(p)
    <3>1. ExitsOf(p)' = ExitsOf(p)
      BY <1>0, <1>1, <2>1, <2>2, ExitKeptClosed DEF LoopTypes
    <3>2. WaitersOf(p)' = WaitersOf(p)
      BY <2>1 DEF WaitersOf, WaitHolds, WaitingFor
    <3>3. Ended(p) => Ended(p)'
      BY <1>2, <2>1 DEF Ended, Detached
    <3>4. LifeOf(p)' = LifeOf(p) \/ (LifeOf(p) = "running" /\ LifeOf(p)' = "ended")
      BY <2>1, <3>2, <3>3 DEF LifeOf
    <3>5. CASE LifeOf(p)' = LifeOf(p)
      BY <2>1, <3>1, <3>2, <3>5 DEF LifeStep, Life!lifeVars
    <3>6. CASE LifeOf(p) = "running" /\ LifeOf(p)' = "ended"
      BY <2>1, <3>1, <3>2, <3>6 DEF LifeStep, Life!Next, Life!End
    <3>7. QED
      BY <3>4, <3>5, <3>6
  <2>4. QED
    BY <2>3
<1>13. CASE WaitReturn
  <2>1. /\ waiting.result # "none" /\ waiting' = NotWaiting
        /\ UNCHANGED <<child, refcount, noticed, events, exitCbs, exiting>>
    BY <1>13 DEF WaitReturn, childVars, procVars, loopVars
  <2>2. \A p \in Proc : WaitersOf(p) = 0 /\ WaitersOf(p)' = 0
    BY <1>0, <2>1, SetupFacts DEF WaitersOf, WaitHolds, WaitingFor, NotWaiting
  <2>3. \A p \in Proc : (Ended(p)' <=> Ended(p)) /\ ExitsOf(p)' = ExitsOf(p)
    BY <1>2, <2>1 DEF Ended, Detached, ExitsOf
  <2>4. QED
    BY <2>1, <2>2, <2>3, LifeSame
<1>14. CASE /\ UNCHANGED <<refcount, noticed, events, exitCbs>>
            /\ \A p \in Proc : child'[p] = "none" <=> child[p] = "none"
            /\ exiting' = "no" <=> exiting = "no"
            /\ waiting'.proc = waiting.proc /\ waiting'.result = waiting.result
  <2>1. \A p \in Proc : /\ WaitersOf(p)' = WaitersOf(p) /\ (Ended(p)' <=> Ended(p))
                        /\ ExitsOf(p)' = ExitsOf(p)
    BY <1>2, <1>14 DEF WaitersOf, WaitHolds, WaitingFor, Ended, Detached, ExitsOf
  <2>2. QED
    BY <1>14, <2>1, LifeSame
<1>15. CASE \E p \in Proc : ChildExits(p)
  <2>1. PICK p \in Proc : ChildExits(p)
    BY <1>15
  <2>2. /\ child[p] = "running" /\ child' = [child EXCEPT ![p] = "zombie"]
        /\ UNCHANGED <<refcount, noticed, events, exitCbs, exiting, waiting>>
    BY <2>1 DEF ChildExits, procVars, loopVars, waitVars
  <2>3. \A q \in Proc : child'[q] = "none" <=> child[q] = "none"
    BY <1>0, <2>2 DEF ChildTypes
  <2>4. QED
    BY <1>14, <2>2, <2>3
<1>16. CASE WaitInterrupted
  <2>1. /\ waiting' = [waiting EXCEPT !.interrupted = TRUE]
        /\ UNCHANGED <<child, refcount, noticed, events, exitCbs, exiting>>
    BY <1>16 DEF WaitInterrupted, WaitPolls, childVars
  <2>2. waiting'.proc = waiting.proc /\ waiting'.result = waiting.result
    BY <1>0, <2>1 DEF WaitTypes
  <2>3. QED
    BY <1>14, <2>1, <2>2
<1>17. CASE TeardownEnd
  <2>1. /\ exiting = "teardown" /\ exiting' = "done"
        /\ UNCHANGED <<child, refcount, noticed, events, exitCbs, waiting>>
    BY <1>17 DEF TeardownEnd, childVars, procVars, loopVars, waitVars
  <2>2. QED
    BY <1>14, <2>1
<1>18. CASE UNCHANGED <<child, refcount, noticed, events, exitCbs, exiting, waiting>>
  BY <1>14, <1>18
<1>19. CASE \E p \in Proc : TimePasses(p) \/ Stop(p)
  BY <1>18, <1>19 DEF TimePasses, Stop, childVars, loopVars, waitVars
<1>20. CASE \E p \in Proc, s \in Streams : CloseStream(p, s)
  BY <1>18, <1>20 DEF CloseStream, childVars, loopVars, waitVars
<1>21. CASE KillTick \/ Interrupt
  BY <1>18, <1>21 DEF KillTick, Interrupt, childVars, procVars, loopVars, waitVars
<1>22. CASE UNCHANGED processVars
  BY <1>18, <1>22 DEF processVars, stateVars, childVars, procVars, loopVars, waitVars
<1>23. QED
  BY <1>3, <1>4, <1>5, <1>6, <1>7, <1>8, <1>9, <1>10, <1>11, <1>12, <1>13, <1>15, <1>16, <1>17,
     <1>19, <1>20, <1>21, <1>22 DEF Next, Step

LEMMA LifeStarts ==
  ASSUME Init, NEW p \in Proc
  PROVE  Life(p)!Init
<1>1. child[p] = "none" /\ exitCbs[p] = 0 /\ events = <<>> /\ waiting.proc = "none" /\ p # "none"
  BY ProcessAssumption DEF Init, NotWaiting
<1>2. WaitersOf(p) = 0 /\ ExitsOf(p) = 0 /\ LifeOf(p) = "none"
  BY <1>1 DEF WaitersOf, WaitHolds, WaitingFor, ExitsOf, LifeOf
<1>3. QED
  BY <1>1, <1>2 DEF Life!Init

\* Every process lives the life of ProcessLife: ImplementsLife, and what it
\* stands for, the specification ProcessLife of each process.
THEOREM LifeRefinement == Spec => ImplementsLife /\ \A p \in Proc : Life(p)!Spec
<1>1. Init => \A p \in Proc : Life(p)!Init
  BY LifeStarts
<1>2. IndInv /\ [Next]_processVars => \A p \in Proc : [Life(p)!Next]_(Life(p)!lifeVars)
  BY LifeSteps DEF LifeStep
<1>3. Spec => ImplementsLife
  BY <1>1, <1>2, Inductive, PTL DEF Spec, ImplementsLife
<1>4. ASSUME NEW p \in Proc PROVE Spec => Life(p)!Spec
  <2>1. Init => Life(p)!Init
    BY LifeStarts
  <2>2. IndInv /\ [Next]_processVars => [Life(p)!Next]_(Life(p)!lifeVars)
    BY LifeSteps DEF LifeStep
  <2>3. QED
    BY <2>1, <2>2, Inductive, PTL DEF Spec, Life!Spec
<1>5. QED
  BY <1>3, <1>4
==============================================================================
