--------------------------- MODULE ConsoleProofs ---------------------------
(***************************************************************************)
(* What serves the dashboards and the administrators, for any number of    *)
(* pods, dashboards, messages, tokens and requests: the mode switcher, the *)
(* producer of the simulation, the reset tokens and the broadcasts.        *)
(***************************************************************************)
EXTENDS MCConsole, FiniteSetTheorems, FunctionTheorems, TLAPS

(* The mode switcher *)

\* A switch that has come to its "up" has taken the other stack down, or could
\* not and left a note of it.
OtherStackIsDown ==
  \A s \in switches : s.at \in {"up", "again"} =>
    TakenDown(s.mode) \notin stacks \/ TakenDown(s.mode) \in undone

SwitchInv == SwitcherTypeOK /\ OneSwitchAtATime /\ OtherStackIsDown /\ StacksExclude

\* There are two modes.
LEMMA TwoModes ==
  ASSUME NEW m \in Modes
  PROVE  /\ TakenDown(m) \in Modes /\ TakenDown(m) # m
         /\ \A o \in Modes : o = m \/ o = TakenDown(m)
<1>1. \E o \in Modes : o # m
  BY DEF Modes
<1>2. OtherMode(m) \in Modes /\ OtherMode(m) # m
  BY <1>1 DEF OtherMode
<1>3. QED
  BY <1>2 DEF TakenDown, Modes

\* At the start no switch runs and one stack at most is up.
LEMMA SwitchInit == SwitcherInit => SwitchInv
<1> SUFFICES ASSUME SwitcherInit PROVE SwitchInv
  OBVIOUS
<1>0. stacks \subseteq Modes /\ undone \subseteq Modes
  BY DEF SwitcherInit, Modes
<1>1. SwitcherTypeOK
  <2>1. busy \in BOOLEAN /\ switches = {}
    BY DEF SwitcherInit
  <2>2. posts \in [Callers -> Modes \union {"none"}]
    BY DEF SwitcherInit
  <2>3. {switched, broken} \subseteq Nat
    BY DEF SwitcherInit
  <2>4. QED
    BY <1>0, <2>1, <2>2, <2>3 DEF SwitcherTypeOK
<1>2. OneSwitchAtATime
  BY DEF SwitcherInit, OneSwitchAtATime
<1>3. OtherStackIsDown
  BY DEF SwitcherInit, OtherStackIsDown
<1>4. ~ ("live" \in stacks /\ "portal" \in stacks)
  BY DEF SwitcherInit
<1>5. QED
  BY <1>1, <1>2, <1>3, <1>4 DEF SwitchInv, StacksExclude, Modes

\* A request waits, or is served: it starts a switch only if none runs.
LEMMA RequestKeeps ==
  ASSUME SwitchInv, NEW c \in Callers, Serve(c) \/ \E m \in Modes : Post(c, m)
  PROVE  SwitchInv'
<1> USE DEF SwitchInv, SwitcherTypeOK, OneSwitchAtATime, OtherStackIsDown, StacksExclude
<1>1. CASE \E m \in Modes : Post(c, m)
  BY <1>1 DEF Post
<1>2. CASE Serve(c) /\ busy
  BY <1>2 DEF Serve
<1>3. CASE Serve(c) /\ ~ busy
  <2> DEFINE new == [id |-> switched, mode |-> posts[c], at |-> "down"]
  <2>1. posts[c] \in Modes /\ switched \in Nat
    BY <1>3 DEF Serve
  <2>2. switches' = {new} /\ busy' = TRUE /\ switched' = switched + 1
    BY <1>3 DEF Serve
  <2>3. SwitcherTypeOK'
    BY <1>3, <2>1, <2>2 DEF Serve
  <2>4. QED
    BY <1>3, <2>2, <2>3 DEF Serve
<1>4. QED
  BY <1>1, <1>2, <1>3

\* The "down" of a switch leaves the other stack down, or noted.
LEMMA DownKeeps ==
  ASSUME SwitchInv, NEW s \in switches, Down(s)
  PROVE  SwitchInv'
<1> USE DEF SwitchInv, SwitcherTypeOK, OneSwitchAtATime, OtherStackIsDown, StacksExclude
<1> DEFINE next == [s EXCEPT !.at = "up"]
<1>1. s \in [id : Nat, mode : Modes, at : {"down", "up", "again"}] /\ switches = {s}
  OBVIOUS
<1>2. switches' = {next} /\ next.mode = s.mode /\ next \in [id : Nat, mode : Modes, at : {"up"}]
  BY <1>1 DEF Down, Continue
<1>3. TakenDown(s.mode) \in Modes
  BY <1>1, TwoModes
<1>4. SwitcherTypeOK'
  BY <1>1, <1>2, <1>3 DEF Down, Continue, Fault
<1>5. OneSwitchAtATime'
  BY <1>1, <1>2 DEF Down, Continue
<1>6. OtherStackIsDown' /\ StacksExclude'
  <2>1. CASE stacks' = stacks \ {TakenDown(s.mode)}
    BY <2>1, <1>2, <1>3 DEF Down
  <2>2. CASE undone' = undone \union {TakenDown(s.mode)} /\ UNCHANGED stacks
    BY <2>2, <1>2
  <2>3. QED
    BY <2>1, <2>2 DEF Down
<1>7. QED
  BY <1>4, <1>5, <1>6

\* The "up" adds the stack of the switch to at most a stack that is noted.
LEMMA UpKeeps ==
  ASSUME SwitchInv, NEW s \in switches, Up(s)
  PROVE  SwitchInv'
<1> USE DEF SwitchInv, SwitcherTypeOK, OneSwitchAtATime, OtherStackIsDown, StacksExclude
<1>1. s \in [id : Nat, mode : Modes, at : {"down", "up", "again"}] /\ switches = {s}
  OBVIOUS
<1>2. /\ TakenDown(s.mode) \in Modes /\ TakenDown(s.mode) # s.mode
      /\ \A o \in Modes : o = s.mode \/ o = TakenDown(s.mode)
  BY <1>1, TwoModes
<1>3. /\ s.at \in {"up", "again"} /\ UNCHANGED <<undone, posts, switched>>
      /\ stacks' \in {stacks, stacks \union {s.mode}} /\ stacks' \subseteq Modes
  BY <1>1 DEF Up
<1>4. TakenDown(s.mode) \notin stacks' \/ TakenDown(s.mode) \in undone'
  BY <1>1, <1>2, <1>3
<1>5. StacksExclude'
  BY <1>2, <1>4
<1>6. broken' \in Nat
  BY DEF Up, Fault
<1>7. CASE End(s)
  <2>1. switches' = {} /\ busy' = FALSE
    BY <1>1, <1>7 DEF End
  <2>2. SwitcherTypeOK'
    BY <1>3, <1>6, <2>1
  <2>3. OneSwitchAtATime' /\ OtherStackIsDown'
    BY <2>1
  <2>4. QED
    BY <1>5, <2>2, <2>3
<1>8. CASE Continue(s, "again")
  <2> DEFINE next == [s EXCEPT !.at = "again"]
  <2>1. switches' = {next} /\ next.mode = s.mode /\ next \in [id : Nat, mode : Modes, at : {"again"}]
    BY <1>1, <1>8 DEF Continue
  <2>2. SwitcherTypeOK' /\ OneSwitchAtATime'
    BY <1>1, <1>3, <1>6, <1>8, <2>1 DEF Continue
  <2>3. QED
    BY <1>4, <1>5, <2>1, <2>2
<1>9. QED
  BY <1>7, <1>8 DEF Up

\* A switch that is cut off ends, and notes a "down" that it did not finish.
LEMMA TimeoutKeeps ==
  ASSUME SwitchInv, NEW s \in switches, TimesOut(s)
  PROVE  SwitchInv'
<1> USE DEF SwitchInv, SwitcherTypeOK, OneSwitchAtATime, OtherStackIsDown, StacksExclude
<1>1. s \in [id : Nat, mode : Modes, at : {"down", "up", "again"}] /\ switches = {s}
  OBVIOUS
<1>2. /\ TakenDown(s.mode) \in Modes /\ TakenDown(s.mode) # s.mode
      /\ \A o \in Modes : o = s.mode \/ o = TakenDown(s.mode)
  BY <1>1, TwoModes
<1>3. switches' = {} /\ busy' = FALSE /\ broken' \in Nat /\ UNCHANGED <<posts, switched>>
  BY <1>1 DEF TimesOut, End, Fault
<1>4. stacks' \subseteq Modes /\ undone' \subseteq Modes /\ StacksExclude'
  <2>1. CASE s.at = "down"
    BY <1>2, <2>1 DEF TimesOut
  <2>2. CASE s.at # "down"
    <3>1. s.at \in {"up", "again"} /\ undone' = undone /\ stacks' \in {stacks, stacks \union {s.mode}}
      BY <1>1, <2>2 DEF TimesOut
    <3>2. TakenDown(s.mode) \notin stacks' \/ TakenDown(s.mode) \in undone'
      BY <1>2, <3>1
    <3>3. QED
      BY <1>1, <1>2, <3>1, <3>2
  <2>3. QED
    BY <2>1, <2>2
<1>5. SwitcherTypeOK'
  BY <1>3, <1>4
<1>6. OneSwitchAtATime' /\ OtherStackIsDown'
  BY <1>3
<1>7. QED
  BY <1>4, <1>5, <1>6

\* Every step of the server keeps it.
LEMMA SwitchStep == SwitchInv /\ [SwitcherNext]_switcherVars => SwitchInv'
<1> SUFFICES ASSUME SwitchInv, [SwitcherNext]_switcherVars
             PROVE  SwitchInv'
  OBVIOUS
<1>1. CASE \E c \in Callers : Serve(c) \/ \E m \in Modes : Post(c, m)
  BY <1>1, RequestKeeps
<1>2. CASE \E s \in switches : Down(s) \/ Up(s) \/ TimesOut(s)
  BY <1>2, DownKeeps, UpKeeps, TimeoutKeeps
<1>3. CASE UNCHANGED switcherVars
  BY <1>3 DEF switcherVars, SwitchInv, SwitcherTypeOK, OneSwitchAtATime, OtherStackIsDown,
     StacksExclude
<1>4. QED
  BY <1>1, <1>2, <1>3 DEF SwitcherNext

\* It holds throughout.
LEMMA SwitchInvariant == SwitcherSpec => []SwitchInv
BY SwitchInit, SwitchStep, PTL DEF SwitcherSpec

\* The lock around _busy and the "finally" of _run_switch: requests at the same
\* time start one switch, and the server is busy exactly as long as it runs.
THEOREM SwitchesExclude == SwitcherSpec => []OneSwitchAtATime
BY SwitchInvariant, PTL DEF SwitchInv

\* The order of _run_switch: both stacks run together only after a "down" failed.
THEOREM StacksAreExclusive == SwitcherSpec => []StacksExclude
BY SwitchInvariant, PTL DEF SwitchInv

-----------------------------------------------------------------------------
(* The producer of the simulation *)

\* Tasks are counted; one at most runs, and one if somebody watches.
ProducerInv ==
  /\ SimTypeOK /\ producers \in [SimPods -> [TaskStates -> Nat]] /\ OneProducerPerPod

\* A load never moves a position forward past what was produced.
StreamInv(p) ==
  /\ errors = 0 \/ simResets = 0 =>
       /\ \A n \in Nat : n < index[p] \/ n < saved => n \in produced
       /\ producers[p]["inline"] > 0 => index[p] \in produced
  /\ simResets = 0 => saved <= index[p]
  /\ errors = 0 =>
       /\ batch[p] < SaveEvery
       /\ index[p] > 0 \/ producers[p]["looping"] > 0 \/ producers[p]["inline"] > 0 =>
            saved <= index[p] /\ index[p] <= saved + batch[p]

Alone == \A p, q \in SimPods : p = q
SimInv == ProducerInv /\ (Alone => \A p \in SimPods : StreamInv(p))

\* A task that moves from one state to another.
LEMMA MovesCounts ==
  ASSUME ProducerInv, NEW p \in SimPods, NEW from \in TaskStates, NEW to, Moves(p, from, to)
  PROVE  /\ producers' \in [SimPods -> [TaskStates -> Nat]] /\ producers[p][from] > 0
         /\ \A s \in TaskStates : producers'[p][s] =
              producers[p][s] - (IF s = from THEN 1 ELSE 0) + (IF s = to THEN 1 ELSE 0)
         /\ \A q \in SimPods : q # p => producers'[q] = producers[q]
<1>1. producers \in [SimPods -> [TaskStates -> Nat]]
  BY DEF ProducerInv
<1>2. /\ producers[p][from] > 0
      /\ producers' = [producers EXCEPT ![p] =
           [s \in TaskStates |-> producers[p][s] - (IF s = from THEN 1 ELSE 0) + (IF s = to THEN 1 ELSE 0)]]
  BY DEF Moves
<1>3. [s \in TaskStates |-> producers[p][s] - (IF s = from THEN 1 ELSE 0) + (IF s = to THEN 1 ELSE 0)]
        \in [TaskStates -> Nat]
  BY <1>1, <1>2
<1>4. QED
  BY <1>1, <1>2, <1>3

\* The states of a task exclude each other.
LEMMA TasksExclude ==
  ASSUME ProducerInv, NEW p \in SimPods
  PROVE  /\ producers[p]["created"] \in Nat /\ producers[p]["looping"] \in Nat /\ producers[p]["inline"] \in Nat
         /\ producers[p]["created"] + producers[p]["looping"] + producers[p]["inline"] <= 1
         /\ producers[p]["created"] > 0 => producers[p]["looping"] = 0 /\ producers[p]["inline"] = 0
         /\ producers[p]["looping"] > 0 => producers[p]["created"] = 0 /\ producers[p]["inline"] = 0
         /\ producers[p]["inline"] > 0 => producers[p]["created"] = 0 /\ producers[p]["looping"] = 0
<1>1. /\ producers[p]["created"] \in Nat /\ producers[p]["looping"] \in Nat /\ producers[p]["inline"] \in Nat
  BY DEF ProducerInv, TaskStates
<1>2. producers[p]["created"] + producers[p]["looping"] + producers[p]["inline"] <= 1
  BY DEF ProducerInv, OneProducerPerPod, Running
<1>3. QED
  BY <1>1, <1>2

\* Nobody watches and nothing is produced at the start.
LEMMA SimStart == SimInit => SimInv
<1> SUFFICES ASSUME SimInit PROVE SimInv
  OBVIOUS
<1>1. NoTask \in [TaskStates -> Nat] /\ \A s \in TaskStates : NoTask[s] = 0
  BY DEF NoTask
<1>2. \A p \in SimPods : producers[p] = NoTask /\ watching[p] = {} /\ index[p] = 0 /\ batch[p] = 0
  BY DEF SimInit
<1>3. ProducerInv
  BY <1>1, <1>2 DEF SimInit, ProducerInv, SimTypeOK, OneProducerPerPod, Running, TaskStates
<1>4. \A p \in SimPods : StreamInv(p)
  BY <1>1, <1>2, ProducerConstantsOK DEF SimInit, StreamInv, TaskStates
<1>5. QED
  BY <1>3, <1>4 DEF SimInv

\* Connections: the list and the producer change together.
LEMMA WatchersKeep ==
  ASSUME SimInv, NEW p \in SimPods, NEW w \in Watchers, Greet(p, w) \/ Greeted(p, w) \/ Disconnect(p, w)
  PROVE  SimInv'
<1>1. CASE Greet(p, w)
  <2>1. ProducerInv'
    BY <1>1 DEF Greet, Load, SimError, SimInv, ProducerInv, SimTypeOK, OneProducerPerPod, Running
  <2>2. ASSUME Alone PROVE StreamInv(p)'
    <3>1. /\ StreamInv(p) /\ index \in [SimPods -> Nat] /\ saved \in Nat /\ errors \in Nat /\ batch[p] \in Nat
          /\ index[p] \in Nat
          /\ UNCHANGED <<batch, saved, producers, produced, simResets>>
      BY <1>1, <2>2 DEF Greet, SimInv, ProducerInv, SimTypeOK
    <3>2. \/ index'[p] = saved /\ errors' = errors
          \/ index'[p] = index[p] /\ errors' = errors + 1
      BY <1>1, <3>1 DEF Greet, Load, SimError
    <3>3. CASE index'[p] = saved /\ errors' = errors
      <4>1. (errors = 0 \/ simResets = 0) /\ producers[p]["inline"] > 0 => saved \in produced
        <5>1. (errors = 0 \/ simResets = 0) /\ producers[p]["inline"] > 0 => saved < index[p] \/ saved = index[p]
          BY <3>1 DEF StreamInv
        <5>2. QED
          BY <3>1, <5>1 DEF StreamInv
      <4>2. QED
        BY <3>1, <3>3, <4>1 DEF StreamInv
    <3>4. CASE index'[p] = index[p] /\ errors' = errors + 1
      BY <3>1, <3>4 DEF StreamInv
    <3>5. QED
      BY <3>2, <3>3, <3>4
  <2>3. QED
    BY <2>1, <2>2 DEF SimInv, Alone
<1>2. CASE Greeted(p, w)
  <2> DEFINE started == [producers EXCEPT ![p]["created"] = @ + 1]
  <2>1. producers' = IF Running(p) = 0 THEN started ELSE producers
    BY <1>2 DEF Greeted, positionVars, MayStart
  <2>2. /\ started \in [SimPods -> [TaskStates -> Nat]]
        /\ started[p]["created"] = producers[p]["created"] + 1
        /\ started[p]["looping"] = producers[p]["looping"] /\ started[p]["inline"] = producers[p]["inline"]
        /\ \A q \in SimPods : q # p => started[q] = producers[q]
    BY DEF SimInv, ProducerInv, TaskStates
  <2>3. producers[p] \in [TaskStates -> Nat]
    BY DEF SimInv, ProducerInv
  <2> HIDE DEF started
  <2>4. OneProducerPerPod'
    <3>1. ASSUME NEW q \in SimPods, q # p
          PROVE  producers'[q] = producers[q] /\ watching'[q] = watching[q]
      BY <1>2, <2>1, <2>2, <3>1 DEF Greeted, SimInv, ProducerInv, SimTypeOK
    <3>2. Running(p) <= 1 /\ Running(p) \in Nat
      BY <2>3 DEF SimInv, ProducerInv, OneProducerPerPod, Running, TaskStates
    <3>3. started[p]["created"] + started[p]["looping"] + started[p]["inline"] = Running(p) + 1
      BY <2>2, <2>3 DEF Running, TaskStates
    <3>4. Running(p)' = 1
      BY <2>1, <3>2, <3>3 DEF Running
    <3>5. QED
      BY <3>1, <3>4 DEF SimInv, ProducerInv, OneProducerPerPod, Running
  <2>5. ProducerInv'
    <3>1. producers \in [SimPods -> [TaskStates -> Nat]] /\ SimTypeOK
      BY DEF SimInv, ProducerInv
    <3>2. producers' \in [SimPods -> [TaskStates -> Nat]]
      BY <2>1, <2>2, <3>1
    <3>3. SimTypeOK'
      BY <1>2, <3>1, <3>2 DEF Greeted, positionVars, SimTypeOK
    <3>4. QED
      BY <2>4, <3>2, <3>3 DEF ProducerInv
  <2>6. ASSUME Alone PROVE StreamInv(p)'
    BY <1>2, <2>1, <2>2, <2>6 DEF Greeted, positionVars, SimInv, StreamInv
  <2>7. QED
    BY <2>5, <2>6 DEF SimInv, Alone
<1>3. CASE Disconnect(p, w)
  <2>1. ProducerInv'
    BY <1>3 DEF Disconnect, positionVars, SimInv, ProducerInv, SimTypeOK, OneProducerPerPod, Running
  <2>2. ASSUME Alone PROVE StreamInv(p)'
    BY <1>3, <2>2 DEF Disconnect, positionVars, SimInv, StreamInv
  <2>3. QED
    BY <2>1, <2>2 DEF SimInv, Alone
<1>4. QED
  BY <1>1, <1>2, <1>3

\* A position that is loaded.
LEMMA BeginKeeps ==
  ASSUME SimInv, NEW p \in SimPods, BeginLoop(p)
  PROVE  SimInv'
<1>1. /\ producers' \in [SimPods -> [TaskStates -> Nat]]
      /\ producers'[p]["created"] = producers[p]["created"] - 1 /\ producers[p]["created"] > 0
      /\ producers'[p]["looping"] = producers[p]["looping"] + 1
      /\ producers'[p]["inline"] = producers[p]["inline"]
      /\ \A q \in SimPods : q # p => producers'[q] = producers[q]
  <2>1. "created" \in TaskStates /\ "looping" \in TaskStates /\ "inline" \in TaskStates
    BY DEF TaskStates
  <2>2. \A s \in TaskStates : producers[p][s] \in Nat
    BY DEF SimInv, ProducerInv
  <2>3. QED
    BY <2>1, <2>2, MovesCounts DEF BeginLoop, SimInv
<1>2. producers[p]["created"] \in Nat /\ producers[p]["looping"] \in Nat /\ producers[p]["inline"] \in Nat
  BY DEF SimInv, ProducerInv, TaskStates
<1>3. OneProducerPerPod'
  BY <1>1, <1>2 DEF BeginLoop, watcherVars, SimInv, ProducerInv, OneProducerPerPod, Running
<1>4. ProducerInv'
  BY <1>1, <1>3 DEF BeginLoop, Load, SimError, watcherVars, SimInv, ProducerInv, SimTypeOK
<1>5. ASSUME Alone PROVE StreamInv(p)'
  <2>1. producers'[p]["inline"] = 0
    BY <1>1, <1>2, TasksExclude DEF SimInv
  <2>2. /\ saved \in Nat /\ index[p] \in Nat /\ batch[p] \in Nat /\ errors \in Nat /\ StreamInv(p)
        /\ UNCHANGED <<saved, batch[p], produced, simResets>>
    BY <1>5 DEF BeginLoop, SimInv, ProducerInv, SimTypeOK
  <2>3. \/ index'[p] = saved /\ errors' = errors
        \/ index'[p] = index[p] /\ errors' = errors + 1
    BY DEF BeginLoop, Load, SimError, SimInv, ProducerInv, SimTypeOK
  <2>4. CASE index'[p] = saved /\ errors' = errors
    BY <2>1, <2>2, <2>4 DEF StreamInv
  <2>5. CASE index'[p] = index[p] /\ errors' = errors + 1
    BY <2>1, <2>2, <2>5 DEF StreamInv
  <2>6. QED
    BY <2>3, <2>4, <2>5
<1>6. QED
  BY <1>4, <1>5 DEF SimInv, Alone

\* A loop that ends: nobody watches.
LEMMA EndKeeps ==
  ASSUME SimInv, NEW p \in SimPods, EndLoop(p)
  PROVE  SimInv'
<1>1. /\ producers' \in [SimPods -> [TaskStates -> Nat]]
      /\ producers'[p]["created"] = producers[p]["created"]
      /\ producers'[p]["looping"] = producers[p]["looping"] - 1 /\ producers[p]["looping"] > 0
      /\ producers'[p]["inline"] = producers[p]["inline"]
      /\ \A q \in SimPods : q # p => producers'[q] = producers[q]
  <2>1. /\ "created" \in TaskStates /\ "looping" \in TaskStates /\ "inline" \in TaskStates
        /\ "ended" \notin TaskStates
    BY DEF TaskStates
  <2>2. \A s \in TaskStates : producers[p][s] \in Nat
    BY DEF SimInv, ProducerInv
  <2>3. QED
    BY <2>1, <2>2, MovesCounts DEF EndLoop, SimInv
<1>2. producers[p]["created"] \in Nat /\ producers[p]["looping"] \in Nat /\ producers[p]["inline"] \in Nat
  BY DEF SimInv, ProducerInv, TaskStates
<1>3. OneProducerPerPod'
  BY <1>1, <1>2 DEF EndLoop, StopsWhen, watcherVars, SimInv, ProducerInv, OneProducerPerPod, Running
<1>4. ProducerInv'
  BY <1>1, <1>3 DEF EndLoop, positionVars, watcherVars, SimInv, ProducerInv, SimTypeOK
<1>5. ASSUME Alone PROVE StreamInv(p)'
  BY <1>1, <1>2, <1>5 DEF EndLoop, positionVars, SimInv, ProducerInv, SimTypeOK, StreamInv
<1>6. QED
  BY <1>4, <1>5 DEF SimInv, Alone

\* Advance leaves the position one further; a save takes exactly it.
LEMMA AdvanceMeans ==
  ASSUME SimInv, NEW p \in SimPods, Advance(p)
  PROVE  /\ index' \in [SimPods -> Nat] /\ batch' \in [SimPods -> Nat] /\ saved' \in Nat /\ errors' \in Nat
         /\ index'[p] = index[p] + 1
         /\ \/ batch'[p] = batch[p] + 1 /\ batch'[p] < SaveEvery /\ saved' = saved /\ errors' = errors
            \/ batch'[p] = 0 /\ saved' = index'[p] /\ errors' = errors
            \/ saved' = saved /\ errors' = errors + 1
<1>1. /\ index \in [SimPods -> Nat] /\ batch \in [SimPods -> Nat] /\ saved \in Nat /\ errors \in Nat
  BY DEF SimInv, ProducerInv, SimTypeOK
<1>2. CASE ~ SaveDue(p) /\ batch' = [batch EXCEPT ![p] = @ + 1] /\ UNCHANGED <<saved, errors>>
  BY <1>1, <1>2, ProducerConstantsOK DEF Advance, SaveDue
<1>3. CASE SaveDue(p) /\ batch' = [batch EXCEPT ![p] = 0] /\ saved' = Position(p) /\ UNCHANGED errors
  BY <1>1, <1>3 DEF Advance, Position
<1>4. CASE SaveDue(p) /\ batch' = [batch EXCEPT ![p] = @ + 1] /\ SimError /\ UNCHANGED saved
  BY <1>1, <1>4 DEF Advance, SimError
<1>5. QED
  BY <1>2, <1>3, <1>4 DEF Advance

\* An event given to Kafka.
LEMMA ProduceKeeps ==
  ASSUME SimInv, NEW p \in SimPods, Produce(p)
  PROVE  SimInv'
<1>1. /\ index \in [SimPods -> Nat] /\ batch \in [SimPods -> Nat] /\ saved \in Nat /\ errors \in Nat
      /\ producers \in [SimPods -> [TaskStates -> Nat]] /\ produced \subseteq Nat
  BY DEF SimInv, ProducerInv, SimTypeOK
<1>2. /\ producers' \in [SimPods -> [TaskStates -> Nat]] /\ producers[p]["looping"] > 0
      /\ \A q \in SimPods : \A s \in TaskStates : producers'[q][s] = producers[q][s]
  <2>1. "looping" \in TaskStates
    BY DEF TaskStates
  <2>2. \A s \in TaskStates : producers[p][s] \in Nat
    BY <1>1
  <2>3. QED
    BY <2>1, <2>2, MovesCounts DEF Produce, SimInv
<1>3. "created" \in TaskStates /\ "looping" \in TaskStates /\ "inline" \in TaskStates
  BY DEF TaskStates
<1>4. OneProducerPerPod'
  BY <1>2, <1>3 DEF Produce, watcherVars, SimInv, ProducerInv, OneProducerPerPod, Running
<1>5. ProducerInv'
  BY <1>1, <1>2, <1>4, AdvanceMeans DEF Produce, watcherVars, SimInv, ProducerInv, SimTypeOK
<1>6. ASSUME Alone PROVE StreamInv(p)'
  <2>1. /\ StreamInv(p) /\ produced' = produced \union {index[p]} /\ simResets' = simResets
        /\ producers'[p]["inline"] = 0 /\ producers[p]["inline"] \in Nat
    BY <1>1, <1>2, <1>3, <1>6, TasksExclude DEF Produce, SimInv
  <2>2. index[p] \in Nat /\ batch[p] \in Nat
    BY <1>1
  <2>3. /\ index'[p] = index[p] + 1
        /\ \/ batch'[p] = batch[p] + 1 /\ batch'[p] < SaveEvery /\ saved' = saved /\ errors' = errors
           \/ batch'[p] = 0 /\ saved' = index'[p] /\ errors' = errors
           \/ saved' = saved /\ errors' = errors + 1
    BY AdvanceMeans DEF Produce
  <2>4. (errors' = 0 \/ simResets' = 0) =>
          \A n \in Nat : n < index'[p] \/ n < saved' => n \in produced'
    <3>1. SUFFICES ASSUME errors' = 0 \/ simResets' = 0, NEW n \in Nat, n < index'[p] \/ n < saved'
                   PROVE  n \in produced'
      OBVIOUS
    <3>2. errors = 0 \/ simResets = 0
      BY <1>1, <2>1, <2>3, <3>1
    <3>3. n < index[p] \/ n < saved \/ n = index[p]
      <4>1. saved \in Nat /\ (saved' = saved \/ saved' = index[p] + 1) /\ index'[p] = index[p] + 1
        BY <1>1, <2>3
      <4>2. n < index[p] + 1 \/ n < saved
        BY <3>1, <4>1
      <4>3. QED
        BY <2>2, <4>2
    <3>4. n < index[p] \/ n < saved => n \in produced
      BY <2>1, <3>2 DEF StreamInv
    <3>5. QED
      BY <2>1, <3>3, <3>4
  <2>5. /\ simResets' = 0 => saved' <= index'[p]
        /\ errors' = 0 => /\ batch'[p] < SaveEvery
                          /\ saved' <= index'[p] /\ index'[p] <= saved' + batch'[p]
    BY <1>1, <1>2, <2>1, <2>2, <2>3, ProducerConstantsOK DEF StreamInv
  <2>6. QED
    BY <2>1, <2>4, <2>5 DEF StreamInv
<1>7. QED
  BY <1>5, <1>6 DEF SimInv, Alone

\* An event that is processed here begins.
LEMMA ProcessKeeps ==
  ASSUME SimInv, NEW p \in SimPods, Process(p)
  PROVE  SimInv'
<1>1. /\ producers' \in [SimPods -> [TaskStates -> Nat]]
      /\ producers'[p]["created"] = producers[p]["created"]
      /\ producers'[p]["looping"] = producers[p]["looping"] - 1 /\ producers[p]["looping"] > 0
      /\ producers'[p]["inline"] = producers[p]["inline"] + 1
      /\ \A q \in SimPods : q # p => producers'[q] = producers[q]
  <2>1. "created" \in TaskStates /\ "looping" \in TaskStates /\ "inline" \in TaskStates
    BY DEF TaskStates
  <2>2. \A s \in TaskStates : producers[p][s] \in Nat
    BY DEF SimInv, ProducerInv
  <2>3. QED
    BY <2>1, <2>2, MovesCounts DEF Process, SimInv
<1>2. producers[p]["created"] \in Nat /\ producers[p]["looping"] \in Nat /\ producers[p]["inline"] \in Nat
  BY TasksExclude DEF SimInv
<1>3. OneProducerPerPod'
  BY <1>1, <1>2 DEF Process, watcherVars, SimInv, ProducerInv, OneProducerPerPod, Running
<1>4. ProducerInv'
  BY <1>1, <1>3 DEF Process, positionVars, watcherVars, SimInv, ProducerInv, SimTypeOK
<1>5. ASSUME Alone PROVE StreamInv(p)'
  <2>1. /\ StreamInv(p) /\ index[p] \in Nat /\ batch[p] \in Nat /\ saved \in Nat
        /\ produced' = produced \union {index[p]}
        /\ UNCHANGED <<index, batch, saved, errors, simResets>>
    BY <1>5 DEF Process, positionVars, SimInv, ProducerInv, SimTypeOK
  <2>2. QED
    BY <1>1, <2>1 DEF StreamInv
<1>6. QED
  BY <1>4, <1>5 DEF SimInv, Alone

\* It has been broadcast, or failed.
LEMMA BroadcastedKeeps ==
  ASSUME SimInv, NEW p \in SimPods, Broadcasted(p)
  PROVE  SimInv'
<1>1. /\ producers' \in [SimPods -> [TaskStates -> Nat]]
      /\ producers'[p]["created"] = producers[p]["created"]
      /\ producers'[p]["looping"] = producers[p]["looping"] + 1
      /\ producers'[p]["inline"] = producers[p]["inline"] - 1 /\ producers[p]["inline"] > 0
      /\ \A q \in SimPods : q # p => producers'[q] = producers[q]
  <2>1. "created" \in TaskStates /\ "looping" \in TaskStates /\ "inline" \in TaskStates
    BY DEF TaskStates
  <2>2. \A s \in TaskStates : producers[p][s] \in Nat
    BY DEF SimInv, ProducerInv
  <2>3. QED
    BY <2>1, <2>2, MovesCounts DEF Broadcasted, SimInv
<1>2. /\ producers[p]["created"] = 0 /\ producers[p]["looping"] = 0 /\ producers[p]["inline"] = 1
  BY <1>1, TasksExclude DEF SimInv
<1>3. OneProducerPerPod'
  BY <1>1, <1>2 DEF Broadcasted, watcherVars, SimInv, ProducerInv, OneProducerPerPod, Running
<1>4. /\ index \in [SimPods -> Nat] /\ batch \in [SimPods -> Nat] /\ saved \in Nat /\ errors \in Nat
      /\ produced' = produced /\ simResets' = simResets
  BY DEF Broadcasted, SimInv, ProducerInv, SimTypeOK
<1>5. CASE Advance(p)
  <2>1. ProducerInv'
    BY <1>1, <1>3, <1>5, AdvanceMeans DEF Broadcasted, watcherVars, SimInv, ProducerInv, SimTypeOK
  <2>2. ASSUME Alone PROVE StreamInv(p)'
    <3>1. /\ StreamInv(p) /\ index[p] \in Nat /\ batch[p] \in Nat
      BY <1>4, <2>2 DEF SimInv
    <3>2. /\ index'[p] = index[p] + 1
          /\ \/ batch'[p] = batch[p] + 1 /\ batch'[p] < SaveEvery /\ saved' = saved /\ errors' = errors
             \/ batch'[p] = 0 /\ saved' = index'[p] /\ errors' = errors
             \/ saved' = saved /\ errors' = errors + 1
      BY <1>5, AdvanceMeans
    <3>3. (errors' = 0 \/ simResets' = 0) =>
            \A n \in Nat : n < index'[p] \/ n < saved' => n \in produced'
      <4>1. SUFFICES ASSUME errors' = 0 \/ simResets' = 0, NEW n \in Nat, n < index'[p] \/ n < saved'
                     PROVE  n \in produced'
        OBVIOUS
      <4>2. errors = 0 \/ simResets = 0
        BY <1>4, <3>2, <4>1
      <4>3. n < index[p] \/ n < saved \/ n = index[p]
        BY <1>4, <3>1, <3>2, <4>1
      <4>4. (n < index[p] \/ n < saved => n \in produced) /\ index[p] \in produced
        BY <1>2, <3>1, <4>2 DEF StreamInv
      <4>5. QED
        BY <1>4, <4>3, <4>4
    <3>4. /\ simResets' = 0 => saved' <= index'[p]
          /\ errors' = 0 => /\ batch'[p] < SaveEvery
                            /\ saved' <= index'[p] /\ index'[p] <= saved' + batch'[p]
      BY <1>2, <1>4, <3>1, <3>2, ProducerConstantsOK DEF StreamInv
    <3>5. producers'[p]["inline"] = 0
      BY <1>1, <1>2
    <3>6. QED
      BY <3>3, <3>4, <3>5 DEF StreamInv
  <2>3. QED
    BY <2>1, <2>2 DEF SimInv, Alone
<1>6. CASE SimError /\ UNCHANGED positionVars
  <2>1. ProducerInv'
    BY <1>1, <1>3, <1>6 DEF Broadcasted, SimError, positionVars, watcherVars, SimInv, ProducerInv, SimTypeOK
  <2>2. ASSUME Alone PROVE StreamInv(p)'
    <3>1. StreamInv(p) /\ errors' = errors + 1 /\ UNCHANGED <<index, batch, saved>>
      BY <1>6, <2>2 DEF SimError, positionVars, SimInv
    <3>2. QED
      BY <1>1, <1>2, <1>4, <3>1 DEF StreamInv
  <2>3. QED
    BY <2>1, <2>2 DEF SimInv, Alone
<1>7. QED
  BY <1>5, <1>6 DEF Broadcasted

\* A reset and a restart leave the pod at the start of the stream; after a restart
\* the saved position may be ahead.
LEMMA ResetKeeps ==
  ASSUME SimInv, NEW p \in SimPods, ResetSim(p) \/ SimPodRestarts(p)
  PROVE  SimInv'
<1>0. /\ index \in [SimPods -> Nat] /\ batch \in [SimPods -> Nat] /\ saved \in Nat /\ errors \in Nat
      /\ simResets \in Nat /\ simResets' = simResets + 1
  BY DEF ResetSim, SimPodRestarts, SimInv, ProducerInv, SimTypeOK
<1>1. CASE ResetSim(p)
  <2>1. ProducerInv'
    BY <1>1 DEF ResetSim, watcherVars, SimInv, ProducerInv, SimTypeOK, OneProducerPerPod, Running
  <2>2. ASSUME Alone PROVE StreamInv(p)'
    <3>1. /\ StreamInv(p) /\ index'[p] = 0 /\ batch'[p] = 0 /\ saved' = 0 /\ index[p] \in Nat
          /\ UNCHANGED <<producers, produced, errors>>
      BY <1>0, <1>1, <2>2 DEF ResetSim, SimInv
    <3>2. errors = 0 /\ producers[p]["inline"] > 0 => 0 \in produced
      BY <3>1 DEF StreamInv
    <3>3. QED
      BY <1>0, <3>1, <3>2, ProducerConstantsOK DEF StreamInv
  <2>3. QED
    BY <2>1, <2>2 DEF SimInv, Alone
<1>2. CASE SimPodRestarts(p)
  <2>1. producers' = [producers EXCEPT ![p] = NoTask] /\ NoTask \in [TaskStates -> Nat]
        /\ NoTask["created"] = 0 /\ NoTask["looping"] = 0 /\ NoTask["inline"] = 0
    BY <1>2 DEF SimPodRestarts, NoTask, TaskStates
  <2>2. ProducerInv'
    BY <1>2, <2>1 DEF SimPodRestarts, SimInv, ProducerInv, SimTypeOK, OneProducerPerPod, Running
  <2>3. ASSUME Alone PROVE StreamInv(p)'
    <3>1. /\ StreamInv(p) /\ index'[p] = 0 /\ batch'[p] = 0 /\ index[p] \in Nat
          /\ UNCHANGED <<saved, produced, errors>>
          /\ producers'[p]["looping"] = 0 /\ producers'[p]["inline"] = 0
      BY <1>0, <1>2, <2>1, <2>3 DEF SimPodRestarts, SimInv, ProducerInv
    <3>2. QED
      BY <1>0, <3>1, ProducerConstantsOK DEF StreamInv
  <2>4. QED
    BY <2>2, <2>3 DEF SimInv, Alone
<1>3. QED
  BY <1>1, <1>2

\* Every step of the producer keeps it.
LEMMA SimStep == SimInv /\ [SimNext]_simVars => SimInv'
<1> SUFFICES ASSUME SimInv, [SimNext]_simVars PROVE SimInv'
  OBVIOUS
<1>1. ASSUME NEW p \in SimPods,
             \/ \E w \in Watchers : Greet(p, w) \/ Greeted(p, w) \/ Disconnect(p, w)
             \/ BeginLoop(p) \/ EndLoop(p) \/ Produce(p) \/ Process(p) \/ Broadcasted(p)
             \/ ResetSim(p) \/ SimPodRestarts(p)
      PROVE  SimInv'
  BY <1>1, WatchersKeep, BeginKeeps, EndKeeps, ProduceKeeps, ProcessKeeps, BroadcastedKeeps, ResetKeeps
<1>2. CASE UNCHANGED simVars
  BY <1>2 DEF simVars, positionVars, watcherVars, SimInv, ProducerInv, SimTypeOK, OneProducerPerPod,
     Running, StreamInv
<1>3. QED
  BY <1>1, <1>2 DEF SimNext

\* It holds throughout.
LEMMA SimInvariant == SimSpec => []SimInv
BY SimStart, SimStep, PTL DEF SimSpec

\* The check of simulate_stream for a task that runs and the test of the list at
\* the top of _producer_loop: a pod never has two producers, and has one as long
\* as a dashboard of its watches.
THEOREM OneProducerRuns == SimSpec => []OneProducerPerPod
BY SimInvariant, PTL DEF SimInv, ProducerInv

\* Loading and saving the position: a pod alone skips no event of the stream, and
\* repeats fewer than a batch of them.
THEOREM StreamIsSeamless == SimSpec => []SeamlessStream
<1>1. SimInv => SeamlessStream
  <2> SUFFICES ASSUME SimInv, Alone, NEW p \in SimPods
               PROVE  /\ errors = 0 \/ simResets = 0 => 0 .. index[p] - 1 \subseteq produced
                      /\ errors = 0 /\ index[p] > 0 => index[p] - saved \in 0 .. SaveEvery - 1
    BY DEF SeamlessStream, Alone
  <2>1. StreamInv(p) /\ index[p] \in Nat /\ batch[p] \in Nat /\ saved \in Nat
    BY DEF SimInv, ProducerInv, SimTypeOK
  <2>2. \A n \in 0 .. index[p] - 1 : n \in Nat /\ n < index[p]
    BY <2>1
  <2>3. QED
    BY <2>1, <2>2, ProducerConstantsOK DEF StreamInv
<1>2. QED
  BY <1>1, SimInvariant, PTL

-----------------------------------------------------------------------------
(* The tokens that confirm a reset *)

\* A token is in the memory of one pod, or has been used, or is gone; its end is
\* that of the moment at which it was issued.
TokenInv ==
  /\ time \in Nat /\ issued \in Seq(Nat) /\ Len(issued) <= MaxTokens
  /\ \A i \in 1 .. Len(issued) : issued[i] <= time
  /\ tokens \in [Backends -> SUBSET [id : 1 .. MaxTokens, until : Nat]]
  /\ \A p \in Backends : \A t \in tokens[p] :
       t.id \in 1 .. Len(issued) /\ t.until = issued[t.id] + TokenTTL
  /\ \A p, q \in Backends : \A t \in tokens[p], u \in tokens[q] : t.id = u.id => p = q /\ t = u

WipeInv ==
  /\ wiped \in Seq([id : 1 .. MaxTokens, at : Nat])
  /\ \A i \in 1 .. Len(wiped) :
       /\ wiped[i].id \in 1 .. Len(issued)
       /\ wiped[i].at - issued[wiped[i].id] \in 0 .. TokenTTL - 1
       /\ \A p \in Backends : \A t \in tokens[p] : t.id # wiped[i].id
  /\ \A i, j \in 1 .. Len(wiped) : wiped[i].id = wiped[j].id => i = j

SessionInv ==
  /\ {keys, signs} \subseteq Nat /\ key \in [Backends -> 0 .. keys]
  /\ sessions \subseteq [key : 0 .. keys, until : Nat]

AuthInv == SessionInv /\ TokenInv /\ WipeInv

\* No token and no session at the start.
LEMMA AuthStart == AuthInit => AuthInv
<1> SUFFICES ASSUME AuthInit PROVE AuthInv
  OBVIOUS
<1>1. SessionInv
  BY DEF AuthInit, SessionInv
<1>2. issued = <<>> /\ Len(issued) = 0 /\ issued \in Seq(Nat) /\ MaxTokens \in Nat /\ time = 0
  BY AuthConstantsOK DEF AuthInit
<1>3. TokenInv
  BY <1>2 DEF AuthInit, TokenInv
<1>4. WipeInv
  BY DEF AuthInit, WipeInv
<1>5. QED
  BY <1>1, <1>3, <1>4 DEF AuthInv

\* request_reset: the new token has an index of its own.
LEMMA IssueKeeps ==
  ASSUME AuthInv, NEW p \in Backends, NEW s \in sessions, RequestReset(p, s)
  PROVE  AuthInv'
<1> DEFINE n     == Len(issued) + 1
           fresh == [id |-> n, until |-> time + TokenTTL]
<1>1. /\ issued' = Append(issued, time) /\ Len(issued) < MaxTokens
      /\ tokens' = [tokens EXCEPT ![p] = @ \union {fresh}]
      /\ UNCHANGED <<time, key, keys, sessions, wiped, signs>>
  BY DEF RequestReset
<1>2. /\ time \in Nat /\ issued \in Seq(Nat) /\ Len(issued) \in Nat /\ MaxTokens \in Nat /\ TokenTTL \in Nat
      /\ tokens \in [Backends -> SUBSET [id : 1 .. MaxTokens, until : Nat]]
  BY AuthConstantsOK DEF AuthInv, TokenInv
<1>3. /\ issued' \in Seq(Nat) /\ Len(issued') = n /\ issued'[n] = time
      /\ \A i \in 1 .. Len(issued) : issued'[i] = issued[i]
  BY <1>1, <1>2
<1>4. fresh \in [id : 1 .. MaxTokens, until : Nat] /\ fresh.id = n /\ fresh.until = time + TokenTTL
  BY <1>1, <1>2
<1> HIDE DEF fresh
<1>5. \A q \in Backends : \A t \in tokens'[q] :
        (t \in tokens[q] /\ t.id \in 1 .. Len(issued)) \/ (q = p /\ t = fresh)
  <2>1. \A q \in Backends : \A t \in tokens'[q] : t \in tokens[q] \/ (q = p /\ t = fresh)
    BY <1>1, <1>2
  <2>2. \A q \in Backends : \A t \in tokens[q] : t.id \in 1 .. Len(issued)
    BY DEF AuthInv, TokenInv
  <2>3. QED
    BY <2>1, <2>2
<1>6. TokenInv'
  <2>1. tokens' \in [Backends -> SUBSET [id : 1 .. MaxTokens, until : Nat]]
    BY <1>1, <1>2, <1>4
  <2>2. \A i \in 1 .. Len(issued') : issued'[i] <= time'
    BY <1>1, <1>2, <1>3 DEF AuthInv, TokenInv
  <2>3. \A q \in Backends : \A t \in tokens'[q] :
          t.id \in 1 .. Len(issued') /\ t.until = issued'[t.id] + TokenTTL
    <3>1. ASSUME NEW q \in Backends, NEW t \in tokens[q]
          PROVE  t.id \in 1 .. Len(issued') /\ t.until = issued'[t.id] + TokenTTL
      <4>1. t.id \in 1 .. Len(issued) /\ t.until = issued[t.id] + TokenTTL
        BY DEF AuthInv, TokenInv
      <4>2. QED
        <5>1. \A i \in 1 .. Len(issued) : i \in 1 .. Len(issued')
          BY <1>2, <1>3
        <5>2. QED
          BY <1>3, <4>1, <5>1
    <3>2. n \in 1 .. Len(issued') /\ fresh.until = issued'[n] + TokenTTL
      BY <1>2, <1>3, <1>4
    <3>3. QED
      BY <1>4, <1>5, <3>1, <3>2
  <2>4. \A q, r \in Backends : \A t \in tokens'[q], u \in tokens'[r] : t.id = u.id => q = r /\ t = u
    <3>1. \A q, r \in Backends : \A t \in tokens[q], u \in tokens[r] : t.id = u.id => q = r /\ t = u
      BY DEF AuthInv, TokenInv
    <3>2. fresh.id \notin 1 .. Len(issued)
      BY <1>2, <1>4
    <3>3. QED
      BY <1>5, <3>1, <3>2
  <2>5. QED
    BY <1>1, <1>2, <1>3, <2>1, <2>2, <2>3, <2>4 DEF TokenInv
<1>7. WipeInv'
  <2>1. \A i \in 1 .. Len(wiped) :
          /\ wiped[i].id \in 1 .. Len(issued)
          /\ wiped[i].at - issued[wiped[i].id] \in 0 .. TokenTTL - 1
          /\ \A q \in Backends : \A t \in tokens[q] : t.id # wiped[i].id
    BY DEF AuthInv, WipeInv
  <2>2. \A i \in 1 .. Len(wiped) :
          /\ wiped[i].id \in 1 .. Len(issued')
          /\ wiped[i].at - issued'[wiped[i].id] \in 0 .. TokenTTL - 1
    <3> SUFFICES ASSUME NEW i \in 1 .. Len(wiped)
                 PROVE  /\ wiped[i].id \in 1 .. Len(issued')
                        /\ wiped[i].at - issued'[wiped[i].id] \in 0 .. TokenTTL - 1
      OBVIOUS
    <3>1. issued'[wiped[i].id] = issued[wiped[i].id]
      BY <1>3, <2>1
    <3>2. \A j \in 1 .. Len(issued) : j \in 1 .. Len(issued')
      BY <1>2, <1>3
    <3>3. QED
      BY <2>1, <3>1, <3>2
  <2>3. \A i \in 1 .. Len(wiped) : \A q \in Backends : \A t \in tokens'[q] : t.id # wiped[i].id
    <3>1. fresh.id \notin 1 .. Len(issued)
      BY <1>2, <1>4
    <3>2. QED
      BY <1>5, <2>1, <3>1
  <2>4. wiped \in Seq([id : 1 .. MaxTokens, at : Nat])
        /\ \A i, j \in 1 .. Len(wiped) : wiped[i].id = wiped[j].id => i = j
    BY DEF AuthInv, WipeInv
  <2>5. UNCHANGED wiped
    BY <1>1
  <2>6. QED
    BY <2>2, <2>3, <2>4, <2>5 DEF WipeInv
<1>8. QED
  BY <1>1, <1>6, <1>7 DEF AuthInv, SessionInv

\* confirm_reset: the token leaves the memory of its pod before its age is looked at.
LEMMA ConfirmKeeps ==
  ASSUME AuthInv, NEW p \in Backends, NEW s \in sessions, NEW token \in tokens[p], ConfirmReset(p, s, token)
  PROVE  AuthInv'
<1> DEFINE wipe == [id |-> token.id, at |-> time]
<1>1. /\ tokens' = [tokens EXCEPT ![p] = @ \ {token}]
      /\ wiped' = IF time < token.until THEN Append(wiped, wipe) ELSE wiped
      /\ UNCHANGED <<time, key, keys, sessions, issued, signs>>
  BY DEF ConfirmReset, Consumed
<1>2. /\ time \in Nat /\ issued \in Seq(Nat) /\ Len(issued) \in Nat /\ TokenTTL \in Nat
      /\ tokens \in [Backends -> SUBSET [id : 1 .. MaxTokens, until : Nat]]
      /\ token.id \in 1 .. Len(issued) /\ token.until = issued[token.id] + TokenTTL
      /\ issued[token.id] \in Nat /\ issued[token.id] <= time
      /\ token \in [id : 1 .. MaxTokens, until : Nat]
  <2>1. /\ time \in Nat /\ issued \in Seq(Nat) /\ TokenTTL \in Nat
        /\ tokens \in [Backends -> SUBSET [id : 1 .. MaxTokens, until : Nat]]
        /\ \A i \in 1 .. Len(issued) : issued[i] <= time
    BY AuthConstantsOK DEF AuthInv, TokenInv
  <2>2. token.id \in 1 .. Len(issued) /\ token.until = issued[token.id] + TokenTTL
    BY DEF AuthInv, TokenInv
  <2>3. Len(issued) \in Nat /\ token \in [id : 1 .. MaxTokens, until : Nat]
    BY <2>1
  <2>4. issued[token.id] \in Nat /\ issued[token.id] <= time
    BY <2>1, <2>2
  <2>5. QED
    BY <2>1, <2>2, <2>3, <2>4
<1>3. \A q \in Backends : tokens'[q] \subseteq tokens[q] /\ \A t \in tokens'[q] : t.id # token.id
  <2>1. /\ tokens'[p] = tokens[p] \ {token}
        /\ \A q \in Backends : q # p => tokens'[q] = tokens[q]
    BY <1>1, <1>2
  <2>2. \A q \in Backends : \A t \in tokens[q] : t.id = token.id => q = p /\ t = token
    BY DEF AuthInv, TokenInv
  <2>3. QED
    BY <2>1, <2>2
<1>4. TokenInv'
  <2>1. tokens' \in [Backends -> SUBSET [id : 1 .. MaxTokens, until : Nat]]
    BY <1>1, <1>2
  <2>2. QED
    BY <1>1, <1>3, <2>1 DEF AuthInv, TokenInv
<1>5. WipeInv'
  <2>1. /\ wiped \in Seq([id : 1 .. MaxTokens, at : Nat]) /\ Len(wiped) \in Nat
        /\ \A i \in 1 .. Len(wiped) :
             /\ wiped[i].id \in 1 .. Len(issued)
             /\ wiped[i].at - issued[wiped[i].id] \in 0 .. TokenTTL - 1
             /\ wiped[i].id # token.id
             /\ \A q \in Backends : \A t \in tokens'[q] : t.id # wiped[i].id
        /\ \A i, j \in 1 .. Len(wiped) : wiped[i].id = wiped[j].id => i = j
    <3>1. WipeInv
      BY DEF AuthInv
    <3>2. \A i \in 1 .. Len(wiped) : wiped[i].id # token.id
      BY <3>1 DEF WipeInv
    <3>3. \A i \in 1 .. Len(wiped) : \A q \in Backends : \A t \in tokens'[q] : t.id # wiped[i].id
      BY <1>3, <3>1 DEF WipeInv
    <3>4. QED
      BY <3>1, <3>2, <3>3 DEF WipeInv
  <2>2. CASE time < token.until
    <3>1. wipe \in [id : 1 .. MaxTokens, at : Nat] /\ wipe.id = token.id /\ wipe.at = time
      BY <1>2
    <3>2. time - issued[token.id] \in 0 .. TokenTTL - 1
      <4>1. \A k \in Nat : k <= time /\ time < k + TokenTTL => time - k \in 0 .. TokenTTL - 1
        BY <1>2
      <4>2. QED
        BY <1>2, <2>2, <4>1
    <3> HIDE DEF wipe
    <3>3. /\ wiped' \in Seq([id : 1 .. MaxTokens, at : Nat]) /\ Len(wiped') = Len(wiped) + 1
          /\ wiped'[Len(wiped) + 1] = wipe
          /\ \A i \in 1 .. Len(wiped) : wiped'[i] = wiped[i]
      <4>1. wiped \in Seq([id : 1 .. MaxTokens, at : Nat]) /\ wiped' = Append(wiped, wipe)
        BY <1>1, <2>1, <2>2
      <4>2. QED
        BY <3>1, <4>1
    <3>4. \A i \in 1 .. Len(wiped') : i \in 1 .. Len(wiped) \/ i = Len(wiped) + 1
      BY <2>1, <3>3
    <3>5. \A i \in 1 .. Len(wiped') :
            /\ wiped'[i].id \in 1 .. Len(issued)
            /\ wiped'[i].at - issued[wiped'[i].id] \in 0 .. TokenTTL - 1
            /\ \A q \in Backends : \A t \in tokens'[q] : t.id # wiped'[i].id
      <4>1. ASSUME NEW i \in 1 .. Len(wiped)
            PROVE  /\ wiped'[i].id \in 1 .. Len(issued)
                   /\ wiped'[i].at - issued[wiped'[i].id] \in 0 .. TokenTTL - 1
                   /\ \A q \in Backends : \A t \in tokens'[q] : t.id # wiped'[i].id
        BY <2>1, <3>3
      <4>2. /\ wipe.id \in 1 .. Len(issued) /\ wipe.at - issued[wipe.id] \in 0 .. TokenTTL - 1
            /\ \A q \in Backends : \A t \in tokens'[q] : t.id # wipe.id
        BY <1>2, <1>3, <3>1, <3>2
      <4>3. QED
        BY <3>3, <3>4, <4>1, <4>2
    <3>6. \A i, j \in 1 .. Len(wiped') : wiped'[i].id = wiped'[j].id => i = j
      BY <2>1, <3>1, <3>3, <3>4
    <3>7. QED
      BY <1>1, <3>3, <3>5, <3>6 DEF WipeInv
  <2>3. CASE ~ (time < token.until)
    BY <1>1, <2>1, <2>3 DEF WipeInv
  <2>4. QED
    BY <2>2, <2>3
<1>6. QED
  BY <1>1, <1>4, <1>5 DEF AuthInv, SessionInv

\* Every step of the authentication keeps it; a start of a pod forgets its tokens.
LEMMA AuthStep == AuthInv /\ [AuthNext]_authVars => AuthInv'
<1> SUFFICES ASSUME AuthInv, [AuthNext]_authVars PROVE AuthInv'
  OBVIOUS
<1>1. CASE AuthTick
  BY <1>1 DEF AuthTick, AuthInv, SessionInv, TokenInv, WipeInv
<1>2. ASSUME NEW p \in Backends, LoadSecret(p) PROVE AuthInv'
  <2>1. \A q \in Backends : tokens'[q] \subseteq tokens[q]
    BY <1>2 DEF LoadSecret, AuthInv, TokenInv
  <2>2. tokens' \in [Backends -> SUBSET [id : 1 .. MaxTokens, until : Nat]]
    BY <1>2 DEF LoadSecret, AuthInv, TokenInv
  <2>3. TokenInv'
    BY <1>2, <2>1, <2>2 DEF LoadSecret, AuthInv, TokenInv
  <2>4. WipeInv'
    BY <1>2, <2>1 DEF LoadSecret, AuthInv, WipeInv
  <2>5. SessionInv'
    BY <1>2 DEF LoadSecret, AuthInv, SessionInv
  <2>6. QED
    BY <2>3, <2>4, <2>5 DEF AuthInv
<1>3. ASSUME NEW p \in Backends, Login(p) PROVE AuthInv'
  <2>1. TokenInv'
    BY <1>3 DEF Login, AuthInv, TokenInv
  <2>2. WipeInv'
    BY <1>3 DEF Login, AuthInv, WipeInv
  <2>3. SessionInv'
    <3>1. time + SessionTTL \in Nat /\ signs + 1 \in Nat /\ key[p] \in 0 .. keys
      BY AuthConstantsOK DEF AuthInv, SessionInv, TokenInv
    <3>2. [key |-> key[p], until |-> time + SessionTTL] \in [key : 0 .. keys, until : Nat]
      BY <3>1
    <3>3. /\ sessions' = sessions \union {[key |-> key[p], until |-> time + SessionTTL]}
          /\ signs' = signs \/ signs' = signs + 1
          /\ UNCHANGED <<key, keys>>
      BY <1>3 DEF Login
    <3>4. QED
      BY <3>1, <3>2, <3>3 DEF AuthInv, SessionInv
  <2>4. QED
    BY <2>1, <2>2, <2>3 DEF AuthInv
<1>4. ASSUME NEW p \in Backends, NEW s \in sessions,
             RequestReset(p, s) \/ \E token \in tokens[p] : ConfirmReset(p, s, token)
      PROVE  AuthInv'
  BY <1>4, IssueKeeps, ConfirmKeeps
<1>5. CASE UNCHANGED authVars
  BY <1>5 DEF authVars, AuthInv, SessionInv, TokenInv, WipeInv
<1>6. QED
  BY <1>1, <1>2, <1>3, <1>4, <1>5 DEF AuthNext

\* It holds throughout.
LEMMA AuthInvariant == AuthSpec => []AuthInv
BY AuthStart, AuthStep, PTL DEF AuthSpec

\* The pop of confirm_reset: whoever confirms a reset, and to whichever pod, one
\* token resets once, and before it is a TTL old.
THEOREM ResetsAreConfirmedOnce == AuthSpec => []TokensResetOnce
<1>1. AuthInv => TokensResetOnce
  <2> SUFFICES ASSUME AuthInv PROVE TokensResetOnce
    OBVIOUS
  <2>1. WipeInv /\ DOMAIN wiped = 1 .. Len(wiped)
    BY DEF AuthInv, WipeInv
  <2>2. QED
    BY <2>1 DEF WipeInv, TokensResetOnce
<1>2. QED
  BY <1>1, AuthInvariant, PTL

-----------------------------------------------------------------------------
(* Broadcasts *)

\* Removing from a list: what stays keeps its order, so it does not move back, and
\* a list from which nothing goes is left as it is.
LEMMA OthersStay ==
  ASSUME NEW S, NEW s \in Seq(S), NEW gone
  PROVE  /\ Others(s, gone) \in Seq(S)
         /\ \A n \in 1 .. Len(Others(s, gone)) : \E i \in 1 .. Len(s) :
              n <= i /\ Others(s, gone)[n] = s[i] /\ s[i] \notin gone
         /\ \A i \in 1 .. Len(s) : s[i] \notin gone =>
              \E n \in 1 .. Len(Others(s, gone)) : Others(s, gone)[n] = s[i]
         /\ (\A i, j \in 1 .. Len(s) : s[i] = s[j] => i = j) =>
              \A n, k \in 1 .. Len(Others(s, gone)) : Others(s, gone)[n] = Others(s, gone)[k] => n = k
         /\ (\A i \in 1 .. Len(s) : s[i] \notin gone) => Others(s, gone) = s
<1> DEFINE stay    == {i \in 1 .. Len(s) : s[i] \notin gone}
           upto(i) == {j \in stay : j <= i}
           rank(i) == Cardinality(upto(i))
           at(n)   == CHOOSE i \in stay : rank(i) = n
           size    == Cardinality(stay)
<1>0. \A n \in Nat : IsFiniteSet(1 .. n) /\ Cardinality(1 .. n) = n
  BY FS_Interval
<1>1. Others(s, gone) = [n \in 1 .. size |-> s[at(n)]]
  BY DOMAIN s = 1 .. Len(s) DEF Others
<1>2. Len(s) \in Nat /\ \A i \in stay : i \in 1 .. Len(s) /\ s[i] \in S /\ s[i] \notin gone
  OBVIOUS
<1>3. IsFiniteSet(stay) /\ size \in Nat
  <2>1. IsFiniteSet(1 .. Len(s)) /\ stay \in SUBSET (1 .. Len(s))
    BY <1>2, FS_Interval
  <2> HIDE DEF stay
  <2>2. QED
    BY <2>1, FS_Subset, FS_CardinalityType
<1>4. ASSUME NEW i \in stay PROVE rank(i) \in 1 .. size /\ rank(i) <= i
  <2>1. upto(i) \in SUBSET stay /\ i \in upto(i) /\ upto(i) \in SUBSET (1 .. i) /\ i \in Nat
    BY <1>2
  <2>2. IsFiniteSet(1 .. i) /\ Cardinality(1 .. i) = i
    BY <2>1, FS_Interval, <1>2
  <2> HIDE DEF stay, upto
  <2>3. IsFiniteSet(upto(i)) /\ rank(i) <= size /\ rank(i) <= i
    BY <1>3, <2>1, <2>2, FS_Subset
  <2>4. rank(i) \in Nat /\ rank(i) # 0
    BY <2>1, <2>3, FS_CardinalityType, FS_EmptySet
  <2>5. QED
    BY <1>3, <2>3, <2>4
<1>5. ASSUME NEW i \in stay, NEW j \in stay, i < j PROVE rank(i) < rank(j)
  <2>1. upto(i) \in SUBSET upto(j) /\ j \in upto(j) /\ j \notin upto(i) /\ upto(j) \in SUBSET stay
    BY <1>2, <1>5
  <2>2. rank(i) \in Nat /\ rank(j) \in Nat
    <3> HIDE DEF stay, rank
    <3>1. rank(i) \in 1 .. size /\ rank(j) \in 1 .. size
      BY <1>4
    <3>2. QED
      BY <3>1
  <2> HIDE DEF stay, upto
  <2>3. IsFiniteSet(upto(j))
    BY <1>3, <2>1, FS_Subset
  <2>4. rank(i) <= rank(j) /\ rank(i) # rank(j)
    BY <2>1, <2>3, FS_Subset
  <2>5. QED
    BY <2>2, <2>4
<1>6. \A i, j \in stay : rank(i) = rank(j) => i = j
  <2>1. ASSUME NEW i \in stay, NEW j \in stay, rank(i) = rank(j), i # j PROVE FALSE
    <3>1. i < j \/ j < i
      BY <1>2, <2>1
    <3> HIDE DEF stay, rank
    <3>2. rank(i) \in 1 .. size /\ rank(j) \in 1 .. size
      BY <1>4
    <3>3. QED
      BY <1>5, <2>1, <3>1, <3>2
  <2>2. QED
    BY <2>1
<1> HIDE DEF stay, rank, size
<1>7. \A n \in 1 .. size : at(n) \in stay /\ rank(at(n)) = n
  <2> DEFINE f == [i \in stay |-> rank(i)]
  <2>1. f \in Injection(stay, 1 .. size)
    BY <1>4, <1>6 DEF Injection, IsInjective
  <2>2. IsFiniteSet(1 .. size) /\ Cardinality(1 .. size) = size
    BY <1>3, FS_Interval
  <2> HIDE DEF f
  <2>3. f \in Surjection(stay, 1 .. size)
    BY <1>3, <2>1, <2>2, FS_Injection DEF size
  <2>4. \A n \in 1 .. size : \E i \in stay : f[i] = n
    BY <2>3 DEF Surjection
  <2>5. \A n \in 1 .. size : \E i \in stay : rank(i) = n
    BY <2>4 DEF f
  <2>6. QED
    BY <2>5
<1> HIDE DEF at
<1>8. \A i \in stay : rank(i) \in 1 .. size /\ at(rank(i)) = i
  BY <1>4, <1>6, <1>7
<1>9. Others(s, gone) \in Seq(S) /\ Len(Others(s, gone)) = size
      /\ \A n \in 1 .. size : Others(s, gone)[n] = s[at(n)]
  <2>1. \A n \in 1 .. size : s[at(n)] \in S
    BY <1>2, <1>7
  <2>2. QED
    BY <1>1, <1>3, <2>1
<1>10. \A n \in 1 .. size : n <= at(n)
  BY <1>4, <1>7
<1>11. ASSUME \A i \in 1 .. Len(s) : s[i] \notin gone PROVE Others(s, gone) = s
  <2>1. stay = 1 .. Len(s)
    BY <1>11 DEF stay
  <2>2. size = Len(s)
    BY <1>0, <1>2, <2>1 DEF size
  <2>3. \A i \in 1 .. Len(s) : rank(i) = i
    <3> SUFFICES ASSUME NEW i \in 1 .. Len(s) PROVE rank(i) = i
      OBVIOUS
    <3>1. {j \in 1 .. Len(s) : j <= i} = 1 .. i /\ i \in Nat
      BY <1>2
    <3>2. QED
      BY <1>0, <2>1, <3>1 DEF rank
  <2>4. \A n \in 1 .. Len(s) : at(n) = n
    BY <1>8, <2>2, <2>1, <2>3
  <2>5. QED
    BY <1>9, <2>2, <2>4
<1>12. \A i \in 1 .. Len(s) : s[i] \notin gone => i \in stay
  BY DEF stay
<1>13. \A n \in 1 .. size : \E i \in 1 .. Len(s) :
         n <= i /\ Others(s, gone)[n] = s[i] /\ s[i] \notin gone
  BY <1>2, <1>7, <1>9, <1>10
<1>14. \A i \in 1 .. Len(s) : s[i] \notin gone => \E n \in 1 .. size : Others(s, gone)[n] = s[i]
  BY <1>8, <1>9, <1>12
<1>15. ASSUME \A i, j \in 1 .. Len(s) : s[i] = s[j] => i = j
       PROVE  \A n, k \in 1 .. size : Others(s, gone)[n] = Others(s, gone)[k] => n = k
  <2>1. \A n, k \in 1 .. size : s[at(n)] = s[at(k)] => at(n) = at(k)
    BY <1>2, <1>7, <1>15
  <2>2. \A n, k \in 1 .. size : at(n) = at(k) => n = k
    BY <1>7
  <2>3. QED
    BY <1>9, <2>1, <2>2
<1>16. QED
  BY <1>9, <1>11, <1>13, <1>14, <1>15

BroadcastTypes ==
  /\ connections \in [Replicas -> Seq(Sockets)]
  /\ position \in [Task -> Nat] /\ dead \in [Task -> SUBSET Sockets]
  /\ received \in [Sockets \X Messages -> Nat] /\ audience \in [Messages -> SUBSET Sockets]
  /\ redisUp \in BOOLEAN /\ subscribed \subseteq Replicas /\ listening \subseteq Replicas
  /\ available \subseteq Replicas /\ scheduled \subseteq Replicas \X Messages
  /\ left \subseteq opened /\ opened \subseteq Sockets /\ sent \subseteq Messages
  /\ excused \subseteq Sockets \X Messages /\ doubtful \subseteq sent /\ stops \in Nat /\ unsure \in Nat

\* Each socket is listed once; those that raised have gone.
Listed ==
  /\ \A p \in Replicas : \A i \in 1 .. Len(connections[p]) : connections[p][i] \in opened
  /\ \A p, q \in Replicas : \A i \in 1 .. Len(connections[p]), j \in 1 .. Len(connections[q]) :
       connections[p][i] = connections[q][j] => p = q /\ i = j
  /\ \A t \in Task : dead[t] \subseteq left

\* A socket that waits for m: the broadcast of its pod has still to come to it.
Awaits(w, m) ==
  \E p \in Replicas : \E i \in 1 .. Len(connections[p]) :
    /\ connections[p][i] = w
    /\ \/ <<p, m>> \in scheduled
       \/ position[<<p, m, "redis">>] \in 1 .. i \/ position[<<p, m, "local">>] \in 1 .. i

Reaches(m) ==
  \A w \in audience[m] \ left : received[<<w, m>>] > 0 \/ <<w, m>> \in excused \/ Awaits(w, m)

\* Nothing is on its way before the broadcast.
Unsent(m) ==
  /\ \A w \in Sockets : received[<<w, m>>] = 0
  /\ \A p \in Replicas : /\ <<p, m>> \notin scheduled
                        /\ position[<<p, m, "redis">>] = 0 /\ position[<<p, m, "local">>] = 0

\* A pod has one broadcast of m to make, or one in hand, which is past every
\* socket that has it.
OneWay(m) ==
  /\ \A p \in Replicas :
       /\ <<p, m>> \in scheduled => position[<<p, m, "redis">>] = 0 /\ position[<<p, m, "local">>] = 0
       /\ position[<<p, m, "redis">>] = 0 \/ position[<<p, m, "local">>] = 0
  /\ \A p \in Replicas : \A i \in 1 .. Len(connections[p]) :
       received[<<connections[p][i], m>>] > 0 =>
         /\ <<p, m>> \notin scheduled
         /\ position[<<p, m, "redis">>] \notin 1 .. i /\ position[<<p, m, "local">>] \notin 1 .. i
  /\ \A w \in Sockets : received[<<w, m>>] <= 1

MessageInv(m) ==
  /\ m \notin sent => Unsent(m)
  /\ m \in sent => Reaches(m)
  /\ m \in sent \ doubtful => OneWay(m)
  /\ \A w \in Sockets : received[<<w, m>>] > 0 => w \in opened

BroadcastInv == BroadcastTypes /\ Listed /\ \A m \in Messages : MessageInv(m)

\* Tasks are triples.
LEMMA TaskParts ==
  /\ \A p \in Replicas, m \in Messages : <<p, m, "redis">> \in Task /\ <<p, m, "local">> \in Task
  /\ \A t \in Task : /\ t[1] \in Replicas /\ t[2] \in Messages
                     /\ t = <<t[1], t[2], "redis">> \/ t = <<t[1], t[2], "local">>
BY DEF Task

\* Nothing is connected or sent at the start.
LEMMA BroadcastStart == BroadcastInit => BroadcastInv
<1> SUFFICES ASSUME BroadcastInit PROVE BroadcastInv
  OBVIOUS
<1>1. BroadcastTypes
  BY DEF BroadcastInit, BroadcastTypes
<1>2. \A p \in Replicas : connections[p] = <<>> /\ Len(connections[p]) = 0
  BY DEF BroadcastInit
<1>3. Listed
  BY <1>2 DEF BroadcastInit, Listed
<1>4. \A m \in Messages : MessageInv(m)
  BY TaskParts DEF BroadcastInit, MessageInv, Unsent
<1>5. QED
  BY <1>1, <1>3, <1>4 DEF BroadcastInv

\* Redis and the listener threads change none of it.
LEMMA RedisKeeps ==
  ASSUME BroadcastInv, UNCHANGED <<socketVars, taskVars, mailVars>>,
         \/ RedisStops \/ RedisStarts
         \/ \E p \in Replicas : ListenerFails(p) \/ ListenerSubscribes(p) \/ OtherListener(p)
  PROVE  BroadcastInv'
<1>1. /\ redisUp' \in BOOLEAN /\ subscribed' \subseteq Replicas /\ listening' \subseteq Replicas
      /\ available' \subseteq Replicas /\ stops' \in Nat
  <2>1. /\ redisUp \in BOOLEAN /\ subscribed \subseteq Replicas /\ listening \subseteq Replicas
        /\ available \subseteq Replicas /\ stops \in Nat
    BY DEF BroadcastInv, BroadcastTypes
  <2>2. CASE RedisStops
    <3>1. redisUp' \in BOOLEAN /\ subscribed' = {} /\ UNCHANGED <<listening, available>>
      BY <2>2 DEF RedisStops
    <3>2. stops' = stops + 1
      BY <2>2 DEF RedisStops
    <3>3. QED
      BY <2>1, <3>1, <3>2
  <2>3. CASE RedisStarts
    BY <2>1, <2>3 DEF RedisStarts
  <2>4. ASSUME NEW p \in Replicas, ListenerFails(p) \/ ListenerSubscribes(p) \/ OtherListener(p)
        PROVE  /\ UNCHANGED <<redisUp, stops>> /\ subscribed' \in {subscribed, subscribed \union {p}}
               /\ listening' \in {listening, listening \ {p}, listening \union {p}}
               /\ available' \in {available, available \ {p}, available \union {p}}
    BY <2>4 DEF ListenerFails, ListenerSubscribes, OtherListener
  <2>5. QED
    BY <2>1, <2>2, <2>3, <2>4
<1>2. UNCHANGED <<connections, left, opened, scheduled, position, dead, sent, audience, received, excused,
                  unsure, doubtful>>
  BY DEF socketVars, taskVars, mailVars
<1>3. BroadcastTypes'
  BY <1>1, <1>2 DEF BroadcastInv, BroadcastTypes
<1>4. Listed'
  BY <1>2 DEF BroadcastInv, Listed
<1>5. \A m \in Messages : MessageInv(m)'
  <2> SUFFICES ASSUME NEW m \in Messages PROVE MessageInv(m)'
    OBVIOUS
  <2>1. MessageInv(m)
    BY DEF BroadcastInv
  <2>2. Unsent(m)' <=> Unsent(m)
    BY <1>2 DEF Unsent
  <2>3. Reaches(m)' <=> Reaches(m)
    BY <1>2 DEF Reaches, Awaits
  <2>4. OneWay(m)' <=> OneWay(m)
    BY <1>2 DEF OneWay
  <2>5. QED
    BY <1>2, <2>1, <2>2, <2>3, <2>4 DEF MessageInv
<1>6. QED
  BY <1>3, <1>4, <1>5 DEF BroadcastInv

\* The loop of a pod takes a message that its listener has handed over.
LEMMA StartKeeps ==
  ASSUME BroadcastInv, NEW p \in Replicas, NEW m \in Messages, Start(p, m)
  PROVE  BroadcastInv'
<1>1. /\ <<p, m>> \in scheduled /\ scheduled' = scheduled \ {<<p, m>>}
      /\ position' = [position EXCEPT ![<<p, m, "redis">>] = 1]
      /\ UNCHANGED <<redisUp, subscribed, listening, available, stops, connections, left, opened, dead, sent,
                     audience, received, excused, unsure, doubtful>>
  BY DEF Start, redisVars, socketVars, mailVars
<1>2. position \in [Task -> Nat] /\ <<p, m, "redis">> \in Task
  BY TaskParts DEF BroadcastInv, BroadcastTypes
<1>3. /\ position' \in [Task -> Nat] /\ position'[<<p, m, "redis">>] = 1
      /\ \A q \in Replicas, k \in Messages :
           /\ position'[<<q, k, "local">>] = position[<<q, k, "local">>]
           /\ q # p \/ k # m => position'[<<q, k, "redis">>] = position[<<q, k, "redis">>]
           /\ q # p \/ k # m => (<<q, k>> \in scheduled' <=> <<q, k>> \in scheduled)
      /\ <<p, m>> \notin scheduled'
  BY <1>1, <1>2, TaskParts
<1>4. BroadcastTypes'
  BY <1>1, <1>3 DEF BroadcastInv, BroadcastTypes
<1>5. Listed'
  BY <1>1 DEF BroadcastInv, Listed
<1>6. \A q \in Replicas : connections[q] \in Seq(Sockets) /\ Len(connections[q]) \in Nat
  BY DEF BroadcastInv, BroadcastTypes
<1>7. ASSUME NEW k \in Messages PROVE MessageInv(k)'
  <2>1. MessageInv(k)
    BY DEF BroadcastInv
  <2>2. k \notin sent' => Unsent(k)'
    BY <1>1, <1>3, <2>1 DEF MessageInv, Unsent
  <2>3. ASSUME k \in sent' PROVE Reaches(k)'
    <3> SUFFICES ASSUME NEW w \in audience[k] \ left, Awaits(w, k) PROVE Awaits(w, k)'
      BY <1>1, <2>1, <2>3 DEF MessageInv, Reaches
    <3>1. PICK q \in Replicas : \E i \in 1 .. Len(connections[q]) :
            /\ connections[q][i] = w
            /\ \/ <<q, k>> \in scheduled
               \/ position[<<q, k, "redis">>] \in 1 .. i \/ position[<<q, k, "local">>] \in 1 .. i
      BY DEF Awaits
    <3>2. CASE q = p /\ k = m
      <4>1. PICK i \in 1 .. Len(connections[p]) : connections[p][i] = w
        BY <3>1, <3>2
      <4>2. position'[<<p, k, "redis">>] \in 1 .. i
        BY <1>3, <1>6, <3>2, <4>1
      <4>3. QED
        BY <1>1, <4>1, <4>2 DEF Awaits
    <3>3. CASE q # p \/ k # m
      BY <1>1, <1>3, <3>1, <3>3 DEF Awaits
    <3>4. QED
      BY <3>2, <3>3
  <2>4. ASSUME k \in sent' \ doubtful' PROVE OneWay(k)'
    <3>1. OneWay(k)
      BY <1>1, <2>1, <2>4 DEF MessageInv
    <3>2. k = m => position[<<p, k, "local">>] = 0 /\ \A i \in 1 .. Len(connections[p]) :
                     ~ (received[<<connections[p][i], k>>] > 0)
      BY <1>1, <3>1 DEF OneWay
    <3>3. QED
      BY <1>1, <1>3, <3>1, <3>2 DEF OneWay
  <2>5. QED
    BY <1>1, <2>1, <2>2, <2>3, <2>4 DEF MessageInv
<1>8. QED
  BY <1>4, <1>5, <1>7 DEF BroadcastInv

\* Sockets connect once; that a dashboard has gone takes nothing from anyone.
LEMMA SocketsKeep ==
  ASSUME BroadcastInv,
         \/ \E p \in Replicas, w \in Sockets : Open(p, w)
         \/ \E w \in Sockets : Leave(w)
  PROVE  BroadcastInv'
<1>1. ASSUME NEW p \in Replicas, NEW w \in Sockets, Open(p, w) PROVE BroadcastInv'
  <2>1. /\ w \notin opened /\ opened' = opened \union {w}
        /\ connections' = [connections EXCEPT ![p] = Append(@, w)]
        /\ UNCHANGED <<redisUp, subscribed, listening, available, stops, left, scheduled, position, dead, sent,
                       audience, received, excused, unsure, doubtful>>
    BY <1>1 DEF Open, redisVars, taskVars, mailVars
  <2>2. connections \in [Replicas -> Seq(Sockets)] /\ \A q \in Replicas : Len(connections[q]) \in Nat
    BY DEF BroadcastInv, BroadcastTypes
  <2>3. /\ connections' \in [Replicas -> Seq(Sockets)]
        /\ \A q \in Replicas : q # p => connections'[q] = connections[q]
        /\ Len(connections'[p]) = Len(connections[p]) + 1 /\ connections'[p][Len(connections[p]) + 1] = w
        /\ \A i \in 1 .. Len(connections[p]) : connections'[p][i] = connections[p][i]
    BY <2>1, <2>2
  <2>4. \A q \in Replicas : \A i \in 1 .. Len(connections'[q]) :
          \/ i \in 1 .. Len(connections[q]) /\ connections'[q][i] = connections[q][i]
          \/ q = p /\ i = Len(connections[p]) + 1 /\ connections'[q][i] = w
    BY <2>2, <2>3
  <2>5. \A q \in Replicas : \A i \in 1 .. Len(connections[q]) :
          i \in 1 .. Len(connections'[q]) /\ connections'[q][i] = connections[q][i] /\ connections[q][i] # w
    <3>1. \A q \in Replicas : \A i \in 1 .. Len(connections[q]) : connections[q][i] # w
      BY <2>1 DEF BroadcastInv, Listed
    <3>2. \A q \in Replicas : \A i \in 1 .. Len(connections[q]) :
            i \in 1 .. Len(connections'[q]) /\ connections'[q][i] = connections[q][i]
      <4> SUFFICES ASSUME NEW q \in Replicas, NEW i \in 1 .. Len(connections[q])
                   PROVE  i \in 1 .. Len(connections'[q]) /\ connections'[q][i] = connections[q][i]
        OBVIOUS
      <4>1. CASE q = p
        BY <2>2, <2>3, <4>1
      <4>2. CASE q # p
        BY <2>3, <4>2
      <4>3. QED
        BY <4>1, <4>2
    <3>3. QED
      BY <3>1, <3>2
  <2>6. BroadcastTypes'
    BY <2>1, <2>3 DEF BroadcastInv, BroadcastTypes
  <2>7. Listed'
    <3>1. \A q \in Replicas : \A i \in 1 .. Len(connections'[q]) : connections'[q][i] \in opened'
      BY <2>1, <2>4 DEF BroadcastInv, Listed
    <3>2. \A q, r \in Replicas : \A i \in 1 .. Len(connections'[q]), j \in 1 .. Len(connections'[r]) :
            connections'[q][i] = connections'[r][j] => q = r /\ i = j
      <4> SUFFICES ASSUME NEW q \in Replicas, NEW r \in Replicas, NEW i \in 1 .. Len(connections'[q]),
                          NEW j \in 1 .. Len(connections'[r]), connections'[q][i] = connections'[r][j]
                   PROVE  q = r /\ i = j
        OBVIOUS
      <4>1. CASE i \in 1 .. Len(connections[q]) /\ j \in 1 .. Len(connections[r])
        BY <2>5, <4>1 DEF BroadcastInv, Listed
      <4>2. CASE i \notin 1 .. Len(connections[q]) \/ j \notin 1 .. Len(connections[r])
        <5>1. connections'[q][i] = w /\ connections'[r][j] = w
          BY <2>4, <4>2
        <5>2. i \notin 1 .. Len(connections[q]) /\ j \notin 1 .. Len(connections[r])
          BY <2>5, <5>1
        <5>3. QED
          BY <2>4, <5>2
      <4>3. QED
        BY <4>1, <4>2
    <3>3. QED
      BY <2>1, <3>1, <3>2 DEF BroadcastInv, Listed
  <2>8. ASSUME NEW m \in Messages PROVE MessageInv(m)'
    <3>1. MessageInv(m)
      BY DEF BroadcastInv
    <3>2. m \notin sent' => Unsent(m)'
      BY <2>1, <3>1 DEF MessageInv, Unsent
    <3>3. \A v : Awaits(v, m) => Awaits(v, m)'
      <4> SUFFICES ASSUME NEW v, Awaits(v, m) PROVE Awaits(v, m)'
        OBVIOUS
      <4>1. PICK q \in Replicas : \E i \in 1 .. Len(connections[q]) :
              /\ connections[q][i] = v
              /\ \/ <<q, m>> \in scheduled
                 \/ position[<<q, m, "redis">>] \in 1 .. i \/ position[<<q, m, "local">>] \in 1 .. i
        BY DEF Awaits
      <4>2. QED
        BY <2>1, <2>5, <4>1 DEF Awaits
    <3>7. m \in sent' => Reaches(m)'
      BY <2>1, <3>1, <3>3 DEF MessageInv, Reaches
    <3>4. ~ (received[<<w, m>>] > 0)
      BY <2>1, <3>1 DEF MessageInv
    <3>5. m \in sent' \ doubtful' => OneWay(m)'
      BY <2>1, <2>4, <3>1, <3>4 DEF MessageInv, OneWay
    <3>6. QED
      BY <2>1, <3>1, <3>2, <3>5, <3>7 DEF MessageInv
  <2>9. QED
    BY <2>6, <2>7, <2>8 DEF BroadcastInv
<1>2. ASSUME NEW w \in Sockets, Leave(w) PROVE BroadcastInv'
  <2>1. /\ w \in opened /\ left' = left \union {w}
        /\ UNCHANGED <<redisUp, subscribed, listening, available, stops, connections, opened, scheduled,
                       position, dead, sent, audience, received, excused, unsure, doubtful>>
    BY <1>2 DEF Leave, redisVars, taskVars, mailVars
  <2>2. BroadcastTypes'
    BY <2>1 DEF BroadcastInv, BroadcastTypes
  <2>3. Listed'
    BY <2>1 DEF BroadcastInv, Listed
  <2>4. ASSUME NEW m \in Messages PROVE MessageInv(m)'
    <3>1. MessageInv(m)
      BY DEF BroadcastInv
    <3>2. Unsent(m)' <=> Unsent(m)
      BY <2>1 DEF Unsent
    <3>3. Reaches(m) => Reaches(m)'
      BY <2>1 DEF Reaches, Awaits
    <3>4. OneWay(m)' <=> OneWay(m)
      BY <2>1 DEF OneWay
    <3>5. QED
      BY <2>1, <3>1, <3>2, <3>3, <3>4 DEF MessageInv
  <2>5. QED
    BY <2>2, <2>3, <2>4 DEF BroadcastInv
<1>3. QED
  BY <1>1, <1>2

\* A list from which sockets go that have left: what a broadcast may pass over
\* because of it is excused.
LEMMA ShrinkKeeps ==
  ASSUME BroadcastInv, NEW p \in Replicas, NEW gone, gone \subseteq left,
         connections' = Without(p, gone),
         UNCHANGED <<redisUp, subscribed, listening, available, stops, left, opened, scheduled, sent,
                     audience, received, unsure, doubtful>>,
         position' \in [Task -> Nat],
         \A t \in Task : \/ position'[t] = position[t]
                         \/ t[1] = p /\ position[t] > Len(connections[p]) /\ position'[t] = 0,
         dead' \in [Task -> SUBSET Sockets], \A t \in Task : dead'[t] \subseteq dead[t],
         (connections' = connections /\ excused' = excused) \/ Shortened(p)
  PROVE  BroadcastInv'
<1> DEFINE old == connections[p]
           new == connections'[p]
<1>1. /\ connections \in [Replicas -> Seq(Sockets)] /\ position \in [Task -> Nat]
      /\ old \in Seq(Sockets) /\ Len(old) \in Nat
  BY DEF BroadcastInv, BroadcastTypes
<1>2. connections' = [connections EXCEPT ![p] = Others(old, gone)]
  BY DEF Without
<1>3. \A i, j \in 1 .. Len(old) : old[i] = old[j] => i = j
  BY DEF BroadcastInv, Listed
<1>4. new = Others(old, gone) /\ \A q \in Replicas : q # p => connections'[q] = connections[q]
  BY <1>1, <1>2
<1>5. /\ connections' \in [Replicas -> Seq(Sockets)]
      /\ \A n \in 1 .. Len(new) : \E i \in 1 .. Len(old) : n <= i /\ new[n] = old[i] /\ new[n] \notin gone
      /\ \A i \in 1 .. Len(old) : old[i] \notin gone => \E n \in 1 .. Len(new) : new[n] = old[i]
      /\ \A n, k \in 1 .. Len(new) : new[n] = new[k] => n = k
  <2> HIDE DEF old, new
  <2>1. new \in Seq(Sockets)
    BY <1>1, <1>4, OthersStay
  <2>2. connections' \in [Replicas -> Seq(Sockets)]
    BY <1>1, <1>2, <1>4, <2>1
  <2>3. \A n \in 1 .. Len(new) : \E i \in 1 .. Len(old) : n <= i /\ new[n] = old[i] /\ old[i] \notin gone
    BY <1>1, <1>4, OthersStay
  <2>4. \A i \in 1 .. Len(old) : old[i] \notin gone => \E n \in 1 .. Len(new) : new[n] = old[i]
    BY <1>1, <1>4, OthersStay
  <2>5. \A n, k \in 1 .. Len(new) : new[n] = new[k] => n = k
    <3>1. (\A i, j \in 1 .. Len(old) : old[i] = old[j] => i = j) =>
            \A n, k \in 1 .. Len(Others(old, gone)) : Others(old, gone)[n] = Others(old, gone)[k] => n = k
      BY <1>1, OthersStay
    <3>2. QED
      BY <1>3, <1>4, <3>1
  <2>6. QED
    BY <2>2, <2>3, <2>4, <2>5
<1>6. excused \subseteq excused' /\ excused' \subseteq Sockets \X Messages
  <2>1. Connected(p) \subseteq Sockets
    BY <1>1 DEF Connected
  <2>2. QED
    BY <2>1 DEF Shortened, BroadcastInv, BroadcastTypes
<1>7. BroadcastTypes'
  BY <1>5, <1>6 DEF BroadcastInv, BroadcastTypes
<1>12. \A q \in Replicas : \A n \in 1 .. Len(connections'[q]) : \E i \in 1 .. Len(connections[q]) :
        n <= i /\ connections'[q][n] = connections[q][i]
  <2> SUFFICES ASSUME NEW q \in Replicas, NEW n \in 1 .. Len(connections'[q])
               PROVE  \E i \in 1 .. Len(connections[q]) : n <= i /\ connections'[q][n] = connections[q][i]
    OBVIOUS
  <2>1. CASE q = p
    BY <1>5, <2>1
  <2>2. CASE q # p
    BY <1>4, <2>2
  <2>3. QED
    BY <2>1, <2>2
<1>8. Listed'
  <2>2. \A q \in Replicas : \A i \in 1 .. Len(connections'[q]) : connections'[q][i] \in opened'
    <3> SUFFICES ASSUME NEW q \in Replicas, NEW n \in 1 .. Len(connections'[q])
                 PROVE  connections'[q][n] \in opened
      OBVIOUS
    <3>1. PICK i \in 1 .. Len(connections[q]) : connections'[q][n] = connections[q][i]
      BY <1>12
    <3>2. QED
      BY <3>1 DEF BroadcastInv, Listed
  <2>3. \A q, r \in Replicas : \A i \in 1 .. Len(connections'[q]), j \in 1 .. Len(connections'[r]) :
          connections'[q][i] = connections'[r][j] => q = r /\ i = j
    <3> SUFFICES ASSUME NEW q \in Replicas, NEW r \in Replicas, NEW i \in 1 .. Len(connections'[q]),
                        NEW j \in 1 .. Len(connections'[r]), connections'[q][i] = connections'[r][j]
                 PROVE  q = r /\ i = j
      OBVIOUS
    <3>1. q = r
      <4>1. PICK k \in 1 .. Len(connections[q]) : connections'[q][i] = connections[q][k]
        BY <1>12
      <4>2. PICK l \in 1 .. Len(connections[r]) : connections'[r][j] = connections[r][l]
        BY <1>12
      <4>3. connections[q][k] = connections[r][l] => q = r
        BY DEF BroadcastInv, Listed
      <4>4. QED
        BY <4>1, <4>2, <4>3
    <3>2. CASE q = p
      BY <1>5, <3>1, <3>2
    <3>3. CASE q # p
      BY <1>4, <3>1, <3>3 DEF BroadcastInv, Listed
    <3>4. QED
      BY <3>1, <3>2, <3>3
  <2>4. QED
    BY <2>2, <2>3 DEF BroadcastInv, Listed
<1>9. \A q \in Replicas, m \in Messages :
        /\ \/ position'[<<q, m, "redis">>] = position[<<q, m, "redis">>]
           \/ /\ q = p /\ position[<<q, m, "redis">>] > Len(old) /\ position'[<<q, m, "redis">>] = 0
        /\ \/ position'[<<q, m, "local">>] = position[<<q, m, "local">>]
           \/ /\ q = p /\ position[<<q, m, "local">>] > Len(old) /\ position'[<<q, m, "local">>] = 0
        /\ position[<<q, m, "redis">>] \in Nat /\ position[<<q, m, "local">>] \in Nat
  <2> SUFFICES ASSUME NEW q \in Replicas, NEW m \in Messages
               PROVE  /\ \/ position'[<<q, m, "redis">>] = position[<<q, m, "redis">>]
                         \/ /\ q = p /\ position[<<q, m, "redis">>] > Len(old)
                            /\ position'[<<q, m, "redis">>] = 0
                      /\ \/ position'[<<q, m, "local">>] = position[<<q, m, "local">>]
                         \/ /\ q = p /\ position[<<q, m, "local">>] > Len(old)
                            /\ position'[<<q, m, "local">>] = 0
                      /\ position[<<q, m, "redis">>] \in Nat /\ position[<<q, m, "local">>] \in Nat
    OBVIOUS
  <2>1. <<q, m, "redis">> \in Task /\ <<q, m, "local">> \in Task
    BY TaskParts
  <2>2. <<q, m, "redis">>[1] = q /\ <<q, m, "local">>[1] = q
    OBVIOUS
  <2>3. QED
    BY <1>1, <2>1, <2>2
<1>10. ASSUME NEW m \in Messages PROVE MessageInv(m)'
  <2>1. MessageInv(m)
    BY DEF BroadcastInv
  <2>2. m \notin sent' => Unsent(m)'
    BY <1>9, <2>1 DEF MessageInv, Unsent
  <2>3. ASSUME m \in sent', NEW w \in audience[m] \ left, Awaits(w, m), <<w, m>> \notin excused'
        PROVE  Awaits(w, m)'
    <3>1. PICK q \in Replicas : \E i \in 1 .. Len(connections[q]) :
            /\ connections[q][i] = w
            /\ \/ <<q, m>> \in scheduled
               \/ position[<<q, m, "redis">>] \in 1 .. i \/ position[<<q, m, "local">>] \in 1 .. i
      BY <2>3 DEF Awaits
    <3>2. PICK i \in 1 .. Len(connections[q]) :
            /\ connections[q][i] = w
            /\ \/ <<q, m>> \in scheduled
               \/ position[<<q, m, "redis">>] \in 1 .. i \/ position[<<q, m, "local">>] \in 1 .. i
      BY <3>1
    <3>3. CASE connections'[q] = connections[q]
      <4>1. \/ <<q, m>> \in scheduled'
            \/ position'[<<q, m, "redis">>] \in 1 .. i \/ position'[<<q, m, "local">>] \in 1 .. i
        <5>1. q = p => i <= Len(old)
          BY <1>1, <3>2
        <5>2. i \in Nat
          BY <1>1
        <5>3. position[<<q, m, "redis">>] \in 1 .. i => position'[<<q, m, "redis">>] \in 1 .. i
          <6>1. /\ position[<<q, m, "redis">>] \in Nat
                /\ \/ position'[<<q, m, "redis">>] = position[<<q, m, "redis">>]
                   \/ q = p /\ position[<<q, m, "redis">>] > Len(old)
            BY <1>9
          <6>2. Len(old) \in Nat
            BY <1>1
          <6> HIDE DEF old
          <6>3. QED
            BY <5>1, <5>2, <6>1, <6>2
        <5>4. position[<<q, m, "local">>] \in 1 .. i => position'[<<q, m, "local">>] \in 1 .. i
          <6>1. /\ position[<<q, m, "local">>] \in Nat
                /\ \/ position'[<<q, m, "local">>] = position[<<q, m, "local">>]
                   \/ q = p /\ position[<<q, m, "local">>] > Len(old)
            BY <1>9
          <6>2. Len(old) \in Nat
            BY <1>1
          <6> HIDE DEF old
          <6>3. QED
            BY <5>1, <5>2, <6>1, <6>2
        <5>5. QED
          BY <3>2, <5>3, <5>4
      <4>2. QED
        BY <3>2, <3>3, <4>1 DEF Awaits
    <3>4. CASE connections'[q] # connections[q]
      <4>1. q = p /\ Shortened(p)
        BY <1>4, <3>4
      <4>2. w \in Connected(p)
        BY <1>1, <3>2, <4>1 DEF Connected
      <4>3. <<q, m>> \in scheduled
        <5>1. position[<<p, m, "redis">>] = 0 /\ position[<<p, m, "local">>] = 0
          <6>1. ASSUME NEW o \in {"redis", "local"}, position[<<p, m, o>>] > 0 PROVE FALSE
            <7>1. /\ <<w, m>> \in Connected(p) \X Messages /\ <<w, m>>[2] = m
              BY <4>2
            <7>2. <<w, m>> \in excused'
              BY <4>1, <6>1, <7>1 DEF Shortened
            <7>3. QED
              BY <2>3, <7>2
          <6>2. QED
            BY <1>9, <6>1
        <5>2. QED
          BY <3>2, <4>1, <5>1
      <4>4. \E n \in 1 .. Len(new) : new[n] = w
        BY <1>5, <3>2, <4>1
      <4>5. QED
        BY <4>1, <4>3, <4>4 DEF Awaits
    <3>5. QED
      BY <3>3, <3>4
  <2>4. m \in sent' => Reaches(m)'
    BY <1>6, <2>1, <2>3 DEF MessageInv, Reaches
  <2>5. ASSUME m \in sent' \ doubtful' PROVE OneWay(m)'
    <3>1. OneWay(m)
      BY <2>1, <2>5 DEF MessageInv
    <3>2. ASSUME NEW q \in Replicas, NEW n \in 1 .. Len(connections'[q]), received[<<connections'[q][n], m>>] > 0
          PROVE  /\ <<q, m>> \notin scheduled
                 /\ position'[<<q, m, "redis">>] \notin 1 .. n /\ position'[<<q, m, "local">>] \notin 1 .. n
      <4>1. PICK i \in 1 .. Len(connections[q]) : n <= i /\ connections'[q][n] = connections[q][i]
        BY <1>12
      <4>2. /\ <<q, m>> \notin scheduled
            /\ position[<<q, m, "redis">>] \notin 1 .. i /\ position[<<q, m, "local">>] \notin 1 .. i
        BY <3>1, <3>2, <4>1 DEF OneWay
      <4>3. i \in Nat /\ n \in Nat
        BY <1>1, <4>1
      <4>4. /\ position'[<<q, m, "redis">>] = position[<<q, m, "redis">>] \/ position'[<<q, m, "redis">>] = 0
            /\ position'[<<q, m, "local">>] = position[<<q, m, "local">>] \/ position'[<<q, m, "local">>] = 0
            /\ position[<<q, m, "redis">>] \in Nat /\ position[<<q, m, "local">>] \in Nat
        BY <1>9
      <4>5. QED
        BY <4>1, <4>2, <4>3, <4>4
    <3>3. QED
      BY <1>9, <3>1, <3>2 DEF OneWay
  <2>6. QED
    BY <2>1, <2>2, <2>4, <2>5 DEF MessageInv
<1>11. QED
  BY <1>7, <1>8, <1>10 DEF BroadcastInv

\* remove: the socket has gone.
LEMMA RemoveKeeps ==
  ASSUME BroadcastInv, NEW p \in Replicas, NEW w \in Sockets, Remove(p, w)
  PROVE  BroadcastInv'
<1>1. /\ {w} \subseteq left /\ connections' = Without(p, {w}) /\ Shortened(p)
      /\ UNCHANGED <<redisUp, subscribed, listening, available, stops, left, opened, scheduled, position, dead,
                     sent, audience, received, unsure, doubtful>>
  BY DEF Remove, redisVars, taskVars
<1>2. position' \in [Task -> Nat] /\ dead' \in [Task -> SUBSET Sockets]
  BY <1>1 DEF BroadcastInv, BroadcastTypes
<1>3. (\A t \in Task : position'[t] = position[t]) /\ \A t \in Task : dead'[t] \subseteq dead[t]
  BY <1>1
<1>4. QED
  BY <1>1, <1>2, <1>3, ShrinkKeeps

\* The end of a local broadcast: those that raised are removed.
LEMMA FinishKeeps ==
  ASSUME BroadcastInv, NEW t \in Task, Finish(t)
  PROVE  BroadcastInv'
<1>1. /\ position[t] > Len(connections[t[1]]) /\ connections' = Without(t[1], dead[t])
      /\ position' = [position EXCEPT ![t] = 0] /\ dead' = [dead EXCEPT ![t] = {}]
      /\ UNCHANGED <<redisUp, subscribed, listening, available, stops, left, opened, scheduled, sent, audience,
                     received, unsure, doubtful>>
  BY DEF Finish, redisVars
<1>2. (connections' = connections /\ excused' = excused) \/ Shortened(t[1])
  BY DEF Finish
<1>3. /\ position' \in [Task -> Nat] /\ position'[t] = 0
      /\ \A u \in Task : u # t => position'[u] = position[u]
  BY <1>1 DEF BroadcastInv, BroadcastTypes
<1>4. dead' \in [Task -> SUBSET Sockets] /\ \A u \in Task : dead'[u] \subseteq dead[u]
  BY <1>1 DEF BroadcastInv, BroadcastTypes
<1>5. t[1] \in Replicas /\ dead[t] \subseteq left
  BY TaskParts DEF BroadcastInv, Listed
<1>6. \A u \in Task : \/ position'[u] = position[u]
                      \/ u[1] = t[1] /\ position[u] > Len(connections[t[1]]) /\ position'[u] = 0
  BY <1>1, <1>3
<1>7. QED
  BY <1>1, <1>2, <1>3, <1>4, <1>5, <1>6, ShrinkKeeps

\* A local broadcast comes to the next socket.
LEMMA SendKeeps ==
  ASSUME BroadcastInv, NEW t \in Task, position[t] > 0, Send(t)
  PROVE  BroadcastInv'
<1>1. PICK p \in Replicas, m \in Messages : t = <<p, m, "redis">> \/ t = <<p, m, "local">>
  BY TaskParts
<1>2. t[1] = p /\ t[2] = m
  BY <1>1
<1> DEFINE n == position[t]
           w == connections[p][n]
<1>3. /\ connections \in [Replicas -> Seq(Sockets)] /\ position \in [Task -> Nat]
      /\ received \in [Sockets \X Messages -> Nat] /\ n \in Nat
      /\ connections[p] \in Seq(Sockets) /\ Len(connections[p]) \in Nat
  BY DEF BroadcastInv, BroadcastTypes
<1>4. n \in 1 .. Len(connections[p]) /\ w \in Sockets /\ w \in opened
  <2>1. n \in DOMAIN connections[p]
    BY <1>2 DEF Send
  <2>2. n \in 1 .. Len(connections[p]) /\ w \in Sockets
    BY <1>3, <2>1
  <2>3. QED
    BY <2>2 DEF BroadcastInv, Listed
<1>5. /\ position' = [position EXCEPT ![t] = n + 1]
      /\ UNCHANGED <<redisUp, subscribed, listening, available, stops, left, opened, scheduled, sent, audience,
                     excused, unsure, doubtful>>
  BY DEF Send, redisVars
<1>6. \/ /\ received' = [received EXCEPT ![<<w, m>>] = @ + 1] /\ dead' = dead /\ connections' = connections
      \/ /\ w \in left /\ dead' = [dead EXCEPT ![t] = @ \union {w}] /\ received' = received
         /\ connections' = Without(p, {})
  BY <1>2 DEF Send, RemovedAtOnce
<1>7. connections' = connections
  <2>1. Others(connections[p], {}) = connections[p]
    BY <1>3, OthersStay
  <2>2. Without(p, {}) = connections
    BY <1>3, <2>1 DEF Without
  <2>3. QED
    BY <1>6, <2>2
<1>8. /\ position' \in [Task -> Nat] /\ position'[t] = n + 1
      /\ \A u \in Task : u # t => position'[u] = position[u]
  BY <1>3, <1>5
<1>9. /\ \/ dead' = dead
         \/ /\ dead' = [dead EXCEPT ![t] = @ \union {w}] /\ w \in left
      /\ received' = received \/ received' = [received EXCEPT ![<<w, m>>] = @ + 1]
      /\ w \in left \/ received' = [received EXCEPT ![<<w, m>>] = @ + 1]
  BY <1>6
<1> HIDE DEF w
<1>10. /\ received' \in [Sockets \X Messages -> Nat]
       /\ \A v \in Sockets, k \in Messages : v # w \/ k # m => received'[<<v, k>>] = received[<<v, k>>]
       /\ received'[<<w, m>>] \in {received[<<w, m>>], received[<<w, m>>] + 1}
       /\ w \notin left => received'[<<w, m>>] > 0
  <2>1. CASE received' = received
    BY <1>3, <1>4, <1>9, <2>1
  <2>2. CASE received' = [received EXCEPT ![<<w, m>>] = @ + 1]
    <3>1. <<w, m>> \in Sockets \X Messages /\ received[<<w, m>>] \in Nat
      BY <1>3, <1>4
    <3>2. received'[<<w, m>>] = received[<<w, m>>] + 1
      BY <1>3, <2>2, <3>1
    <3>3. received' \in [Sockets \X Messages -> Nat]
      BY <1>3, <2>2, <3>1
    <3>4. \A v \in Sockets, k \in Messages : v # w \/ k # m => received'[<<v, k>>] = received[<<v, k>>]
      BY <1>3, <2>2
    <3>5. QED
      BY <3>1, <3>2, <3>3, <3>4
  <2>3. QED
    BY <1>9, <2>1, <2>2
<1>11. dead' \in [Task -> SUBSET Sockets] /\ \A u \in Task : dead'[u] \subseteq left
  <2>1. dead \in [Task -> SUBSET Sockets] /\ \A u \in Task : dead[u] \subseteq left
    BY DEF BroadcastInv, BroadcastTypes, Listed
  <2>2. CASE dead' = dead
    BY <2>1, <2>2
  <2>3. CASE dead' = [dead EXCEPT ![t] = @ \union {w}] /\ w \in left
    BY <1>4, <2>1, <2>3
  <2>4. QED
    BY <1>9, <2>2, <2>3
<1>12. BroadcastTypes'
  <2>1. BroadcastTypes
    BY DEF BroadcastInv
  <2>2. /\ position' \in [Task -> Nat] /\ dead' \in [Task -> SUBSET Sockets]
        /\ received' \in [Sockets \X Messages -> Nat]
    BY <1>8, <1>10, <1>11
  <2>3. QED
    BY <1>5, <1>7, <2>1, <2>2 DEF BroadcastTypes
<1>13. Listed'
  BY <1>5, <1>7, <1>11 DEF BroadcastInv, Listed
<1>14. \A q \in Replicas, k \in Messages :
         /\ position[<<q, k, "redis">>] \in Nat /\ position[<<q, k, "local">>] \in Nat
         /\ position'[<<q, k, "redis">>] =
              IF t = <<q, k, "redis">> THEN n + 1 ELSE position[<<q, k, "redis">>]
         /\ position'[<<q, k, "local">>] =
              IF t = <<q, k, "local">> THEN n + 1 ELSE position[<<q, k, "local">>]
  BY <1>3, <1>8, TaskParts
<1>15. m \in sent
  <2>1. MessageInv(m)
    BY DEF BroadcastInv
  <2>2. Unsent(m) => position[<<p, m, "redis">>] = 0 /\ position[<<p, m, "local">>] = 0
    BY DEF Unsent
  <2>3. n > 0
    BY <1>3, <1>4
  <2>4. QED
    BY <1>1, <2>1, <2>2, <2>3 DEF MessageInv
<1>16. ASSUME NEW k \in Messages PROVE MessageInv(k)'
  <2>1. MessageInv(k)
    BY DEF BroadcastInv
  <2>2. CASE k # m
    <3>1. t # <<p, k, "redis">> /\ t # <<p, k, "local">>
      BY <1>1, <2>2
    <3>2. \A q \in Replicas : /\ position'[<<q, k, "redis">>] = position[<<q, k, "redis">>]
                              /\ position'[<<q, k, "local">>] = position[<<q, k, "local">>]
      BY <1>1, <1>14, <2>2
    <3>3. \A v \in Sockets : received'[<<v, k>>] = received[<<v, k>>]
      BY <1>10, <2>2
    <3>4. audience[k] \subseteq Sockets /\ \A q \in Replicas : \A i \in 1 .. Len(connections[q]) :
                                             connections[q][i] \in Sockets
      BY <1>3 DEF BroadcastInv, BroadcastTypes
    <3>5. Unsent(k) => Unsent(k)'
      BY <1>5, <3>2, <3>3 DEF Unsent
    <3>6. Reaches(k) => Reaches(k)'
      <4>1. \A v : Awaits(v, k)' <=> Awaits(v, k)
        BY <1>5, <1>7, <3>2 DEF Awaits
      <4>2. QED
        BY <1>5, <3>3, <3>4, <4>1 DEF Reaches
    <3>7. OneWay(k) => OneWay(k)'
      BY <1>5, <1>7, <3>2, <3>3, <3>4 DEF OneWay
    <3>8. QED
      BY <1>5, <2>1, <3>3, <3>5, <3>6, <3>7 DEF MessageInv
  <2>3. CASE k = m
    <3>1. Reaches(m)'
      <4> SUFFICES ASSUME NEW v \in audience[m] \ left, ~ (received'[<<v, m>>] > 0), <<v, m>> \notin excused
                   PROVE  Awaits(v, m)'
        BY <1>5 DEF Reaches
      <4>1. v \in Sockets
        BY DEF BroadcastInv, BroadcastTypes
      <4>2. v # w
        BY <1>10
      <4>3. Awaits(v, m)
        BY <1>10, <1>15, <2>1, <2>3, <4>1, <4>2 DEF MessageInv, Reaches
      <4>4. PICK q \in Replicas : \E i \in 1 .. Len(connections[q]) :
              /\ connections[q][i] = v
              /\ \/ <<q, m>> \in scheduled
                 \/ position[<<q, m, "redis">>] \in 1 .. i \/ position[<<q, m, "local">>] \in 1 .. i
        BY <4>3 DEF Awaits
      <4>5. PICK i \in 1 .. Len(connections[q]) :
              /\ connections[q][i] = v
              /\ \/ <<q, m>> \in scheduled
                 \/ position[<<q, m, "redis">>] \in 1 .. i \/ position[<<q, m, "local">>] \in 1 .. i
        BY <4>4
      <4>6. i \in Nat /\ (q = p => i # n)
        BY <1>3, <4>2, <4>5 DEF w
      <4>9. t = <<q, m, "redis">> \/ t = <<q, m, "local">> => q = p
        BY <1>2
      <4>7. \/ <<q, m>> \in scheduled
            \/ position'[<<q, m, "redis">>] \in 1 .. i \/ position'[<<q, m, "local">>] \in 1 .. i
        <5>1. CASE <<q, m>> \in scheduled
          BY <5>1
        <5>2. CASE position[<<q, m, "redis">>] \in 1 .. i
          <6>1. CASE t = <<q, m, "redis">>
            <7>1. n \in 1 .. i /\ n # i /\ position'[<<q, m, "redis">>] = n + 1
              BY <1>14, <4>6, <4>9, <5>2, <6>1
            <7>2. QED
              BY <1>3, <4>6, <7>1
          <6>2. CASE t # <<q, m, "redis">>
            BY <1>14, <5>2, <6>2
          <6>3. QED
            BY <6>1, <6>2
        <5>3. CASE position[<<q, m, "local">>] \in 1 .. i
          <6>1. CASE t = <<q, m, "local">>
            <7>1. n \in 1 .. i /\ n # i /\ position'[<<q, m, "local">>] = n + 1
              BY <1>14, <4>6, <4>9, <5>3, <6>1
            <7>2. QED
              BY <1>3, <4>6, <7>1
          <6>2. CASE t # <<q, m, "local">>
            BY <1>14, <5>3, <6>2
          <6>3. QED
            BY <6>1, <6>2
        <5>4. QED
          BY <4>5, <5>1, <5>2, <5>3
      <4>8. QED
        BY <1>5, <1>7, <4>5, <4>7 DEF Awaits
    <3>2. ASSUME m \notin doubtful PROVE OneWay(m)'
      <4>1. OneWay(m)
        BY <1>15, <2>1, <2>3, <3>2 DEF MessageInv
      <4>2. received[<<w, m>>] = 0
        <5>1. received[<<w, m>>] \in Nat /\ position[t] \in 1 .. n
          BY <1>3, <1>4
        <5>2. ~ (received[<<w, m>>] > 0)
          BY <1>1, <1>4, <4>1, <5>1 DEF OneWay, w
        <5>3. QED
          BY <5>1, <5>2
      <4>3. /\ <<p, m>> \notin scheduled
            /\ t = <<p, m, "redis">> => position[<<p, m, "local">>] = 0
            /\ t = <<p, m, "local">> => position[<<p, m, "redis">>] = 0
        BY <1>1, <1>3, <4>1 DEF OneWay
      <4>4. \A q \in Replicas :
              /\ <<q, m>> \in scheduled' => position'[<<q, m, "redis">>] = 0 /\ position'[<<q, m, "local">>] = 0
              /\ position'[<<q, m, "redis">>] = 0 \/ position'[<<q, m, "local">>] = 0
        BY <1>1, <1>5, <1>14, <4>1, <4>3 DEF OneWay
      <4>5. ASSUME NEW q \in Replicas, NEW i \in 1 .. Len(connections[q]),
                   received'[<<connections[q][i], m>>] > 0
            PROVE  /\ <<q, m>> \notin scheduled
                   /\ position'[<<q, m, "redis">>] \notin 1 .. i /\ position'[<<q, m, "local">>] \notin 1 .. i
        <5>1. i \in Nat /\ connections[q][i] \in Sockets
          BY <1>3
        <5>2. CASE connections[q][i] = w
          <6>1. q = p /\ i = n
            BY <1>4, <5>2 DEF w, BroadcastInv, Listed
          <6>2. QED
            BY <1>1, <1>3, <1>14, <4>3, <6>1
        <5>3. CASE connections[q][i] # w
          <6>1. received[<<connections[q][i], m>>] > 0
            BY <1>10, <4>5, <5>1, <5>3
          <6>2. /\ <<q, m>> \notin scheduled
                /\ position[<<q, m, "redis">>] \notin 1 .. i /\ position[<<q, m, "local">>] \notin 1 .. i
            BY <4>1, <6>1 DEF OneWay
          <6>3. QED
            <7>1. /\ \/ position'[<<q, m, "redis">>] = position[<<q, m, "redis">>]
                     \/ position'[<<q, m, "redis">>] = position[<<q, m, "redis">>] + 1 /\ position[<<q, m, "redis">>] > 0
                  /\ \/ position'[<<q, m, "local">>] = position[<<q, m, "local">>]
                     \/ position'[<<q, m, "local">>] = position[<<q, m, "local">>] + 1 /\ position[<<q, m, "local">>] > 0
                  /\ position[<<q, m, "redis">>] \in Nat /\ position[<<q, m, "local">>] \in Nat
              BY <1>14
            <7>2. QED
              BY <5>1, <6>2, <7>1
        <5>4. QED
          BY <5>2, <5>3
      <4>6. \A v \in Sockets : received'[<<v, m>>] <= 1
        BY <1>10, <4>1, <4>2 DEF OneWay
      <4>7. QED
        BY <1>5, <1>7, <4>4, <4>5, <4>6 DEF OneWay
    <3>3. \A v \in Sockets : received'[<<v, m>>] > 0 => v \in opened
      BY <1>4, <1>10, <2>1, <2>3 DEF MessageInv
    <3>4. QED
      BY <1>5, <1>15, <2>3, <3>1, <3>2, <3>3 DEF MessageInv
  <2>4. QED
    BY <2>2, <2>3
<1>17. QED
  BY <1>12, <1>13, <1>16 DEF BroadcastInv

\* broadcast: to the subscribers through Redis, or to the dashboards of the pod, or
\* both if the answer of Redis is lost.
LEMMA PublishKeeps ==
  ASSUME BroadcastInv, NEW p \in Replicas, NEW m \in Messages, Broadcast(p, m)
  PROVE  BroadcastInv'
<1>1. /\ m \notin sent /\ sent' = sent \union {m}
      /\ audience' = [audience EXCEPT ![m] = UNION {Connected(q) : q \in Replicas}]
      /\ UNCHANGED <<redisUp, subscribed, listening, stops, connections, left, opened, dead, received>>
  BY DEF Broadcast, socketVars
<1>2. /\ connections \in [Replicas -> Seq(Sockets)] /\ position \in [Task -> Nat]
      /\ scheduled \subseteq Replicas \X Messages /\ subscribed \subseteq Replicas
      /\ excused \subseteq Sockets \X Messages /\ available \subseteq Replicas /\ unsure \in Nat
      /\ doubtful \subseteq sent
  BY DEF BroadcastInv, BroadcastTypes
<1>3. <<p, m, "local">> \in Task
  BY TaskParts
<1>4. Unsent(m)
  BY <1>1 DEF BroadcastInv, MessageInv
<1>5. \A q \in Replicas : Connected(q) \subseteq Sockets
  BY <1>2 DEF Connected
<1> DEFINE Misses(pods) == excused' = excused \union ((UNION {Connected(q) : q \in pods}) \X {m})
           Locally      == position' = [position EXCEPT ![<<p, m, "local">>] = 1]
           Handed       == scheduled' = scheduled \union (subscribed \X {m})
<1>6. /\ available' \in {available, available \ {p}}
      /\ \/ /\ Handed /\ Misses(Replicas \ subscribed) /\ UNCHANGED <<position, unsure, doubtful>>
         \/ /\ Handed /\ Misses(Replicas \ subscribed) /\ Locally
            /\ unsure' = unsure + 1 /\ doubtful' = doubtful \union {m}
         \/ /\ Locally /\ Misses(Replicas \ {p}) /\ UNCHANGED <<scheduled, unsure, doubtful>>
  BY DEF Broadcast, Published, OthersMiss, StartLocal
<1>7. \A pods \in SUBSET Replicas : Misses(pods) =>
        /\ excused \subseteq excused' /\ excused' \subseteq Sockets \X Messages
        /\ \A q \in pods : \A w \in Connected(q) : <<w, m>> \in excused'
  BY <1>2, <1>5
<1>8. Locally => /\ position' \in [Task -> Nat] /\ position'[<<p, m, "local">>] = 1
                 /\ \A u \in Task : u # <<p, m, "local">> => position'[u] = position[u]
  BY <1>2, <1>3
<1>9. Handed => /\ scheduled' \subseteq Replicas \X Messages
                /\ \A q \in Replicas, k \in Messages :
                     <<q, k>> \in scheduled' <=> <<q, k>> \in scheduled \/ (q \in subscribed /\ k = m)
  BY <1>2
<1> HIDE DEF Misses, Locally, Handed
<1>10. position' \in [Task -> Nat] /\ \A u \in Task : u # <<p, m, "local">> => position'[u] = position[u]
  BY <1>2, <1>6, <1>8
<1>11. /\ scheduled' \subseteq Replicas \X Messages /\ available' \subseteq Replicas /\ unsure' \in Nat
       /\ excused \subseteq excused' /\ excused' \subseteq Sockets \X Messages
       /\ doubtful' \in {doubtful, doubtful \union {m}}
  BY <1>2, <1>6, <1>7, <1>9
<1>12. \A q \in Replicas, k \in Messages :
         /\ position'[<<q, k, "redis">>] = position[<<q, k, "redis">>]
         /\ k # m \/ q # p => position'[<<q, k, "local">>] = position[<<q, k, "local">>]
         /\ k # m => (<<q, k>> \in scheduled' <=> <<q, k>> \in scheduled)
  <2>1. \A q \in Replicas, k \in Messages : k # m => (<<q, k>> \in scheduled' <=> <<q, k>> \in scheduled)
    BY <1>6, <1>9
  <2>2. \A q \in Replicas, k \in Messages :
          /\ <<q, k, "redis">> # <<p, m, "local">>
          /\ k # m \/ q # p => <<q, k, "local">> # <<p, m, "local">>
    OBVIOUS
  <2>3. QED
    BY <1>10, <2>1, <2>2, TaskParts
<1>13. \A q \in Replicas :
         /\ <<q, m>> \in scheduled' \/ position'[<<q, m, "local">>] = 1
              \/ \A w \in Connected(q) : <<w, m>> \in excused'
         /\ m \notin doubtful' => <<q, m>> \notin scheduled' \/ position'[<<q, m, "local">>] = 0
  <2> SUFFICES ASSUME NEW q \in Replicas
               PROVE  /\ <<q, m>> \in scheduled' \/ position'[<<q, m, "local">>] = 1
                           \/ \A w \in Connected(q) : <<w, m>> \in excused'
                      /\ m \notin doubtful' => <<q, m>> \notin scheduled' \/ position'[<<q, m, "local">>] = 0
    OBVIOUS
  <2>1. position[<<q, m, "local">>] = 0 /\ <<q, m>> \notin scheduled
    BY <1>4 DEF Unsent
  <2>2. CASE Handed /\ Misses(Replicas \ subscribed) /\ UNCHANGED <<position, unsure, doubtful>>
    BY <1>7, <1>9, <2>1, <2>2
  <2>3. CASE Handed /\ Misses(Replicas \ subscribed) /\ doubtful' = doubtful \union {m}
    BY <1>7, <1>9, <2>3
  <2>4. CASE Locally /\ Misses(Replicas \ {p}) /\ UNCHANGED <<scheduled, unsure, doubtful>>
    BY <1>7, <1>8, <2>1, <2>4
  <2>5. QED
    BY <1>6, <2>2, <2>3, <2>4
<1>14. audience' \in [Messages -> SUBSET Sockets] /\ audience'[m] = UNION {Connected(q) : q \in Replicas}
       /\ \A k \in Messages : k # m => audience'[k] = audience[k]
  BY <1>1, <1>5 DEF BroadcastInv, BroadcastTypes
<1>15. BroadcastTypes'
  BY <1>1, <1>2, <1>10, <1>11, <1>14 DEF BroadcastInv, BroadcastTypes
<1>16. Listed'
  BY <1>1 DEF BroadcastInv, Listed
<1>17. ASSUME NEW k \in Messages PROVE MessageInv(k)'
  <2>1. MessageInv(k)
    BY DEF BroadcastInv
  <2>2. CASE k # m
    <3>1. Unsent(k) => Unsent(k)'
      BY <1>1, <1>12, <2>2 DEF Unsent
    <3>2. \A v : Awaits(v, k)' <=> Awaits(v, k)
      BY <1>1, <1>12, <2>2 DEF Awaits
    <3>3. Reaches(k) => Reaches(k)'
      BY <1>1, <1>11, <1>14, <2>2, <3>2 DEF Reaches
    <3>4. OneWay(k) => OneWay(k)'
      BY <1>1, <1>12, <2>2 DEF OneWay
    <3>5. QED
      BY <1>1, <1>11, <2>1, <2>2, <3>1, <3>3, <3>4 DEF MessageInv
  <2>3. CASE k = m
    <3>1. Reaches(m)'
      <4> SUFFICES ASSUME NEW w \in audience'[m], <<w, m>> \notin excused' PROVE Awaits(w, m)'
        BY DEF Reaches
      <4>1. PICK q \in Replicas : w \in Connected(q)
        BY <1>14
      <4>2. PICK i \in 1 .. Len(connections[q]) : connections[q][i] = w
        BY <1>2, <4>1 DEF Connected
      <4>3. <<q, m>> \in scheduled' \/ position'[<<q, m, "local">>] = 1
        BY <1>13, <4>1
      <4>4. i \in Nat /\ 1 <= i
        BY <1>2, <4>2
      <4>5. QED
        BY <1>1, <4>2, <4>3, <4>4 DEF Awaits
    <3>2. ASSUME m \notin doubtful' PROVE OneWay(m)'
      <4>1. \A w \in Sockets : received'[<<w, m>>] = 0
        BY <1>1, <1>4 DEF Unsent
      <4>2. \A q \in Replicas : \A i \in 1 .. Len(connections'[q]) : connections'[q][i] \in Sockets
        BY <1>1, <1>2
      <4>3. \A q \in Replicas : position'[<<q, m, "redis">>] = 0
        BY <1>4, <1>12 DEF Unsent
      <4>4. QED
        BY <1>13, <3>2, <4>1, <4>2, <4>3 DEF OneWay
    <3>3. \A w \in Sockets : ~ (received'[<<w, m>>] > 0)
      BY <1>1, <1>4 DEF Unsent
    <3>4. QED
      BY <1>1, <2>3, <3>1, <3>2, <3>3 DEF MessageInv
  <2>4. QED
    BY <2>2, <2>3
<1>18. QED
  BY <1>15, <1>16, <1>17 DEF BroadcastInv

\* Every step of the dashboards, the listeners and Redis keeps it.
LEMMA BroadcastStep == BroadcastInv /\ [BroadcastNext]_broadcastVars => BroadcastInv'
<1> SUFFICES ASSUME BroadcastInv, [BroadcastNext]_broadcastVars PROVE BroadcastInv'
  OBVIOUS
<1>1. CASE RedisStops \/ RedisStarts
             \/ \E p \in Replicas : ListenerFails(p) \/ ListenerSubscribes(p) \/ OtherListener(p)
  <2>1. UNCHANGED <<socketVars, taskVars, mailVars>>
    BY <1>1 DEF RedisStops, RedisStarts, ListenerFails, ListenerSubscribes, OtherListener
  <2>2. QED
    BY <1>1, <2>1, RedisKeeps
<1>2. CASE \E p \in Replicas, m \in Messages : Start(p, m) \/ Broadcast(p, m)
  BY <1>2, StartKeeps, PublishKeeps
<1>3. CASE \E t \in Task : position[t] > 0 /\ (Send(t) \/ Finish(t))
  BY <1>3, SendKeeps, FinishKeeps
<1>4. CASE \E p \in Replicas, w \in Sockets : Open(p, w) \/ Remove(p, w)
  BY <1>4, SocketsKeep, RemoveKeeps
<1>5. CASE \E w \in Sockets : Leave(w)
  BY <1>5, SocketsKeep
<1>6. CASE UNCHANGED broadcastVars
  <2>1. UNCHANGED <<redisUp, subscribed, listening, available, stops, connections, left, opened, scheduled,
                    position, dead, sent, audience, received, excused, unsure, doubtful>>
    BY <1>6 DEF broadcastVars, redisVars, socketVars, taskVars, mailVars
  <2>2. BroadcastTypes' /\ Listed'
    BY <2>1 DEF BroadcastInv, BroadcastTypes, Listed
  <2>3. ASSUME NEW m \in Messages PROVE MessageInv(m)'
    <3>1. (Unsent(m)' <=> Unsent(m)) /\ (OneWay(m)' <=> OneWay(m))
      BY <2>1 DEF Unsent, OneWay
    <3>2. Reaches(m)' <=> Reaches(m)
      BY <2>1 DEF Reaches, Awaits
    <3>3. MessageInv(m)
      BY DEF BroadcastInv
    <3>4. QED
      BY <2>1, <3>1, <3>2, <3>3 DEF MessageInv
  <2>4. QED
    BY <2>2, <2>3 DEF BroadcastInv
<1>7. QED
  BY <1>1, <1>2, <1>3, <1>4, <1>5, <1>6 DEF BroadcastNext

\* It holds throughout.
LEMMA BroadcastInvariant == BroadcastSpec => []BroadcastInv
BY BroadcastStart, BroadcastStep, PTL DEF BroadcastSpec

\* _local_broadcast over a list that moves: a dashboard that stays gets every
\* message for which it has no excuse, and none twice unless the answer of Redis
\* was lost.
THEOREM BroadcastsArriveOnce == BroadcastSpec => []DeliveredOnce
<1>1. BroadcastInv => DeliveredOnce
  <2> SUFFICES ASSUME BroadcastInv, NEW m \in Messages
               PROVE  /\ Done(m) => \A w \in audience[m] \ left :
                                      received[<<w, m>>] > 0 \/ <<w, m>> \in excused
                      /\ \A w \in Sockets : received[<<w, m>>] > 1 => m \in doubtful
    BY DEF DeliveredOnce
  <2>1. MessageInv(m) /\ received \in [Sockets \X Messages -> Nat] /\ connections \in [Replicas -> Seq(Sockets)]
    BY DEF BroadcastInv, BroadcastTypes
  <2>2. ASSUME Done(m), NEW w, Awaits(w, m) PROVE FALSE
    <3>1. \A p \in Replicas : /\ <<p, m>> \notin scheduled
                              /\ position[<<p, m, "redis">>] = 0 /\ position[<<p, m, "local">>] = 0
      BY <2>2, TaskParts DEF Done
    <3>2. QED
      BY <2>1, <2>2, <3>1 DEF Awaits
  <2>3. ASSUME NEW w \in Sockets, received[<<w, m>>] > 1 PROVE m \in doubtful
    <3>1. received[<<w, m>>] \in Nat /\ received[<<w, m>>] # 0
      BY <2>1, <2>3
    <3>2. m \in sent
      BY <2>1, <3>1 DEF MessageInv, Unsent
    <3>3. QED
      BY <2>1, <2>3, <3>1, <3>2 DEF MessageInv, OneWay
  <2>4. QED
    BY <2>1, <2>2, <2>3 DEF Done, MessageInv, Reaches
<1>2. QED
  BY <1>1, BroadcastInvariant, PTL

-----------------------------------------------------------------------------
(* The parts side by side *)

\* The composition moves one part and leaves the others: what is proved of the
\* parts holds of it.
THEOREM PartsKeepTheirSpecs == Spec => BroadcastSpec /\ SimSpec /\ AuthSpec /\ SwitcherSpec
<1>1. Init => BroadcastInit /\ SimInit /\ AuthInit /\ SwitcherInit
  BY DEF Init
<1>2. [Next]_vars => /\ [BroadcastNext]_broadcastVars /\ [SimNext]_simVars
                     /\ [AuthNext]_authVars /\ [SwitcherNext]_switcherVars
  BY DEF Next, vars
<1>3. QED
  BY <1>1, <1>2, PTL DEF Spec, BroadcastSpec, SimSpec, AuthSpec, SwitcherSpec

\* The variables of the four modules keep their types.
THEOREM ConsoleTypesKept == Spec => []TypeOK
<1>1. BroadcastInv => BroadcastTypeOK
  BY DEF BroadcastInv, BroadcastTypes, BroadcastTypeOK
<1>2. SimInv => SimTypeOK
  BY DEF SimInv, ProducerInv
<1>3. AuthInv => AuthTypeOK
  BY DEF AuthInv, SessionInv, TokenInv, WipeInv, AuthTypeOK
<1>4. SwitchInv => SwitcherTypeOK
  BY DEF SwitchInv
<1>5. BroadcastInv /\ SimInv /\ AuthInv /\ SwitchInv => TypeOK
  BY <1>1, <1>2, <1>3, <1>4 DEF TypeOK
<1>6. QED
  BY <1>5, PartsKeepTheirSpecs, BroadcastInvariant, SimInvariant, AuthInvariant, SwitchInvariant, PTL
=============================================================================
