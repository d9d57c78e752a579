---------------------------- MODULE ModeSwitcher ----------------------------
(***************************************************************************)
(* scripts/mode_switcher.py: an HTTP server that takes one stack of        *)
(* containers down and the other up, in a thread, while it refuses further *)
(* switches.                                                               *)
(***************************************************************************)
EXTENDS Integers, FiniteSets

CONSTANTS Callers,     \* requests to switch, each served by a thread
          MaxSwitches, \* bound: switches
          MaxBroken    \* bound: commands that fail

ASSUME SwitcherConstantsOK == {MaxSwitches, MaxBroken} \subseteq Nat

VARIABLES
  busy,      \* _busy
  posts,     \* per request: the mode it asks for, and how far do_POST is
  switches,  \* threads in _run_switch
  stacks,    \* modes with containers that run
  undone,    \* modes whose "down" failed and which nothing took down since
  switched, broken \* counts

switcherVars == <<busy, posts, switches, stacks, undone, switched, broken>>

Modes == {"live", "portal"}
OtherMode(m) == CHOOSE o \in Modes : o # m

SwitcherTypeOK ==
  /\ busy \in BOOLEAN /\ posts \in [Callers -> Modes \union {"none"}]
  /\ switches \subseteq [id : Nat, mode : Modes, at : {"down", "up", "again"}]
  /\ stacks \subseteq Modes /\ undone \subseteq Modes /\ {switched, broken} \subseteq Nat

SwitcherInit ==
  /\ busy = FALSE /\ posts = [c \in Callers |-> "none"] /\ switches = {}
  /\ stacks \in {{}, {"live"}, {"portal"}} /\ undone = {} /\ switched = 0 /\ broken = 0

Fault == broken < MaxBroken /\ broken' = broken + 1

\* do_POST: a request for a known route arrives.
Post(c, m) ==
  /\ posts[c] = "none" /\ switched < MaxSwitches /\ posts' = [posts EXCEPT ![c] = m]
  /\ UNCHANGED <<busy, switches, stacks, undone, switched, broken>>

\* Under the lock: refused with 409 while a switch runs, otherwise its thread starts.
Serve(c) ==
  /\ posts[c] # "none" /\ posts' = [posts EXCEPT ![c] = "none"]
  /\ IF busy THEN UNCHANGED <<busy, switches, switched>>
     ELSE /\ busy' = TRUE /\ switched' = switched + 1
          /\ switches' = switches \union {[id |-> switched, mode |-> posts[c], at |-> "down"]}
  /\ UNCHANGED <<stacks, undone, broken>>

Continue(s, at) == switches' = (switches \ {s}) \union {[s EXCEPT !.at = at]} /\ UNCHANGED busy
End(s) == switches' = switches \ {s} /\ busy' = FALSE

\* "compose down" of the other stack; that it fails is only logged.
TakenDown_Same(m) == m
TakenDown(m) == OtherMode(m)

Down(s) ==
  /\ s.at = "down" /\ Continue(s, "up")
  /\ \/ stacks' = stacks \ {TakenDown(s.mode)} /\ undone' = undone \ {TakenDown(s.mode)}
        /\ UNCHANGED broken
     \/ Fault /\ undone' = undone \union {TakenDown(s.mode)} /\ UNCHANGED stacks
  /\ UNCHANGED <<posts, switched>>

\* "compose up", once more if it fails; a failure may leave containers behind.
Up(s) ==
  /\ s.at \in {"up", "again"}
  /\ \/ stacks' = stacks \union {s.mode} /\ End(s) /\ UNCHANGED broken
     \/ Fault /\ stacks' \in {stacks, stacks \union {s.mode}}
        /\ IF s.at = "up" THEN Continue(s, "again") ELSE End(s)
  /\ UNCHANGED <<posts, undone, switched>>

\* A command that takes too long raises: the switch ends there.  A "down" that is
\* cut off has not taken its stack down.
TimesOut(s) ==
  /\ Fault /\ End(s)
  /\ IF s.at = "down"
     THEN undone' = undone \union {TakenDown(s.mode)} /\ UNCHANGED stacks
     ELSE stacks' \in {stacks, stacks \union {s.mode}} /\ UNCHANGED undone
  /\ UNCHANGED <<posts, switched>>

SwitcherNext ==
  \/ \E c \in Callers : Serve(c) \/ \E m \in Modes : Post(c, m)
  \/ \E s \in switches : Down(s) \/ Up(s) \/ TimesOut(s)

SwitcherSpec == SwitcherInit /\ [][SwitcherNext]_switcherVars

-----------------------------------------------------------------------------
(* Properties *)

\* Requests at the same time start one switch, and the server is busy exactly as
\* long as it runs: no failure leaves it busy for ever.
OneSwitchAtATime == (\A s, t \in switches : s = t) /\ (busy <=> switches # {})

\* Both stacks, which share ports and containers, run together only if one could
\* not be taken down.
StacksExclude == stacks = Modes => undone # {}
=============================================================================
