-------------------------- MODULE SignalSupervisor --------------------------
(***************************************************************************)
(* other/signal.cpp: a process forks two workers and keeps their number in *)
(* its handler of SIGCHLD and SIGTERM, whose loop waits for a child and    *)
(* forks another until no child is left.  While a handler runs its own     *)
(* signal is blocked and the other one may interrupt it, so that the stack *)
(* of the process holds at most one frame for each.                        *)
(***************************************************************************)
EXTENDS Integers, Sequences, FiniteSets

CONSTANTS
  Pids,         \* process identifiers of the workers, used over again
  MaxDeaths,    \* bound: how often a worker ends
  Faults        \* "fork", "term" (somebody sends SIGTERM), "early" (a worker
                \* ends before the handlers are installed)

ASSUME PidAssumption == Pids # {}
ASSUME DeathAssumption == MaxDeaths \in Nat
ASSUME FaultAssumption == Faults \subseteq {"fork", "term", "early"}

VARIABLES
  pc,           \* main: "fork1", "fork2", "chld", "term", "sleep" or "over"
  frames,       \* handlers running, the innermost last, see Frames
  pending,      \* signals raised and not delivered
  proc,         \* each worker: "free", "alive" or "zombie"
  lost,         \* history: workers not there because a fork failed
  deaths        \* how often a worker has ended

vars == <<pc, frames, pending, proc, lost, deaths>>

Signals == {"CHLD", "TERM"}

\* at = "wait": in waitpid.  at = "fork": between waitpid and fork.
Frames == [sig : Signals, at : {"wait", "fork"}]

Children == {p \in Pids : proc[p] # "free"}
Alive == {p \in Pids : proc[p] = "alive"}
Running == {frames[i].sig : i \in DOMAIN frames}        \* signals blocked

\* Handlers installed by signal() in main, in this order.
Installed == CASE pc \in {"fork1", "fork2", "chld", "over"} -> {}
               [] pc = "term" -> {"CHLD"}
               [] OTHER -> Signals

SignalSupervisorTypeOK ==
  /\ pc \in {"fork1", "fork2", "chld", "term", "sleep", "over"}
  /\ frames \in Seq(Frames)
  /\ \A i, j \in DOMAIN frames : frames[i].sig = frames[j].sig => i = j
  /\ pending \subseteq Installed
  /\ proc \in [Pids -> {"free", "alive", "zombie"}]
  /\ lost \in Nat
  /\ deaths \in 0 .. MaxDeaths

Init ==
  /\ pc = "fork1"
  /\ frames = <<>>
  /\ pending = {}
  /\ proc = [p \in Pids |-> "free"]
  /\ lost = 0
  /\ deaths = 0

-----------------------------------------------------------------------------
(***************************************************************************)
(* fork.  A failure is not noticed by those that come after the first.     *)
(***************************************************************************)
Spawn == /\ \E p \in Pids \ Children : proc' = [proc EXCEPT ![p] = "alive"]
         /\ UNCHANGED lost

SpawnFails == "fork" \in Faults /\ lost' = lost + 1 /\ UNCHANGED proc

Main(from, to) == frames = <<>> /\ pc = from /\ pc' = to

ForkFirst ==
  /\ \/ Main("fork1", "fork2") /\ Spawn
     \/ Main("fork1", "over") /\ SpawnFails
  /\ UNCHANGED <<frames, pending, deaths>>

ForkSecond ==
  /\ Main("fork2", "chld")
  /\ Spawn \/ SpawnFails
  /\ UNCHANGED <<frames, pending, deaths>>

Install ==
  /\ Main("chld", "term") \/ Main("term", "sleep")
  /\ UNCHANGED <<frames, pending, proc, lost, deaths>>

-----------------------------------------------------------------------------
(***************************************************************************)
(* A worker ends: after its sleep, or because SIGTERM ends the sleep.  A   *)
(* SIGCHLD nobody handles is discarded; one that is pending already is not *)
(* counted.                                                                *)
(***************************************************************************)
WorkerEnds(p) ==
  /\ proc[p] = "alive"
  /\ deaths < MaxDeaths /\ deaths' = deaths + 1
  /\ pc \in {"term", "sleep"} \/ "early" \in Faults
  /\ proc' = [proc EXCEPT ![p] = "zombie"]
  /\ pending' = pending \cup ({"CHLD"} \cap Installed)
  /\ UNCHANGED <<pc, frames, lost>>

\* SIGTERM reaches the parent, which it ends before it is handled.
Terminate ==
  /\ "term" \in Faults /\ pc # "over"
  /\ IF "TERM" \in Installed
       THEN pending' = pending \cup {"TERM"} /\ UNCHANGED <<pc, frames>>
       ELSE pc' = "over" /\ frames' = <<>> /\ pending' = {}
  /\ UNCHANGED <<proc, lost, deaths>>

-----------------------------------------------------------------------------
(***************************************************************************)
(* sig_proc.                                                               *)
(***************************************************************************)
Top == frames[Len(frames)]

Deliver(sig) ==
  /\ sig \in pending /\ sig \notin Running
  /\ frames' = Append(frames, [sig |-> sig, at |-> "wait"])
  /\ pending' = pending \ {sig}
  /\ UNCHANGED <<pc, proc, lost, deaths>>

\* Mutant: one child for each signal, as if none were ever merged.
Reap_OncePerSignal ==
  /\ frames # <<>> /\ Top.at = "wait"
  /\ \E p \in Pids : /\ proc[p] = "zombie"
                     /\ \E q \in Pids \ (Children \ {p}) :
                          proc' = [proc EXCEPT ![p] = "free", ![q] = "alive"]
  /\ frames' = SubSeq(frames, 1, Len(frames) - 1)
  /\ UNCHANGED <<pc, pending, lost, deaths>>

\* Mutant: WNOHANG, whose result 0 is not less than 0 either.
Reap_NoHang ==
  /\ frames # <<>> /\ Top.at = "wait" /\ Children # {}
  /\ \/ \E p \in Pids : proc[p] = "zombie" /\ proc' = [proc EXCEPT ![p] = "free"]
     \/ (\A p \in Pids : proc[p] # "zombie") /\ UNCHANGED proc
  /\ frames' = [frames EXCEPT ![Len(frames)].at = "fork"]
  /\ UNCHANGED <<pc, pending, lost, deaths>>

Reap ==
  /\ frames # <<>> /\ Top.at = "wait"
  /\ \E p \in Pids : proc[p] = "zombie" /\ proc' = [proc EXCEPT ![p] = "free"]
  /\ frames' = [frames EXCEPT ![Len(frames)].at = "fork"]
  /\ UNCHANGED <<pc, pending, lost, deaths>>

\* Mutant: the worker is only reported.
Refork_Forgotten ==
  /\ frames # <<>> /\ Top.at = "fork"
  /\ frames' = [frames EXCEPT ![Len(frames)].at = "wait"]
  /\ UNCHANGED <<pc, pending, proc, lost, deaths>>

Refork ==
  /\ frames # <<>> /\ Top.at = "fork"
  /\ Spawn \/ SpawnFails
  /\ frames' = [frames EXCEPT ![Len(frames)].at = "wait"]
  /\ UNCHANGED <<pc, pending, deaths>>

\* waitpid fails for want of children.
Return ==
  /\ frames # <<>> /\ Top.at = "wait"
  /\ Children = {}
  /\ frames' = SubSeq(frames, 1, Len(frames) - 1)
  /\ UNCHANGED <<pc, pending, proc, lost, deaths>>

-----------------------------------------------------------------------------
Parent == \/ ForkFirst \/ ForkSecond \/ Install
          \/ \E sig \in Signals : Deliver(sig)
          \/ Reap \/ Refork \/ Return

Next == Parent \/ Terminate \/ \E p \in Pids : WorkerEnds(p)

Spec == Init /\ [][Next]_vars

\* The kernel lets the parent run on.
FairSpec == Spec /\ WF_vars(Parent)

-----------------------------------------------------------------------------
Owed == {i \in DOMAIN frames : frames[i].at = "fork"}

(***************************************************************************)
(* However the two handlers interrupt each other, merged and discarded     *)
(* signals notwithstanding, no worker is replaced twice and none is        *)
(* forgotten: each is there, dead or alive, or a handler is about to fork  *)
(* it, or its fork has failed.                                             *)
(***************************************************************************)
WorkersConserved ==
  pc \in {"chld", "term", "sleep"} =>
    Cardinality(Children) + Cardinality(Owed) + lost = 2

\* No fork has failed and no worker has ended before SIGCHLD was handled.
Undisturbed ==
  lost = 0 /\ (pc \in {"fork1", "fork2", "chld"} => Children = Alive)

(***************************************************************************)
(* Without SIGTERM both workers are there in the end, even when the        *)
(* signals of two that end together are merged into one.                   *)
(***************************************************************************)
Restored ==
  [](Undisturbed /\ pc # "over" /\ "TERM" \notin pending) => <>[](Cardinality(Alive) = 2)

(***************************************************************************)
(* SIGTERM may interrupt the handler of SIGCHLD before its fork, which is  *)
(* then put off for ever; one worker is there all the same, again and      *)
(* again.                                                                  *)
(***************************************************************************)
NeverIdle == []Undisturbed => []<>(pc = "over" \/ Alive # {})

=============================================================================
