---------------------------- MODULE SignalProofs ----------------------------
(***************************************************************************)
(* The supervisor loses no worker, for any identifiers, any number of      *)
(* deaths and any faults.                                                  *)
(***************************************************************************)
EXTENDS SignalSupervisor, FiniteSetTheorems, SequenceTheorems, TLAPS

(***************************************************************************)
(* What the proof needs of the types: no handler runs before one is        *)
(* installed, because no signal is kept for it.                            *)
(***************************************************************************)
SignalTypes ==
  /\ pc \in {"fork1", "fork2", "chld", "term", "sleep", "over"}
  /\ frames \in Seq(Frames)
  /\ pending \subseteq Installed
  /\ proc \in [Pids -> {"free", "alive", "zombie"}]
  /\ lost \in Nat
  /\ pc \in {"fork1", "fork2", "chld"} => frames = <<>>

(***************************************************************************)
(* WorkersConserved speaks of main once it has forked both; before, main   *)
(* has forked as many as it is there.                                      *)
(***************************************************************************)
Workers == CASE pc = "fork1" -> 0
             [] pc = "fork2" -> 1
             [] OTHER -> 2

Count ==
  /\ IsFiniteSet(Children)
  /\ pc # "over" => Cardinality(Children) + Cardinality(Owed) + lost = Workers

SignalInv == SignalTypes /\ Count

-----------------------------------------------------------------------------
LEMMA OwedFinite ==
  ASSUME SignalTypes
  PROVE  IsFiniteSet(Owed) /\ Cardinality(Owed) \in Nat
<1>1. DOMAIN frames = 1 .. Len(frames) /\ Len(frames) \in Nat
  BY DEF SignalTypes
<1>2. IsFiniteSet(1 .. Len(frames))
  BY <1>1, FS_Interval
<1>. QED
  BY <1>1, <1>2, FS_Subset, FS_CardinalityType DEF Owed

\* A fork adds a worker, or one is lost.
LEMMA ForkCounts ==
  ASSUME SignalInv, Spawn \/ SpawnFails
  PROVE  /\ proc' \in [Pids -> {"free", "alive", "zombie"}] /\ lost' \in Nat
         /\ IsFiniteSet(Children')
         /\ Cardinality(Children') + lost' = Cardinality(Children) + lost + 1
<1>0. IsFiniteSet(Children) /\ Cardinality(Children) \in Nat /\ lost \in Nat
  BY FS_CardinalityType DEF SignalInv, SignalTypes, Count
<1>1. CASE Spawn
  <2>1. PICK p \in Pids \ Children : proc' = [proc EXCEPT ![p] = "alive"]
    BY <1>1 DEF Spawn
  <2>2. Children' = Children \cup {p} /\ proc' \in [Pids -> {"free", "alive", "zombie"}]
    BY <2>1 DEF Children, SignalInv, SignalTypes
  <2>3. IsFiniteSet(Children') /\ Cardinality(Children') = Cardinality(Children) + 1
    BY <1>0, <2>1, <2>2, FS_AddElement
  <2>4. lost' = lost
    BY <1>1 DEF Spawn
  <2>. QED
    BY <1>0, <2>2, <2>3, <2>4
<1>2. CASE SpawnFails
  <2>1. proc' = proc /\ lost' = lost + 1
    BY <1>2 DEF SpawnFails
  <2>2. Children' = Children
    BY <2>1 DEF Children
  <2>. QED
    BY <1>0, <2>1, <2>2 DEF SignalInv, SignalTypes
<1>. QED
  BY <1>1, <1>2

\* Nothing is counted that changes.
LEMMA NothingCounted ==
  ASSUME SignalInv, SignalTypes', UNCHANGED <<proc, lost>>,
         pc' # "over" => Owed' = Owed /\ Workers' = Workers /\ pc # "over"
  PROVE  SignalInv'
<1>1. Children' = Children
  BY DEF Children
<1>. QED
  BY <1>1 DEF SignalInv, Count

-----------------------------------------------------------------------------
\* main before it has handlers.
LEMMA MainForks ==
  ASSUME SignalInv, ForkFirst \/ ForkSecond
  PROVE  SignalInv'
<1>1. /\ Spawn \/ SpawnFails
      /\ frames = <<>> /\ frames' = <<>> /\ pending' = pending
  BY DEF ForkFirst, ForkSecond, Main
<1>2. \/ pc = "fork1" /\ pc' = "fork2" /\ Spawn
      \/ pc = "fork1" /\ pc' = "over"
      \/ pc = "fork2" /\ pc' = "chld"
  BY DEF ForkFirst, ForkSecond, Main
<1>3. pending' \subseteq Installed'
  BY <1>1, <1>2 DEF SignalInv, SignalTypes, Installed
<1>4. SignalTypes'
  BY <1>1, <1>2, <1>3, ForkCounts DEF SignalInv, SignalTypes
<1>5. Owed = {} /\ Owed' = {}
  BY <1>1 DEF Owed
<1>6. pc' # "over" => Workers' = Workers + 1 /\ pc # "over"
  BY <1>2 DEF Workers
<1>7. Count'
  <2>1. IsFiniteSet(Children')
    BY <1>1, ForkCounts
  <2>2. Cardinality(Children) \in Nat /\ Cardinality(Children') \in Nat /\ lost \in Nat /\ lost' \in Nat
    BY <1>1, <2>1, ForkCounts, FS_CardinalityType DEF SignalInv, SignalTypes, Count
  <2>3. Cardinality(Children') + lost' = Cardinality(Children) + lost + 1
    BY <1>1, ForkCounts
  <2>4. pc' # "over" => Cardinality(Children) + 0 + lost = Workers
    BY <1>5, <1>6, FS_EmptySet DEF SignalInv, Count
  <2>. QED
    BY <1>5, <1>6, <2>1, <2>2, <2>3, <2>4, FS_EmptySet DEF Count
<1>. QED
  BY <1>4, <1>7 DEF SignalInv

LEMMA InstallStep ==
  ASSUME SignalInv, Install
  PROVE  SignalInv'
<1>1. /\ \/ pc = "chld" /\ pc' = "term"
         \/ pc = "term" /\ pc' = "sleep"
      /\ UNCHANGED <<frames, pending, proc, lost>>
  BY DEF Install, Main
<1>2. SignalTypes'
  BY <1>1 DEF SignalInv, SignalTypes, Installed, Signals
<1>3. Owed' = Owed /\ Workers' = Workers
  BY <1>1 DEF Owed, Workers
<1>. QED
  BY <1>1, <1>2, <1>3, NothingCounted

-----------------------------------------------------------------------------
\* Workers and signals from outside.
LEMMA WorkerEndsStep ==
  ASSUME SignalInv, NEW p \in Pids, WorkerEnds(p)
  PROVE  SignalInv'
<1>1. SignalTypes'
  BY DEF WorkerEnds, SignalInv, SignalTypes, Installed
<1>2. Children' = Children
  BY DEF WorkerEnds, SignalInv, SignalTypes, Children
<1>3. Owed' = Owed /\ Workers' = Workers
  BY DEF WorkerEnds, Owed, Workers
<1>. QED
  BY <1>1, <1>2, <1>3 DEF WorkerEnds, SignalInv, Count

LEMMA TerminateStep ==
  ASSUME SignalInv, Terminate
  PROVE  SignalInv'
<1>1. CASE "TERM" \in Installed
  <2>1. SignalTypes'
    BY <1>1 DEF Terminate, SignalInv, SignalTypes, Installed
  <2>2. Owed' = Owed /\ Workers' = Workers
    BY <1>1 DEF Terminate, Owed, Workers
  <2>. QED
    BY <1>1, <2>1, <2>2, NothingCounted DEF Terminate
<1>2. CASE "TERM" \notin Installed
  <2>1. SignalTypes'
    BY <1>2 DEF Terminate, SignalInv, SignalTypes, Installed
  <2>. QED
    BY <1>2, <2>1, NothingCounted DEF Terminate
<1>. QED
  BY <1>1, <1>2

-----------------------------------------------------------------------------
\* sig_proc.  A handler that begins or ends owes no worker.
LEMMA DeliverStep ==
  ASSUME SignalInv, NEW sig \in Signals, Deliver(sig)
  PROVE  SignalInv'
<1>. DEFINE new == [sig |-> sig, at |-> "wait"]
<1>1. /\ frames' = Append(frames, new) /\ pending' = pending \ {sig} /\ sig \in pending
      /\ UNCHANGED <<pc, proc, lost>>
  BY DEF Deliver
<1>2. new \in Frames
  BY DEF Frames
<1>3. pc \in {"term", "sleep"}
  BY <1>1 DEF SignalInv, SignalTypes, Installed
<1>4. frames \in Seq(Frames)
  BY DEF SignalInv, SignalTypes
<1>5. SignalTypes'
  <2>1. frames' \in Seq(Frames)
    BY <1>1, <1>2, <1>4
  <2>2. pending' \subseteq Installed'
    BY <1>1 DEF SignalInv, SignalTypes, Installed
  <2>. QED
    BY <1>1, <1>3, <2>1, <2>2 DEF SignalInv, SignalTypes
<1>6. Owed' = Owed
  BY <1>1, <1>2, <1>4 DEF Owed
<1>7. Workers' = Workers
  BY <1>1 DEF Workers
<1>. QED
  BY <1>1, <1>3, <1>5, <1>6, <1>7, NothingCounted

LEMMA ReturnStep ==
  ASSUME SignalInv, Return
  PROVE  SignalInv'
<1>1. /\ frames \in Seq(Frames) /\ frames # <<>>
      /\ Len(frames) \in Nat \ {0}
      /\ frames[Len(frames)].at = "wait"
      /\ frames' = SubSeq(frames, 1, Len(frames) - 1)
      /\ UNCHANGED <<pc, pending, proc, lost>>
  BY DEF Return, Top, SignalInv, SignalTypes
<1>2. /\ frames' \in Seq(Frames) /\ Len(frames') = Len(frames) - 1
      /\ \A i \in 1 .. Len(frames) - 1 : frames'[i] = frames[i]
  <2>1. \A i \in 1 .. Len(frames) - 1 : frames[i] \in Frames
    BY <1>1
  <2>. DEFINE n == Len(frames) - 1
  <2>2. n \in Nat
    BY <1>1
  <2>3. /\ SubSeq(frames, 1, n) \in Seq(Frames)
        /\ Len(SubSeq(frames, 1, n)) = IF 1 <= n THEN n - 1 + 1 ELSE 0
        /\ \A i \in 1 .. n - 1 + 1 : SubSeq(frames, 1, n)[i] = frames[1 + i - 1]
    BY <2>1, <2>2, SubSeqProperties
  <2>4. frames' = SubSeq(frames, 1, n)
    BY <1>1
  <2>. HIDE DEF n
  <2>5. Len(frames') = n
    BY <2>2, <2>3, <2>4
  <2>6. \A i \in 1 .. n : frames'[i] = frames[i]
    BY <2>2, <2>3, <2>4
  <2>. QED
    BY <2>3, <2>4, <2>5, <2>6 DEF n
<1>3. SignalTypes'
  BY <1>1, <1>2 DEF SignalInv, SignalTypes, Installed
<1>4. Owed' = Owed
  BY <1>1, <1>2 DEF Owed
<1>5. Workers' = Workers /\ pc' = pc
  BY <1>1 DEF Workers
<1>. QED
  BY <1>1, <1>3, <1>4, <1>5, NothingCounted

\* What both steps of the loop leave of the stack.
LEMMA TopChanges ==
  ASSUME SignalInv, frames # <<>>, NEW step \in {"wait", "fork"},
         frames' = [frames EXCEPT ![Len(frames)].at = step],
         UNCHANGED <<pc, pending>>
  PROVE  /\ frames' \in Seq(Frames) /\ pending' \subseteq Installed'
         /\ pc' \in {"fork1", "fork2", "chld"} => frames' = <<>>
         /\ Len(frames) \in DOMAIN frames
         /\ Owed' = IF step = "fork" THEN Owed \cup {Len(frames)} ELSE Owed \ {Len(frames)}
<1>1. frames \in Seq(Frames) /\ Len(frames) \in DOMAIN frames
  BY DEF SignalInv, SignalTypes
<1>2. frames' \in Seq(Frames) /\ Len(frames') = Len(frames)
  <2>1. frames[Len(frames)] \in Frames
    BY <1>1
  <2>2. [frames[Len(frames)] EXCEPT !.at = step] \in Frames
    BY <2>1 DEF Frames
  <2>3. frames' = [frames EXCEPT ![Len(frames)] = [frames[Len(frames)] EXCEPT !.at = step]]
    BY <1>1
  <2>. QED
    BY <1>1, <2>2, <2>3, ExceptSeq
<1>3. DOMAIN frames' = DOMAIN frames
  BY <1>1, <1>2
<1>4. \A i \in DOMAIN frames : frames'[i].at = IF i = Len(frames) THEN step ELSE frames[i].at
  BY <1>1 DEF Frames
<1>5. Owed' = IF step = "fork" THEN Owed \cup {Len(frames)} ELSE Owed \ {Len(frames)}
  BY <1>1, <1>3, <1>4 DEF Owed
<1>6. pending' \subseteq Installed' /\ (pc' \in {"fork1", "fork2", "chld"} => frames' = <<>>)
  BY DEF SignalInv, SignalTypes, Installed
<1>. QED
  BY <1>1, <1>2, <1>5, <1>6

\* waitpid: a worker less, and one that is owed.
LEMMA ReapStep ==
  ASSUME SignalInv, Reap
  PROVE  SignalInv'
<1>1. /\ frames # <<>> /\ Top.at = "wait" /\ UNCHANGED <<pc, pending, lost>>
      /\ frames' = [frames EXCEPT ![Len(frames)].at = "fork"]
  BY DEF Reap
<1>2. PICK p \in Pids : proc[p] = "zombie" /\ proc' = [proc EXCEPT ![p] = "free"]
  BY DEF Reap
<1>3. /\ frames' \in Seq(Frames) /\ pending' \subseteq Installed'
      /\ pc' \in {"fork1", "fork2", "chld"} => frames' = <<>>
      /\ Owed' = Owed \cup {Len(frames)} /\ Len(frames) \notin Owed
  BY <1>1, TopChanges DEF Owed, Top
<1>4. SignalTypes'
  BY <1>1, <1>2, <1>3 DEF SignalInv, SignalTypes
<1>5. Children' = Children \ {p} /\ p \in Children
  BY <1>2 DEF Children, SignalInv, SignalTypes
<1>6. /\ IsFiniteSet(Children) /\ Cardinality(Children) \in Nat
      /\ IsFiniteSet(Owed) /\ Cardinality(Owed) \in Nat
      /\ lost \in Nat /\ lost' = lost
  BY <1>1, OwedFinite, FS_CardinalityType DEF SignalInv, SignalTypes, Count
<1>7. IsFiniteSet(Children') /\ Cardinality(Children') = Cardinality(Children) - 1
  BY <1>5, <1>6, FS_RemoveElement
<1>8. Cardinality(Owed') = Cardinality(Owed) + 1
  BY <1>3, <1>6, FS_AddElement
<1>9. Workers' = Workers /\ pc' = pc
  BY <1>1 DEF Workers
<1>. QED
  BY <1>4, <1>6, <1>7, <1>8, <1>9 DEF SignalInv, Count

\* fork: the worker that was owed is there, or lost.
LEMMA ReforkStep ==
  ASSUME SignalInv, Refork
  PROVE  SignalInv'
<1>1. /\ frames # <<>> /\ Top.at = "fork" /\ UNCHANGED <<pc, pending>>
      /\ frames' = [frames EXCEPT ![Len(frames)].at = "wait"]
      /\ Spawn \/ SpawnFails
  BY DEF Refork
<1>2. /\ frames' \in Seq(Frames) /\ pending' \subseteq Installed'
      /\ pc' \in {"fork1", "fork2", "chld"} => frames' = <<>>
      /\ Owed' = Owed \ {Len(frames)} /\ Len(frames) \in Owed
  BY <1>1, TopChanges DEF Owed, Top
<1>3. /\ proc' \in [Pids -> {"free", "alive", "zombie"}] /\ lost' \in Nat
      /\ IsFiniteSet(Children')
      /\ Cardinality(Children') + lost' = Cardinality(Children) + lost + 1
  BY <1>1, ForkCounts
<1>4. SignalTypes'
  BY <1>1, <1>2, <1>3 DEF SignalInv, SignalTypes
<1>5. /\ Cardinality(Children) \in Nat /\ Cardinality(Children') \in Nat
      /\ IsFiniteSet(Owed) /\ Cardinality(Owed) \in Nat
      /\ lost \in Nat
  BY <1>3, OwedFinite, FS_CardinalityType DEF SignalInv, SignalTypes, Count
<1>6. Cardinality(Owed') = Cardinality(Owed) - 1
  BY <1>2, <1>5, FS_RemoveElement
<1>7. Workers' = Workers /\ pc' = pc
  BY <1>1 DEF Workers
<1>. QED
  BY <1>3, <1>4, <1>5, <1>6, <1>7 DEF SignalInv, Count

-----------------------------------------------------------------------------
LEMMA SignalInvInit == Init => SignalInv
<1>. SUFFICES ASSUME Init PROVE SignalInv
  OBVIOUS
<1>1. SignalTypes
  BY DEF Init, SignalTypes
<1>2. Children = {} /\ Owed = {} /\ lost = 0 /\ Workers = 0
  BY DEF Init, Children, Owed, Workers
<1>. QED
  BY <1>1, <1>2, FS_EmptySet DEF SignalInv, Count

LEMMA SignalInvStep == SignalInv /\ [Next]_vars => SignalInv'
<1>1. SignalInv /\ UNCHANGED vars => SignalInv'
  BY DEF vars, SignalInv, SignalTypes, Count, Children, Owed, Workers, Installed
<1>. QED
  BY <1>1, MainForks, InstallStep, DeliverStep, ReapStep, ReforkStep, ReturnStep,
     TerminateStep, WorkerEndsStep DEF Next, Parent

(***************************************************************************)
(* signal.cpp:26, 42.  No worker is replaced twice and none is forgotten:  *)
(* each is there, dead or alive, or a handler is about to fork it, or its  *)
(* fork has failed.                                                        *)
(***************************************************************************)
THEOREM NoWorkerForgotten == Spec => []WorkersConserved
<1>1. SignalInv => WorkersConserved
  BY DEF SignalInv, Count, Workers, WorkersConserved
<1>. QED
  BY <1>1, SignalInvInit, SignalInvStep, PTL DEF Spec

=============================================================================
