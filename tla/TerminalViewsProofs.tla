--------------------------- MODULE TerminalViewsProofs ---------------------------
(***************************************************************************)
(* Theorems about the terminals opened by hand and what a viewer sees of   *)
(* one and types into it, for any number of sessions, panes, shells and    *)
(* outputs.                                                                *)
(***************************************************************************)
EXTENDS TerminalViews, FiniteSetTheorems, SequenceTheorems, TLAPS

Started == {r \in Run : start[r] # "unused"}
Up == {r \in Run : container[r] = "up"}

\* Nothing is known of a run that has not been started.
UnusedIsFresh ==
  \A r \in Run \ Started :
    /\ container[r] = "none" /\ ~ended[r] /\ ~process[r] /\ closing[r] = "no"
    /\ r \notin Open \cup resizing

\* A pane hosts a run of its own, and keeps it while it is being closed.
HostsItsOwn ==
  /\ \A p \in Pane : shells[p] # NoRun => of[shells[p]] = p
  /\ \A r \in Run : closing[r] # "no" => shells[of[r]] = r

\* A run past its launch has a process to close, or no container.
ProcessKnown ==
  \A r \in Run :
    /\ start[r] \in {"resize", "failing"} => process[r]
    /\ start[r] = "over" /\ ~process[r] => unsafe \/ container[r] # "up"

\* A container that is up is the one of its pane, has not ended and is on the stage or
\* being closed.
UpIsHosted ==
  unsafe \/ \A r \in Up :
    shells[of[r]] = r /\ ~ended[r] /\ (of[r] \in shown \/ closing[r] # "no")

\* Runs are started one by one, and no more than may be are up at once.
UpIsBounded ==
  /\ IsFiniteSet(Started)
  /\ unsafe \/ Cardinality(Up) <= MaxShells

ShellIInv ==
  /\ ShellTypeOK
  /\ UnusedIsFresh
  /\ HostsItsOwn
  /\ ProcessKnown
  /\ UpIsHosted
  /\ UpIsBounded

\* A frame shows a run of its own, or the whole of no terminal.
FrameOK(frame) == frame.run = NoRun => frame.kind = "reset" /\ frame.seq = 0

FramesOK == \A i \in DOMAIN queue : FrameOK(queue[i])

\* Keys are those typed at the terminal shown, or under way to the one they were typed at.
KeysAreHere ==
  /\ keys \subseteq {epoch} \ {NoRun}
  /\ sending = NoPost \/ sending.typed = {sending.epoch}

ViewsIInv ==
  /\ ViewsTypeOK
  /\ FramesOK
  /\ ScreenFaithful
  /\ KeysAreHere

-------------------------------------------------------------------------------
(* The parts that count containers, and the queue of frames.                *)

\* No container more: a step that starts nothing.
LEMMA BoundKept ==
  ASSUME UnusedIsFresh, UpIsBounded, Started' = Started, Up' \subseteq Up, unsafe => unsafe'
  PROVE  UpIsBounded'
<1>1. Up \subseteq Started
  BY DEF UnusedIsFresh, Started, Up
<1>2. IsFiniteSet(Up) /\ Cardinality(Up) \in Nat /\ Cardinality(Up') <= Cardinality(Up)
      /\ Cardinality(Up') \in Nat
  BY <1>1, FS_Subset, FS_CardinalityType DEF UpIsBounded
<1>3. QED
  BY <1>2, ShellAssumption DEF UpIsBounded

\* A run more: start() counts those that are open and have not ended.
LEMMA LaunchKeeps ==
  ASSUME ShellIInv, NEW s \in Session, NEW p \in Pane, NEW r \in Run, Launch(s, p, r),
         shown \subseteq shown', p \in shown', shown' \subseteq known', known' \subseteq Pane
  PROVE  ShellIInv'
<1> USE DEF ShellIInv
<1>1. ShellTypeOK'
  BY ShellAssumption DEF Launch, ShellTypeOK
<1>2. r \notin Started /\ Started' = Started \cup {r} /\ Up' = Up \cup {r}
  BY DEF Launch, Started, Up, ShellTypeOK
<1>3. UnusedIsFresh'
  BY <1>2 DEF Launch, UnusedIsFresh, Started, Open, ShellTypeOK
<1>4. HostsItsOwn'
  BY <1>2, ShellAssumption DEF Launch, HostsItsOwn, UnusedIsFresh, Open, ShellTypeOK
<1>5. ProcessKnown'
  BY DEF Launch, ProcessKnown, ShellTypeOK
<1>6. UpIsHosted'
  BY <1>2, ShellAssumption
     DEF Launch, CanOpen, UpIsHosted, Up, HostsItsOwn, UnusedIsFresh, Open, ShellTypeOK
<1>7. UpIsBounded'
  <2> DEFINE Live == {q \in Open : ~ended[q]}
  <2>1. ~unsafe /\ Cardinality(Live) < MaxShells
    BY DEF Launch, CanOpen
  <2>2. Up \subseteq Live /\ Live \subseteq Started
    BY <2>1, ShellAssumption DEF UpIsHosted, Up, Open, UnusedIsFresh, Started, ShellTypeOK
  <2>3. IsFiniteSet(Started) /\ IsFiniteSet(Live) /\ IsFiniteSet(Up)
        /\ Cardinality(Up) <= Cardinality(Live)
    BY <2>2, FS_Subset DEF UpIsBounded
  <2>4. Cardinality(Up) \in Nat /\ Cardinality(Live) \in Nat
    BY <2>3, FS_CardinalityType
  <2>5. IsFiniteSet(Started')
    BY <1>2, <2>3, FS_AddElement
  <2>6. Cardinality(Up \cup {r}) \in {Cardinality(Up), Cardinality(Up) + 1}
    BY <2>3, FS_AddElement
  <2>7. QED
    BY <1>2, <2>1, <2>3, <2>4, <2>5, <2>6, ShellAssumption DEF UpIsBounded
<1>8. QED
  BY <1>1, <1>3, <1>4, <1>5, <1>6, <1>7

\* A stream begins with a snapshot of the terminal viewed, or of none.
LEMMA SnapshotIsFrame ==
  ASSUME ViewsTypeOK
  PROVE  Snapshot \in Frame /\ FrameOK(Snapshot)
<1> DEFINE r == shells[viewed]
<1>1. r \in Run \cup {NoRun}
  BY DEF ViewsTypeOK, ShellTypeOK
<1>2. CASE r = NoRun
  BY <1>2, ViewsAssumption DEF Snapshot, Frame, FrameOK
<1>3. CASE r # NoRun
  <2>1. output[r] \in 0 .. MaxOutput /\ status[r] \in {"starting", "ready", "stopped", "error"}
    BY <1>1, <1>3 DEF ViewsTypeOK, ShellTypeOK
  <2>2. QED
    BY <1>1, <1>3, <2>1 DEF Snapshot, Frame, FrameOK
<1>4. QED
  BY <1>2, <1>3

\* The frames on the way.
QueueOK == queue \in Seq(Frame) /\ Len(queue) <= MaxQueued /\ FramesOK

\* A queue of one frame.
LEMMA OneFrame ==
  ASSUME NEW f \in Frame, FrameOK(f), queue' = <<f>>
  PROVE  QueueOK'
<1>1. queue' \in Seq(Frame) /\ Len(queue') = 1 /\ DOMAIN queue' = {1} /\ queue'[1] = f
  OBVIOUS
<1>2. QED
  BY <1>1, ViewsAssumption DEF QueueOK, FramesOK, FrameOK

\* A queue that was given up.
LEMMA NoFrame == queue' = <<>> => QueueOK'
<1>1. queue' = <<>> => queue' \in Seq(Frame) /\ Len(queue') = 0 /\ DOMAIN queue' = {}
  OBVIOUS
<1>2. QED
  BY <1>1, ViewsAssumption DEF QueueOK, FramesOK

\* A frame is queued, or the stream is cut off because its viewer is too slow.
LEMMA SendKeeps ==
  ASSUME QueueOK, connected \in BOOLEAN, NEW f \in Frame, FrameOK(f), Send(f)
  PROVE  QueueOK' /\ connected' \in BOOLEAN /\ (AwaitsReset => AwaitsReset')
<1>1. CASE connected /\ Len(queue) < MaxQueued
  <2>1. /\ queue' \in Seq(Frame) /\ Len(queue') = Len(queue) + 1 /\ Len(queue) \in Nat
        /\ DOMAIN queue = 1..Len(queue) /\ DOMAIN queue' = 1..(Len(queue) + 1)
        /\ \A i \in DOMAIN queue : queue'[i] = queue[i]
        /\ queue'[Len(queue) + 1] = f
    BY <1>1 DEF Send, QueueOK
  <2>2. QueueOK' /\ connected' \in BOOLEAN
    BY <1>1, <2>1, ViewsAssumption DEF Send, QueueOK, FramesOK, FrameOK
  <2>3. ASSUME queue # <<>>
        PROVE  queue' # <<>> /\ Head(queue') = Head(queue)
    <3>1. Len(queue) # 0
      BY <2>3, EmptySeq DEF QueueOK
    <3>2. Head(queue) = queue[1] /\ Head(queue') = queue'[1] /\ queue' # <<>>
      BY <2>1, <2>3, <3>1, HeadTailProperties, EmptySeq DEF QueueOK
    <3>3. QED
      BY <2>1, <3>1, <3>2
  <2>4. AwaitsReset => AwaitsReset'
    BY <1>1, <2>3 DEF AwaitsReset, Send
  <2>5. QED
    BY <2>2, <2>4
<1>2. CASE ~(connected /\ Len(queue) < MaxQueued)
  BY <1>2, NoFrame DEF Send, AwaitsReset
<1>3. QED
  BY <1>1, <1>2

\* A viewer that takes nothing keeps the screen he has.
LEMMA ScreenKept ==
  ASSUME ScreenFaithful, UNCHANGED <<epoch, sequence, screen>>, AwaitsReset => AwaitsReset'
  PROVE  ScreenFaithful'
<1>1. \A r, n : (ScreenOf(r, n))' = ScreenOf(r, n)
  BY DEF ScreenOf
<1>2. QED
  BY DEF ScreenFaithful, ScreenOf

\* The whole of a terminal, or of none.
LEMMA WholeScreen ==
  ASSUME ViewsTypeOK', screen' = ScreenOf(epoch', sequence')
  PROVE  ScreenFaithful'
<1>1. epoch' \in Run \cup {NoRun} /\ sequence' \in 0 .. MaxOutput
  BY DEF ViewsTypeOK
<1>2. QED
  BY <1>1 DEF ScreenFaithful, ScreenOf

\* The viewer takes a frame.
LEMMA ReceiveOne ==
  ASSUME QueueOK, queue # <<>>
  PROVE  /\ Head(queue) \in Frame /\ FrameOK(Head(queue))
         /\ queue' = Tail(queue) => QueueOK'
<1>1. /\ Len(queue) \in Nat \ {0} /\ DOMAIN queue = 1..Len(queue)
      /\ Head(queue) = queue[1] /\ queue[1] \in Frame
      /\ Tail(queue) \in Seq(Frame) /\ Len(Tail(queue)) = Len(queue) - 1
      /\ DOMAIN Tail(queue) = 1..(Len(queue) - 1)
      /\ \A i \in 1..(Len(queue) - 1) : Tail(queue)[i] = queue[i + 1]
  BY EmptySeq, LenProperties, HeadTailProperties DEF QueueOK
<1>2. QED
  BY <1>1, ViewsAssumption DEF QueueOK, FramesOK, FrameOK

-------------------------------------------------------------------------------
(* Every operation of the shells keeps their invariant.                     *)

\* The launcher has seen the container up, or its client gone.
LEMMA LaunchedKeeps ==
  ASSUME ShellIInv, NEW r \in Run, Launched(r)
  PROVE  ShellIInv'
<1> USE DEF ShellIInv
<1>1. ShellTypeOK'
  BY DEF Launched, StartGoes, ShellTypeOK
<1>2. UnusedIsFresh'
  BY DEF Launched, StartGoes, UnusedIsFresh, Started, Open
<1>3. ProcessKnown'
  BY DEF Launched, StartGoes, ShellTypeOK, ProcessKnown
<1>4. UpIsBounded'
  BY BoundKept DEF Launched, StartGoes, Started, Up
<1>5. HostsItsOwn' /\ UpIsHosted'
  BY DEF Launched, HostsItsOwn, UpIsHosted, Up
<1>6. QED
  BY <1>1, <1>2, <1>3, <1>4, <1>5

\* It has not come up, and its removal is confirmed or not.
LEMMA LaunchFailsKeeps ==
  ASSUME ShellIInv, NEW r \in Run, NEW unconfirmed \in BOOLEAN, LaunchFails(r, unconfirmed)
  PROVE  ShellIInv'
<1> USE DEF ShellIInv
<1>1. ShellTypeOK'
  BY DEF LaunchFails, Confirmed, Finish, StartGoes, ShellTypeOK
<1>2. UnusedIsFresh'
  BY DEF LaunchFails, Confirmed, Finish, StartGoes, ShellTypeOK, UnusedIsFresh, Started, Open
<1>3. ProcessKnown'
  BY DEF LaunchFails, Confirmed, StartGoes, ShellTypeOK, ProcessKnown
<1>4. UpIsHosted'
  BY DEF LaunchFails, Confirmed, Finish, ShellTypeOK, UpIsHosted, Up
<1>5. UpIsBounded'
  BY BoundKept DEF LaunchFails, Confirmed, StartGoes, ShellTypeOK, Started, Up
<1>6. HostsItsOwn'
  BY DEF LaunchFails, HostsItsOwn
<1>7. QED
  BY <1>1, <1>2, <1>3, <1>4, <1>5, <1>6

\* The first resize is done.
LEMMA ReadiedKeeps ==
  ASSUME ShellIInv, NEW r \in Run, Readied(r)
  PROVE  ShellIInv'
<1> USE DEF ShellIInv
<1>1. ShellTypeOK'
  BY DEF Readied, StartGoes, ShellTypeOK
<1>2. UnusedIsFresh'
  BY DEF Readied, StartGoes, UnusedIsFresh, Started, Open
<1>3. ProcessKnown'
  BY DEF Readied, StartGoes, ProcessKnown
<1>4. UpIsBounded'
  BY BoundKept DEF Readied, StartGoes, Started, Up
<1>5. HostsItsOwn' /\ UpIsHosted'
  BY DEF Readied, HostsItsOwn, UpIsHosted, Up
<1>6. QED
  BY <1>1, <1>2, <1>3, <1>4, <1>5

\* It failed.
LEMMA ReadyFailsKeeps ==
  ASSUME ShellIInv, NEW r \in Run, ReadyFails(r)
  PROVE  ShellIInv'
<1> USE DEF ShellIInv
<1>1. ShellTypeOK'
  BY DEF ReadyFails, StartGoes, ShellTypeOK
<1>2. UnusedIsFresh'
  BY DEF ReadyFails, StartGoes, UnusedIsFresh, Started, Open
<1>3. ProcessKnown'
  BY DEF ReadyFails, StartGoes, ProcessKnown
<1>4. UpIsBounded'
  BY BoundKept DEF ReadyFails, StartGoes, Started, Up
<1>5. HostsItsOwn' /\ UpIsHosted'
  BY DEF ReadyFails, HostsItsOwn, UpIsHosted, Up
<1>6. QED
  BY <1>1, <1>2, <1>3, <1>4, <1>5

\* A start that failed is taken back.
LEMMA StartFailsKeeps ==
  ASSUME ShellIInv, NEW r \in Run, StartFails(r)
  PROVE  ShellIInv'
<1> USE DEF ShellIInv
<1>1. ShellTypeOK'
  BY DEF StartFails, Confirmed, Finish, StartGoes, Unconfirmed, ShellTypeOK
<1>2. UnusedIsFresh'
  BY DEF StartFails, Confirmed, Finish, StartGoes, Unconfirmed, ShellTypeOK, UnusedIsFresh,
      Started, Open
<1>3. ProcessKnown'
  BY DEF StartFails, Confirmed, StartGoes, ShellTypeOK, ProcessKnown
<1>4. UpIsHosted'
  BY DEF StartFails, Confirmed, Finish, ShellTypeOK, UpIsHosted, Up
<1>5. UpIsBounded'
  BY BoundKept DEF StartFails, Confirmed, StartGoes, Unconfirmed, ShellTypeOK, Started, Up
<1>6. HostsItsOwn'
  BY DEF StartFails, HostsItsOwn
<1>7. QED
  BY <1>1, <1>2, <1>3, <1>4, <1>5, <1>6

\* A viewer resizes.
LEMMA ResizeKeeps ==
  ASSUME ShellIInv, NEW r \in Run, Resize(r)
  PROVE  ShellIInv'
<1> USE DEF ShellIInv
<1>1. ShellTypeOK'
  BY DEF Resize, ShellTypeOK
<1>2. UnusedIsFresh'
  BY DEF Resize, Open, UnusedIsFresh, Started
<1>3. HostsItsOwn' /\ ProcessKnown' /\ UpIsHosted' /\ UpIsBounded'
  BY DEF Resize, HostsItsOwn, ProcessKnown, UpIsHosted, Up, UpIsBounded, Started
<1>4. QED
  BY <1>1, <1>2, <1>3

\* A resize is done.
LEMMA ResizeEndsKeeps ==
  ASSUME ShellIInv, NEW r \in Run, ResizeEnds(r)
  PROVE  ShellIInv'
<1> USE DEF ShellIInv
<1>1. ShellTypeOK'
  BY DEF ResizeEnds, ShellTypeOK
<1>2. UnusedIsFresh'
  BY DEF ResizeEnds, UnusedIsFresh, Started, Open
<1>3. HostsItsOwn' /\ ProcessKnown' /\ UpIsHosted' /\ UpIsBounded'
  BY DEF ResizeEnds, HostsItsOwn, ProcessKnown, UpIsHosted, Up, UpIsBounded, Started
<1>4. QED
  BY <1>1, <1>2, <1>3

\* A pane is closed on the stage.
LEMMA ClosePaneKeeps ==
  ASSUME ShellIInv, NEW p \in Pane, ClosePane(p)
  PROVE  ShellIInv'
<1> USE DEF ShellIInv
<1>1. ShellTypeOK'
  BY DEF ClosePane, ShellTypeOK
<1>2. UnusedIsFresh'
  BY DEF ClosePane, ShellTypeOK, UnusedIsFresh, Started, Open
<1>3. HostsItsOwn'
  BY DEF ClosePane, ShellTypeOK, HostsItsOwn
<1>4. UpIsHosted'
  BY ShellAssumption DEF ClosePane, ShellTypeOK, UpIsHosted, Up
<1>5. ProcessKnown' /\ UpIsBounded'
  BY DEF ClosePane, ProcessKnown, UpIsBounded, Started, Up
<1>6. QED
  BY <1>1, <1>2, <1>3, <1>4, <1>5

\* A pane leaves the stage, and its shell is closed.
LEMMA HidePaneKeeps ==
  ASSUME ShellIInv, NEW p \in Pane, HidePane(p)
  PROVE  ShellIInv'
<1> USE DEF ShellIInv
<1>1. ShellTypeOK'
  BY DEF HidePane, CloseAll, ShellTypeOK
<1>2. UnusedIsFresh'
  BY DEF HidePane, CloseAll, UnusedIsFresh, Started, Open
<1>3. HostsItsOwn'
  BY DEF HidePane, CloseAll, HostsItsOwn
<1>4. UpIsHosted'
  BY ShellAssumption DEF HidePane, CloseAll, UpIsHosted, Up
<1>5. ProcessKnown' /\ UpIsBounded'
  BY DEF HidePane, ProcessKnown, UpIsBounded, Started, Up
<1>6. QED
  BY <1>1, <1>2, <1>3, <1>4, <1>5

\* A saved pane is shown again.
LEMMA ShowPaneKeeps ==
  ASSUME ShellIInv, NEW p \in Pane, ShowPane(p)
  PROVE  ShellIInv'
<1> USE DEF ShellIInv
<1>1. ShellTypeOK'
  BY DEF ShowPane, ShellTypeOK
<1>2. UpIsHosted'
  BY DEF ShowPane, UpIsHosted, Up
<1>3. UnusedIsFresh' /\ HostsItsOwn' /\ ProcessKnown' /\ UpIsBounded'
  BY DEF ShowPane, UnusedIsFresh, Started, Open, HostsItsOwn, ProcessKnown, UpIsBounded, Up
<1>4. QED
  BY <1>1, <1>2, <1>3

\* A container was stopped.
LEMMA ClosedKeeps ==
  ASSUME ShellIInv, NEW r \in Run, Closed(r)
  PROVE  ShellIInv'
<1> USE DEF ShellIInv
<1>1. ShellTypeOK'
  BY DEF Closed, ShellTypeOK
<1>2. UnusedIsFresh'
  BY DEF Closed, CanClose, UnusedIsFresh, Started, Open
<1>3. HostsItsOwn'
  BY DEF Closed, CanClose, ShellTypeOK, HostsItsOwn
<1>4. ProcessKnown'
  BY DEF Closed, ProcessKnown
<1>5. UpIsHosted'
  BY DEF Closed, CanClose, Starting, ShellTypeOK, UpIsHosted, Up, HostsItsOwn, ProcessKnown,
      UnusedIsFresh, Started
<1>6. UpIsBounded'
  BY BoundKept DEF Closed, Started, Up
<1>7. QED
  BY <1>1, <1>2, <1>3, <1>4, <1>5, <1>6

\* Its stop is not confirmed.
LEMMA CloseFailsKeeps ==
  ASSUME ShellIInv, NEW r \in Run, CloseFails(r)
  PROVE  ShellIInv'
<1> USE DEF ShellIInv
<1>1. ShellTypeOK'
  BY DEF CloseFails, Unconfirmed, ShellTypeOK
<1>2. UnusedIsFresh'
  BY DEF CloseFails, Unconfirmed, UnusedIsFresh, Started, Open
<1>3. HostsItsOwn'
  BY DEF CloseFails, CanClose, HostsItsOwn
<1>4. ProcessKnown'
  BY DEF CloseFails, ProcessKnown
<1>5. UpIsHosted'
  BY DEF CloseFails, UpIsHosted
<1>6. UpIsBounded'
  BY BoundKept DEF CloseFails, Unconfirmed, Started, Up
<1>7. QED
  BY <1>1, <1>2, <1>3, <1>4, <1>5, <1>6

\* The session stops: all shells are closed.
LEMMA BeginStopKeeps ==
  ASSUME ShellIInv, BeginStop
  PROVE  ShellIInv'
<1> USE DEF ShellIInv
<1>1. ShellTypeOK'
  BY DEF BeginStop, CloseAll, ShellTypeOK
<1>2. UnusedIsFresh'
  BY DEF BeginStop, CloseAll, Open, UnusedIsFresh, Started
<1>3. HostsItsOwn'
  BY DEF BeginStop, CloseAll, Open, HostsItsOwn
<1>4. UpIsHosted'
  BY DEF BeginStop, CloseAll, UpIsHosted, Up
<1>5. ProcessKnown' /\ UpIsBounded'
  BY DEF BeginStop, ProcessKnown, UpIsBounded, Started, Up
<1>6. QED
  BY <1>1, <1>2, <1>3, <1>4, <1>5

\* All of them are.
LEMMA EndStopKeeps ==
  ASSUME ShellIInv, EndStop
  PROVE  ShellIInv'
<1> USE DEF ShellIInv
<1>1. ShellTypeOK'
  BY DEF EndStop, ShellTypeOK
<1>2. UnusedIsFresh' /\ HostsItsOwn' /\ ProcessKnown' /\ UpIsHosted' /\ UpIsBounded'
  BY DEF EndStop, UnusedIsFresh, Started, Open, HostsItsOwn, ProcessKnown, UpIsHosted, Up,
      UpIsBounded
<1>3. QED
  BY <1>1, <1>2

\* Control passes on.
LEMMA ControlChangesKeeps ==
  ASSUME ShellIInv, ControlChanges
  PROVE  ShellIInv'
<1> USE DEF ShellIInv
<1>1. ShellTypeOK'
  BY DEF ControlChanges, ShellTypeOK
<1>2. UnusedIsFresh' /\ HostsItsOwn' /\ ProcessKnown' /\ UpIsHosted' /\ UpIsBounded'
  BY DEF ControlChanges, UnusedIsFresh, Started, Open, HostsItsOwn, ProcessKnown, UpIsHosted, Up,
      UpIsBounded
<1>3. QED
  BY <1>1, <1>2

\* A shell exits.
LEMMA ExitsKeeps ==
  ASSUME ShellIInv, NEW r \in Run, Exits(r)
  PROVE  ShellIInv'
<1> USE DEF ShellIInv
<1>1. ShellTypeOK'
  BY DEF Exits, Finish, ShellTypeOK
<1>2. UnusedIsFresh'
  BY DEF Exits, Finish, UnusedIsFresh, Started, Open
<1>3. ProcessKnown'
  BY DEF Exits, ProcessKnown
<1>4. UpIsHosted'
  BY DEF Exits, Finish, ShellTypeOK, UpIsHosted, Up
<1>5. UpIsBounded'
  BY BoundKept DEF Exits, Started, Up
<1>6. HostsItsOwn'
  BY DEF Exits, HostsItsOwn
<1>7. QED
  BY <1>1, <1>2, <1>3, <1>4, <1>5, <1>6

-------------------------------------------------------------------------------
(* Every step keeps the viewer's.                                           *)

\* A shell changes, and its viewer is told.
LEMMA ShellStepKeeps ==
  ASSUME ViewsIInv, ShellTypeOK', ShellStep
  PROVE  ViewsIInv'
<1> USE DEF ViewsIInv
<1>1. QueueOK' /\ connected' \in BOOLEAN /\ (AwaitsReset => AwaitsReset')
  <2>1. CASE UNCHANGED <<connected, queue>>
    BY <2>1 DEF ViewsTypeOK, QueueOK, FramesOK, AwaitsReset
  <2>2. CASE \E r \in Run :
               Send([kind |-> "reset", run |-> r, seq |-> output[r], status |-> status'[r]])
    <3>1. PICK r \in Run :
            Send([kind |-> "reset", run |-> r, seq |-> output[r], status |-> status'[r]])
      BY <2>2
    <3> DEFINE f == [kind |-> "reset", run |-> r, seq |-> output[r], status |-> status'[r]]
    <3>2. f \in Frame /\ FrameOK(f)
      BY ShellAssumption DEF ViewsTypeOK, ShellTypeOK, Frame, FrameOK
    <3> HIDE DEF f
    <3>3. QueueOK /\ connected \in BOOLEAN /\ Send(f)
      BY <3>1 DEF ViewsTypeOK, QueueOK, f
    <3>4. QED
      BY <3>2, <3>3, SendKeeps
  <2>3. QED
    BY <2>1, <2>2 DEF ShellStep
<1>2. ViewsTypeOK'
  BY <1>1 DEF ShellStep, ViewsTypeOK, QueueOK
<1>3. FramesOK'
  BY <1>1 DEF QueueOK
<1>4. ScreenFaithful' /\ KeysAreHere'
  BY <1>1, ScreenKept DEF ShellStep, KeysAreHere
<1>5. QED
  BY <1>1, <1>2, <1>3, <1>4

\* A terminal writes.
LEMMA OutputKeeps ==
  ASSUME ViewsIInv, ShellTypeOK', NEW r \in Run, Output(r)
  PROVE  ViewsIInv'
<1> USE DEF ViewsIInv
<1> DEFINE f == [kind |-> "data", run |-> r, seq |-> output[r] + 1, status |-> status[r]]
<1>1. QueueOK' /\ connected' \in BOOLEAN /\ (AwaitsReset => AwaitsReset')
  <2>1. f \in Frame /\ FrameOK(f)
    <3>1. output[r] \in 0 .. MaxOutput /\ output[r] < MaxOutput
      BY DEF Output, ViewsTypeOK
    <3>2. output[r] + 1 \in 0 .. MaxOutput
      BY <3>1, ViewsAssumption
    <3>3. QED
      BY <3>2, ShellAssumption DEF ViewsTypeOK, ShellTypeOK, Frame, FrameOK
  <2>2. QueueOK /\ connected \in BOOLEAN /\ Send(f)
    BY DEF Output, ViewsTypeOK, QueueOK
  <2> HIDE DEF f
  <2>3. QED
    BY <2>1, <2>2, SendKeeps
<1>2. ViewsTypeOK'
  BY ViewsAssumption, <1>1 DEF Output, ViewsTypeOK, QueueOK
<1>3. FramesOK'
  BY <1>1 DEF QueueOK
<1>4. ScreenFaithful' /\ KeysAreHere'
  BY <1>1, ScreenKept DEF Output, KeysAreHere
<1>5. QED
  BY <1>1, <1>2, <1>3, <1>4

\* The viewer connects.
LEMMA ConnectKeeps ==
  ASSUME ViewsIInv, ShellTypeOK', Connect
  PROVE  ViewsIInv'
<1> USE DEF ViewsIInv
<1>1. QueueOK' /\ connected' \in BOOLEAN
  BY SnapshotIsFrame, OneFrame DEF Connect
<1>2. ViewsTypeOK'
  BY <1>1 DEF Connect, ViewsTypeOK, QueueOK
<1>3. FramesOK'
  BY <1>1 DEF QueueOK
<1>4. AwaitsReset'
  BY DEF Connect, AwaitsReset, Snapshot
<1>5. ScreenFaithful' /\ KeysAreHere'
  BY <1>4, ScreenKept DEF Connect, KeysAreHere
<1>6. QED
  BY <1>1, <1>2, <1>3, <1>5

\* He loses the stream.
LEMMA DisconnectKeeps ==
  ASSUME ViewsIInv, ShellTypeOK', Disconnect
  PROVE  ViewsIInv'
<1> USE DEF ViewsIInv
<1>1. QueueOK' /\ connected' \in BOOLEAN
  BY NoFrame DEF Disconnect
<1>2. ViewsTypeOK'
  BY <1>1 DEF Disconnect, ViewsTypeOK, QueueOK
<1>3. FramesOK'
  BY <1>1 DEF QueueOK
<1>4. KeysAreHere'
  BY <1>1 DEF Disconnect, KeysAreHere
<1>5. ScreenFaithful'
  BY ScreenKept DEF Disconnect, AwaitsReset
<1>6. QED
  BY <1>1, <1>2, <1>3, <1>4, <1>5

\* A frame is shown.
LEMMA ReceiveKeeps ==
  ASSUME ViewsIInv, ShellTypeOK', Receive
  PROVE  ViewsIInv'
<1> USE DEF ViewsIInv
<1> DEFINE frame == Head(queue)
<1>1. /\ QueueOK' /\ connected' \in BOOLEAN
      /\ frame \in Frame /\ FrameOK(frame)
  <2>1. QueueOK /\ connected \in BOOLEAN
    BY DEF ViewsTypeOK, QueueOK
  <2>2. QED
    BY <2>1, ReceiveOne DEF Receive
<1>2. ViewsTypeOK'
  <2>1. /\ frame.run \in Run \cup {NoRun}
        /\ frame.seq \in 0 .. MaxOutput /\ sequence \in 0 .. MaxOutput
        /\ frame.status \in {"starting", "ready", "stopped", "error"}
        /\ epoch' = frame.run /\ sequence' = frame.seq /\ look' = frame.status
        /\ keys' \in {keys, {}}
    BY <1>1 DEF Receive, Frame, ViewsTypeOK
  <2>2. screen' \subseteq (Run \X (1 .. MaxOutput))
    <3>1. CASE frame.kind = "reset"
      <4>1. screen' = {frame.run} \X (1 .. frame.seq)
        BY <3>1 DEF Receive
      <4>2. CASE frame.run = NoRun
        <5>1. 1 .. frame.seq = {}
          BY <1>1, <4>2 DEF FrameOK
        <5>2. QED
          BY <4>1, <5>1
      <4>3. CASE frame.run # NoRun
        BY <2>1, <4>1, <4>3, ViewsAssumption
      <4>4. QED
        BY <4>2, <4>3
    <3>2. CASE frame.kind # "reset"
      <4>1. /\ screen' = screen \cup {<<frame.run, frame.seq>>} /\ frame.seq = sequence + 1
            /\ frame.run # NoRun
        BY <1>1, <3>2 DEF Receive, Continues, FrameOK
      <4>2. frame.run \in Run /\ frame.seq \in 1 .. MaxOutput
        BY <2>1, <4>1, ViewsAssumption
      <4>3. QED
        BY <4>1, <4>2 DEF ViewsTypeOK
    <3>3. QED
      BY <3>1, <3>2
  <2>3. QED
    BY <1>1, <2>1, <2>2 DEF Receive, QueueOK, ViewsTypeOK
<1>3. FramesOK'
  BY <1>1 DEF QueueOK
<1>4. ScreenFaithful'
  <2>1. /\ epoch' = frame.run /\ sequence' = frame.seq /\ frame.seq \in Nat /\ sequence \in Nat
    BY <1>1, ViewsAssumption DEF Receive, Frame, ViewsTypeOK
  <2>2. CASE frame.kind = "reset"
    <3>1. screen' = {frame.run} \X (1 .. frame.seq)
      BY <2>2 DEF Receive
    <3>2. frame.run = NoRun => 1 .. frame.seq = {}
      BY <1>1 DEF FrameOK
    <3>3. QED
      BY <1>2, <2>1, <3>1, <3>2, WholeScreen DEF ScreenOf
  <2>3. CASE frame.kind # "reset"
    <3>1. /\ screen' = screen \cup {<<frame.run, frame.seq>>} /\ frame.seq = sequence + 1
          /\ frame.run # NoRun /\ frame.run = epoch
      BY <1>1, <2>3 DEF Receive, Continues, FrameOK
    <3>2. 1 .. frame.seq = (1 .. sequence) \cup {frame.seq}
      BY <2>1, <3>1
    <3>3. ~AwaitsReset
      BY <2>3 DEF AwaitsReset, Receive
    <3>4. screen = {frame.run} \X (1 .. sequence)
      BY <3>1, <3>3 DEF ScreenFaithful, ScreenOf
    <3>5. QED
      BY <1>2, <2>1, <3>1, <3>2, <3>4, WholeScreen DEF ScreenOf
  <2>4. QED
    BY <2>2, <2>3
<1>5. KeysAreHere'
  BY DEF Receive, KeysAreHere
<1>6. QED
  BY <1>1, <1>2, <1>3, <1>4, <1>5

\* A frame is counted and not shown, and the stream closed.
LEMMA OverflowKeeps ==
  ASSUME ViewsIInv, ShellTypeOK', Overflow
  PROVE  ViewsIInv'
<1> USE DEF ViewsIInv
<1> DEFINE frame == Head(queue)
<1>1. QueueOK' /\ frame \in Frame
  <2>1. QueueOK
    BY DEF ViewsTypeOK, QueueOK
  <2>2. QED
    BY <2>1, ReceiveOne, NoFrame DEF Overflow
<1>2. ViewsTypeOK'
  <2>1. /\ epoch' \in Run \cup {NoRun} /\ sequence' \in 0 .. MaxOutput
        /\ look' \in {"starting", "ready", "stopped", "error"}
        /\ keys' \in {keys, {}}
    BY <1>1 DEF Overflow, Frame
  <2>2. QED
    BY <1>1, <2>1 DEF Overflow, QueueOK, ViewsTypeOK
<1>3. FramesOK'
  BY <1>1 DEF QueueOK
<1>4. ScreenFaithful'
  <2>1. AwaitsReset' /\ screen' = screen
    BY DEF Overflow, AwaitsReset
  <2>2. QED
    BY <2>1 DEF ScreenFaithful, ScreenOf
<1>5. KeysAreHere'
  BY DEF Overflow, KeysAreHere
<1>6. QED
  BY <1>2, <1>3, <1>4, <1>5

\* A frame that does not continue the screen makes the viewer ask for a snapshot.
LEMMA ResyncKeeps ==
  ASSUME ViewsIInv, ShellTypeOK', Resync
  PROVE  ViewsIInv'
<1> USE DEF ViewsIInv
<1>1. QueueOK' /\ connected' \in BOOLEAN /\ Head(queue) \in Frame
  <2>1. QueueOK /\ connected \in BOOLEAN
    BY DEF ViewsTypeOK, QueueOK
  <2>2. QED
    BY <2>1, SnapshotIsFrame, OneFrame, NoFrame, ReceiveOne DEF Resync
<1>2. ViewsTypeOK'
  BY <1>1 DEF Resync, ViewsTypeOK, Frame, QueueOK
<1>3. FramesOK'
  BY <1>1 DEF QueueOK
<1>4. AwaitsReset'
  <2>1. <<Snapshot>> # <<>> /\ Head(<<Snapshot>>).kind = "reset"
    BY DEF Snapshot
  <2>2. QED
    BY <2>1 DEF Resync, AwaitsReset
<1>5. ScreenFaithful' /\ KeysAreHere'
  BY <1>4, ScreenKept DEF Resync, KeysAreHere
<1>6. QED
  BY <1>1, <1>2, <1>3, <1>5

\* A key is typed.
LEMMA TypeKeeps ==
  ASSUME ViewsIInv, ShellTypeOK', Type
  PROVE  ViewsIInv'
<1> USE DEF ViewsIInv
<1>1. ViewsTypeOK'
  BY DEF Type, ViewsTypeOK
<1>2. KeysAreHere'
  BY DEF Type, KeysAreHere
<1>3. FramesOK' /\ ScreenFaithful'
  BY ScreenKept DEF Type, FramesOK, AwaitsReset
<1>4. QED
  BY <1>1, <1>2, <1>3

\* Keys are sent.
LEMMA FlushKeeps ==
  ASSUME ViewsIInv, ShellTypeOK', Flush
  PROVE  ViewsIInv'
<1> USE DEF ViewsIInv
<1>1. ViewsTypeOK'
  BY DEF Flush, ViewsTypeOK
<1>2. KeysAreHere'
  BY DEF Flush, KeysAreHere
<1>3. FramesOK' /\ ScreenFaithful'
  BY ScreenKept DEF Flush, FramesOK, AwaitsReset
<1>4. QED
  BY <1>1, <1>2, <1>3

\* They arrive.
LEMMA DeliverKeeps ==
  ASSUME ViewsIInv, ShellTypeOK', Deliver
  PROVE  ViewsIInv'
<1> USE DEF ViewsIInv
<1>1. ViewsTypeOK'
  BY DEF Deliver, NoPost, ViewsTypeOK
<1>2. KeysAreHere'
  BY DEF Deliver, KeysAreHere
<1>3. FramesOK' /\ ScreenFaithful'
  BY ScreenKept DEF Deliver, FramesOK, AwaitsReset
<1>4. QED
  BY <1>1, <1>2, <1>3

\* They are refused.
LEMMA RefuseKeeps ==
  ASSUME ViewsIInv, ShellTypeOK', Refuse
  PROVE  ViewsIInv'
<1> USE DEF ViewsIInv
<1>1. ViewsTypeOK'
  BY DEF Refuse, NoPost, ViewsTypeOK
<1>2. KeysAreHere'
  BY DEF Refuse, KeysAreHere
<1>3. FramesOK' /\ ScreenFaithful'
  BY ScreenKept DEF Refuse, FramesOK, AwaitsReset
<1>4. QED
  BY <1>1, <1>2, <1>3

-------------------------------------------------------------------------------

\* Without shells.
LEMMA InitShells == ShellInit => ShellIInv
<1> SUFFICES ASSUME ShellInit
             PROVE  ShellIInv
  OBVIOUS
<1>1. ShellTypeOK
  <2>1. (CHOOSE p \in Pane : TRUE) \in Pane /\ (CHOOSE s \in Session : TRUE) \in Session
    BY ShellAssumption
  <2>2. QED
    BY <2>1 DEF ShellInit, ShellTypeOK
<1>2. Open = {} /\ Started = {} /\ Up = {}
  BY DEF ShellInit, Open, Started, Up
<1>3. UnusedIsFresh /\ HostsItsOwn /\ ProcessKnown /\ UpIsHosted
  BY <1>2 DEF ShellInit, UnusedIsFresh, HostsItsOwn, ProcessKnown, UpIsHosted
<1>4. UpIsBounded
  BY <1>2, FS_EmptySet, ShellAssumption DEF UpIsBounded
<1>5. QED
  BY <1>1, <1>3, <1>4 DEF ShellIInv

\* Nothing happens.
LEMMA StutterShells == ShellIInv /\ UNCHANGED shellVars => ShellIInv'
  BY DEF ShellIInv, shellVars, ShellTypeOK, UnusedIsFresh, Started, Open, HostsItsOwn,
         ProcessKnown, UpIsHosted, UpIsBounded, Up

\* Every operation of the shells.
LEMMA ShellStepKeepsShells == ShellIInv /\ ShellNext => ShellIInv'
<1> SUFFICES ASSUME ShellIInv, ShellNext
             PROVE  ShellIInv'
  OBVIOUS
<1>1. CASE \E s \in Session, p \in Pane, r \in Run : AddShell(s, p, r) \/ Restart(s, p, r)
  <2>1. PICK s \in Session, p \in Pane, r \in Run : AddShell(s, p, r) \/ Restart(s, p, r)
    BY <1>1
  <2>2. Launch(s, p, r) /\ shown \subseteq shown' /\ p \in shown' /\ shown' \subseteq known'
        /\ known' \subseteq Pane
    BY <2>1 DEF AddShell, Restart, ShellIInv, ShellTypeOK
  <2>3. QED
    BY <2>2, LaunchKeeps
<1>2. CASE \E p \in Pane : ClosePane(p) \/ HidePane(p) \/ ShowPane(p)
  BY <1>2, ClosePaneKeeps, HidePaneKeeps, ShowPaneKeeps
<1>3. CASE \E r \in Run : Launched(r) \/ Readied(r) \/ ReadyFails(r) \/ StartFails(r)
                            \/ \E unconfirmed \in BOOLEAN : LaunchFails(r, unconfirmed)
  BY <1>3, LaunchedKeeps, ReadiedKeeps, ReadyFailsKeeps, StartFailsKeeps, LaunchFailsKeeps
<1>4. CASE \E r \in Run : Resize(r) \/ ResizeEnds(r) \/ Closed(r) \/ CloseFails(r) \/ Exits(r)
  BY <1>4, ResizeKeeps, ResizeEndsKeeps, ClosedKeeps, CloseFailsKeeps, ExitsKeeps
<1>5. QED
  BY <1>1, <1>2, <1>3, <1>4, BeginStopKeeps, EndStopKeeps, ControlChangesKeeps DEF ShellNext

\* Whatever a viewer does, the shells behave as ShellSessions says.
THEOREM ViewsLeaveShells == ViewsSpec => ShellSpec
<1>1. ViewsInit => ShellInit
  BY DEF ViewsInit
<1>2. [ViewsNext]_allVars => [ShellNext]_shellVars
  <2> SUFFICES ASSUME ViewsNext
               PROVE  ShellNext \/ UNCHANGED shellVars
    BY DEF allVars
  <2>1. QED
    BY DEF ViewsNext, ShellStep, Output, Connect, Disconnect, Receive, Overflow, Resync,
           Type, Flush, Deliver, Refuse
<1>3. QED
  BY <1>1, <1>2, PTL DEF ViewsSpec, ShellSpec

\* The shells' invariant, which counts their containers, holds in every state they reach.
THEOREM ShellIInvHolds == ShellSpec => []ShellIInv
<1>1. ShellIInv /\ [ShellNext]_shellVars => ShellIInv'
  BY ShellStepKeepsShells, StutterShells
<1>2. QED
  BY <1>1, InitShells, PTL DEF ShellSpec

\* Before the first stream.
LEMMA InitViews == ViewsInit => ViewsIInv
<1> SUFFICES ASSUME ViewsInit
             PROVE  ViewsIInv
  OBVIOUS
<1>1. ShellTypeOK
  BY InitShells DEF ViewsInit, ShellIInv
<1>2. queue \in Seq(Frame) /\ Len(queue) = 0 /\ DOMAIN queue = {}
  BY DEF ViewsInit
<1>3. ViewsTypeOK
  <2>1. sending \in [typed : SUBSET Run, epoch : Run \cup {NoRun}] /\ keys = {}
    BY DEF ViewsInit, NoPost
  <2>2. output \in [Run -> 0 .. MaxOutput] /\ sequence \in 0 .. MaxOutput
    BY ViewsAssumption DEF ViewsInit
  <2>3. Len(queue) <= MaxQueued /\ screen \subseteq (Run \X (1 .. MaxOutput))
    BY <1>2, ViewsAssumption DEF ViewsInit
  <2>4. /\ viewed \in Pane /\ connected \in BOOLEAN
        /\ epoch \in Run \cup {NoRun} /\ look = "starting"
    BY DEF ViewsInit
  <2>5. QED
    BY <1>1, <1>2, <2>1, <2>2, <2>3, <2>4 DEF ViewsTypeOK
<1>4. ScreenFaithful
  <2>1. screen = ScreenOf(NoRun, 0) /\ epoch = NoRun /\ sequence = 0 /\ 0 \in 0 .. MaxOutput
    BY ViewsAssumption DEF ViewsInit, ScreenOf
  <2>2. QED
    BY <2>1 DEF ScreenFaithful
<1>5. QED
  BY <1>2, <1>3, <1>4 DEF ViewsInit, ViewsIInv, FramesOK, KeysAreHere

\* Every step, the shells' types given.
LEMMA ViewsStep == ViewsIInv /\ ShellTypeOK' /\ [ViewsNext]_allVars => ViewsIInv'
<1> SUFFICES ASSUME ViewsIInv, ShellTypeOK', [ViewsNext]_allVars
             PROVE  ViewsIInv'
  OBVIOUS
<1>1. CASE UNCHANGED allVars
  <2>1. ScreenFaithful'
    BY <1>1, ScreenKept DEF allVars, viewVars, ViewsIInv, AwaitsReset
  <2>2. QED
    BY <1>1, <2>1 DEF allVars, viewVars, ViewsIInv, ViewsTypeOK, FramesOK, FrameOK, KeysAreHere
<1>2. CASE \E r \in Run : Output(r)
  BY <1>2, OutputKeeps
<1>3. QED
  BY <1>1, <1>2, ShellStepKeeps, ConnectKeeps, DisconnectKeeps, ReceiveKeeps, OverflowKeeps,
     ResyncKeeps, TypeKeeps, FlushKeeps, DeliverKeeps, RefuseKeeps
     DEF ViewsNext

\* Shells and views are as the invariants say in every state they reach.
THEOREM ViewsIInvHolds == ViewsSpec => [](ShellIInv /\ ViewsIInv)
<1>1. ShellIInv => ShellTypeOK
  BY DEF ShellIInv
<1>2. QED
  BY <1>1, InitViews, ViewsStep, ViewsLeaveShells, ShellIInvHolds, PTL DEF ViewsSpec

\* No container is left without its pane, and there are never more of them than there may be.
THEOREM ViewsInvHolds == ViewsSpec => []ViewsInv
<1>1. ShellIInv /\ ViewsIInv => ViewsInv
  <2> SUFFICES ASSUME ShellIInv, ViewsIInv
               PROVE  ViewsInv
    OBVIOUS
  <2>1. NoOrphanShell
    BY DEF ShellIInv, UpIsHosted, Up, NoOrphanShell
  <2>2. ShellsBounded
    BY DEF ShellIInv, UpIsHosted, UpIsBounded, Up, ShellsBounded
  <2>3. QED
    BY <2>1, <2>2 DEF ViewsIInv, ViewsInv
<1>2. QED
  BY <1>1, ViewsIInvHolds, PTL

\* A viewer's screen misses nothing and repeats nothing.
THEOREM ScreenFaithfulHolds == ViewsSpec => []ScreenFaithful
<1>1. ViewsIInv => ScreenFaithful
  BY DEF ViewsIInv
<1>2. QED
  BY <1>1, ViewsIInvHolds, PTL

\* Keys reach the terminal they were typed at, or none.
THEOREM KeysReachTheirTerminalHolds == ViewsSpec => KeysReachTheirTerminal
<1>1. ViewsIInv /\ [ViewsNext]_allVars => [Deliver => sending.typed = {shells[viewed]}]_allVars
  BY DEF ViewsIInv, KeysAreHere, Deliver, AcceptsInput
<1>2. QED
  BY <1>1, ViewsIInvHolds, PTL DEF ViewsSpec, KeysReachTheirTerminal

===============================================================================
