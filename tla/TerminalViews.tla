------------------------------ MODULE TerminalViews ------------------------------
(***************************************************************************)
(* A terminal as a viewer sees and types into it: the server's screen      *)
(* (server/terminal-screen.ts), the event stream of its pane, the browser's*)
(* copy (web/src/TuiPane.tsx) and its input, over ShellSessions.           *)
(*                                                                         *)
(* A screen is the set of the outputs written to it; an output is the      *)
(* number the server's screen gave it.                                     *)
(***************************************************************************)
EXTENDS ShellSessions, Sequences

CONSTANTS
  MaxOutput,  \* outputs of one run; bound
  MaxQueued   \* frames a connection may fall behind before it is destroyed

ASSUME ViewsAssumption == MaxOutput \in Nat /\ MaxQueued \in Nat \ {0}

VARIABLES
  viewed,     \* the pane the viewer watches
  output,     \* screen.sequence of each run
  connected,  \* whether the event stream is open
  queue,      \* the frames under way to the viewer
  epoch,      \* TuiPane's epoch, the pane's own id being NoRun
  sequence,   \* TuiPane's sequence
  screen,     \* what the browser's terminal shows
  look,       \* nativeStatus
  keys,       \* TuiPane's input: the runs that the keys were typed at
  sending     \* the POST under way: the runs of its keys, and the epoch it names

viewVars == <<viewed, output, connected, queue, epoch, sequence, screen, look, keys, sending>>
allVars == <<shellVars, viewVars>>

NoPost == [typed |-> {}, epoch |-> NoRun]
Frame == [kind : {"reset", "data"}, run : Run \cup {NoRun}, seq : 0 .. MaxOutput,
          status : {"starting", "ready", "stopped", "error"}]

ViewsTypeOK ==
  /\ ShellTypeOK
  /\ viewed \in Pane
  /\ output \in [Run -> 0 .. MaxOutput]
  /\ connected \in BOOLEAN
  /\ queue \in Seq(Frame) /\ Len(queue) <= MaxQueued
  /\ epoch \in Run \cup {NoRun}
  /\ sequence \in 0 .. MaxOutput
  /\ screen \subseteq (Run \X (1 .. MaxOutput))
  /\ look \in {"starting", "ready", "stopped", "error"}
  /\ keys \subseteq Run
  /\ sending \in [typed : SUBSET Run, epoch : Run \cup {NoRun}]

ViewsInit ==
  /\ ShellInit
  /\ viewed \in Pane
  /\ output = [r \in Run |-> 0]
  /\ connected = FALSE /\ queue = <<>>
  /\ epoch = NoRun /\ sequence = 0 /\ screen = {}
  /\ look = "starting"
  /\ keys = {} /\ sending = NoPost

\* snapshot(): the whole screen; "stopped" where there is no shell.
Snapshot ==
  LET r == shells[viewed]
  IN  [kind |-> "reset", run |-> r,
       seq |-> IF r = NoRun THEN 0 ELSE output[r],
       status |-> IF r = NoRun THEN "stopped" ELSE status[r]]

\* A frame is written to an open stream, which is destroyed when too much waits in it.
Send(frame) ==
  IF connected /\ Len(queue) < MaxQueued
    THEN queue' = Append(queue, frame) /\ UNCHANGED connected
    ELSE queue' = <<>> /\ connected' = FALSE

\* setStatus() sends the screen; so does resize(), to the same effect.
ShellStep ==
  /\ ShellNext
  /\ LET told == {r \in Run : status'[r] # status[r] /\ of'[r] = viewed}
     IN  IF told = {} THEN UNCHANGED <<connected, queue>>
         ELSE \E r \in told : Send([kind |-> "reset", run |-> r, seq |-> output[r],
                                    status |-> status'[r]])
  /\ UNCHANGED <<viewed, output, epoch, sequence, screen, look, keys, sending>>

\* write(): output that was queued before the end may still land after it.  (What other
\* panes write goes to other streams.)
Output(r) ==
  /\ shells[viewed] = r
  /\ container[r] = "up" \/ ended[r]
  /\ output[r] < MaxOutput
  /\ output' = [output EXCEPT ![r] = @ + 1]
  /\ Send([kind |-> "data", run |-> r, seq |-> output[r] + 1, status |-> status[r]])
  /\ UNCHANGED <<shellVars, viewed, epoch, sequence, screen, look, keys, sending>>

-------------------------------------------------------------------------------

\* GET .../events: the snapshot and the subscription are one step.
Connect ==
  /\ ~connected
  /\ viewed \in shown
  /\ connected' = TRUE
  /\ queue' = <<Snapshot>>
  /\ UNCHANGED <<shellVars, viewed, output, epoch, sequence, screen, look, keys, sending>>

\* onerror of the event source
Disconnect ==
  /\ connected \/ look # "starting" \/ keys # {}
  /\ connected' = FALSE /\ queue' = <<>>
  /\ keys' = {} /\ look' = "starting"
  /\ UNCHANGED <<shellVars, viewed, output, epoch, sequence, screen, sending>>

\* mutant: frames are taken as they come.
ContinuesAny(frame) == frame.kind \in {"reset", "data"}

Continues(frame) == frame.kind = "reset" \/ (frame.run = epoch /\ frame.seq = sequence + 1)

\* mutant: keys typed at the former terminal are kept.
ReceiveKeepsKeys ==
  /\ queue # <<>>
  /\ Continues(Head(queue))
  /\ LET frame == Head(queue) IN
       /\ queue' = Tail(queue)
       /\ epoch' = frame.run /\ sequence' = frame.seq /\ look' = frame.status
       /\ screen' = IF frame.kind = "reset" THEN {frame.run} \X (1 .. frame.seq)
                    ELSE screen \cup {<<frame.run, frame.seq>>}
  /\ UNCHANGED <<shellVars, viewed, output, connected, keys, sending>>

\* A frame that continues the screen
Receive ==
  /\ queue # <<>>
  /\ Continues(Head(queue))
  /\ LET frame == Head(queue) IN
       /\ queue' = Tail(queue)
       /\ epoch' = frame.run /\ sequence' = frame.seq /\ look' = frame.status
       /\ screen' = IF frame.kind = "reset" THEN {frame.run} \X (1 .. frame.seq)
                    ELSE screen \cup {<<frame.run, frame.seq>>}
       /\ keys' = IF epoch # frame.run THEN {} ELSE keys
  /\ UNCHANGED <<shellVars, viewed, output, connected, sending>>

\* A frame that continues the screen, but more than a megabyte waits to be drawn: it is
\* counted and not drawn, and the stream is closed, to be opened again with a snapshot
\* when the drawing is done.
Overflow ==
  /\ queue # <<>>
  /\ Continues(Head(queue))
  /\ LET frame == Head(queue) IN
       /\ epoch' = frame.run /\ sequence' = frame.seq /\ look' = frame.status
       /\ keys' = IF epoch # frame.run THEN {} ELSE keys
  /\ queue' = <<>> /\ connected' = FALSE
  /\ UNCHANGED <<shellVars, viewed, output, screen, sending>>

\* A frame of another terminal, or after a gap: close the stream and connect again.
Resync ==
  /\ queue # <<>>
  /\ ~Continues(Head(queue))
  /\ look' = Head(queue).status
  /\ IF viewed \in shown
       THEN queue' = <<Snapshot>> /\ UNCHANGED connected
       ELSE queue' = <<>> /\ connected' = FALSE
  /\ UNCHANGED <<shellVars, viewed, output, epoch, sequence, screen, keys, sending>>

-------------------------------------------------------------------------------

\* enqueue(): the keys wait for the POST before them, and for 25 ms.
Type ==
  /\ look = "ready" /\ epoch \notin keys \cup {NoRun}
  /\ keys' = keys \cup {epoch}
  /\ UNCHANGED <<shellVars, viewed, output, connected, queue, epoch, sequence, screen, look, sending>>

\* flush() and transmit(): the epoch is that of the moment of sending.
Flush ==
  /\ keys # {} /\ sending = NoPost
  /\ sending' = [typed |-> keys, epoch |-> epoch]
  /\ keys' = {}
  /\ UNCHANGED <<shellVars, viewed, output, connected, queue, epoch, sequence, screen, look>>

\* What input() asks of the shell.
AcceptsInput(r, e) ==
  /\ r # NoRun
  /\ process[r] /\ ~ended[r] /\ closing[r] = "no"
  /\ status[r] = "ready" /\ r = e

Deliver ==
  /\ sending # NoPost
  /\ controls # {} /\ viewed \in shown /\ AcceptsInput(shells[viewed], sending.epoch)
  /\ sending' = NoPost
  /\ UNCHANGED <<shellVars, viewed, output, connected, queue, epoch, sequence, screen, look, keys>>

\* The request fails, and with it what was typed meanwhile.
Refuse ==
  /\ sending # NoPost
  /\ sending' = NoPost
  /\ keys' = {}
  /\ UNCHANGED <<shellVars, viewed, output, connected, queue, epoch, sequence, screen, look>>

ViewsNext ==
  \/ ShellStep
  \/ \E r \in Run : Output(r)
  \/ Connect \/ Disconnect \/ Receive \/ Overflow \/ Resync
  \/ Type \/ Flush \/ Deliver \/ Refuse

ViewsSpec == ViewsInit /\ [][ViewsNext]_allVars

-------------------------------------------------------------------------------

\* No container is left without its pane, and no pane and no project has more of them
\* than it may.
ViewsInv == ViewsTypeOK /\ NoOrphanShell /\ ShellsBounded

\* A terminal as its first n outputs left it; the screen of no terminal is empty.
ScreenOf(r, n) == IF r = NoRun THEN {} ELSE {r} \X (1 .. n)

\* No data is taken before a whole screen arrives.
AwaitsReset == IF queue = <<>> THEN ~connected ELSE Head(queue).kind = "reset"

\* A viewer's screen is always what one terminal had written at one moment: no output is
\* missing in between, repeated or another terminal's.  That is the moment of the latest
\* frame taken, unless the screen is about to be replaced as a whole; so an output that
\* was counted and not drawn is never drawn over.
ScreenFaithful ==
  /\ \E r \in Run \cup {NoRun}, n \in 0 .. MaxOutput : screen = ScreenOf(r, n)
  /\ AwaitsReset \/ screen = ScreenOf(epoch, sequence)

\* Keys reach the terminal they were typed at, or none.
KeysReachTheirTerminal ==
  [][Deliver => sending.typed = {shells[viewed]}]_allVars

===============================================================================
