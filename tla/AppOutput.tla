------------------------------- MODULE AppOutput -------------------------------
(***************************************************************************)
(* What a command of the agent writes (execute() of server/app-runtime.ts  *)
(* with an exec, SecretOutputFilter of server/project-secrets.ts,          *)
(* server/waiting-terminal.ts and its use in server/tui-session.ts,        *)
(* terminal() of server/stage.ts): two streams cut into chunks anywhere,   *)
(* redacted, held back until the agent is seen waiting for the command,    *)
(* and shown in a log.                                                     *)
(*                                                                         *)
(* A letter stands for any piece of text that is not cut.                  *)
(***************************************************************************)
EXTENDS CommandWait

CONSTANTS
  Letter,
  Secret,    \* the values secrets may have: limited in length, so finitely many
  MaxRaw,    \* bound: letters a command writes
  MaxLog,    \* 60000 characters, of a log and of what is held back
  MaxChunks  \* 128 chunks held back

Redacted == "[REDACTED]"
Marker == "[stderr]"
Stream == {"stdout", "stderr"}

ASSUME OutputAssumption ==
  /\ Secret \subseteq Seq(Letter) \ {<<>>} /\ IsFiniteSet(Secret)
  /\ MaxRaw \in Nat /\ {MaxLog, MaxChunks} \subseteq Nat \ {0}
  /\ {Redacted, Marker} \cap Letter = {}

VARIABLES
  command,    \* "none", "running" or "closed": its streams are flushed
  hidden,     \* the secrets it was given, which its filters replace
  commandTurn,\* the job it was asked in
  raw,        \* what its filters were given of each stream: a stderr chunk that bears
              \* a message of the Docker client is dropped whole before them
  pending,    \* what the filter of each stream keeps
  said,       \* the letters appended so far, each with its stream
  waiting,    \* WaitingTerminal: "buffered", "shown" or "ended"
  buffered,   \* the letters held back, each with its stream; a chunk is a run of one stream
  log         \* the content of its pane

streamVars == <<raw, pending, said>>
outputVars ==
  <<streamVars, command, hidden, commandTurn, waiting, buffered, log>>
vars == <<waitVars, outputVars>>

NoText == [s \in Stream |-> <<>>]

OutputInit ==
  /\ WaitInit
  /\ command = "none" /\ hidden = {} /\ commandTurn = 0
  /\ raw = NoText /\ pending = NoText /\ said = <<>>
  /\ waiting = "ended" /\ buffered = <<>> /\ log = <<>>

-------------------------------------------------------------------------------
(* SecretOutputFilter *)

\* mutant: a secret of which all but the last letter has come is let through.
KeepTooFew == Max({0} \cup {Len(t) - 2 : t \in hidden})

Keep == Max({0} \cup {Len(t) - 1 : t \in hidden})

\* The length of the longest secret at i, 0 for none.
Match(text, i) ==
  Max({0} \cup {Len(t) : t \in {t \in hidden : IsPrefix(t, SubSeq(text, i, Len(text)))}})

\* One round of the loop of write(): the secret that begins here is replaced, or a letter passes.
Round(text, boundary, scan) ==
  LET n == Match(text, scan.next)
  IN  IF scan.next > boundary THEN scan
      ELSE [out |-> Append(scan.out, IF n = 0 THEN text[scan.next] ELSE Redacted),
            next |-> scan.next + IF n = 0 THEN 1 ELSE n]

\* The text with the secrets that begin up to the boundary replaced, and where it ends.
Scan(text, boundary) ==
  LET after[n \in 0..Len(text)] ==
        IF n = 0 THEN [out |-> <<>>, next |-> 1] ELSE Round(text, boundary, after[n - 1])
  IN  after[Len(text)]

Filter(stream, chunk, final) ==
  LET text == pending[stream] \o chunk
      scan == Scan(text, IF final THEN Len(text) ELSE Max({0, Len(text) - Keep}))
  IN [out |-> scan.out, pending |-> SubSeq(text, scan.next, Len(text))]

-------------------------------------------------------------------------------
(* WaitingTerminal and the log *)

LastLetters(text, n) == IF Len(text) <= n THEN text ELSE SubSeq(text, Len(text) - n + 1, Len(text))

Mark(stream) == IF stream = "stderr" THEN <<Marker>> ELSE <<>>

\* terminal(): a chunk at the end of the log.  Nothing is said of an empty one.
Written(content, stream, text) ==
  IF text = <<>> THEN content ELSE LastLetters(content \o Mark(stream) \o text, MaxLog)

\* The letters of a chunk, each with its stream.
From(stream, text) == [i \in DOMAIN text |-> [stream |-> stream, letter |-> text[i]]]

\* Where the chunks of what is held back begin.
Starts(letters) ==
  {i \in DOMAIN letters : i = 1 \/ letters[i].stream # letters[i - 1].stream}

\* mutant: the newest text is what is dropped.
TrimmedAtEnd(letters) == IF Len(letters) <= MaxLog THEN letters ELSE SubSeq(letters, 1, MaxLog)

\* Too many chunks lose the oldest one, too much text its oldest letters.
Trimmed(letters) ==
  LET second == Min(Starts(letters) \ {1})
  IN  LastLetters(IF Cardinality(Starts(letters)) > MaxChunks
                    THEN SubSeq(letters, second, Len(letters)) ELSE letters,
                  MaxLog)

\* append(): each chunk goes where the output is at the time.
Appended(stream, text) ==
  /\ said' = said \o From(stream, text)
  /\ buffered' = IF waiting = "buffered" THEN Trimmed(buffered \o From(stream, text)) ELSE buffered
  /\ log' = IF waiting = "shown" /\ turn = commandTurn THEN Written(log, stream, text) ELSE log

\* A log that begins with what was held back, letter by letter.
Opened(letters) ==
  LET upto[n \in 0..Len(letters)] ==
        IF n = 0 THEN <<>>
        ELSE LET mark == IF n \in Starts(letters) THEN Mark(letters[n].stream) ELSE <<>>
             IN  LastLetters(upto[n - 1] \o mark \o <<letters[n].letter>>, MaxLog)
  IN  upto[Len(letters)]

-------------------------------------------------------------------------------
(* The job *)

BeginJob == Submitted /\ UNCHANGED outputVars

\* A job may end while a command it left behind still runs.
EndJob == Finishes /\ UNCHANGED outputVars

AgentGoesOn == WaitNext /\ UNCHANGED outputVars

-------------------------------------------------------------------------------
(* execute() *)

\* The agent runs a command with some of the secrets.
Exec(secrets) ==
  /\ agent = "called" /\ command = "none"
  /\ agent' = "command"
  /\ Binds
  /\ command' = "running" /\ hidden' = secrets /\ commandTurn' = turn
  /\ waiting' = "buffered" /\ log' = <<>>
  /\ UNCHANGED <<turn, jobs, rows, evidence, streamVars, buffered>>

Writes(stream, text) ==
  LET f == Filter(stream, text, FALSE) IN
  /\ command = "running" /\ text # <<>>
  /\ Len(raw["stdout"]) + Len(raw["stderr"]) + Len(text) <= MaxRaw
  /\ raw' = [raw EXCEPT ![stream] = @ \o text]
  /\ pending' = [pending EXCEPT ![stream] = f.pending]
  /\ Appended(stream, f.out)
  /\ UNCHANGED <<waitVars, command, hidden, commandTurn, waiting>>

\* Both filters are flushed, then the exit ends the log.
Closes ==
  LET out == Filter("stdout", <<>>, TRUE).out
      err == Filter("stderr", <<>>, TRUE).out
  IN
  /\ command = "running"
  /\ command' = "closed"
  /\ pending' = NoText
  /\ said' = said \o From("stdout", out) \o From("stderr", err)
  /\ log' = IF waiting = "shown" /\ turn = commandTurn
              THEN Written(Written(log, "stdout", out), "stderr", err) ELSE log
  /\ waiting' = "ended" /\ buffered' = <<>>
  /\ UNCHANGED <<waitVars, raw, hidden, commandTurn>>

\* Nothing follows the output of a command that is over.
CommandGone ==
  /\ command' = "none" /\ hidden' = {} /\ commandTurn' = 0
  /\ raw' = NoText /\ pending' = NoText /\ said' = <<>>
  /\ waiting' = "ended" /\ buffered' = <<>> /\ log' = <<>>

\* Its result is written to the bridge and read.
Returns ==
  /\ command = "closed"
  /\ CommandGone
  /\ CommandOver

\* The session stops or fails: what the command still writes is dropped.
SessionGone ==
  /\ CommandGone
  /\ turn' = 0 /\ agent' = "none" /\ rows' = <<>> /\ phase' = "idle"
  /\ binding' = Unbound /\ evidence' = Unseen
  /\ UNCHANGED jobs

-------------------------------------------------------------------------------
(* The poll *)

\* update(): the log opens with what was held back, unless an input is active or the stage
\* has no place for it.
Update ==
  /\ Evident /\ waiting = "buffered"
  /\ waiting' = "shown"
  /\ log' = Opened(buffered)
  /\ buffered' = <<>>
  /\ UNCHANGED <<waitVars, streamVars, command, hidden, commandTurn>>

OutputNext ==
  \/ BeginJob \/ EndJob \/ AgentGoesOn
  \/ \E secrets \in SUBSET Secret : Exec(secrets)
  \/ \E s \in Stream, text \in BoundedSeq(Letter, 2) : Writes(s, text)
  \/ Closes \/ Returns \/ SessionGone \/ Update

OutputSpec == OutputInit /\ [][OutputNext]_vars

-------------------------------------------------------------------------------

\* What of a text is in a set, in its order.
Only(text, some) ==
  LET kept[n \in 0..Len(text)] ==
        IF n = 0 THEN <<>>
        ELSE IF text[n] \in some THEN Append(kept[n - 1], text[n]) ELSE kept[n - 1]
  IN  kept[Len(text)]

Shown == Letter \cup {Redacted}

LettersOf(text) == [i \in DOMAIN text |-> text[i].letter]

\* The letters of one stream.
OfStream(letters, s) == LettersOf(Only(letters, [stream : {s}, letter : Shown]))

\* No secret can be read in a text.
Silent(text) ==
  \A t \in hidden : \A i \in 1..(Len(text) - Len(t) + 1) : SubSeq(text, i, i + Len(t) - 1) # t

\* However a stream is cut into chunks, what is appended of it is what replacing the secrets
\* in all of it at once gives, as far as it has come, and all of that once it is closed; and no
\* secret can be read in it.
StreamRedacted ==
  \A s \in Stream :
    LET whole == Scan(raw[s], Len(raw[s])).out
        text == OfStream(said, s)
    IN  /\ IsPrefix(text, whole)
        /\ command = "closed" => text = whole
        /\ Silent(text)

\* While its job lasts, a log that is open holds the last of what its command said, in order,
\* whenever it was opened; it loses the oldest first, and only when it is full.
LogIsTail ==
  LET shown == Only(log, Shown)
      all == LettersOf(said)
  IN (waiting = "shown" \/ log # <<>>) /\ turn = commandTurn =>
       /\ IsSuffix(shown, all)
       /\ all # <<>> => shown # <<>>
       /\ Len(log) < MaxLog /\ Len(all) <= MaxChunks => shown = all

\* A log opens only when, since the agent was last seen to start, it was seen waiting, in the
\* job the command was asked in and while the command still runs.
OpensOnWait ==
  Evident /\ waiting = "buffered" =>
    evidence.waits /\ turn = commandTurn /\ command = "running"

WaitInv == WaitTypeOK /\ OpensOnWait

===============================================================================
