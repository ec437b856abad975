------------------------------ MODULE Session -------------------------------
(***************************************************************************)
(* The interactive session of lib/CT_session.js composed with the          *)
(* controller: the terminal (readline), the source that makes its lines a  *)
(* stream (CT_clisrc), the stream that parses them (CT_cmdstream), the     *)
(* writable side of the control stream, and the listeners by which the     *)
(* session resumes the terminal and prompts.  The only commands here are   *)
(* those that come down this pipe, and the ::attach of bin/ctc.js.         *)
(***************************************************************************)
EXTENDS Simulation, Sequences, FiniteSets

CONSTANTS
  Lines,       \* what the user types: scmds, and bad for what does not parse
  MaxLines,    \* bound: the lines and ^Cs that the session accepts
  MaxBurst     \* bound: the lines that the terminal delivers in one turn

ASSUME LineAssumption == Lines \subseteq {"run", "cont", "step", "quit", "bad"}
ASSUME BurstAssumption == MaxLines \in Nat /\ MaxBurst \in Nat

VARIABLES
  rl_paused,   \* readline is paused: nothing is read from the terminal
  prompted,    \* the user has a prompt on the line he types on
  cli,         \* CT_clisrc's buffer
  cs,          \* CT_cmdstream: free, holding a line, or parsed and not done
  ctl_queue,   \* commands that the control stream has not taken yet
  exited,      \* process.exit() was called
  heard,       \* history: the lines that the terminal source was given
  served       \* history: those that were dispatched or did not parse

ttyVars == <<rl_paused, prompted, cli, cs, ctl_queue, exited, heard, served>>
svars == <<vars, ttyVars>>

SessionInit ==
  /\ Init
  /\ rl_paused = FALSE /\ prompted = TRUE
  /\ cli = <<>> /\ cs = "free"
  /\ ctl_queue \in {<<>>, <<"attach">>}
  /\ exited = FALSE
  /\ heard = <<>> /\ served = <<>>

-----------------------------------------------------------------------------
(* The terminal.  Its events, and those of the streams, are turns of their *)
(* own: none comes in the middle of a handler.                             *)

Turn == ~exited /\ fault = "none" /\ frame = "none"

(* push() on the terminal source, for each of the lines: the first passes  *)
(* if nothing waits before it; one that has to stay pauses the terminal.   *)
PushAlwaysPauses(ls) ==  \* mutant: what push() returns is misread
  /\ IF cs = "free"
     THEN cs' = Head(ls) /\ cli' = cli \o Tail(ls)
     ELSE cs' = cs /\ cli' = cli \o ls
  /\ rl_paused' = TRUE
  /\ heard' = heard \o ls
Push(ls) ==
  /\ IF cs = "free"
     THEN cs' = Head(ls) /\ cli' = cli \o Tail(ls)
     ELSE cs' = cs /\ cli' = cli \o ls
  /\ rl_paused' = (rl_paused \/ cli' # <<>>)
  /\ heard' = heard \o ls

Line == Lines \cup {"stop"}

(* What is left of the keys of one read: no line and no ^C of them waits   *)
(* for another turn.                                                       *)
Burst == UNION {[1 .. n -> Line] : n \in 1 .. MaxBurst}

(* MaxRuns bounds the ::runs that are typed too, so that each finds a run. *)
RunsIn(ls) == Cardinality({i \in DOMAIN ls : ls[i] = "run"})

AllStops(ls) == \A i \in DOMAIN ls : ls[i] = "stop"

(* One read of the terminal.  pause() does not stop the rest of it.  ^C    *)
(* becomes a ::stop; the lines are dropped if the simulation runs.  A line *)
(* uses up the prompt, and an empty one after it is prompted.              *)
TypeLines(ls) ==
  /\ Turn /\ ~rl_paused
  /\ Len(heard) + Len(ls) <= MaxLines
  /\ RunsIn(heard \o ls) <= MaxRuns
  /\ running => AllStops(ls)
  /\ Push(ls)
  /\ \/ AllStops(ls) /\ prompted' = prompted
     \/ ~running /\ prompted' = TRUE
     \/ (running \/ ~AllStops(ls)) /\ prompted' = FALSE
  /\ UNCHANGED <<vars, ctl_queue, exited, served>>

(* A line that arrives while the simulation runs is dropped.               *)
DropLine ==
  /\ Turn /\ ~rl_paused /\ running
  /\ prompted' = FALSE
  /\ UNCHANGED <<vars, rl_paused, cli, cs, ctl_queue, exited, heard, served>>

EmptyLine ==
  /\ Turn /\ ~rl_paused /\ ~running
  /\ prompted' = TRUE
  /\ UNCHANGED <<vars, rl_paused, cli, cs, ctl_queue, exited, heard, served>>

(* The end of the terminal's input: whatever was accepted is forgotten.    *)
Close ==
  /\ Turn /\ ~rl_paused
  /\ exited' = TRUE
  /\ UNCHANGED <<vars, rl_paused, prompted, cli, cs, ctl_queue, heard, served>>

-----------------------------------------------------------------------------
(* The command stream.  It gets no new line before it has called done()    *)
(* for the one it holds, and pushes no command before the control stream   *)
(* has taken the one before.                                               *)

ParsingAhead ==  \* mutant: commands are pushed whether or not they are taken
  Turn /\ cs \notin {"free", "parsed"}
Parsing == Turn /\ cs \notin {"free", "parsed"} /\ ctl_queue \in {<<>>, <<"attach">>}

ParseFails ==
  /\ Parsing /\ cs = "bad"
  /\ cs' = "parsed"
  /\ served' = Append(served, cs)
  /\ IF running
     THEN UNCHANGED <<rl_paused, prompted>>
     ELSE rl_paused' = FALSE /\ prompted' = TRUE
  /\ UNCHANGED <<vars, cli, ctl_queue, exited, heard>>

Parse ==
  /\ Parsing /\ cs # "bad"
  /\ cs' = "parsed"
  /\ ctl_queue' = Append(ctl_queue, cs)
  /\ UNCHANGED <<vars, rl_paused, prompted, cli, exited, heard, served>>

(* Mutant: nothing reads the source once it was told to wait.              *)
DoneUnread ==
  /\ Turn /\ cs = "parsed"
  /\ cs' = "free"
  /\ UNCHANGED <<vars, rl_paused, prompted, cli, ctl_queue, exited, heard, served>>

(* Mutant: the newest line is taken first.                                 *)
DoneNewest ==
  /\ Turn /\ cs = "parsed"
  /\ IF cli = <<>>
     THEN cs' = "free" /\ UNCHANGED <<cli, rl_paused>>
     ELSE /\ cs' = cli[Len(cli)] /\ cli' = SubSeq(cli, 1, Len(cli) - 1)
          /\ rl_paused' = (rl_paused /\ cli' # <<>>)
  /\ UNCHANGED <<vars, prompted, ctl_queue, exited, heard, served>>

(* done(): the next line is read; the _read() that empties the source      *)
(* resumes the terminal.                                                   *)
Done ==
  /\ Turn /\ cs = "parsed"
  /\ IF cli = <<>>
     THEN cs' = "free" /\ UNCHANGED <<cli, rl_paused>>
     ELSE /\ cs' = Head(cli) /\ cli' = Tail(cli)
          /\ rl_paused' = (rl_paused /\ cli' # <<>>)
  /\ UNCHANGED <<vars, prompted, ctl_queue, exited, heard, served>>

-----------------------------------------------------------------------------
(* The controller.  The session listens to suspend events and responses:   *)
(* both prompt, and a prompt resumes the terminal; a response does it only *)
(* if the simulation is not running.                                       *)

PromptsOnResponse ==  \* mutant: a suspend does not prompt
  ctl_pending # "idle" /\ ctl_pending' = "idle" /\ ~running'
Prompts ==
  \/ running /\ ~running'
  \/ ctl_pending # "idle" /\ ctl_pending' = "idle" /\ ~running'

React ==
  /\ prompted' = (prompted \/ Prompts)
  /\ rl_paused' = (rl_paused /\ ~Prompts)

(* The ::attach of the command line comes first, when nothing can run yet. *)
Handle(scmd) ==
  \/ scmd = "attach" /\ (AttachThrows \/ \E m \in Models : Attach(m))
  \/ scmd = "cont" /\ Cont
  \/ scmd = "step" /\ Step
  \/ scmd = "stop" /\ Stop
  \/ scmd = "run" /\ RunCmd
  \/ Refused(scmd)

Dispatched ==
  /\ ctl_queue' = Tail(ctl_queue)
  /\ served' = IF Head(ctl_queue) = "attach" THEN served ELSE Append(served, Head(ctl_queue))
  /\ UNCHANGED <<cli, cs, heard>>

(* The control stream takes a command when it has answered the one before, *)
(* possibly in the middle of the handler that answered it.                 *)
Dispatch ==
  /\ ~exited /\ ctl_queue # <<>>
  /\ Handle(Head(ctl_queue))
  /\ React /\ Dispatched
  /\ UNCHANGED exited

Quit ==
  /\ ~exited /\ ctl_queue # <<>> /\ Head(ctl_queue) = "quit"
  /\ fault = "none" /\ ctl_pending = "idle" /\ frame \in Reentrant \cup {"none"}
  /\ exited' = TRUE
  /\ Dispatched
  /\ UNCHANGED <<vars, rl_paused, prompted>>

(* A step of the controller that no command causes.                        *)
Controller(step) ==
  /\ ~exited
  /\ step /\ React
  /\ UNCHANGED <<cli, cs, ctl_queue, exited, heard, served>>

-----------------------------------------------------------------------------
Terminal == (\E ls \in Burst : TypeLines(ls)) \/ DropLine \/ EmptyLine \/ Close

Pipe == ParseFails \/ Parse \/ Done \/ Dispatch \/ Quit

SessionNext ==
  \/ Terminal \/ Pipe
  \/ Controller(Answer) \/ Controller(Input) \/ Controller(Callback) \/ Controller(FrameReturn)

SessionSpec == SessionInit /\ [][SessionNext]_svars

(* What Simulation assumes, and that streams pass on what they hold.       *)
SessionFairness ==
  /\ WF_svars(Pipe)
  /\ WF_svars(Controller(FrameReturn))
  /\ WF_svars(Controller(Answer))
  /\ WF_svars(Controller(Fetch))
  /\ WF_svars(Controller(InputEnd))
  /\ \A r \in Run : WF_svars(Controller(CallbackThrows(r) \/ InsnDone(r) \/ InsnError(r)))

SessionFairSpec == SessionSpec /\ SessionFairness

-----------------------------------------------------------------------------
(* Every variable of the session has its type.                             *)
SessionTypeOK ==
  /\ rl_paused \in BOOLEAN /\ prompted \in BOOLEAN /\ exited \in BOOLEAN
  /\ cli \in Seq(Line)
  /\ cs \in Line \cup {"free", "parsed"}
  /\ ctl_queue \in Seq(Line \cup {"attach"}) /\ Len(ctl_queue) <= 2
  /\ heard \in Seq(Line) /\ served \in Seq(Line)

(* The session is deaf only while lines wait in the source: then _read()   *)
(* will resume the terminal, which push() had paused; nothing else needs   *)
(* to happen for the user, or a ^C, to be heard again.                     *)
PausedHasBacklog == rl_paused => cli # <<>>

(* The lines that are in the pipe, without the ::attach at its head.       *)
Queued ==
  IF ctl_queue # <<>> /\ Head(ctl_queue) = "attach" THEN Tail(ctl_queue) ELSE ctl_queue
Held == IF cs \in {"free", "parsed"} THEN <<>> ELSE <<cs>>
InTransit == Queued \o (Held \o cli)

(* Each line that was accepted, ^C among them, is dispatched (or found not *)
(* to parse) once, in the order of typing, whatever happens between.       *)
LinesConserved == heard = served \o InTransit

Quiet ==
  /\ ~exited /\ fault = "none"
  /\ ~running /\ ctl_pending = "idle"
  /\ ctl_queue = <<>> /\ cs \in {"free", "parsed"} /\ cli = <<>>

(* When the session waits for the user, and nothing else will happen, he   *)
(* has a prompt: whichever of suspend, response and parse-error came last, *)
(* and whether or not the simulation was still running when it came.       *)
PromptWhenQuiet == Quiet => prompted

(* A ::step that only found the mark of a trap: it suspended at once, as   *)
(* it should, but nothing executes, so that no event will answer it.       *)
StepHeldUp ==
  ctl_pending = "step" /\ frame = "none" /\ ~running /\ sim_pending # NoInsn

(* No line waits for ever: ^C reaches the controller behind any commands,  *)
(* and what pauses the terminal resumes it; unless a ::step was held up by *)
(* the mark of a trap: then every later line, and ^C, waits for good.      *)
(* (The mark of a breakpoint does the same to a ::step, and an error of    *)
(* the input to a ::step of the instruction that it drops; neither is in   *)
(* the run, where no ::bp is typed and no input fails.)                    *)
LinesServed ==
  []<>(InTransit = <<>> \/ exited \/ fault # "none" \/ StepHeldUp)
=============================================================================
