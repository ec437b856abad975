--------------------------- MODULE SessionProofs ----------------------------
(***************************************************************************)
(* Proofs about Session, for any lines, bursts and bounds.  The session    *)
(* drives the controller only in ways that Simulation has, so what is      *)
(* proved of Simulation is true of every session; and two invariants of    *)
(* the session itself, each of them inductive.                             *)
(***************************************************************************)
EXTENDS Session, SimulationProofs, SequenceTheorems

(* A session is a controller with a client: every step of it is a step of  *)
(* Simulation, or does not concern the controller.                         *)
THEOREM SessionIsSimulation == SessionSpec => Spec
<1>1. SessionInit => Init
  BY DEF SessionInit
<1>2. [SessionNext]_svars => [Next]_vars
  <2> SUFFICES ASSUME SessionNext PROVE Next \/ UNCHANGED vars
    BY DEF svars
  <2>1. CASE Terminal
    BY <2>1 DEF Terminal, TypeLines, DropLine, EmptyLine, Close
  <2>2. CASE Dispatch
    <3>1. ASSUME NEW scmd, Handle(scmd)
          PROVE  Command
      BY <3>1 DEF Handle, Command, Refused, CanDispatch
    <3> QED
      BY <2>2, <3>1 DEF Dispatch, Next
  <2>3. CASE Pipe /\ ~Dispatch
    BY <2>3 DEF Pipe, ParseFails, Parse, Done, Quit
  <2>4. CASE \/ Controller(Answer) \/ Controller(Input) \/ Controller(Callback)
             \/ Controller(FrameReturn)
    BY <2>4 DEF Controller, Next
  <2> QED
    BY <2>1, <2>2, <2>3, <2>4 DEF SessionNext
<1> QED
  BY <1>1, <1>2, PTL DEF SessionSpec, Spec

(* So the safety of the controller holds in every session.                 *)
THEOREM SessionSafe ==
  SessionSpec => []Inv /\ BreakpointHonoured /\ StopHonoured
BY SessionIsSimulation, InvHolds, BreakpointsHonoured, StopsHonoured, PTL

-----------------------------------------------------------------------------
SessionInv == SessionTypeOK /\ PausedHasBacklog /\ PromptWhenQuiet

(* Lines that are typed, and ^C, are sequences that are not empty.         *)
LEMMA BurstFacts ==
  ASSUME NEW ls \in Burst
  PROVE  ls \in Seq(Line) /\ ls # <<>>
<1>1. PICK n \in 1 .. MaxBurst : ls \in [1 .. n -> Line]
  BY DEF Burst
<1>2. n \in Nat /\ n >= 1
  BY <1>1, BurstAssumption
<1>3. ls \in Seq(Line) /\ Len(ls) = n
  BY <1>1, <1>2
<1> QED
  BY <1>2, <1>3

(* A push leaves a line in the command stream or in the source.            *)
LEMMA PushEffect ==
  ASSUME SessionTypeOK, ~rl_paused, NEW ls \in Seq(Line), ls # <<>>, Push(ls)
  PROVE  /\ cli' \in Seq(Line) /\ cs' \in Line \cup {"free", "parsed"} /\ heard' \in Seq(Line)
         /\ rl_paused' \in BOOLEAN /\ (rl_paused' => cli' # <<>>)
         /\ cs' \notin {"free", "parsed"} \/ cli' # <<>>
<1> USE DEF SessionTypeOK
<1>1. Head(ls) \in Line /\ Tail(ls) \in Seq(Line)
  OBVIOUS
<1>2. cli \o ls # <<>> /\ cli \o ls \in Seq(Line)
  OBVIOUS
<1>3. cli \o Tail(ls) \in Seq(Line) /\ heard \o ls \in Seq(Line)
  BY <1>1
<1>4. "free" \notin Line /\ "parsed" \notin Line
  BY LineAssumption DEF Line
<1> QED
  BY <1>1, <1>2, <1>3, <1>4 DEF Push

(* A step of the controller prompts if it stops the simulation, or answers *)
(* a command of a simulation that does not run.                            *)
LEMMA ReactEffect ==
  ASSUME SessionInv, React, UNCHANGED <<cli, cs, exited, heard>>,
         ctl_queue' = ctl_queue \/ ctl_pending' # "idle",
         fault' = "none" => fault = "none"
  PROVE  /\ rl_paused' \in BOOLEAN /\ prompted' \in BOOLEAN
         /\ PausedHasBacklog' /\ PromptWhenQuiet'
BY DEF SessionInv, SessionTypeOK, PausedHasBacklog, PromptWhenQuiet, Quiet, React, Prompts

LEMMA SessionStep == SessionInv /\ [SessionNext]_svars => SessionInv'
<1> SUFFICES ASSUME SessionInv, [SessionNext]_svars PROVE SessionInv'
  OBVIOUS
<1>1. "free" \notin Line /\ "parsed" \notin Line
  BY LineAssumption DEF Line
<1>2. CASE Terminal
  <2>1. ASSUME NEW ls \in Burst, TypeLines(ls) PROVE SessionInv'
    <3>1. /\ Push(ls) /\ ~rl_paused /\ prompted' \in BOOLEAN
          /\ UNCHANGED <<ctl_queue, exited, served>>
      BY <2>1 DEF TypeLines, SessionInv, SessionTypeOK
    <3>2. /\ cli' \in Seq(Line) /\ cs' \in Line \cup {"free", "parsed"} /\ heard' \in Seq(Line)
          /\ rl_paused' \in BOOLEAN /\ (rl_paused' => cli' # <<>>)
          /\ cs' \notin {"free", "parsed"} \/ cli' # <<>>
      BY <3>1, BurstFacts, PushEffect DEF SessionInv
    <3> QED
      BY <3>1, <3>2 DEF SessionInv, SessionTypeOK, PausedHasBacklog, PromptWhenQuiet, Quiet
  <2>2. CASE DropLine \/ EmptyLine \/ Close
    <3>1. UNCHANGED <<rl_paused, cli, cs, ctl_queue, heard, served, running>>
      BY <2>2 DEF DropLine, EmptyLine, Close, vars, execVars
    <3>2. prompted' \in BOOLEAN /\ exited' \in BOOLEAN /\ (running \/ prompted' \/ exited')
      BY <2>2 DEF DropLine, EmptyLine, Close, SessionInv, SessionTypeOK
    <3> QED
      BY <3>1, <3>2 DEF SessionInv, SessionTypeOK, PausedHasBacklog, PromptWhenQuiet, Quiet
  <2> QED
    BY <1>2, <2>1, <2>2 DEF Terminal
<1>3. CASE ParseFails
  <2>1. Append(served, cs) \in Seq(Line)
    BY <1>3 DEF ParseFails, Parsing, SessionInv, SessionTypeOK
  <2> QED
    BY <1>3, <2>1 DEF ParseFails, vars, execVars, SessionInv, SessionTypeOK, PausedHasBacklog,
       PromptWhenQuiet, Quiet
<1>4. CASE Parse
  <2>1. /\ Append(ctl_queue, cs) \in Seq(Line \cup {"attach"})
        /\ Append(ctl_queue, cs) # <<>> /\ Len(Append(ctl_queue, cs)) <= 2
    BY <1>4 DEF Parse, Parsing, SessionInv, SessionTypeOK
  <2> QED
    BY <1>4, <2>1 DEF Parse, SessionInv, SessionTypeOK, PausedHasBacklog, PromptWhenQuiet, Quiet
<1>5. CASE Done
  <2>1. cli # <<>> => Head(cli) \in Line /\ Tail(cli) \in Seq(Line)
    BY DEF SessionInv, SessionTypeOK
  <2> QED
    BY <1>1, <1>5, <2>1 DEF Done, vars, execVars, SessionInv, SessionTypeOK, PausedHasBacklog,
       PromptWhenQuiet, Quiet
<1>6. ASSUME Dispatched, ctl_queue # <<>>
      PROVE  /\ ctl_queue' \in Seq(Line \cup {"attach"}) /\ Len(ctl_queue') <= 2
             /\ served' \in Seq(Line) /\ UNCHANGED <<cli, cs, heard>>
  <2>1. /\ Tail(ctl_queue) \in Seq(Line \cup {"attach"}) /\ Len(Tail(ctl_queue)) <= 2
        /\ Head(ctl_queue) \in Line \cup {"attach"}
    BY <1>6 DEF SessionInv, SessionTypeOK
  <2> QED
    BY <1>6, <2>1 DEF Dispatched, SessionInv, SessionTypeOK
<1>7. CASE Dispatch
  <2>1. ASSUME NEW scmd, Handle(scmd) PROVE ctl_pending' # "idle" /\ fault = "none"
    BY <2>1 DEF Handle, AttachThrows, Attach, Cont, Step, Stop, RunCmd, Refused, Inert, CanDispatch
  <2>2. ctl_pending' # "idle" /\ fault = "none"
    BY <1>7, <2>1 DEF Dispatch
  <2>3. PausedHasBacklog' /\ PromptWhenQuiet' /\ rl_paused' \in BOOLEAN /\ prompted' \in BOOLEAN
    BY <1>6, <1>7, <2>2, ReactEffect DEF Dispatch
  <2> QED
    BY <1>6, <1>7, <2>3 DEF Dispatch, SessionInv, SessionTypeOK
<1>8. CASE Quit
  BY <1>6, <1>8 DEF Quit, SessionInv, SessionTypeOK, PausedHasBacklog, PromptWhenQuiet, Quiet
<1>9. CASE \/ Controller(Answer) \/ Controller(Input) \/ Controller(Callback)
          \/ Controller(FrameReturn)
  <2>1. React /\ UNCHANGED <<cli, cs, ctl_queue, exited, heard, served>>
    BY <1>9 DEF Controller
  <2>2. fault = "none"
    BY <1>9
    DEF Controller, Answer, Reply, InitFails, InitDone, CanInit, Input, Fetch, InputEnd, InputError,
        Callback, CallbackThrows, InsnData, InsnDone, InsnError, InsnTrap, Accept, CanReport,
        FrameReturn, SetNextReturn, InsnDoneReturn, InsnErrorReturn, InsnTrapReturn,
        ModelErrorReturn, TerminateReturn
  <2> QED
    BY <2>1, <2>2, ReactEffect DEF SessionInv, SessionTypeOK
<1>10. CASE UNCHANGED svars
  BY <1>10 DEF svars, ttyVars, vars, execVars, SessionInv, SessionTypeOK, PausedHasBacklog,
     PromptWhenQuiet, Quiet
<1> QED
  BY <1>2, <1>3, <1>4, <1>5, <1>7, <1>8, <1>9, <1>10 DEF SessionNext, Pipe

LEMMA SessionInvHolds == SessionSpec => []SessionInv
<1>1. SessionInit => SessionInv
  <2>1. /\ <<>> \in Seq(Line) /\ <<>> \in Seq(Line \cup {"attach"}) /\ Len(<<>>) = 0
        /\ <<"attach">> \in Seq(Line \cup {"attach"}) /\ Len(<<"attach">>) = 1
    OBVIOUS
  <2>2. ASSUME SessionInit PROVE ctl_queue \in Seq(Line \cup {"attach"}) /\ Len(ctl_queue) <= 2
    <3>1. ctl_queue = <<>> \/ ctl_queue = <<"attach">>
      BY <2>2, Zenon DEF SessionInit
    <3>2. CASE ctl_queue = <<>>
      BY <2>1, <3>2
    <3>3. CASE ctl_queue = <<"attach">>
      <4>1. Len(ctl_queue) = 1
        BY <3>3
      <4>2. ctl_queue \in Seq(Line \cup {"attach"})
        BY <3>3
      <4> QED
        BY <4>1, <4>2
    <3> QED
      BY <3>1, <3>2, <3>3
  <2> SUFFICES ASSUME SessionInit PROVE SessionInv
    OBVIOUS
  <2>3. /\ rl_paused = FALSE /\ prompted = TRUE /\ exited = FALSE /\ cs = "free"
        /\ cli = <<>> /\ heard = <<>> /\ served = <<>>
    BY DEF SessionInit
  <2>4. SessionTypeOK
    BY <2>1, <2>2, <2>3 DEF SessionTypeOK
  <2> QED
    BY <2>3, <2>4 DEF SessionInv, PausedHasBacklog, PromptWhenQuiet
<1> QED
  BY <1>1, SessionStep, PTL DEF SessionSpec

(* The terminal is deaf only while lines wait in its source.               *)
THEOREM TerminalHears == SessionSpec => []PausedHasBacklog
BY SessionInvHolds, PTL DEF SessionInv

(* A session with nothing left to do has prompted, for any lines in any    *)
(* order with the events of any simulation.                                *)
THEOREM SessionPrompts == SessionSpec => []PromptWhenQuiet
BY SessionInvHolds, PTL DEF SessionInv

-----------------------------------------------------------------------------
(* The pipe: an ::attach can only be at its head, and the source is empty  *)
(* when the command stream is.                                             *)
PipeInv ==
  /\ Queued \in Seq(Line)
  /\ cs = "free" => cli = <<>>
  /\ LinesConserved

(* What every step finds, and has to restore.                              *)
LEMMA PipeFacts ==
  ASSUME SessionInv, PipeInv
  PROVE  /\ Queued \in Seq(Line) /\ Held \in Seq(Line) /\ cli \in Seq(Line)
         /\ served \in Seq(Line) /\ heard \in Seq(Line)
         /\ heard = served \o (Queued \o (Held \o cli))
<1>1. cs \notin {"free", "parsed"} => <<cs>> \in Seq(Line)
  BY DEF SessionInv, SessionTypeOK
<1>2. Held \in Seq(Line)
  BY <1>1 DEF Held
<1> QED
  BY <1>2 DEF SessionInv, SessionTypeOK, PipeInv, LinesConserved, InTransit

LEMMA Assoc ==
  \A a, b, c \in Seq(Line) : (a \o b) \o c = a \o (b \o c)
BY ConcatAssociative

LEMMA HeadAndTail ==
  ASSUME NEW S, NEW s \in Seq(S), s # <<>>
  PROVE  <<Head(s)>> \o Tail(s) = s
OBVIOUS

(* Lines that are typed come last of all that is in the pipe.              *)
LEMMA PushKeepsOrder ==
  ASSUME SessionInv, PipeInv, NEW ls \in Seq(Line), ls # <<>>, Push(ls),
         UNCHANGED <<ctl_queue, served>>
  PROVE  PipeInv'
<1>1. "free" \notin Line /\ "parsed" \notin Line
  BY LineAssumption DEF Line
<1>2. Queued' = Queued /\ heard' = heard \o ls /\ served' = served
  BY DEF Push, Queued
<1>3. Held' \o cli' = (Held \o cli) \o ls
  <2>1. CASE cs = "free"
    <3>1. cli = <<>> /\ Held = <<>> /\ Head(ls) \in Line /\ Tail(ls) \in Seq(Line)
      BY <2>1 DEF PipeInv, Held
    <3>2. cs' = Head(ls) /\ cli' = cli \o Tail(ls)
      BY <2>1 DEF Push
    <3>3. cli' = Tail(ls) /\ Held' = <<Head(ls)>>
      BY <1>1, <3>1, <3>2, ConcatEmptySeq DEF Held
    <3>4. (Held \o cli) \o ls = ls
      BY <3>1, ConcatEmptySeq
    <3> QED
      BY <3>3, <3>4, HeadAndTail
  <2>2. CASE cs # "free"
    <3>1. Held' = Held /\ cli' = cli \o ls
      BY <2>2 DEF Push, Held
    <3>2. Held \in Seq(Line) /\ cli \in Seq(Line)
      BY PipeFacts
    <3>3. (Held \o cli) \o ls = Held \o (cli \o ls)
      BY <3>2, Assoc
    <3> QED
      BY <3>1, <3>3
  <2> QED
    BY <2>1, <2>2
<1>4. heard' = served' \o (Queued' \o (Held' \o cli'))
  <2>0. Held \in Seq(Line) /\ cli \in Seq(Line) /\ Queued \in Seq(Line) /\ served \in Seq(Line)
    BY PipeFacts
  <2>1. /\ Held \o cli \in Seq(Line) /\ Queued \o (Held \o cli) \in Seq(Line)
    BY <2>0
  <2>2. (Queued \o (Held \o cli)) \o ls = Queued \o ((Held \o cli) \o ls)
    BY <2>0, <2>1, Assoc, SMTT(30)
  <2>3. (served \o (Queued \o (Held \o cli))) \o ls = served \o ((Queued \o (Held \o cli)) \o ls)
    BY <2>0, <2>1, Assoc, SMTT(30)
  <2> QED
    BY <1>2, <1>3, <2>2, <2>3, PipeFacts
<1>5. cs' # "free"
  <2>1. Head(ls) \in Line
    OBVIOUS
  <2> QED
    BY <1>1, <2>1 DEF Push
<1> QED
  BY <1>2, <1>4, <1>5 DEF PipeInv, LinesConserved, InTransit

(* A command leaves the queue for the controller, or the ::attach does.    *)
LEMMA DispatchKeepsOrder ==
  ASSUME SessionInv, PipeInv, ctl_queue # <<>>, Dispatched
  PROVE  PipeInv'
<1>1. "attach" \notin Line
  BY LineAssumption DEF Line
<1>2. ctl_queue \in Seq(Line \cup {"attach"}) /\ ctl_queue' = Tail(ctl_queue)
  BY DEF SessionInv, SessionTypeOK, Dispatched
<1>3. Held' = Held /\ UNCHANGED <<cli, cs, heard>>
  BY DEF Dispatched, Held
<1>4. ASSUME NEW s \in Seq(Line), s # <<>> PROVE Head(s) # "attach"
  BY <1>1, <1>4
<1>5. CASE Head(ctl_queue) = "attach"
  <2>1. Queued = Tail(ctl_queue) /\ served' = served
    BY <1>5 DEF Queued, Dispatched
  <2>2. Queued' = Queued
    BY <1>2, <1>4, <2>1 DEF PipeInv, Queued
  <2> QED
    BY <1>3, <2>1, <2>2 DEF PipeInv, LinesConserved, InTransit
<1>6. CASE Head(ctl_queue) # "attach"
  <2>1. Queued = ctl_queue /\ served' = Append(served, Head(ctl_queue))
    BY <1>6 DEF Queued, Dispatched
  <2>2. Head(Queued) \in Line /\ Tail(Queued) \in Seq(Line) /\ Queued # <<>>
    BY <2>1 DEF PipeInv
  <2>3. Queued' = Tail(Queued)
    BY <1>2, <1>4, <2>1, <2>2 DEF Queued
  <2>4. served' = served \o <<Head(Queued)>>
    BY <2>1, <2>2, PipeFacts, AppendIsConcat
  <2>5. <<Head(Queued)>> \in Seq(Line) /\ Held \o cli \in Seq(Line)
    BY <2>2, PipeFacts, ConcatProperties
  <2>6. Queued \o (Held \o cli) = <<Head(Queued)>> \o (Tail(Queued) \o (Held \o cli))
    <3>1. <<Head(Queued)>> \o Tail(Queued) = Queued
      BY <2>2, PipeFacts, HeadAndTail
    <3> QED
      BY <2>2, <2>5, <3>1, ConcatAssociative
  <2>7. served \o (<<Head(Queued)>> \o (Tail(Queued) \o (Held \o cli)))
          = (served \o <<Head(Queued)>>) \o (Tail(Queued) \o (Held \o cli))
    <3>1. Tail(Queued) \o (Held \o cli) \in Seq(Line)
      BY <2>2, <2>5, ConcatProperties
    <3>2. served \in Seq(Line)
      BY PipeFacts
    <3> QED
      BY <2>5, <3>1, <3>2, Assoc
  <2> QED
    BY <1>3, <2>2, <2>3, <2>4, <2>6, <2>7, PipeFacts DEF PipeInv, LinesConserved, InTransit
<1> QED
  BY <1>5, <1>6

LEMMA PipeStep == SessionInv /\ PipeInv /\ [SessionNext]_svars => PipeInv'
<1> SUFFICES ASSUME SessionInv, PipeInv, [SessionNext]_svars PROVE PipeInv'
  OBVIOUS
<1>1. "free" \notin Line /\ "parsed" \notin Line /\ "attach" \notin Line
  BY LineAssumption DEF Line
<1>2. ASSUME UNCHANGED <<cli, cs, ctl_queue, heard, served>> PROVE PipeInv'
  BY <1>2 DEF PipeInv, LinesConserved, InTransit, Queued, Held
<1>3. CASE Terminal
  <2>1. ASSUME NEW ls \in Burst, TypeLines(ls) PROVE PipeInv'
    BY <2>1, BurstFacts, PushKeepsOrder DEF TypeLines
  <2>2. CASE DropLine \/ EmptyLine \/ Close
    BY <1>2, <2>2 DEF DropLine, EmptyLine, Close
  <2> QED
    BY <1>3, <2>1, <2>2 DEF Terminal
<1>4. ASSUME Parsing
      PROVE  Queued = <<>> /\ cs \in Line /\ Held = <<cs>> /\ <<cs>> \in Seq(Line)
  <2>1. cs \in Line /\ Held = <<cs>>
    BY <1>4 DEF Parsing, SessionInv, SessionTypeOK, Held
  <2>2. ctl_queue = <<>> \/ ctl_queue = <<"attach">>
    BY <1>4, Zenon DEF Parsing
  <2>3. CASE ctl_queue = <<>>
    BY <2>1, <2>3 DEF Queued
  <2>4. CASE ctl_queue = <<"attach">>
    <3>1. ctl_queue # <<>> /\ Head(ctl_queue) = "attach" /\ Tail(ctl_queue) = <<>>
      BY <2>4
    <3> QED
      BY <2>1, <3>1 DEF Queued
  <2> QED
    BY <2>2, <2>3, <2>4
<1>5. CASE ParseFails
  <2>1. /\ Queued = <<>> /\ cs \in Line /\ Held = <<cs>> /\ <<cs>> \in Seq(Line)
    BY <1>4, <1>5 DEF ParseFails
  <2>2. /\ Queued' = Queued /\ Held' = <<>> /\ cs' = "parsed" /\ UNCHANGED <<cli, heard>>
        /\ served' = Append(served, cs)
    BY <1>5 DEF ParseFails, Queued, Held
  <2>3. served' = served \o <<cs>>
    BY <2>1, <2>2, PipeFacts, AppendIsConcat
  <2>4. heard = (served \o <<cs>>) \o cli
    <3>1. <<>> \o (<<cs>> \o cli) = <<cs>> \o cli
      BY <2>1, PipeFacts, ConcatProperties, ConcatEmptySeq
    <3>2. served \o (<<cs>> \o cli) = (served \o <<cs>>) \o cli
      BY <2>1, PipeFacts, ConcatAssociative
    <3> QED
      BY <2>1, <3>1, <3>2, PipeFacts
  <2>5. Queued' \o (Held' \o cli') = cli
    BY <2>1, <2>2, PipeFacts, ConcatEmptySeq
  <2> QED
    BY <2>1, <2>2, <2>3, <2>4, <2>5 DEF PipeInv, LinesConserved, InTransit
<1>6. CASE Parse
  <2>1. /\ Queued = <<>> /\ cs \in Line /\ Held = <<cs>> /\ <<cs>> \in Seq(Line)
    BY <1>4, <1>6 DEF Parse
  <2>2. /\ cs' = "parsed" /\ Held' = <<>> /\ UNCHANGED <<cli, heard, served>>
        /\ ctl_queue' = Append(ctl_queue, cs)
    BY <1>6 DEF Parse, Held
  <2>3. Queued' = <<cs>>
    <3>1. ctl_queue = <<>> \/ ctl_queue = <<"attach">>
      BY <1>6, Zenon DEF Parse, Parsing
    <3>2. CASE ctl_queue = <<>>
      <4>1. ctl_queue' = <<cs>>
        BY <2>2, <3>2
      <4>2. Head(<<cs>>) = cs /\ cs # "attach"
        BY <1>1, <2>1
      <4> QED
        BY <4>1, <4>2 DEF Queued
    <3>3. CASE ctl_queue = <<"attach">>
      <4>1. <<"attach">> \in Seq({"attach"}) /\ <<"attach">> # <<>>
        OBVIOUS
      <4>2. /\ Head(Append(<<"attach">>, cs)) = Head(<<"attach">>)
            /\ Tail(Append(<<"attach">>, cs)) = Append(Tail(<<"attach">>), cs)
        BY <4>1, HeadTailAppend
      <4>3. Head(<<"attach">>) = "attach" /\ Tail(<<"attach">>) = <<>> /\ Append(<<>>, cs) = <<cs>>
        OBVIOUS
      <4>4. Append(<<"attach">>, cs) # <<>>
        <5>1. Len(Append(<<"attach">>, cs)) = 2 /\ Len(<<>>) = 0
          OBVIOUS
        <5> QED
          BY <5>1
      <4>5. Head(ctl_queue') = "attach" /\ Tail(ctl_queue') = <<cs>> /\ ctl_queue' # <<>>
        BY <2>2, <3>3, <4>2, <4>3, <4>4
      <4> QED
        BY <4>5 DEF Queued
    <3> QED
      BY <3>1, <3>2, <3>3
  <2>4. Queued' \o (Held' \o cli') = Queued \o (Held \o cli)
    <3>1. <<>> \o (<<cs>> \o cli) = <<cs>> \o cli /\ <<>> \o cli = cli
      BY <2>1, PipeFacts, ConcatProperties, ConcatEmptySeq
    <3> QED
      BY <2>1, <2>2, <2>3, <3>1
  <2> QED
    BY <2>1, <2>2, <2>3, <2>4 DEF PipeInv, LinesConserved, InTransit
<1>7. CASE Done
  <2>1. Held = <<>> /\ cli \in Seq(Line) /\ UNCHANGED <<ctl_queue, heard, served>>
    BY <1>7 DEF Done, Held, SessionInv, SessionTypeOK
  <2>2. Queued' = Queued
    BY <2>1 DEF Queued
  <2>3. CASE cli = <<>>
    <3>1. cs' = "free" /\ cli' = cli /\ Held' = <<>>
      BY <1>7, <2>3 DEF Done, Held
    <3> QED
      BY <2>1, <2>2, <2>3, <3>1 DEF PipeInv, LinesConserved, InTransit
  <2>4. CASE cli # <<>>
    <3>1. cs' = Head(cli) /\ cli' = Tail(cli) /\ Head(cli) \in Line
      BY <1>7, <2>1, <2>4 DEF Done
    <3>2. Held' = <<Head(cli)>> /\ cs' # "free"
      BY <1>1, <3>1 DEF Held
    <3>3. Held' \o cli' = Held \o cli
      BY <2>1, <2>4, <3>1, <3>2, HeadAndTail, ConcatEmptySeq
    <3> QED
      BY <2>1, <2>2, <3>2, <3>3 DEF PipeInv, LinesConserved, InTransit
  <2> QED
    BY <2>3, <2>4
<1>8. CASE Dispatch
  BY <1>8, DispatchKeepsOrder DEF Dispatch
<1>9. CASE Quit
  BY <1>9, DispatchKeepsOrder DEF Quit
<1>10. CASE \/ Controller(Answer) \/ Controller(Input) \/ Controller(Callback)
           \/ Controller(FrameReturn)
  BY <1>2, <1>10 DEF Controller
<1>11. CASE UNCHANGED svars
  BY <1>2, <1>11 DEF svars, ttyVars
<1> QED
  BY <1>3, <1>5, <1>6, <1>7, <1>8, <1>9, <1>10, <1>11 DEF SessionNext, Pipe

(* No line is lost, executed twice or overtaken between the terminal and   *)
(* the controller: for any number of lines, in bursts of any length.       *)
THEOREM LinesKept == SessionSpec => []LinesConserved
<1>1. SessionInit => PipeInv
  <2> SUFFICES ASSUME SessionInit PROVE PipeInv
    OBVIOUS
  <2>1. Queued = <<>>
    <3>1. ctl_queue = <<>> \/ ctl_queue = <<"attach">>
      BY Zenon DEF SessionInit
    <3>2. Head(<<"attach">>) = "attach" /\ Tail(<<"attach">>) = <<>> /\ <<"attach">> # <<>>
      OBVIOUS
    <3> QED
      BY <3>1, <3>2 DEF Queued
  <2>2. cs = "free" /\ cli = <<>> /\ heard = <<>> /\ served = <<>> /\ Held = <<>>
    BY DEF SessionInit, Held
  <2>3. <<>> \o (<<>> \o (<<>> \o <<>>)) = <<>> /\ <<>> \in Seq(Line)
    OBVIOUS
  <2> QED
    BY <2>1, <2>2, <2>3 DEF PipeInv, LinesConserved, InTransit
<1>2. PipeInv => LinesConserved
  BY DEF PipeInv
<1> QED
  BY <1>1, <1>2, SessionInvHolds, PipeStep, PTL DEF SessionSpec

(* Every variable of the session keeps its type.                           *)
THEOREM SessionTyped == SessionSpec => []SessionTypeOK
BY SessionInvHolds, PTL DEF SessionInv
=============================================================================
