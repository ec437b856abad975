----------------------------- MODULE Simulation -----------------------------
(***************************************************************************)
(* The simulation controller of lib/CT_simulation.js: the state kept by a  *)
(* CT_simulation object, the control commands (scmds) that drive it, the   *)
(* engine (a Transform stream) that takes instructions from the model's    *)
(* input stream one at a time, and the callback through which a model      *)
(* reports the result of an instruction.                                   *)
(*                                                                         *)
(* Every action is one turn of the event loop, with one exception: the     *)
(* code emits events in the middle of a handler, and a listener (or a      *)
(* command queued behind one that just completed) may be dispatched right  *)
(* there, before the rest of the handler runs.  Such a handler is split at *)
(* the emission: `frame' names the handler that still has to finish.       *)
(***************************************************************************)
EXTENDS Naturals

CONSTANTS
  Models,     \* the model instances that ::attach can create
  NoModel,    \* no model is attached
  MaxRuns,    \* bound: how many engines ::run creates
  MaxInsns,   \* bound: how many instructions one input stream delivers
  Scmds,      \* the scmds that clients issue
  Results,    \* the kinds of result that models pass to their callback
  Failures,   \* what may fail outside: creating a model, its init, its input
  Reentrant   \* the frames in which a command may be dispatched synchronously

Scmd == {"attach", "bp", "cont", "delete", "run", "status", "step", "stop", ":z"}
Result == {"data", "done", "err", "trap"}
Failure == {"create", "init", "input"}
Frame == {"none", "set-next", "insn-done", "insn-error", "insn-trap",
          "model-error", "terminate"}
CtlState == {"idle", "reply", "init", "step"}
Fault == {"none", "run", "step", "set-next", "resumed", "exec", "cb"}

ASSUME ModelAssumption == NoModel \notin Models
ASSUME BoundAssumption == MaxRuns \in Nat \ {0} /\ MaxInsns \in Nat \ {0}
ASSUME ClientAssumption ==
  /\ Scmds \subseteq Scmd
  /\ Results \subseteq Result
  /\ Failures \subseteq Failure
  /\ Reentrant \subseteq Frame \ {"none"}

NoRun == 0
Run == 1 .. MaxRuns
Addr == 0 .. (MaxInsns - 1)

(* An instruction in its context: the input stream it came from, its       *)
(* address in that stream, and the flag trap of its ictx.                  *)
Insn == [run : Run \cup {NoRun}, addr : Addr, trap : BOOLEAN]
NoInsn == [run |-> NoRun, addr |-> 0, trap |-> FALSE]

VARIABLES
  running, stop,   \* _running, _stop: a suspend is wanted at the next fetch
  sim_pending,     \* _sim_pending: fetched, not yet handed to the model
  sim_executing,   \* _sim_executing: handed to the model
  inflight,        \* per run, exec() calls that still owe their last callback
  fault,           \* the uncaught exception that killed the process, if any
  model,           \* _model
  engine,          \* _engine and _input, which are set and cleared together
  busy,            \* the engine has not called its _transform's done()
  fetched,         \* the instructions the current input has delivered
  done,            \* _done: the input has emitted 'end'
           \* the runs whose input has reported its one error
  runs,            \* the engines created so far
  bptbl,           \* the keys of _bptbl: addresses with a breakpoint
  ctl_pending,     \* what _ctl_pending, the command in progress, waits for
  frame, owed,     \* the handler to finish, the engine whose done() it calls
  owner,           \* history: the model whose init() opened the current input
  retired          \* history: per run, 1 + the last address with insn-done

execVars == <<running, stop, sim_pending, sim_executing, inflight, fault>>
inputVars == <<engine, busy, fetched, done, runs, owner>>
frameVars == <<frame, owed>>
vars == <<execVars, inputVars, frameVars, model, bptbl, ctl_pending, retired>>

Init ==
  /\ running = FALSE /\ stop = FALSE
  /\ sim_pending = NoInsn /\ sim_executing = NoInsn
  /\ inflight = [r \in Run |-> 0]
  /\ fault = "none"
  /\ model = NoModel
  /\ engine = NoRun /\ busy = FALSE /\ fetched = 0 /\ done = FALSE
  /\ runs = 0 /\ owner = NoModel
  /\ bptbl = {}
  /\ ctl_pending = "idle"
  /\ frame = "none" /\ owed = NoRun
  /\ retired = [r \in Run |-> 0]

-----------------------------------------------------------------------------
(* The functions the handlers share.                                       *)

(* A handler throws: nothing catches it, so the process dies.              *)
Throw(what) ==
  /\ fault' = what
  /\ UNCHANGED <<running, stop, sim_pending, sim_executing, inflight>>

(* _running and _stop after _suspend(), called with _running = r, _stop =  *)
(* s and _sim_executing = x: a suspend is deferred while x executes.       *)
SuspendedRunningNever(r, x) == r     \* mutant: a suspend that is forgotten
SuspendedRunningEarly(r, x) == FALSE \* mutant: a suspend that never waits
SuspendedRunning(r, x) == r /\ x # NoInsn
SuspendedStop(r, s, x) == IF r THEN x # NoInsn ELSE s

(* _exec_next() on the pending instruction insn, with _running true and    *)
(* _stop = s: an instruction marked to trap suspends the simulation and    *)
(* loses the mark, any other is handed to the model.                       *)
ExecNext(insn, s) ==
  \/ /\ insn.trap
     /\ sim_pending' = [insn EXCEPT !.trap = FALSE]
     /\ running' = SuspendedRunning(TRUE, sim_executing)
     /\ stop' = SuspendedStop(TRUE, s, sim_executing)
     /\ UNCHANGED <<sim_executing, inflight, fault>>
  \/ /\ ~insn.trap
     /\ model = NoModel
     /\ Throw("exec")
  \/ /\ ~insn.trap
     /\ model # NoModel
     /\ sim_pending' = NoInsn
     /\ sim_executing' = insn
     /\ inflight' = [inflight EXCEPT ![insn.run] = @ + 1]
     /\ running' = TRUE
     /\ stop' = s
     /\ UNCHANGED fault

(* _resume(), which leaves _stop = s if it hands an instruction over.  Its *)
(* 'resume' event always comes while the command that resumed is pending,  *)
(* so no other command can be dispatched from it.                          *)
ResumeWith(single, s) ==
  \/ /\ running
     /\ UNCHANGED execVars
  \/ /\ ~running /\ stop
     /\ stop' = FALSE
     /\ UNCHANGED <<running, sim_pending, sim_executing, inflight, fault>>
  \/ /\ ~running /\ ~stop /\ sim_pending = NoInsn /\ single
     /\ Throw("step")
  \/ /\ ~running /\ ~stop /\ sim_pending = NoInsn /\ ~single
     /\ running' = TRUE
     /\ UNCHANGED <<stop, sim_pending, sim_executing, inflight, fault>>
  \/ /\ ~running /\ ~stop /\ sim_pending # NoInsn
     /\ ExecNext(sim_pending, s)

(* single is the option of that name: ::step sets it, to stop at the fetch *)
(* that follows the pending instruction.                                   *)
ResumeUnarmed(single) == ResumeWith(single, FALSE) \* mutant: _stop is not set
Resume(single) == ResumeWith(single, single)

(* The end of a callback that owes a done() to an engine: if that is e,    *)
(* the one plumbed to the input, e asks for the next instruction.          *)
Return(e) ==
  /\ frame' = "none"
  /\ owed' = NoRun
  /\ busy' = (busy /\ e # NoRun /\ owed # e)

(* _terminate() up to the 'suspend' event it emits if it was running; if   *)
(* it was not, also its rest, which unpipes the input and drops the engine.*)
Terminate ==
  /\ \/ /\ model = NoModel
        /\ Return(engine)
        /\ UNCHANGED <<running, stop, sim_pending, sim_executing, engine>>
     \/ /\ model # NoModel
        /\ sim_pending' = NoInsn /\ sim_executing' = NoInsn
        /\ stop' = FALSE
        /\ running' = FALSE
        /\ IF running
           THEN frame' = "terminate" /\ UNCHANGED <<engine, busy, owed>>
           ELSE engine' = NoRun /\ Return(NoRun)
  /\ UNCHANGED <<inflight, fault, fetched, done, runs, owner,
                 model, bptbl, ctl_pending, retired>>

-----------------------------------------------------------------------------
(* Control commands.  The control stream takes one command at a time: its  *)
(* next _transform() comes after the final response to the one before.     *)

CanDispatch(scmd) ==
  /\ fault = "none"
  /\ ctl_pending = "idle"
  /\ frame = "none" \/ frame \in Reentrant
  /\ scmd \in Scmds

(* What _dispatch() and scmd_fail_async() leave alone: a command that is   *)
(* refused, or only reports, is answered with setImmediate().              *)
Inert ==
  /\ ctl_pending' = "reply"
  /\ UNCHANGED <<execVars, inputVars, frameVars, model, bptbl, retired>>

Status == CanDispatch("status") /\ Inert

(* Mutant: a new model takes over the engine of the one before it.         *)
AttachKeepsEngine(m) ==
  /\ CanDispatch("attach")
  /\ ~running
  /\ model' = m
  /\ ctl_pending' = "reply"
  /\ UNCHANGED <<execVars, inputVars, frameVars, bptbl, retired>>

(* Mutant: ::attach does not ask if the simulation is running.             *)
AttachAnytime(m) ==
  /\ CanDispatch("attach")
  /\ model' = m
  /\ sim_pending' = NoInsn /\ sim_executing' = NoInsn
  /\ running' = FALSE /\ stop' = FALSE
  /\ engine' = NoRun /\ busy' = FALSE
  /\ ctl_pending' = "reply"
  /\ UNCHANGED <<inflight, fault, fetched, done, runs, owner, frameVars, bptbl, retired>>

(* ::attach, when the model could be created: a model attached before is   *)
(* terminated, with no event since it is not running, and thrown away.     *)
Attach(m) ==
  /\ CanDispatch("attach")
  /\ ~running
  /\ model' = m
  /\ IF model = NoModel
     THEN UNCHANGED <<execVars, inputVars>>
     ELSE /\ sim_pending' = NoInsn /\ sim_executing' = NoInsn
          /\ stop' = FALSE
          /\ engine' = NoRun /\ busy' = FALSE
          /\ UNCHANGED <<running, inflight, fault, fetched, done, runs, owner>>
  /\ ctl_pending' = "reply"
  /\ UNCHANGED <<frameVars, bptbl, retired>>

AttachRefused == CanDispatch("attach") /\ running /\ Inert

(* ::attach, when loading the module or its create() throws: the handler   *)
(* forgets the model it had, whether or not it was running.                *)
AttachThrows ==
  /\ CanDispatch("attach")
  /\ "create" \in Failures
  /\ model' = NoModel
  /\ ctl_pending' = "reply"
  /\ UNCHANGED <<execVars, inputVars, frameVars, bptbl, retired>>

(* ::bp marks the pending instruction too if it is the one it names.       *)
Bp(a) ==
  /\ CanDispatch("bp")
  /\ model # NoModel
  /\ bptbl' = bptbl \cup {a}
  /\ sim_pending' = IF ~running /\ sim_pending # NoInsn /\ sim_pending.addr = a
                    THEN [sim_pending EXCEPT !.trap = TRUE]
                    ELSE sim_pending
  /\ ctl_pending' = "reply"
  /\ UNCHANGED <<running, stop, sim_executing, inflight, fault,
                 inputVars, frameVars, model, retired>>

Delete(a) ==
  /\ CanDispatch("delete")
  /\ bptbl' = bptbl \ {a}
  /\ ctl_pending' = "reply"
  /\ UNCHANGED <<execVars, inputVars, frameVars, model, retired>>

DeleteAll ==
  /\ CanDispatch(":z")
  /\ bptbl' = {}
  /\ ctl_pending' = "reply"
  /\ UNCHANGED <<execVars, inputVars, frameVars, model, retired>>

(* Mutant: ::cont does not ask for an active simulation.                   *)
ContAnytime ==
  /\ CanDispatch("cont")
  /\ ~running
  /\ Resume(FALSE)
  /\ ctl_pending' = "reply"
  /\ UNCHANGED <<inputVars, frameVars, model, bptbl, retired>>

Cont ==
  /\ CanDispatch("cont")
  /\ ~running /\ engine # NoRun
  /\ Resume(FALSE)
  /\ ctl_pending' = "reply"
  /\ UNCHANGED <<inputVars, frameVars, model, bptbl, retired>>

(* ::step is answered by the next insn-done, insn-error or insn-trap.      *)
Step ==
  /\ CanDispatch("step")
  /\ model # NoModel /\ engine # NoRun /\ ~running
  /\ Resume(TRUE)
  /\ ctl_pending' = "step"
  /\ UNCHANGED <<inputVars, frameVars, model, bptbl, retired>>

(* ::stop: _suspend(), whose event comes while ::stop is still pending.    *)
Stop ==
  /\ CanDispatch("stop")
  /\ running' = SuspendedRunning(running, sim_executing)
  /\ stop' = SuspendedStop(running, stop, sim_executing)
  /\ ctl_pending' = "reply"
  /\ UNCHANGED <<sim_pending, sim_executing, inflight, fault,
                 inputVars, frameVars, model, bptbl, retired>>

(* ::run calls the model's init(), which answers in a later turn.          *)
RunCmd ==
  /\ CanDispatch("run")
  /\ model # NoModel /\ ~running
  /\ runs < MaxRuns
  /\ ctl_pending' = "init"
  /\ UNCHANGED <<execVars, inputVars, frameVars, model, bptbl, retired>>

(* The refusals of the handlers above, all with scmd_fail_async().         *)
Refused(scmd) ==
  /\ CanDispatch(scmd)
  /\ \/ scmd = "bp" /\ model = NoModel
     \/ scmd = "cont" /\ (running \/ engine = NoRun)
     \/ scmd = "step" /\ (model = NoModel \/ engine = NoRun \/ running)
     \/ scmd = "run" /\ (model = NoModel \/ running)
  /\ Inert

(* setImmediate() delivers the response; the stream takes the next command.*)
Reply ==
  /\ fault = "none" /\ frame = "none"
  /\ ctl_pending = "reply"
  /\ ctl_pending' = "idle"
  /\ UNCHANGED <<execVars, inputVars, frameVars, model, bptbl, retired>>

CanInit == fault = "none" /\ frame = "none" /\ ctl_pending = "init"

InitFails ==
  /\ CanInit
  /\ "init" \in Failures
  /\ ctl_pending' = "idle"
  /\ UNCHANGED <<execVars, inputVars, frameVars, model, bptbl, retired>>

(* The callback that ::run gives to init(): it asserts that no input is    *)
(* plumbed, builds an engine, pipes the new input into it, and resumes.    *)
InitDone ==
  /\ CanInit
  /\ \/ /\ engine # NoRun
        /\ Throw("run")
        /\ UNCHANGED <<inputVars, ctl_pending>>
     \/ /\ engine = NoRun
        /\ runs' = runs + 1
        /\ engine' = runs + 1
        /\ owner' = model
        /\ busy' = FALSE /\ fetched' = 0 /\ done' = FALSE
        /\ Resume(FALSE)
        /\ ctl_pending' = "idle"
  /\ UNCHANGED <<frameVars, model, bptbl, retired>>

-----------------------------------------------------------------------------
(* The input stream and the engine's _transform(), which is _set_next().   *)

(* The instruction the input delivers next, marked if it has a breakpoint. *)
FetchedUnmarked ==  \* mutant: no look at the breakpoint table
  [run |-> engine, addr |-> fetched, trap |-> FALSE]
FetchedNumbered ==  \* mutant: addresses one too high
  [run |-> engine, addr |-> fetched + 1, trap |-> fetched \in bptbl]
Fetched ==
  [run |-> engine, addr |-> fetched, trap |-> fetched \in bptbl]

(* A suspend deferred until the next instruction is known is due now.      *)
SuspendDueNever == FALSE \* mutant: it is not looked at
SuspendDue == stop

SetNext(insn) ==
  \/ /\ sim_pending # NoInsn
     /\ Throw("set-next")
     /\ UNCHANGED frame
  \/ /\ sim_pending = NoInsn /\ SuspendDue
     /\ sim_pending' = insn
     /\ running' = SuspendedRunning(running, sim_executing)
     /\ stop' = SuspendedStop(running, stop, sim_executing)
     /\ frame' = "set-next"
     /\ UNCHANGED <<sim_executing, inflight, fault>>
  \/ /\ sim_pending = NoInsn /\ ~SuspendDue /\ running
     /\ ExecNext(insn, FALSE)
     /\ UNCHANGED frame
  \/ /\ sim_pending = NoInsn /\ ~SuspendDue /\ ~running
     /\ sim_pending' = insn
     /\ UNCHANGED <<running, stop, sim_executing, inflight, fault, frame>>

(* The engine accepts another instruction when the last _transform() is    *)
(* done; MaxInsns bounds what the input has to deliver.                    *)
EngineReadyEarly ==  \* mutant: it does not wait for done()
  engine # NoRun /\ ~done /\ fetched < MaxInsns
EngineReady == engine # NoRun /\ ~busy /\ ~done /\ fetched < MaxInsns

Fetch ==
  /\ fault = "none" /\ frame = "none"
  /\ EngineReady
  /\ fetched' = fetched + 1
  /\ busy' = TRUE
  /\ SetNext(Fetched)
  /\ UNCHANGED <<engine, done, runs, owner, owed, model, bptbl, ctl_pending, retired>>

(* The rest of _set_next(), after the 'suspend' event it emitted.          *)
SetNextReturn ==
  /\ fault = "none" /\ frame = "set-next"
  /\ frame' = "none"
  /\ \/ ~running /\ UNCHANGED execVars
     \/ running /\ sim_pending = NoInsn /\ Throw("resumed")
     \/ running /\ sim_pending # NoInsn /\ ExecNext(sim_pending, stop)
  /\ UNCHANGED <<inputVars, owed, model, bptbl, ctl_pending, retired>>

(* The input emits 'end', once, at any time after its last instruction was *)
(* delivered: while that instruction waits or executes, or after it.       *)
InputEnd ==
  /\ fault = "none" /\ frame = "none"
  /\ engine # NoRun /\ ~done
  /\ done' = TRUE
  /\ UNCHANGED <<execVars, engine, busy, fetched, runs, owner, frameVars, model, bptbl,
                 ctl_pending, retired>>

(* The pipeline that the model built for run r reports an error, through   *)
(* set_input_error(), which is not told which run the error is about.  It  *)
(* may have reported others, and have emitted 'end': jsonstream.js pushes  *)
(* the objects that follow a null after the end, an error each.            *)
InputError(r) ==
  /\ fault = "none" /\ frame = "none"
  /\ "input" \in Failures
  /\ r \in 1 .. runs
  /\ frame' = "model-error"
  /\ UNCHANGED <<execVars, engine, busy, fetched, done, runs, owner, owed, model, bptbl,
                 ctl_pending, retired>>

-----------------------------------------------------------------------------
(* The model's callback for an exec() of run r; every result is delivered  *)
(* in a later turn.  It works on whatever is executing then.               *)

CanReport(r, res) ==
  /\ fault = "none" /\ frame = "none"
  /\ inflight[r] > 0
  /\ res \in Results

(* It dies if another instruction is pending already, and, reading the     *)
(* instruction that is gone, if none executes and the result is not only   *)
(* data.                                                                   *)
CallbackThrows(r) ==
  /\ \E res \in Results :
       /\ CanReport(r, res)
       /\ sim_pending # NoInsn \/ (sim_executing = NoInsn /\ res # "data")
  /\ Throw("cb")
  /\ UNCHANGED <<inputVars, frameVars, model, bptbl, ctl_pending, retired>>

(* The part common to the results that are accepted.                       *)
Accept(r, res) ==
  /\ CanReport(r, res)
  /\ sim_pending = NoInsn
  /\ sim_executing # NoInsn \/ res = "data"
  /\ sim_executing' = NoInsn
  /\ inflight' = [inflight EXCEPT ![r] = IF res = "data" THEN @ ELSE @ - 1]
  /\ UNCHANGED <<fault, inputVars, model, bptbl>>

(* The listeners of a ::step in progress answer it.                        *)
CompleteNoStep == UNCHANGED ctl_pending \* mutant: they do not
CompleteStep == ctl_pending' = IF ctl_pending = "step" THEN "idle" ELSE ctl_pending

(* A result with neither done, err nor trap empties the slot all the same. *)
InsnData(r) ==
  /\ Accept(r, "data")
  /\ UNCHANGED <<running, stop, sim_pending, frameVars, ctl_pending, retired>>

InsnDone(r) ==
  /\ Accept(r, "done")
  /\ retired' = [retired EXCEPT ![sim_executing.run] = sim_executing.addr + 1]
  /\ frame' = "insn-done" /\ owed' = r
  /\ CompleteStep
  /\ UNCHANGED <<running, stop, sim_pending>>

InsnError(r) ==
  /\ Accept(r, "err")
  /\ frame' = "insn-error" /\ owed' = r
  /\ CompleteStep
  /\ UNCHANGED <<running, stop, sim_pending, retired>>

(* Mutant: a trap calls done() too, though its _transform() is not done.   *)
InsnTrapDone(r) ==
  /\ CanReport(r, "trap")
  /\ sim_executing # NoInsn /\ sim_pending = NoInsn
  /\ sim_executing' = NoInsn
  /\ sim_pending' = [sim_executing EXCEPT !.trap = TRUE]
  /\ inflight' = [inflight EXCEPT ![r] = @ - 1]
  /\ running' = SuspendedRunning(running, NoInsn)
  /\ stop' = SuspendedStop(running, stop, NoInsn)
  /\ frame' = "insn-trap"
  /\ busy' = (busy /\ r # engine)
  /\ UNCHANGED <<fault, engine, fetched, done, runs, owner, model, bptbl, owed, ctl_pending,
                 retired>>

(* A trap puts the instruction back and suspends the simulation.           *)
InsnTrap(r) ==
  /\ Accept(r, "trap")
  /\ sim_pending' = [sim_executing EXCEPT !.trap = TRUE]
  /\ running' = SuspendedRunning(running, NoInsn)
  /\ stop' = SuspendedStop(running, stop, NoInsn)
  /\ frame' = "insn-trap"
  /\ UNCHANGED <<owed, ctl_pending, retired>>

-----------------------------------------------------------------------------
(* The handlers that go on once their event has been emitted.              *)

(* Mutant: the end of the input is not looked at.                          *)
InsnDoneGoesOn ==
  /\ fault = "none" /\ frame = "insn-done"
  /\ Return(engine)
  /\ UNCHANGED <<execVars, engine, fetched, done, runs, owner,
                 model, bptbl, ctl_pending, retired>>

InsnDoneReturn ==
  /\ fault = "none" /\ frame = "insn-done"
  /\ \/ done /\ Terminate
     \/ /\ ~done
        /\ Return(engine)
        /\ UNCHANGED <<execVars, engine, fetched, done, runs, owner,
                       model, bptbl, ctl_pending, retired>>

InsnErrorReturn == fault = "none" /\ frame = "insn-error" /\ Terminate

ModelErrorReturn == fault = "none" /\ frame = "model-error" /\ Terminate

InsnTrapReturn ==
  /\ fault = "none" /\ frame = "insn-trap"
  /\ frame' = "none"
  /\ CompleteStep
  /\ UNCHANGED <<execVars, inputVars, owed, model, bptbl, retired>>

TerminateReturn ==
  /\ fault = "none" /\ frame = "terminate"
  /\ engine' = NoRun
  /\ Return(NoRun)
  /\ UNCHANGED <<execVars, fetched, done, runs, owner,
                 model, bptbl, ctl_pending, retired>>

-----------------------------------------------------------------------------
Command ==
  \/ \E m \in Models : Attach(m)
  \/ AttachRefused \/ AttachThrows
  \/ \E a \in Addr : Bp(a) \/ Delete(a)
  \/ DeleteAll \/ Cont \/ Step \/ Stop \/ RunCmd \/ Status
  \/ \E scmd \in Scmds : Refused(scmd)

Answer == Reply \/ InitFails \/ InitDone

Input == Fetch \/ InputEnd \/ \E r \in Run : InputError(r)

Callback ==
  \E r \in Run : CallbackThrows(r) \/ InsnData(r) \/ InsnDone(r) \/ InsnError(r) \/ InsnTrap(r)

FrameReturn ==
  SetNextReturn \/ InsnDoneReturn \/ InsnErrorReturn \/ InsnTrapReturn
    \/ ModelErrorReturn \/ TerminateReturn

Next == Command \/ Answer \/ Input \/ Callback \/ FrameReturn

Spec == Init /\ [][Next]_vars

(* The event loop runs every callback that is due; a model answers every   *)
(* instruction in the end (CT_model.js: "the last invocation must have     *)
(* either a 'done' ... or an 'err'"); the input delivers and then ends.    *)
(* Nothing makes a client send a command, or an input fail.                *)
Fairness ==
  /\ WF_vars(FrameReturn)
  /\ WF_vars(Answer)
  /\ WF_vars(Fetch)
  /\ WF_vars(InputEnd)
  /\ \A r \in Run : WF_vars(CallbackThrows(r) \/ InsnDone(r) \/ InsnError(r))

FairSpec == Spec /\ Fairness

-----------------------------------------------------------------------------
(* Safety: what holds whatever the clients, the model and the input do.    *)

(* Every variable has its type.                                            *)
TypeOK ==
  /\ running \in BOOLEAN /\ stop \in BOOLEAN
  /\ sim_pending \in Insn /\ sim_executing \in Insn
  /\ inflight \in [Run -> Nat]
  /\ fault \in Fault
  /\ model \in Models \cup {NoModel}
  /\ runs \in 0 .. MaxRuns
  /\ engine \in Run \cup {NoRun}
  /\ busy \in BOOLEAN /\ fetched \in 0 .. MaxInsns /\ done \in BOOLEAN
  /\ owner \in Models \cup {NoModel}
  /\ bptbl \subseteq Addr
  /\ ctl_pending \in CtlState
  /\ frame \in Frame /\ owed \in Run \cup {NoRun}
  /\ retired \in [Run -> 0 .. MaxInsns]

(* At most one instruction of one input is between the engine and the      *)
(* model: never one pending while another executes, none while the engine  *)
(* waits for input, none left over from an engine that is gone.  So the    *)
(* assertion with which _set_next() begins cannot fail.                    *)
SlotDiscipline ==
  /\ sim_pending = NoInsn \/ sim_executing = NoInsn
  /\ ~busy => sim_pending = NoInsn /\ sim_executing = NoInsn
  /\ sim_pending # NoInsn => sim_pending.run = engine
  /\ sim_executing # NoInsn => sim_executing.run = engine
  /\ fault # "set-next"

(* A simulation that is not running executes nothing and has no suspend    *)
(* deferred.  So the branch of _resume() that clears _stop, and starts     *)
(* nothing, is never taken by a ::cont or a ::step.                        *)
SuspendedIsIdle == ~running => ~stop /\ sim_executing = NoInsn

(* While the simulation runs no instruction is left waiting: nothing but   *)
(* ::cont and ::step, which a running simulation refuses, would start it.  *)
NoLostInsn == running => sim_pending = NoInsn

(* What a handler relies on that emits an event in its middle and is to    *)
(* call done(), or drop the engine, when its listeners return: whatever    *)
(* commands they issued, both slots are still empty; and if the done() is  *)
(* owed to the engine of the input, the _transform() it ends is still      *)
(* open.  So no instruction is answered with two done()s, with which the   *)
(* engine would fetch into a slot that is full.                            *)
FrameDiscipline ==
  frame \in {"insn-done", "insn-error", "terminate"} =>
    /\ sim_pending = NoInsn /\ sim_executing = NoInsn
    /\ owed # NoRun /\ owed = engine => busy

(* A ::step not answered yet has its suspend armed for as long as the      *)
(* simulation runs.                                                        *)
StepArmed == ctl_pending = "step" /\ running => stop

Starts == sim_executing # sim_executing' /\ sim_executing' # NoInsn

(* A running simulation never starts an instruction that has a breakpoint: *)
(* only ::cont or ::step, from the suspension there, gets past it.         *)
BreakpointHonoured == [][running /\ Starts => sim_executing'.addr \notin bptbl]_vars

(* Once a suspend is deferred (by ::stop, or by ::step) no instruction     *)
(* starts before the simulation has been suspended.                        *)
StopHonoured == [][running /\ stop => ~Starts]_vars

-----------------------------------------------------------------------------
(* Safety: what holds as long as models keep to one result for each exec() *)
(* and inputs and models' create() do not fail.                            *)

(* The model owes callbacks for exactly the instruction that executes: for *)
(* one at a time, and for none while the simulation is suspended.          *)
CallsMatchSlot ==
  \A r \in Run : inflight[r] = IF sim_executing.run = r THEN 1 ELSE 0

(* No callback of a model finds the controller without the instruction it  *)
(* is about.                                                               *)
CallbackAccepted == fault # "cb"

(* An instruction is handed only to the model whose init() opened the      *)
(* input that it came from.                                                *)
ExecutedByOwner == [][Starts => model = owner]_vars

(* An instruction that started executing is done with by an event about    *)
(* it, never by a command or a termination in silence.                     *)
StartedInsnReported ==
  [][sim_executing # NoInsn /\ sim_executing' # sim_executing =>
       frame' \in {"insn-done", "insn-error", "insn-trap"}]_vars

(* The instructions of an input are retired in order, each of them once.   *)
RetiredInOrder ==
  [][\A r \in Run : retired'[r] # retired[r] =>
       sim_executing.addr = retired[r] /\ retired'[r] = retired[r] + 1]_vars

(* A running simulation has an engine; without one nothing would happen    *)
(* and ::run, ::cont and ::step would be refused.                          *)
RunningHasEngine == running => engine # NoRun

(* The simulation that a client sees: an engine whose last instruction has *)
(* failed, or that _terminate() is about to drop, is at its end.           *)
SimState ==
  IF engine = NoRun THEN "inactive"
  ELSE IF frame \in {"insn-error", "terminate"} THEN "ending"
  ELSE IF running THEN "running" ELSE "suspended"
Current == IF sim_executing = NoInsn THEN {} ELSE {sim_executing.addr}
Position == IF engine = NoRun THEN 0 ELSE retired[engine]

Stream == INSTANCE InsnStream
  WITH state <- SimState, current <- Current, next <- Position

(* The engine, the slots, the commands and the events in mid-handler work  *)
(* together as a stream of instructions executed one at a time, in order.  *)
StreamSpec == Stream!Spec

-----------------------------------------------------------------------------
(* Liveness.                                                               *)

(* Every command gets its final response ("every command will result in    *)
(* the emission of one or more ctl-response events, the last of which will *)
(* have either the 'err' property ... or the 'done' property").            *)
CommandAnswered == ctl_pending # "idle" ~> ctl_pending = "idle" \/ fault # "none"

(* An end of the input that is seen while the last instruction executes    *)
(* terminates the simulation, unless an ::attach fails before that         *)
(* instruction is done: it forgets the model, running or not, and without  *)
(* a model _terminate() returns at once and leaves the engine in place.    *)
EndTerminates ==
  done /\ sim_executing # NoInsn ~> engine = NoRun \/ model = NoModel \/ fault # "none"

-----------------------------------------------------------------------------
(* What the documentation states and the code does not keep.               *)

(* CT_model.js: "Every simulation eventually terminates."  The input of a  *)
(* simulation that nobody stops ends, and then it should terminate.        *)
SimulationTerminates == done ~> engine = NoRun \/ fault # "none"
=============================================================================
