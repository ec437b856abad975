---------------------------- MODULE StreamProofs ----------------------------
(***************************************************************************)
(* Proof that the controller implements InsnStream, if models and inputs   *)
(* keep to their contract, no create() fails, and nobody issues a command  *)
(* from the suspend event of _terminate(); for any number of models, runs  *)
(* and instructions.                                                       *)
(***************************************************************************)
EXTENDS SimulationProofs

Strict ==
  /\ Contract
  /\ "create" \notin Failures
  /\ "terminate" \notin Reentrant

(* An engine belongs to the attached model, and only an engine makes the   *)
(* simulation run.                                                         *)
EngineOwned ==
  /\ engine # NoRun => model # NoModel /\ owner = model /\ engine <= runs
  /\ RunningHasEngine
  /\ frame = "terminate" => ~running

(* The instruction in a slot is the first that is not retired, and the     *)
(* last that was fetched.                                                  *)
InOrder ==
  /\ \A r \in Run : r > runs => retired[r] = 0
  /\ engine # NoRun =>
       /\ sim_pending # NoInsn => sim_pending.addr = retired[engine]
       /\ sim_executing # NoInsn => sim_executing.addr = retired[engine]
       /\ sim_pending # NoInsn \/ sim_executing # NoInsn => fetched = retired[engine] + 1
       /\ sim_pending = NoInsn /\ sim_executing = NoInsn
            /\ frame \notin {"insn-error", "terminate"} => fetched = retired[engine]

(* A model stays attached while its init() is under way.                   *)
InitOwned == ctl_pending = "init" => model # NoModel

StreamInv == Inv /\ ContractInv /\ InitOwned /\ EngineOwned /\ InOrder

LEMMA StepInitOwned ==
  ASSUME Strict, InitOwned, [Next]_vars
  PROVE  InitOwned'
<1> USE DEF InitOwned, inputVars, frameVars
<1>1. CASE Command
  BY <1>1, ModelAssumption
  DEF Command, Strict, Attach, AttachRefused, AttachThrows, Bp, Delete, DeleteAll, Cont, Step, Stop,
      RunCmd, Status, Refused, Inert
<1>2. CASE Answer
  BY <1>2 DEF Answer, Reply, InitFails, InitDone
<1>3. CASE Input
  BY <1>3 DEF Input, Fetch, InputEnd, InputError
<1>4. CASE Callback
  BY <1>4
  DEF Callback, CallbackThrows, InsnData, InsnDone, InsnError, InsnTrap, Accept, CompleteStep
<1>5. CASE FrameReturn
  BY <1>5
  DEF FrameReturn, SetNextReturn, InsnDoneReturn, InsnErrorReturn, InsnTrapReturn, ModelErrorReturn,
      TerminateReturn, Terminate, CompleteStep
<1>6. CASE UNCHANGED vars
  BY <1>6 DEF vars
<1> QED
  BY <1>1, <1>2, <1>3, <1>4, <1>5, <1>6 DEF Next

(* A step that may only change what the client does not see.               *)
LEMMA Unseen ==
  ASSUME StreamInv,
         UNCHANGED <<engine, runs, owner, model, running, fetched, retired, sim_executing>>,
         sim_pending' = sim_pending, frame' = frame
  PROVE  EngineOwned' /\ InOrder' /\ UNCHANGED Stream!vars
BY DEF StreamInv, EngineOwned, RunningHasEngine, InOrder, Stream!vars, SimState, Current, Position

(* Handing the first instruction that is not retired to _exec_next() is a  *)
(* Begin, or suspends the simulation there.                                *)
LEMMA ExecNextStream ==
  ASSUME StreamInv, NEW insn \in Insn, NEW s \in BOOLEAN, ExecNext(insn, s),
         engine # NoRun, insn.run # NoRun, insn.addr = retired[engine],
         fetched' = retired[engine] + 1,
         sim_executing = NoInsn,
         frame \notin {"insn-error", "terminate"}, frame' \notin {"insn-error", "terminate"},
         UNCHANGED <<engine, runs, owner, model, retired>>
  PROVE  EngineOwned' /\ InOrder' /\ [Stream!Next]_(Stream!vars)
<1>1. model # NoModel
  BY DEF StreamInv, EngineOwned
<1>2. CASE insn.trap
  <2> DEFINE marked == [insn EXCEPT !.trap = FALSE]
  <2>1. marked.addr = insn.addr /\ marked.run = insn.run
    BY DEF Insn
  <2>2. sim_pending' = marked /\ running' = FALSE /\ sim_executing' = NoInsn
    BY <1>2 DEF ExecNext, SuspendedRunning
  <2> HIDE DEF marked
  <2>3. InOrder'
    BY <2>1, <2>2, InsnFacts DEF StreamInv, InOrder
  <2>4. EngineOwned'
    BY <2>2 DEF StreamInv, EngineOwned, RunningHasEngine
  <2>5. Stream!Turn
    BY <2>2 DEF Stream!Turn, SimState, Current, Position
  <2> QED
    BY <2>3, <2>4, <2>5 DEF Stream!Next
<1>3. CASE ~insn.trap
  <2>1. sim_pending' = NoInsn /\ sim_executing' = insn /\ running' = TRUE
    BY <1>1, <1>3 DEF ExecNext
  <2>2. InOrder'
    BY <2>1, InsnFacts DEF StreamInv, InOrder
  <2>3. EngineOwned'
    BY <2>1 DEF StreamInv, EngineOwned, RunningHasEngine
  <2>4. Stream!Begin
    BY <2>1, InsnFacts DEF Stream!Begin, SimState, Current, Position
  <2> QED
    BY <2>2, <2>3, <2>4 DEF Stream!Next
<1> QED
  BY <1>2, <1>3

(* So is a _resume(), which may also just run on until something arrives.  *)
LEMMA ResumeStream ==
  ASSUME StreamInv, NEW single \in BOOLEAN, Resume(single),
         engine # NoRun, ~running, frame # "terminate",
         UNCHANGED <<engine, runs, owner, model, fetched, retired, frame>>
  PROVE  EngineOwned' /\ InOrder' /\ [Stream!Next]_(Stream!vars)
<1>1. stop = FALSE /\ sim_executing = NoInsn /\ sim_pending \in Insn
  BY DEF StreamInv, Inv, TypeOK, SuspendedIsIdle
<1>2. CASE sim_pending = NoInsn
  <2>1. CASE fault' = "step" /\ UNCHANGED <<running, stop, sim_pending, sim_executing, inflight>>
    BY <2>1, Unseen
  <2>2. CASE running' = TRUE /\ UNCHANGED <<stop, sim_pending, sim_executing>>
    <3>1. InOrder'
      BY <2>2 DEF StreamInv, InOrder
    <3>2. EngineOwned'
      BY <2>2 DEF StreamInv, EngineOwned, RunningHasEngine
    <3>3. Stream!Turn \/ UNCHANGED Stream!vars
      BY <1>1, <2>2 DEF Stream!Turn, Stream!vars, SimState, Current, Position
    <3> QED
      BY <3>1, <3>2, <3>3 DEF Stream!Next
  <2> QED
    BY <1>1, <1>2, <2>1, <2>2 DEF Resume, ResumeWith, Throw
<1>3. CASE sim_pending # NoInsn
  <2>1. ExecNext(sim_pending, single)
    BY <1>1, <1>3 DEF Resume, ResumeWith
  <2>2. frame \notin {"insn-error", "terminate"}
    BY <1>3 DEF StreamInv, Inv, FrameDiscipline, Bookkeeping
  <2>3. /\ sim_pending.run # NoRun
        /\ sim_pending.addr = retired[engine] /\ fetched = retired[engine] + 1
    BY <1>3 DEF StreamInv, Inv, FrameDiscipline, Bookkeeping, InOrder
  <2> QED
    BY <1>1, <1>3, <2>1, <2>2, <2>3, ExecNextStream
<1> QED
  BY <1>2, <1>3

-----------------------------------------------------------------------------
(* Commands: each is a step of the stream, or changes nothing of it.       *)
LEMMA CommandStream ==
  ASSUME Strict, StreamInv, Command
  PROVE  EngineOwned' /\ InOrder' /\ [Stream!Next]_(Stream!vars)
<1> USE DEF CanDispatch, execVars, inputVars, frameVars
<1>1. ASSUME NEW m \in Models, Attach(m)
      PROVE  EngineOwned' /\ InOrder' /\ [Stream!Next]_(Stream!vars)
  <2>1. ~running /\ sim_executing = NoInsn
    BY <1>1 DEF Attach, StreamInv, Inv, SuspendedIsIdle
  <2>2. /\ engine' = NoRun /\ sim_executing' = NoInsn /\ running' = FALSE
        /\ UNCHANGED <<runs, retired, frame>>
    BY <1>1, <2>1 DEF Attach, StreamInv, EngineOwned
  <2>3. EngineOwned' /\ InOrder'
    BY <2>2 DEF StreamInv, EngineOwned, RunningHasEngine, InOrder
  <2>4. Stream!Turn \/ UNCHANGED Stream!vars
    BY <2>1, <2>2 DEF Stream!Turn, Stream!vars, SimState, Current, Position
  <2> QED
    BY <2>3, <2>4 DEF Stream!Next
<1>2. ~AttachThrows
  BY DEF AttachThrows, Strict
<1>3. ASSUME NEW a \in Addr, Bp(a)
      PROVE  EngineOwned' /\ InOrder' /\ [Stream!Next]_(Stream!vars)
  <2>1. /\ sim_pending' # NoInsn <=> sim_pending # NoInsn
        /\ sim_pending'.addr = sim_pending.addr
    <3>1. [sim_pending EXCEPT !.trap = TRUE].addr = sim_pending.addr
          /\ [sim_pending EXCEPT !.trap = TRUE].run = sim_pending.run
      BY DEF StreamInv, Inv, TypeOK, Insn
    <3>2. sim_pending # NoInsn => sim_pending.run # NoRun
      BY DEF StreamInv, Inv, FrameDiscipline, Bookkeeping
    <3> QED
      BY <1>3, <3>1, <3>2, InsnFacts DEF Bp
  <2>2. UNCHANGED <<engine, runs, owner, model, running, fetched, retired, sim_executing, frame>>
    BY <1>3 DEF Bp
  <2> QED
    BY <2>1, <2>2 DEF StreamInv, EngineOwned, RunningHasEngine, InOrder, Stream!vars, SimState,
      Current, Position
<1>4. CASE Cont
  BY <1>4, ResumeStream DEF Cont, Strict
<1>5. CASE Step
  BY <1>5, ResumeStream DEF Step, Strict
<1>6. CASE Stop
  <2>1. /\ UNCHANGED <<engine, runs, owner, model, fetched, retired, sim_executing, sim_pending>>
        /\ UNCHANGED frame /\ frame # "terminate"
        /\ running' = (running /\ sim_executing # NoInsn)
    BY <1>6 DEF Stop, SuspendedRunning, Strict
  <2>2. EngineOwned' /\ InOrder'
    BY <2>1 DEF StreamInv, EngineOwned, RunningHasEngine, InOrder
  <2>3. running' = running \/ (running /\ ~running' /\ sim_executing = NoInsn)
    BY <2>1 DEF StreamInv, Inv, TypeOK
  <2>4. Stream!Turn \/ UNCHANGED Stream!vars
    BY <2>1, <2>3 DEF Stream!Turn, Stream!vars, SimState, Current, Position
  <2> QED
    BY <2>2, <2>4 DEF Stream!Next
<1>7. CASE AttachRefused \/ DeleteAll \/ RunCmd \/ Status
          \/ (\E scmd \in Scmds : Refused(scmd)) \/ \E a \in Addr : Delete(a)
  BY <1>7, Unseen DEF AttachRefused, DeleteAll, RunCmd, Status, Refused, Inert, Delete
<1> QED
  BY <1>1, <1>2, <1>3, <1>4, <1>5, <1>6, <1>7 DEF Command

(* Responses: a run that starts is a Start, on an engine nothing has run   *)
(* on before.                                                              *)
LEMMA AnswerStream ==
  ASSUME Strict, StreamInv, Answer
  PROVE  EngineOwned' /\ InOrder' /\ [Stream!Next]_(Stream!vars)
<1> USE DEF execVars, inputVars, frameVars
<1>1. CASE Reply \/ InitFails \/ (InitDone /\ engine # NoRun)
  BY <1>1, Unseen DEF Reply, InitFails, InitDone, Throw
<1>2. CASE InitDone /\ engine = NoRun
  <2>1. runs < MaxRuns /\ runs \in 0 .. MaxRuns /\ model # NoModel
    BY <1>2 DEF InitDone, CanInit, StreamInv, Inv, TypeOK, FrameDiscipline, Bookkeeping, InitOwned
  <2>2. runs + 1 \in Run /\ runs + 1 # NoRun /\ runs + 1 > runs
    BY <2>1, BoundAssumption DEF Run, NoRun
  <2>3. ~running /\ ~stop /\ sim_pending = NoInsn /\ sim_executing = NoInsn
    BY <1>2 DEF StreamInv, Inv, SlotDiscipline, SuspendedIsIdle, FrameDiscipline, Bookkeeping, EngineOwned,
       RunningHasEngine
  <2>4. /\ engine' = runs + 1 /\ runs' = runs + 1 /\ owner' = model /\ fetched' = 0
        /\ UNCHANGED <<model, retired, frame>> /\ frame = "none"
        /\ running' = TRUE /\ sim_pending' = NoInsn /\ sim_executing' = NoInsn
    BY <1>2, <2>3 DEF InitDone, CanInit, Resume, ResumeWith
  <2>5. InOrder'
    <3>1. retired'[engine'] = 0 /\ \A r \in Run : r > runs' => retired'[r] = 0
      BY <2>1, <2>2, <2>4 DEF StreamInv, InOrder, Run
    <3> QED
      BY <2>4, <3>1 DEF InOrder
  <2>6. EngineOwned'
    BY <2>1, <2>2, <2>4 DEF EngineOwned, RunningHasEngine
  <2>7. Stream!Start
    BY <1>2, <2>2, <2>3, <2>4, <2>1 DEF Stream!Start, SimState, Current, Position, StreamInv, InOrder
  <2> QED
    BY <2>5, <2>6, <2>7 DEF Stream!Next
<1> QED
  BY <1>1, <1>2 DEF Answer

(* The input: a fetch begins the instruction that is next, suspends, or    *)
(* only leaves it pending.                                                 *)
LEMMA InputStream ==
  ASSUME Strict, StreamInv, Input
  PROVE  EngineOwned' /\ InOrder' /\ [Stream!Next]_(Stream!vars)
<1> USE DEF execVars, inputVars, frameVars
<1>1. CASE Fetch
  <2>1. /\ engine \in Run /\ engine # NoRun /\ frame = "none" /\ fetched \in Addr
        /\ sim_pending = NoInsn /\ sim_executing = NoInsn
        /\ fetched = retired[engine] /\ fetched' = retired[engine] + 1
        /\ UNCHANGED <<engine, runs, owner, model, retired>>
    BY <1>1, BoundAssumption
    DEF Fetch, EngineReady, StreamInv, Inv, SlotDiscipline, TypeOK, InOrder, Addr
  <2>2. Fetched \in Insn /\ Fetched.run = engine /\ Fetched.addr = fetched /\ Fetched # NoInsn
    <3>1. (fetched \in bptbl) \in BOOLEAN
      OBVIOUS
    <3> QED
      BY <2>1, <3>1, NewInsn, InsnFacts DEF Fetched
  <2>3. SetNext(Fetched)
    BY <1>1 DEF Fetch
  <2>4. CASE ~stop /\ running
    BY <2>1, <2>2, <2>3, <2>4, ExecNextStream DEF SetNext, SuspendDue
  <2>5. CASE stop \/ ~running
    <3>1. /\ sim_pending' = Fetched /\ running' = FALSE /\ frame' \in {"none", "set-next"}
          /\ UNCHANGED sim_executing
      BY <2>1, <2>3, <2>5 DEF SetNext, SuspendDue, SuspendedRunning, StreamInv, Inv, TypeOK
    <3>2. InOrder' /\ EngineOwned'
      BY <2>1, <2>2, <3>1 DEF StreamInv, InOrder, EngineOwned, RunningHasEngine
    <3>3. Stream!Turn
      BY <2>1, <3>1 DEF Stream!Turn, SimState, Current, Position
    <3> QED
      BY <3>2, <3>3 DEF Stream!Next
  <2> QED
    BY <2>4, <2>5
<1>2. CASE InputEnd
  BY <1>2, Unseen DEF InputEnd
<1>3. ~ \E r \in Run : InputError(r)
  BY DEF InputError, Strict, Contract
<1> QED
  BY <1>1, <1>2, <1>3 DEF Input

(* The results of models: an instruction retires, traps or fails.          *)
LEMMA CallbackStream ==
  ASSUME Strict, StreamInv, Callback
  PROVE  EngineOwned' /\ InOrder' /\ [Stream!Next]_(Stream!vars)
<1> USE DEF frameVars, inputVars
<1>1. ASSUME NEW r \in Run, CallbackThrows(r)
      PROVE  EngineOwned' /\ InOrder' /\ [Stream!Next]_(Stream!vars)
  BY <1>1, Unseen DEF CallbackThrows, Throw
<1>2. ~ \E r \in Run : InsnData(r)
  BY DEF InsnData, Accept, CanReport, Strict, Contract
<1>3. ASSUME NEW r \in Run, NEW res \in Result, Accept(r, res)
      PROVE  /\ engine \in Run /\ engine # NoRun /\ sim_executing.run = engine
             /\ sim_executing # NoInsn /\ sim_executing' = NoInsn /\ sim_pending = NoInsn
             /\ sim_executing.addr = retired[engine] /\ fetched = retired[engine] + 1
             /\ running /\ frame = "none"
             /\ UNCHANGED <<engine, runs, owner, model, fetched>>
  <2>1. res # "data"
    BY <1>3 DEF Accept, CanReport, Strict, Contract
  <2>2. /\ sim_executing # NoInsn /\ sim_executing' = NoInsn /\ sim_pending = NoInsn
        /\ frame = "none"
        /\ UNCHANGED <<engine, runs, owner, model, fetched>>
    BY <1>3, <2>1 DEF Accept, CanReport
  <2> QED
    BY <2>2 DEF StreamInv, Inv, TypeOK, SlotDiscipline, SuspendedIsIdle,
       EngineOwned, RunningHasEngine, InOrder
<1>4. ASSUME NEW r \in Run, InsnDone(r)
      PROVE  EngineOwned' /\ InOrder' /\ [Stream!Next]_(Stream!vars)
  <2>1. /\ retired' = [retired EXCEPT ![engine] = retired[engine] + 1]
        /\ frame' = "insn-done" /\ UNCHANGED <<running, sim_pending>>
    BY <1>3, <1>4 DEF InsnDone, Result
  <2>2. retired \in [Run -> 0 .. MaxInsns]
    BY DEF StreamInv, Inv, TypeOK
  <2>3. retired'[engine] = retired[engine] + 1 /\ \A q \in Run : q # engine => retired'[q] = retired[q]
    BY <1>3, <1>4, <2>1, <2>2 DEF InsnDone, Result
  <2>4. InOrder' /\ EngineOwned'
    <3>1. runs \in Nat /\ engine <= runs
      BY <1>3, <1>4 DEF StreamInv, Inv, TypeOK, EngineOwned, InsnDone, Result
    <3> QED
      BY <1>3, <1>4, <2>1, <2>3, <3>1 DEF InsnDone, Result, StreamInv, InOrder, EngineOwned,
        RunningHasEngine, Run
  <2>5. Stream!Retire
    BY <1>3, <1>4, <2>1, <2>3 DEF InsnDone, Result, Stream!Retire, SimState, Current, Position
  <2> QED
    BY <2>4, <2>5 DEF Stream!Next
<1>5. ASSUME NEW r \in Run, InsnError(r)
      PROVE  EngineOwned' /\ InOrder' /\ [Stream!Next]_(Stream!vars)
  <2>1. frame' = "insn-error" /\ UNCHANGED <<running, sim_pending, retired>>
    BY <1>5 DEF InsnError
  <2>2. InOrder' /\ EngineOwned'
    BY <1>3, <1>5, <2>1 DEF InsnError, Result, StreamInv, InOrder, EngineOwned, RunningHasEngine
  <2>3. Stream!Fail
    BY <1>3, <1>5, <2>1 DEF InsnError, Result, Stream!Fail, SimState, Current, Position
  <2> QED
    BY <2>2, <2>3 DEF Stream!Next
<1>6. ASSUME NEW r \in Run, InsnTrap(r)
      PROVE  EngineOwned' /\ InOrder' /\ [Stream!Next]_(Stream!vars)
  <2>1. /\ sim_pending' = [sim_executing EXCEPT !.trap = TRUE] /\ running' = FALSE
        /\ frame' = "insn-trap" /\ UNCHANGED retired
    BY <1>6 DEF InsnTrap, SuspendedRunning
  <2>2. sim_pending'.addr = sim_executing.addr /\ sim_pending'.run = sim_executing.run
    BY <2>1 DEF StreamInv, Inv, TypeOK, Insn
  <2>3. InOrder' /\ EngineOwned'
    BY <1>3, <1>6, <2>1, <2>2, InsnFacts
    DEF InsnTrap, Result, StreamInv, InOrder, EngineOwned, RunningHasEngine
  <2>4. Stream!Trap
    BY <1>3, <1>6, <2>1 DEF InsnTrap, Result, Stream!Trap, SimState, Current, Position
  <2> QED
    BY <2>3, <2>4 DEF Stream!Next
<1> QED
  BY <1>1, <1>2, <1>4, <1>5, <1>6 DEF Callback

(* The rest of handlers: both slots are empty when _terminate() drops the  *)
(* engine, or done() lets it fetch again.                                  *)
LEMMA FrameReturnStream ==
  ASSUME Strict, StreamInv, FrameReturn
  PROVE  EngineOwned' /\ InOrder' /\ [Stream!Next]_(Stream!vars)
<1> USE DEF execVars, inputVars
<1>1. ASSUME Terminate, frame \in {"insn-done", "insn-error"}
      PROVE  EngineOwned' /\ InOrder' /\ [Stream!Next]_(Stream!vars)
  <2>1. sim_executing = NoInsn /\ sim_pending = NoInsn
    BY <1>1 DEF StreamInv, Inv, FrameDiscipline, Bookkeeping
  <2>2. CASE model = NoModel
    <3>1. engine = NoRun /\ engine' = NoRun /\ frame' = "none"
          /\ UNCHANGED <<runs, retired, running, sim_executing, sim_pending>>
      BY <1>1, <2>2 DEF Terminate, Return, StreamInv, EngineOwned
    <3>2. EngineOwned' /\ InOrder' /\ UNCHANGED Stream!vars
      BY <3>1
      DEF StreamInv, EngineOwned, RunningHasEngine, InOrder, Stream!vars, SimState, Current, Position
    <3> QED
      BY <3>2
  <2>3. CASE model # NoModel /\ running
    <3>1. /\ running' = FALSE /\ frame' = "terminate"
          /\ sim_pending' = NoInsn /\ sim_executing' = NoInsn
          /\ UNCHANGED <<engine, model, owner, runs, retired, fetched>>
      BY <1>1, <2>3 DEF Terminate
    <3>2. EngineOwned' /\ InOrder'
      BY <3>1 DEF StreamInv, EngineOwned, RunningHasEngine, InOrder
    <3>3. engine # NoRun
      BY <2>3 DEF StreamInv, EngineOwned, RunningHasEngine
    <3>4. Stream!Turn \/ UNCHANGED Stream!vars
      BY <1>1, <2>1, <2>3, <3>1, <3>3
      DEF Stream!Turn, Stream!vars, SimState, Current, Position
    <3> QED
      BY <3>2, <3>4 DEF Stream!Next
  <2>4. CASE model # NoModel /\ ~running
    <3>1. /\ running' = FALSE /\ engine' = NoRun /\ frame' = "none"
          /\ sim_pending' = NoInsn /\ sim_executing' = NoInsn
          /\ UNCHANGED <<runs, retired>>
      BY <1>1, <2>4 DEF Terminate, Return
    <3>2. EngineOwned' /\ InOrder'
      BY <3>1 DEF StreamInv, EngineOwned, RunningHasEngine, InOrder
    <3>3. Stream!Turn \/ UNCHANGED Stream!vars
      BY <2>1, <3>1 DEF Stream!Turn, Stream!vars, SimState, Current, Position
    <3> QED
      BY <3>2, <3>3 DEF Stream!Next
  <2> QED
    BY <2>2, <2>3, <2>4
<1>2. CASE SetNextReturn
  <2>1. CASE ~running \/ sim_pending = NoInsn
    BY <1>2, <2>1, Unseen DEF SetNextReturn, Throw, StreamInv, Inv, NoLostInsn,
       EngineOwned, RunningHasEngine, InOrder, Stream!vars, SimState, Current, Position
  <2>2. ~(running /\ sim_pending # NoInsn)
    BY DEF StreamInv, Inv, NoLostInsn
  <2> QED
    BY <2>1, <2>2
<1>3. CASE InsnDoneReturn
  <2>1. CASE done
    BY <1>1, <1>3, <2>1 DEF InsnDoneReturn
  <2>2. CASE ~done
    <3>1. /\ UNCHANGED <<running, sim_pending, sim_executing, engine, fetched, runs, owner, model,
                          retired>>
          /\ frame = "insn-done" /\ frame' = "none"
      BY <1>3, <2>2 DEF InsnDoneReturn, Return
    <3> QED
      BY <3>1
      DEF StreamInv, EngineOwned, RunningHasEngine, InOrder, Stream!vars, SimState, Current, Position
  <2> QED
    BY <2>1, <2>2
<1>4. CASE InsnErrorReturn
  BY <1>1, <1>4 DEF InsnErrorReturn
<1>5. ~ModelErrorReturn
  BY DEF ModelErrorReturn, StreamInv, ContractInv
<1>6. CASE InsnTrapReturn
  <2>1. /\ UNCHANGED <<running, sim_pending, sim_executing, engine, fetched, runs, owner, model,
                        retired>>
        /\ frame = "insn-trap" /\ frame' = "none"
    BY <1>6 DEF InsnTrapReturn
  <2> QED
    BY <2>1
    DEF StreamInv, EngineOwned, RunningHasEngine, InOrder, Stream!vars, SimState, Current, Position
<1>7. CASE TerminateReturn
  <2>1. /\ engine' = NoRun /\ frame' = "none" /\ frame = "terminate"
        /\ UNCHANGED <<running, sim_pending, sim_executing, runs, retired>>
    BY <1>7 DEF TerminateReturn, Return
  <2>2. ~running /\ sim_executing = NoInsn
    BY <2>1 DEF StreamInv, EngineOwned, Inv, SuspendedIsIdle
  <2>3. EngineOwned' /\ InOrder'
    BY <2>1, <2>2 DEF StreamInv, EngineOwned, RunningHasEngine, InOrder
  <2>4. Stream!Turn \/ UNCHANGED Stream!vars
    BY <2>1, <2>2 DEF Stream!Turn, Stream!vars, SimState, Current, Position
  <2> QED
    BY <2>3, <2>4 DEF Stream!Next
<1> QED
  BY <1>2, <1>3, <1>4, <1>5, <1>6, <1>7 DEF FrameReturn

-----------------------------------------------------------------------------
LEMMA InitStream == Init => InitOwned /\ EngineOwned /\ InOrder /\ Stream!Init
BY InsnFacts
DEF Init, InitOwned, EngineOwned, RunningHasEngine, InOrder, Stream!Init, SimState, Current, Position

LEMMA StepStream ==
  ASSUME Strict, StreamInv, [Next]_vars
  PROVE  EngineOwned' /\ InOrder' /\ [Stream!Next]_(Stream!vars)
<1>1. CASE UNCHANGED vars
  BY <1>1, Unseen DEF vars, execVars, inputVars, frameVars
<1> QED
  BY <1>1, CommandStream, AnswerStream, InputStream, CallbackStream, FrameReturnStream DEF Next

(* The strengthened invariant holds in every reachable state.              *)
LEMMA StreamInvHolds == ASSUME Strict PROVE Spec => []StreamInv
<1>1. Init => StreamInv
  BY InitInv, InitContract, InitStream DEF StreamInv
<1>2. StreamInv /\ [Next]_vars => StreamInv'
  <2> SUFFICES ASSUME StreamInv, [Next]_vars PROVE StreamInv'
    OBVIOUS
  <2>1. Inv' /\ ContractInv'
    BY NextInv, StepContract DEF StreamInv, Strict
  <2>2. InitOwned'
    BY StepInitOwned DEF StreamInv
  <2> QED
    BY <2>1, <2>2, StepStream DEF StreamInv
<1> QED
  BY <1>1, <1>2, PTL DEF Spec

(* The controller implements the stream of instructions that clients may   *)
(* rely on: every step of engine, commands, input and model is a step of   *)
(* InsnStream or invisible there.                                          *)
THEOREM ImplementsStream == ASSUME Strict PROVE Spec => StreamSpec
<1>1. Init => Stream!Init
  BY InitStream
<1>2. StreamInv /\ [Next]_vars => [Stream!Next]_(Stream!vars)
  BY StepStream
<1> QED
  BY <1>1, <1>2, StreamInvHolds, PTL DEF Spec, StreamSpec, Stream!Spec

(* A running simulation has an engine, so ::run, ::cont and ::step cannot  *)
(* all be refused for ever.                                                *)
THEOREM EngineOfRunning == ASSUME Strict PROVE Spec => []RunningHasEngine
BY StreamInvHolds, PTL DEF StreamInv, EngineOwned

(* Every instruction is handed to the model whose init() opened its input. *)
THEOREM OwnerExecutes == ASSUME Strict PROVE Spec => ExecutedByOwner
<1>1. StreamInv /\ [Next]_vars => [Starts => model = owner]_vars
  <2> SUFFICES ASSUME StreamInv, Next, Starts PROVE model = owner
    OBVIOUS
  <2>1. engine # NoRun => model = owner
    BY DEF StreamInv, EngineOwned
  <2>2. sim_pending # NoInsn => engine # NoRun
    BY DEF StreamInv, Inv, SlotDiscipline, FrameDiscipline, Bookkeeping
  <2>3. ASSUME NEW single \in BOOLEAN, Resume(single)
        PROVE  sim_pending # NoInsn
    BY <2>3 DEF Resume, ResumeWith, Throw, execVars, Starts
  <2>4. CASE Command
    <3>1. Cont \/ Step
      BY <2>4 DEF Command, Attach, AttachRefused, AttachThrows, Bp, Delete, DeleteAll, Stop,
         RunCmd, Status, Refused, Inert, execVars, Starts
    <3> QED
      BY <2>1, <3>1 DEF Cont, Step, StreamInv, EngineOwned
  <2>5. CASE Answer
    <3>1. InitDone
      BY <2>5 DEF Answer, Reply, InitFails, execVars, Starts
    <3> QED
      BY <2>1, <2>2, <2>3, <3>1 DEF InitDone
  <2>6. CASE Input
    BY <2>1, <2>6 DEF Input, Fetch, EngineReady, InputEnd, InputError, execVars, Starts
  <2>7. ~Callback
    BY DEF Callback, CallbackThrows, InsnData, InsnDone, InsnError, InsnTrap, Accept, Throw, Starts
  <2>8. CASE FrameReturn
    <3>1. SetNextReturn
      BY <2>8 DEF FrameReturn, InsnDoneReturn, InsnErrorReturn, InsnTrapReturn, ModelErrorReturn,
         TerminateReturn, Terminate, execVars, Starts
    <3> QED
      BY <2>1, <2>2, <3>1 DEF SetNextReturn, Throw, execVars, Starts
  <2> QED
    BY <2>4, <2>5, <2>6, <2>7, <2>8 DEF Next
<1> QED
  BY <1>1, StreamInvHolds, PTL DEF Spec, ExecutedByOwner

(* Each input's instructions are retired in order, each once.              *)
THEOREM InOrderRetired == ASSUME Strict PROVE Spec => RetiredInOrder
<1>1. StreamInv /\ [Next]_vars =>
        [\A r \in Run : retired'[r] # retired[r] =>
           sim_executing.addr = retired[r] /\ retired'[r] = retired[r] + 1]_vars
  <2> SUFFICES ASSUME StreamInv, Next, NEW r \in Run, retired'[r] # retired[r]
               PROVE  sim_executing.addr = retired[r] /\ retired'[r] = retired[r] + 1
    OBVIOUS
  <2>1. \E q \in Run : InsnDone(q)
    BY DEF Next, Command, Attach, AttachRefused, AttachThrows, Bp, Delete, DeleteAll, Cont, Step,
       Stop, RunCmd, Status, Refused, Inert, Answer, Reply, InitFails, InitDone, Input, Fetch,
       InputEnd, InputError, Callback, CallbackThrows, InsnData, InsnError, InsnTrap, FrameReturn,
       SetNextReturn, InsnDoneReturn, InsnErrorReturn, InsnTrapReturn, ModelErrorReturn,
       TerminateReturn, Terminate
  <2>2. PICK q \in Run : InsnDone(q)
    BY <2>1
  <2>3. retired' = [retired EXCEPT ![sim_executing.run] = sim_executing.addr + 1]
        /\ sim_executing # NoInsn
    BY <2>2 DEF InsnDone, Accept
  <2>4. sim_executing.run = engine /\ sim_executing.run # NoRun
    BY <2>3 DEF StreamInv, Inv, SlotDiscipline, FrameDiscipline, Bookkeeping
  <2>5. sim_executing.addr = retired[engine]
    BY <2>3, <2>4 DEF StreamInv, InOrder
  <2>6. retired \in [Run -> 0 .. MaxInsns] /\ r = engine
    BY <2>3, <2>4 DEF StreamInv, Inv, TypeOK
  <2> QED
    BY <2>3, <2>4, <2>5, <2>6
<1> QED
  BY <1>1, StreamInvHolds, PTL DEF Spec, RetiredInOrder

(* An instruction that started leaves with insn-done, insn-error or a trap.*)
THEOREM StartedReported == ASSUME Strict PROVE Spec => StartedInsnReported
<1>1. StreamInv /\ [Next]_vars =>
        [sim_executing # NoInsn /\ sim_executing' # sim_executing =>
           frame' \in {"insn-done", "insn-error", "insn-trap"}]_vars
  <2> SUFFICES ASSUME StreamInv, Next, sim_executing # NoInsn, sim_executing' # sim_executing
               PROVE  frame' \in {"insn-done", "insn-error", "insn-trap"}
    OBVIOUS
  <2>1. /\ running /\ busy /\ engine # NoRun /\ sim_pending = NoInsn
        /\ frame \notin {"insn-done", "insn-error", "terminate", "model-error"}
    BY DEF StreamInv, Inv, SlotDiscipline, SuspendedIsIdle, FrameDiscipline, Bookkeeping, ContractInv,
       EngineOwned, RunningHasEngine
  <2>2. ~Command
    BY <2>1 DEF Command, Attach, AttachRefused, AttachThrows, Bp, Delete, DeleteAll, Cont, Step,
       Stop, RunCmd, Status, Refused, Inert, execVars
  <2>3. ~Answer /\ ~Input
    BY <2>1 DEF Answer, Reply, InitFails, InitDone, Throw, Input, Fetch, EngineReady, InputEnd,
       InputError, execVars
  <2>4. ~FrameReturn
    BY <2>1 DEF FrameReturn, SetNextReturn, Throw, InsnDoneReturn, InsnErrorReturn, InsnTrapReturn,
       ModelErrorReturn, TerminateReturn, execVars
  <2>5. CASE Callback
    BY <2>5 DEF Callback, CallbackThrows, Throw, InsnData, Accept, CanReport, InsnDone, InsnError,
       InsnTrap, StreamInv, Strict, Contract
  <2> QED
    BY <2>2, <2>3, <2>4, <2>5 DEF Next
<1> QED
  BY <1>1, StreamInvHolds, PTL DEF Spec, StartedInsnReported
=============================================================================
