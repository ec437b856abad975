-------------------------- MODULE SimulationProofs --------------------------
(***************************************************************************)
(* Proofs about Simulation, for every set of models, any number of runs    *)
(* and instructions, and every choice of commands, results, failures and   *)
(* points of re-entrance.                                                  *)
(*                                                                         *)
(* The safety invariants are inductive together, not one by one: that a    *)
(* fetch finds the pending slot empty (SlotDiscipline) needs to know what  *)
(* a handler interrupted by its own event still owes (FrameDiscipline);    *)
(* that ::stop and ::step suspend at the fetch needs that nothing is       *)
(* pending while the simulation runs (NoLostInsn), which needs that no     *)
(* suspended simulation executes (SuspendedIsIdle).                        *)
(***************************************************************************)
EXTENDS Simulation, TLAPS

(* What holds by the way the model is written, and the proofs need: only   *)
(* the frames of a callback owe a done(); what is in a slot came from an   *)
(* engine; ::run calls init() only below the bound on runs.                *)
Bookkeeping ==
  /\ frame \notin {"insn-done", "insn-error", "terminate"} => owed = NoRun
  /\ sim_pending # NoInsn => sim_pending.run # NoRun
  /\ sim_executing # NoInsn => sim_executing.run # NoRun
  /\ ctl_pending = "init" => runs < MaxRuns

Inv ==
  /\ TypeOK
  /\ SlotDiscipline
  /\ SuspendedIsIdle
  /\ NoLostInsn
  /\ StepArmed
  /\ FrameDiscipline
  /\ Bookkeeping

(* The records that the slots hold: NoInsn is one.                         *)
LEMMA InsnFacts ==
  /\ NoInsn \in Insn
  /\ NoInsn.run = NoRun
  /\ NoRun \notin Run
  BY BoundAssumption DEF Insn, NoInsn, NoRun, Run, Addr

(* Marking an instruction to trap, or not to, leaves it one of its run.    *)
LEMMA MarkInsn ==
  ASSUME NEW i \in Insn, NEW b \in BOOLEAN
  PROVE  /\ [i EXCEPT !.trap = b] \in Insn
         /\ [i EXCEPT !.trap = b].run = i.run
  BY DEF Insn

(* So is an instruction that the input delivers.                           *)
LEMMA NewInsn ==
  ASSUME NEW r \in Run, NEW a \in Addr, NEW b \in BOOLEAN
  PROVE  /\ [run |-> r, addr |-> a, trap |-> b] \in Insn
         /\ [run |-> r, addr |-> a, trap |-> b].run = r
  BY DEF Insn

(* A new simulation is idle, with no engine and both slots empty.          *)
LEMMA InitInv == Init => Inv
<1> SUFFICES ASSUME Init PROVE Inv
  OBVIOUS
<1> USE InsnFacts DEF Init
<1>1. TypeOK
  <2>1. retired \in [Run -> 0 .. MaxInsns] /\ runs \in 0 .. MaxRuns /\ fetched \in 0 .. MaxInsns
    BY BoundAssumption DEF Run
  <2>2. inflight \in [Run -> Nat]
    OBVIOUS
  <2> QED
    BY <2>1, <2>2 DEF TypeOK, Fault, Frame, CtlState, NoRun
<1>2. FrameDiscipline /\ Bookkeeping
  BY BoundAssumption DEF FrameDiscipline, Bookkeeping
<1> QED
  BY <1>1, <1>2 DEF Inv, SlotDiscipline, SuspendedIsIdle, NoLostInsn, StepArmed

-----------------------------------------------------------------------------
(* What _exec_next() does to the slots, when none executes: it throws, it  *)
(* suspends at the instruction, or it hands it to the model.               *)
LEMMA ExecNextEffect ==
  ASSUME NEW insn \in Insn, insn.run # NoRun, NEW s \in BOOLEAN,
         sim_executing = NoInsn, inflight \in [Run -> Nat],
         ExecNext(insn, s)
  PROVE  /\ inflight' \in [Run -> Nat]
         /\ \/ /\ fault' = "exec"
               /\ UNCHANGED <<running, stop, sim_pending, sim_executing>>
            \/ /\ fault' = fault
               /\ running' = FALSE /\ stop' = FALSE
               /\ sim_pending' \in Insn /\ sim_pending'.run = insn.run
               /\ sim_executing' = NoInsn
            \/ /\ fault' = fault
               /\ running' = TRUE /\ stop' = s
               /\ sim_pending' = NoInsn
               /\ sim_executing' = insn /\ ~insn.trap
<1>1. CASE insn.trap
  <2>1. [insn EXCEPT !.trap = FALSE] \in Insn /\ [insn EXCEPT !.trap = FALSE].run = insn.run
    BY MarkInsn
  <2> QED
    BY <1>1, <2>1 DEF ExecNext, SuspendedRunning, SuspendedStop
<1>2. CASE ~insn.trap /\ model = NoModel
  BY <1>2 DEF ExecNext, Throw
<1>3. CASE ~insn.trap /\ model # NoModel
  <2>1. insn.run \in Run
    BY DEF Insn
  <2>2. [inflight EXCEPT ![insn.run] = @ + 1] \in [Run -> Nat]
    BY <2>1
  <2> QED
    BY <1>3, <2>2 DEF ExecNext
<1> QED
  BY <1>1, <1>2, <1>3

(* What _resume() does to a simulation that is not running: it leaves it   *)
(* so only if it threw or met a trap, arms the suspend that ::step wants,  *)
(* and brings no instruction but the pending one into the slots.           *)
LEMMA ResumeEffect ==
  ASSUME Inv, ~running, NEW single \in BOOLEAN, Resume(single)
  PROVE  /\ running' \in BOOLEAN /\ stop' \in BOOLEAN
         /\ sim_pending' \in Insn /\ sim_executing' \in Insn
         /\ inflight' \in [Run -> Nat]
         /\ fault' \in {fault, "step", "exec"}
         /\ sim_pending' = NoInsn \/ sim_executing' = NoInsn
         /\ sim_pending' # NoInsn => sim_pending # NoInsn /\ sim_pending'.run = sim_pending.run
         /\ sim_executing' # NoInsn => sim_executing' = sim_pending
         /\ running' => sim_pending' = NoInsn
         /\ ~running' => ~stop' /\ sim_executing' = NoInsn
         /\ running' /\ single => stop'
<1>1. /\ stop = FALSE /\ running = FALSE
      /\ sim_executing = NoInsn /\ sim_pending \in Insn
      /\ inflight \in [Run -> Nat]
  BY DEF Inv, TypeOK, SuspendedIsIdle
<1>2. CASE sim_pending = NoInsn
  <2>1. \/ fault' = "step" /\ UNCHANGED <<running, stop, sim_pending, sim_executing, inflight>>
        \/ /\ running' = TRUE /\ ~single
           /\ UNCHANGED <<stop, sim_pending, sim_executing, inflight, fault>>
    BY <1>1, <1>2 DEF Resume, ResumeWith, Throw
  <2> QED
    BY <1>1, <1>2, <2>1, InsnFacts
<1>3. CASE sim_pending # NoInsn
  <2>1. ExecNext(sim_pending, single)
    BY <1>1, <1>3 DEF Resume, ResumeWith
  <2>2. sim_pending.run # NoRun
    BY <1>3 DEF Inv, FrameDiscipline, Bookkeeping
  <2> QED
    BY <1>1, <1>3, <2>1, <2>2, ExecNextEffect, InsnFacts DEF Inv, TypeOK
<1> QED
  BY <1>2, <1>3

-----------------------------------------------------------------------------
(* Control commands preserve the invariant.                                *)
LEMMA CommandInv == Inv /\ Command => Inv'
<1> SUFFICES ASSUME Inv, Command PROVE Inv'
  OBVIOUS
<1> USE InsnFacts
    DEF Inv, TypeOK, SlotDiscipline, SuspendedIsIdle, NoLostInsn, StepArmed,
        FrameDiscipline, Bookkeeping, Fault, Frame, CtlState, execVars, inputVars, frameVars, CanDispatch
<1>1. ASSUME NEW m \in Models, Attach(m) PROVE Inv'
  BY <1>1 DEF Attach
<1>2. CASE AttachRefused
  BY <1>2 DEF AttachRefused, Inert
<1>3. CASE AttachThrows
  BY <1>3 DEF AttachThrows
<1>4. ASSUME NEW a \in Addr, Bp(a) PROVE Inv'
  <2>1. sim_pending' \in Insn /\ sim_pending'.run = sim_pending.run
    BY <1>4, MarkInsn DEF Bp
  <2>2. sim_pending' # NoInsn => sim_pending # NoInsn
    BY <1>4 DEF Bp
  <2> QED
    BY <1>4, <2>1, <2>2 DEF Bp
<1>5. ASSUME NEW a \in Addr, Delete(a) PROVE Inv'
  BY <1>5 DEF Delete
<1>6. CASE DeleteAll
  BY <1>6 DEF DeleteAll
<1>7. CASE Cont
  BY <1>7, ResumeEffect DEF Cont
<1>8. CASE Step
  BY <1>8, ResumeEffect DEF Step
<1>9. CASE Stop
  <2>1. /\ running' = (running /\ sim_executing # NoInsn)
        /\ stop' = IF running THEN sim_executing # NoInsn ELSE stop
        /\ ctl_pending' = "reply"
        /\ UNCHANGED <<sim_pending, sim_executing, inflight, fault,
                       inputVars, frameVars, model, bptbl, retired>>
    BY <1>9 DEF Stop, SuspendedRunning, SuspendedStop
  <2>2. TypeOK'
    <3>1. running' \in BOOLEAN
      BY <2>1
    <3>2. stop' \in BOOLEAN
      BY <2>1
    <3> QED
      BY <2>1, <3>1, <3>2
  <2>3. SlotDiscipline' /\ SuspendedIsIdle' /\ NoLostInsn' /\ StepArmed' /\ FrameDiscipline'
    BY <2>1
  <2>4. Bookkeeping'
    BY <2>1
  <2> QED
    BY <2>2, <2>3, <2>4
<1>10. CASE RunCmd
  BY <1>10, BoundAssumption DEF RunCmd
<1>11. CASE Status
  BY <1>11 DEF Status, Inert
<1>12. CASE \E scmd \in Scmds : Refused(scmd)
  BY <1>12 DEF Refused, Inert
<1> QED
  BY <1>1, <1>2, <1>3, <1>4, <1>5, <1>6, <1>7, <1>8, <1>9, <1>10, <1>11, <1>12 DEF Command

(* So do the responses to commands, the start of a run among them.         *)
LEMMA AnswerInv == Inv /\ Answer => Inv'
<1> SUFFICES ASSUME Inv, Answer PROVE Inv'
  OBVIOUS
<1> USE InsnFacts
    DEF Inv, TypeOK, SlotDiscipline, SuspendedIsIdle, NoLostInsn, StepArmed,
        FrameDiscipline, Bookkeeping, Fault, Frame, CtlState, execVars, inputVars, frameVars
<1>1. CASE Reply
  BY <1>1 DEF Reply
<1>2. CASE InitFails
  BY <1>2 DEF InitFails, CanInit
<1>3. CASE InitDone
  <2>1. CASE engine # NoRun
    <3>1. fault' = "run" /\ UNCHANGED <<running, stop, sim_pending, sim_executing, inflight>>
          /\ UNCHANGED <<inputVars, frameVars, ctl_pending, model, bptbl, retired>>
      BY <1>3, <2>1 DEF InitDone, Throw
    <3> QED
      BY <3>1
  <2>2. CASE engine = NoRun
    <3>1. runs + 1 \in Run /\ runs + 1 \in 0 .. MaxRuns
      BY <1>3, BoundAssumption DEF InitDone, CanInit, Run
    <3>2. sim_pending = NoInsn /\ sim_executing = NoInsn
      BY <2>2
    <3>3. /\ runs' = runs + 1 /\ engine' = runs + 1 /\ owner' = model
          /\ busy' = FALSE /\ fetched' \in 0 .. MaxInsns /\ done' = FALSE
          /\ ctl_pending' = "idle"
          /\ UNCHANGED <<frameVars, model, bptbl, retired>>
      BY <1>3, <2>2, BoundAssumption DEF InitDone
    <3>4. Resume(FALSE) /\ frame = "none"
      BY <1>3, <2>2 DEF InitDone, CanInit
    <3>5. CASE running
      <4>1. UNCHANGED execVars
        BY <3>4, <3>5 DEF Resume, ResumeWith
      <4>2. TypeOK' /\ SlotDiscipline'
        BY <3>1, <3>2, <3>3, <4>1
      <4>3. FrameDiscipline' /\ Bookkeeping'
        BY <3>2, <3>3, <3>4, <4>1
      <4> QED
        BY <3>2, <3>3, <4>1, <4>2, <4>3
    <3>6. CASE ~running
      <4>1. /\ running' \in BOOLEAN /\ stop' \in BOOLEAN
            /\ inflight' \in [Run -> Nat]
            /\ fault' \in {fault, "step", "exec"}
            /\ sim_pending' = NoInsn /\ sim_executing' = NoInsn
            /\ ~running' => ~stop'
        BY <3>2, <3>4, <3>6, ResumeEffect
      <4>2. TypeOK' /\ SlotDiscipline'
        BY <3>1, <3>2, <3>3, <4>1
      <4>3. FrameDiscipline' /\ Bookkeeping'
        BY <3>2, <3>3, <3>4, <4>1
      <4> QED
        BY <3>2, <3>3, <4>1, <4>2, <4>3
    <3> QED
      BY <3>5, <3>6
  <2> QED
    BY <2>1, <2>2
<1> QED
  BY <1>1, <1>2, <1>3 DEF Answer

(* So does the input stream.                                               *)
LEMMA InputInv == Inv /\ Input => Inv'
<1> SUFFICES ASSUME Inv, Input PROVE Inv'
  OBVIOUS
<1> USE InsnFacts
    DEF Inv, TypeOK, SlotDiscipline, SuspendedIsIdle, NoLostInsn, StepArmed,
        FrameDiscipline, Bookkeeping, Fault, Frame, CtlState, execVars, inputVars, frameVars
<1>1. CASE Fetch
  <2> DEFINE insn == Fetched
  <2>1. /\ sim_pending = NoInsn /\ sim_executing = NoInsn
        /\ engine \in Run /\ fetched' \in 0 .. MaxInsns /\ busy' = TRUE
        /\ UNCHANGED <<engine, done, runs, owner, owed, model, bptbl, ctl_pending, retired>>
    BY <1>1, BoundAssumption DEF Fetch, EngineReady
  <2>2. insn \in Insn /\ insn.run = engine
    <3>1. fetched \in Addr
      BY <1>1, BoundAssumption DEF Fetch, EngineReady, Addr
    <3>2. (fetched \in bptbl) \in BOOLEAN
      OBVIOUS
    <3>3. insn = [run |-> engine, addr |-> fetched, trap |-> fetched \in bptbl]
      BY DEF Fetched
    <3> HIDE DEF insn
    <3> QED
      BY <2>1, <3>1, <3>2, <3>3, NewInsn
  <2>3. SetNext(insn) /\ frame = "none"
    BY <1>1 DEF Fetch
  <2> HIDE DEF insn
  <2>4. CASE stop
    <3>1. /\ sim_pending' = insn /\ running' = FALSE /\ stop' = FALSE
          /\ frame' = "set-next"
          /\ UNCHANGED <<sim_executing, inflight, fault>>
      BY <2>1, <2>3, <2>4 DEF SetNext, SuspendDue, SuspendedRunning, SuspendedStop
    <3> QED
      BY <2>1, <2>2, <2>3, <3>1
  <2>5. CASE ~stop /\ running
    <3>1. ExecNext(insn, FALSE) /\ UNCHANGED frame
      BY <2>1, <2>3, <2>5 DEF SetNext, SuspendDue
    <3>2. insn.run # NoRun
      BY <2>1, <2>2
    <3> QED
      BY <2>1, <2>2, <2>3, <2>5, <3>1, <3>2, ExecNextEffect
  <2>6. CASE ~stop /\ ~running
    <3>1. sim_pending' = insn /\ UNCHANGED <<running, stop, sim_executing, inflight, fault, frame>>
      BY <2>1, <2>3, <2>6 DEF SetNext, SuspendDue
    <3> QED
      BY <2>1, <2>2, <2>3, <2>6, <3>1
  <2> QED
    BY <2>4, <2>5, <2>6
<1>2. CASE InputEnd
  BY <1>2 DEF InputEnd
<1>3. ASSUME NEW r \in Run, InputError(r) PROVE Inv'
  BY <1>3 DEF InputError
<1> QED
  BY <1>1, <1>2, <1>3 DEF Input

(* So do the results that models report, in time or too late.              *)
LEMMA CallbackInv == Inv /\ Callback => Inv'
<1> SUFFICES ASSUME Inv, Callback PROVE Inv'
  OBVIOUS
<1> USE InsnFacts
    DEF Inv, TypeOK, SlotDiscipline, SuspendedIsIdle, NoLostInsn, StepArmed, FrameDiscipline, Bookkeeping,
        Fault, Frame, CtlState, execVars, inputVars, frameVars, CanReport
<1>1. ASSUME NEW r \in Run, CallbackThrows(r) PROVE Inv'
  BY <1>1 DEF CallbackThrows, Throw
<1>2. ASSUME NEW r \in Run, InsnData(r) PROVE Inv'
  BY <1>2 DEF InsnData, Accept
<1>3. ASSUME NEW r \in Run, InsnDone(r) PROVE Inv'
  <2>1. sim_executing.addr + 1 \in 0 .. MaxInsns
    BY BoundAssumption DEF Addr, Insn
  <2>2. retired' \in [Run -> 0 .. MaxInsns]
    BY <1>3, <2>1 DEF InsnDone
  <2>3. inflight' \in [Run -> Nat]
    BY <1>3 DEF InsnDone, Accept
  <2> QED
    BY <1>3, <2>2, <2>3 DEF InsnDone, Accept, CompleteStep
<1>4. ASSUME NEW r \in Run, InsnError(r) PROVE Inv'
  BY <1>4 DEF InsnError, Accept, CompleteStep
<1>5. ASSUME NEW r \in Run, InsnTrap(r) PROVE Inv'
  <2>1. sim_pending' \in Insn /\ sim_pending'.run = sim_executing.run
    BY <1>5, MarkInsn DEF InsnTrap
  <2>2. inflight' \in [Run -> Nat]
    BY <1>5 DEF InsnTrap, Accept
  <2>3. running' = FALSE /\ stop' = FALSE
    BY <1>5 DEF InsnTrap, Accept, SuspendedRunning, SuspendedStop
  <2> QED
    BY <1>5, <2>1, <2>2, <2>3 DEF InsnTrap, Accept
<1> QED
  BY <1>1, <1>2, <1>3, <1>4, <1>5 DEF Callback

(* _terminate(), on its own, from any handler that calls it.               *)
LEMMA TerminateInv ==
  ASSUME Inv, Terminate, frame \in {"insn-done", "insn-error", "model-error"}
  PROVE  Inv'
<1> USE InsnFacts
    DEF Inv, TypeOK, SlotDiscipline, SuspendedIsIdle, NoLostInsn, StepArmed, FrameDiscipline, Bookkeeping,
        Fault, Frame, CtlState
<1>1. UNCHANGED <<inflight, fault, fetched, done, runs, owner,
                 model, bptbl, ctl_pending, retired>>
  BY DEF Terminate
<1>2. CASE model = NoModel
  <2>1. UNCHANGED <<running, stop, sim_pending, sim_executing, engine>>
        /\ frame' = "none" /\ owed' = NoRun /\ busy' = (busy /\ engine # NoRun /\ owed # engine)
    BY <1>2 DEF Terminate, Return
  <2>2. busy' \in BOOLEAN
    BY <2>1
  <2>3. ~busy' => sim_pending = NoInsn /\ sim_executing = NoInsn
    BY <2>1
  <2> QED
    BY <1>1, <2>1, <2>2, <2>3
<1>3. CASE model # NoModel /\ running
  <2>1. /\ sim_pending' = NoInsn /\ sim_executing' = NoInsn /\ stop' = FALSE /\ running' = FALSE
        /\ frame' = "terminate" /\ UNCHANGED <<engine, busy, owed>>
    BY <1>3 DEF Terminate
  <2>2. TypeOK'
    BY <1>1, <2>1
  <2>3. SlotDiscipline' /\ SuspendedIsIdle' /\ NoLostInsn' /\ StepArmed' /\ FrameDiscipline'
    BY <1>1, <2>1
  <2>4. Bookkeeping'
    BY <1>1, <2>1
  <2> QED
    BY <2>2, <2>3, <2>4
<1>4. CASE model # NoModel /\ ~running
  <2>1. /\ sim_pending' = NoInsn /\ sim_executing' = NoInsn /\ stop' = FALSE /\ running' = FALSE
        /\ frame' = "none" /\ owed' = NoRun /\ engine' = NoRun /\ busy' = FALSE
    BY <1>4 DEF Terminate, Return
  <2> QED
    BY <1>1, <2>1
<1> QED
  BY <1>2, <1>3, <1>4

(* So does the rest of a handler that has emitted its event, whatever was  *)
(* dispatched from there.                                                  *)
LEMMA FrameReturnInv == Inv /\ FrameReturn => Inv'
<1> SUFFICES ASSUME Inv, FrameReturn PROVE Inv'
  OBVIOUS
<1> USE InsnFacts
    DEF Inv, TypeOK, SlotDiscipline, SuspendedIsIdle, NoLostInsn, StepArmed, FrameDiscipline, Bookkeeping,
        Fault, Frame, CtlState, execVars, inputVars, frameVars
<1>1. CASE SetNextReturn
  BY <1>1 DEF SetNextReturn, Throw
<1>2. CASE InsnDoneReturn
  <2>1. CASE done
    BY <1>2, <2>1, TerminateInv DEF InsnDoneReturn
  <2>2. CASE ~done
    BY <1>2, <2>2 DEF InsnDoneReturn, Return
  <2> QED
    BY <2>1, <2>2
<1>3. CASE InsnErrorReturn
  BY <1>3, TerminateInv DEF InsnErrorReturn
<1>4. CASE InsnTrapReturn
  BY <1>4 DEF InsnTrapReturn, CompleteStep
<1>5. CASE ModelErrorReturn
  BY <1>5, TerminateInv DEF ModelErrorReturn
<1>6. CASE TerminateReturn
  BY <1>6 DEF TerminateReturn, Return
<1> QED
  BY <1>1, <1>2, <1>3, <1>4, <1>5, <1>6 DEF FrameReturn

(* A step that changes nothing preserves it too.                           *)
LEMMA StutterInv == Inv /\ UNCHANGED vars => Inv'
  BY DEF Inv, TypeOK, SlotDiscipline, SuspendedIsIdle, NoLostInsn, StepArmed, FrameDiscipline, Bookkeeping,
     vars, execVars, inputVars, frameVars

(* The invariant is inductive.                                             *)
LEMMA NextInv == Inv /\ [Next]_vars => Inv'
  BY CommandInv, AnswerInv, InputInv, CallbackInv, FrameReturnInv, StutterInv DEF Next

(* In every reachable state of every simulation the variables have their   *)
(* types and the six parts of the invariant hold.                          *)
THEOREM InvHolds == Spec => []Inv
<1>1. Init => Inv
  BY InitInv
<1>2. Inv /\ [Next]_vars => Inv'
  BY NextInv
<1> QED
  BY <1>1, <1>2, PTL DEF Spec

-----------------------------------------------------------------------------
(* The properties that the runs check, for every value of the constants.   *)

(* No reachable state has a variable outside its type.                     *)
THEOREM TypeCorrect == Spec => []TypeOK
BY InvHolds, PTL DEF Inv

(* At most one instruction, of the current input, is between the engine    *)
(* and the model, and none when the engine fetches: the assertion at the   *)
(* start of _set_next() never fails.                                       *)
THEOREM SlotsDisciplined == Spec => []SlotDiscipline
BY InvHolds, PTL DEF Inv

(* A suspended simulation executes nothing and has no suspend deferred:    *)
(* the branch of _resume() that only clears _stop is dead code.            *)
THEOREM SuspendedStaysIdle == Spec => []SuspendedIsIdle
BY InvHolds, PTL DEF Inv

(* A running simulation leaves no instruction waiting.                     *)
THEOREM NoInsnLost == Spec => []NoLostInsn
BY InvHolds, PTL DEF Inv

(* While a ::step is unanswered and the simulation runs, it will suspend   *)
(* at the next fetch.                                                      *)
THEOREM StepStaysArmed == Spec => []StepArmed
BY InvHolds, PTL DEF Inv

(* An interrupted handler finds the slots as it left them.                 *)
THEOREM FramesDisciplined == Spec => []FrameDiscipline
BY InvHolds, PTL DEF Inv

(* In a simulation that runs, only a fetch starts an instruction, and only *)
(* if it is not marked to trap and no suspend is deferred.                 *)
LEMMA StartsWhileRunning ==
  ASSUME Inv, [Next]_vars, running, Starts
  PROVE  Fetch /\ ~stop /\ sim_executing' = Fetched /\ ~Fetched.trap
<1> USE DEF execVars, inputVars, frameVars, Throw
<1>1. ~Command
  <2>1. CASE \E m \in Models : Attach(m)
    BY <2>1 DEF Attach
  <2>2. CASE \E a \in Addr : Bp(a) \/ Delete(a)
    BY <2>2 DEF Bp, Delete, Starts
  <2> QED
    BY <2>1, <2>2
    DEF Command, Starts, AttachRefused, AttachThrows, DeleteAll, Cont, Step, Stop, RunCmd,
        Status, Refused, Inert
<1>2. ~Answer
  BY DEF Answer, Reply, InitFails, InitDone, Resume, ResumeWith, Starts
<1>3. ~Callback
  BY DEF Callback, CallbackThrows, InsnData, InsnDone, InsnError, InsnTrap, Accept, Starts
<1>4. ~FrameReturn
  <2>1. sim_pending = NoInsn
    BY DEF Inv, NoLostInsn
  <2>2. ~Terminate
    BY DEF Terminate, Starts
  <2> QED
    BY <2>1, <2>2
    DEF FrameReturn, SetNextReturn, InsnDoneReturn, InsnErrorReturn, InsnTrapReturn,
        ModelErrorReturn, TerminateReturn, Starts
<1>5. Fetch
  <2>1. vars' # vars
    BY DEF Starts, vars
  <2> QED
    BY <1>1, <1>2, <1>3, <1>4, <2>1 DEF Next, Input, InputEnd, InputError, Starts
<1>6. SetNext(Fetched)
  BY <1>5 DEF Fetch
<1>7. ~stop /\ ExecNext(Fetched, FALSE)
  BY <1>6 DEF SetNext, SuspendDue, Starts
<1> QED
  BY <1>5, <1>7 DEF ExecNext, Starts

(* A running simulation never starts an instruction with a breakpoint.     *)
THEOREM BreakpointsHonoured == Spec => BreakpointHonoured
<1>1. Inv /\ [Next]_vars => [running /\ Starts => sim_executing'.addr \notin bptbl]_vars
  <2>1. Fetched.addr = fetched /\ (Fetched.trap <=> fetched \in bptbl)
    BY DEF Fetched
  <2> QED
    BY <2>1, StartsWhileRunning
<1> QED
  BY <1>1, InvHolds, PTL DEF Spec, BreakpointHonoured

(* A deferred suspend comes before any other instruction starts.           *)
THEOREM StopsHonoured == Spec => StopHonoured
<1>1. Inv /\ [Next]_vars => [running /\ stop => ~Starts]_vars
  BY StartsWhileRunning
<1> QED
  BY <1>1, InvHolds, PTL DEF Spec, StopHonoured

-----------------------------------------------------------------------------
(* Models that give each exec() one result, and inputs that do not fail:   *)
(* then the callbacks outstanding are those of the executing instruction.  *)

Contract == "data" \notin Results /\ "input" \notin Failures

ContractInv ==
  /\ CallsMatchSlot
  /\ CallbackAccepted
  /\ frame # "model-error"

(* A new simulation has nothing outstanding.                               *)
LEMMA InitContract == Init => ContractInv
  BY InsnFacts DEF Init, ContractInv, CallsMatchSlot, CallbackAccepted

(* Handing an instruction to the model makes it the one call outstanding.  *)
LEMMA ExecNextContract ==
  ASSUME Inv, CallsMatchSlot, NEW insn \in Insn, insn.run # NoRun, NEW s \in BOOLEAN,
         sim_executing = NoInsn, fault # "cb", ExecNext(insn, s)
  PROVE  CallsMatchSlot' /\ fault' # "cb"
<1>1. inflight \in [Run -> Nat] /\ \A r \in Run : inflight[r] = 0
  BY InsnFacts DEF Inv, TypeOK, CallsMatchSlot
<1>2. CASE insn.trap
  BY <1>2 DEF ExecNext, CallsMatchSlot
<1>3. CASE ~insn.trap /\ model = NoModel
  BY <1>3 DEF ExecNext, Throw, CallsMatchSlot
<1>4. CASE ~insn.trap /\ model # NoModel
  <2>1. /\ sim_executing' = insn /\ fault' = fault
        /\ inflight' = [inflight EXCEPT ![insn.run] = @ + 1]
    BY <1>4 DEF ExecNext
  <2>2. \A r \in Run : inflight'[r] = IF insn.run = r THEN 1 ELSE 0
    BY <1>1, <2>1
  <2> QED
    BY <2>1, <2>2 DEF CallsMatchSlot
<1> QED
  BY <1>2, <1>3, <1>4

(* So does _resume(), which hands over the pending instruction or none.    *)
LEMMA ResumeContract ==
  ASSUME Inv, CallsMatchSlot, fault # "cb", NEW single \in BOOLEAN, Resume(single)
  PROVE  CallsMatchSlot' /\ fault' # "cb"
<1>1. CASE ~running /\ ~stop /\ sim_pending # NoInsn
  <2>1. ExecNext(sim_pending, single)
    BY <1>1 DEF Resume, ResumeWith
  <2>2. sim_pending \in Insn /\ sim_pending.run # NoRun /\ sim_executing = NoInsn
    BY <1>1 DEF Inv, TypeOK, FrameDiscipline, Bookkeeping, SuspendedIsIdle
  <2> QED
    BY <2>1, <2>2, ExecNextContract
<1>2. CASE ~(~running /\ ~stop /\ sim_pending # NoInsn)
  <2>1. UNCHANGED <<sim_executing, inflight>> /\ fault' \in {fault, "step"}
    BY <1>2 DEF Resume, ResumeWith, Throw, execVars
  <2> QED
    BY <2>1 DEF CallsMatchSlot
<1> QED
  BY <1>1, <1>2

(* Under the contract every step keeps the calls outstanding in line with  *)
(* the executing slot; the step by which a callback finds it empty cannot  *)
(* be taken, since that callback is outstanding.                           *)
LEMMA StepContract ==
  ASSUME Contract, Inv, ContractInv, [Next]_vars
  PROVE  ContractInv'
<1> USE DEF ContractInv, CallbackAccepted
<1>1. ASSUME UNCHANGED <<sim_executing, inflight>>, fault' # "cb", frame' # "model-error"
      PROVE  ContractInv'
  BY <1>1 DEF CallsMatchSlot
<1>2. CASE Command
  <2>1. frame' = frame
    BY <1>2
    DEF Command, Attach, AttachRefused, AttachThrows, Bp, Delete, DeleteAll, Cont, Step, Stop,
        RunCmd, Status, Refused, Inert, frameVars
  <2>2. CASE \E m \in Models : Attach(m)
    <3>1. sim_executing = NoInsn
      BY <2>2 DEF Attach, Inv, SuspendedIsIdle
    <3>2. UNCHANGED <<sim_executing, inflight, fault>>
      BY <2>2, <3>1 DEF Attach, execVars
    <3> QED
      BY <1>1, <2>1, <3>2
  <2>3. CASE Cont \/ Step
    BY <2>1, <2>3, ResumeContract DEF Cont, Step
  <2>4. CASE AttachRefused \/ AttachThrows \/ DeleteAll \/ RunCmd \/ Status
              \/ \E scmd \in Scmds : Refused(scmd)
    BY <1>1, <2>1, <2>4
    DEF AttachRefused, AttachThrows, DeleteAll, RunCmd, Status, Refused, Inert, execVars
  <2>5. CASE Stop \/ \E a \in Addr : Bp(a) \/ Delete(a)
    BY <1>1, <2>1, <2>5 DEF Stop, Bp, Delete, execVars
  <2> QED
    BY <1>2, <2>2, <2>3, <2>4, <2>5 DEF Command
<1>3. CASE Answer
  <2>1. CASE Reply \/ InitFails
    BY <1>1, <2>1 DEF Reply, InitFails, execVars, frameVars
  <2>2. CASE InitDone /\ engine # NoRun
    BY <1>1, <2>2 DEF InitDone, Throw, frameVars
  <2>3. CASE InitDone /\ engine = NoRun
    BY <2>3, ResumeContract DEF InitDone, frameVars
  <2> QED
    BY <1>3, <2>1, <2>2, <2>3 DEF Answer
<1>4. CASE Input
  <2>1. CASE Fetch
    <3>1. sim_pending = NoInsn /\ sim_executing = NoInsn
      BY <2>1 DEF Fetch, EngineReady, Inv, SlotDiscipline
    <3>2. Fetched \in Insn /\ Fetched.run # NoRun
      <4>1. engine \in Run /\ fetched \in Addr /\ (fetched \in bptbl) \in BOOLEAN
        BY <2>1, BoundAssumption DEF Fetch, EngineReady, Inv, TypeOK, Addr
      <4>2. Fetched = [run |-> engine, addr |-> fetched, trap |-> fetched \in bptbl]
        BY DEF Fetched
      <4> QED
        BY <4>1, <4>2, NewInsn, InsnFacts
    <3>3. SetNext(Fetched) /\ frame = "none"
      BY <2>1 DEF Fetch
    <3>4. CASE ExecNext(Fetched, FALSE) /\ UNCHANGED frame
      BY <3>1, <3>2, <3>4, ExecNextContract
    <3>5. CASE ~(ExecNext(Fetched, FALSE) /\ UNCHANGED frame)
      <4>1. UNCHANGED <<sim_executing, inflight, fault>> /\ frame' \in {"none", "set-next"}
        BY <3>1, <3>3, <3>5 DEF SetNext
      <4> QED
        BY <1>1, <4>1
    <3> QED
      BY <3>4, <3>5
  <2>2. CASE InputEnd
    BY <1>1, <2>2 DEF InputEnd, execVars, frameVars
  <2>3. ~ \E r \in Run : InputError(r)
    BY DEF Contract, InputError
  <2> QED
    BY <1>4, <2>1, <2>2, <2>3 DEF Input
<1>5. CASE Callback
  <2>1. ASSUME NEW r \in Run, NEW res \in Result, CanReport(r, res)
        PROVE  sim_executing # NoInsn /\ sim_executing.run = r /\ sim_pending = NoInsn
    BY <2>1, InsnFacts DEF CanReport, CallsMatchSlot, Inv, SlotDiscipline
  <2>2. ~ \E r \in Run : CallbackThrows(r)
    BY <2>1, ClientAssumption DEF CallbackThrows, CanReport
  <2>3. ~ \E r \in Run : InsnData(r)
    BY DEF Contract, InsnData, Accept, CanReport
  <2>4. ASSUME NEW r \in Run, NEW res \in {"done", "err", "trap"}, Accept(r, res)
        PROVE  CallsMatchSlot' /\ fault' = fault
    <3>1. sim_executing.run = r /\ inflight \in [Run -> Nat]
      BY <2>1, <2>4 DEF Accept, Inv, TypeOK, Result
    <3>2. sim_executing' = NoInsn /\ inflight' = [inflight EXCEPT ![r] = @ - 1] /\ fault' = fault
      BY <2>4 DEF Accept
    <3>3. \A q \in Run : inflight'[q] = 0
      BY <3>1, <3>2 DEF CallsMatchSlot
    <3> QED
      BY <3>2, <3>3, InsnFacts DEF CallsMatchSlot
  <2>5. PICK r \in Run : InsnDone(r) \/ InsnError(r) \/ InsnTrap(r)
    BY <1>5, <2>2, <2>3 DEF Callback
  <2>6. frame' # "model-error"
    BY <2>5 DEF InsnDone, InsnError, InsnTrap
  <2> QED
    BY <2>4, <2>5, <2>6 DEF InsnDone, InsnError, InsnTrap
<1>6. CASE FrameReturn
  <2>1. CASE SetNextReturn
    <3>1. UNCHANGED <<sim_executing, inflight>> /\ fault' \in {fault, "resumed"}
      BY <2>1 DEF SetNextReturn, Throw, execVars, Inv, NoLostInsn
    <3> QED
      BY <1>1, <2>1, <3>1 DEF SetNextReturn
  <2>2. ASSUME Terminate, frame \in {"insn-done", "insn-error"}
        PROVE  ContractInv'
    <3>1. sim_executing = NoInsn
      BY <2>2 DEF Inv, FrameDiscipline, Bookkeeping
    <3>2. UNCHANGED <<sim_executing, inflight, fault>> /\ frame' \in {"none", "terminate"}
      BY <2>2, <3>1 DEF Terminate, Return
    <3> QED
      BY <1>1, <3>2
  <2>3. CASE InsnDoneReturn
    <3>1. CASE done
      BY <2>2, <2>3, <3>1 DEF InsnDoneReturn
    <3>2. CASE ~done
      BY <1>1, <2>3, <3>2 DEF InsnDoneReturn, Return, execVars
    <3> QED
      BY <3>1, <3>2
  <2>4. CASE InsnErrorReturn
    BY <2>2, <2>4 DEF InsnErrorReturn
  <2>5. CASE InsnTrapReturn \/ TerminateReturn
    BY <1>1, <2>5 DEF InsnTrapReturn, TerminateReturn, Return, execVars
  <2>6. ~ModelErrorReturn
    BY DEF ModelErrorReturn
  <2> QED
    BY <1>6, <2>1, <2>3, <2>4, <2>5, <2>6 DEF FrameReturn
<1>7. CASE UNCHANGED vars
  BY <1>1, <1>7 DEF vars, execVars, frameVars
<1> QED
  BY <1>2, <1>3, <1>4, <1>5, <1>6, <1>7 DEF Next

(* Under the contract the model owes one callback while an instruction     *)
(* executes and none while the simulation is suspended.                    *)
THEOREM CallsMatch == ASSUME Contract PROVE Spec => []CallsMatchSlot
<1>1. Init => ContractInv
  BY InitContract
<1>2. Inv /\ ContractInv /\ [Next]_vars => ContractInv'
  BY StepContract
<1>3. ContractInv => CallsMatchSlot
  BY DEF ContractInv
<1> QED
  BY <1>1, <1>2, <1>3, InvHolds, PTL DEF Spec

(* Under the contract every callback finds its instruction executing.      *)
THEOREM CallbacksAccepted == ASSUME Contract PROVE Spec => []CallbackAccepted
<1>1. Init => ContractInv
  BY InitContract
<1>2. Inv /\ ContractInv /\ [Next]_vars => ContractInv'
  BY StepContract
<1>3. ContractInv => CallbackAccepted
  BY DEF ContractInv
<1> QED
  BY <1>1, <1>2, <1>3, InvHolds, PTL DEF Spec
-----------------------------------------------------------------------------
(* Who will answer a ::step: what CommandAnswered needs beside fairness.   *)

StepAwaited == ctl_pending = "step" /\ fault = "none"

(* The instruction it started executes, or has trapped and the handler     *)
(* that will say so has not finished.                                      *)
Carried == sim_executing # NoInsn \/ frame = "insn-trap"

(* _exec_next() took the mark off the pending instruction and suspended.   *)
Halted == ~running /\ sim_pending # NoInsn /\ ~sim_pending.trap

StepWaits == StepAwaited => Carried \/ Halted

(* While a ::step waits, nothing changes who it waits for but a trap.      *)
LEMMA StepStillWaits ==
  ASSUME Contract, Inv, ContractInv, [Next]_vars, StepAwaited, StepAwaited'
  PROVE  (Carried => Carried') /\ (Halted => Halted')
<1> USE DEF StepAwaited, Carried, Halted
<1>1. ASSUME UNCHANGED <<running, sim_pending, sim_executing>>, frame # "insn-trap"
      PROVE  (Carried => Carried') /\ (Halted => Halted')
  BY <1>1
<1>2. ~Command
  BY DEF Command, CanDispatch, Attach, AttachRefused, AttachThrows, Bp, Delete, DeleteAll, Cont,
         Step, Stop, RunCmd, Status, Refused
<1>3. ~Answer
  BY DEF Answer, Reply, InitFails, InitDone, CanInit
<1>4. CASE Input
  <2>1. CASE Fetch
    <3>1. sim_pending = NoInsn /\ sim_executing = NoInsn /\ frame = "none"
      BY <2>1 DEF Fetch, EngineReady, Inv, SlotDiscipline
    <3> QED
      BY <3>1
  <2>2. CASE InputEnd
    BY <1>1, <2>2 DEF InputEnd, execVars
  <2>3. ~ \E r \in Run : InputError(r)
    BY DEF Contract, InputError
  <2> QED
    BY <1>4, <2>1, <2>2, <2>3 DEF Input
<1>5. CASE Callback
  <2>1. ~ \E r \in Run : CallbackThrows(r) \/ InsnData(r)
    BY DEF Contract, CallbackThrows, Throw, InsnData, Accept, CanReport
  <2>2. ~ \E r \in Run : InsnDone(r) \/ InsnError(r)
    BY DEF InsnDone, InsnError, CompleteStep
  <2>3. PICK r \in Run : InsnTrap(r)
    BY <1>5, <2>1, <2>2 DEF Callback
  <2>4. sim_pending = NoInsn /\ frame' = "insn-trap"
    BY <2>3 DEF InsnTrap, Accept
  <2> QED
    BY <2>4
<1>6. CASE FrameReturn
  <2>1. CASE SetNextReturn
    <3>1. ~running
      BY <2>1 DEF SetNextReturn, Throw, Inv, NoLostInsn
    <3>2. UNCHANGED <<running, sim_pending, sim_executing>> /\ frame = "set-next"
      BY <2>1, <3>1 DEF SetNextReturn, execVars
    <3> QED
      BY <1>1, <3>2
  <2>2. CASE InsnDoneReturn \/ InsnErrorReturn \/ TerminateReturn
    <3>1. frame \in {"insn-done", "insn-error", "terminate"}
      BY <2>2 DEF InsnDoneReturn, InsnErrorReturn, TerminateReturn
    <3>2. sim_pending = NoInsn /\ sim_executing = NoInsn
      BY <3>1 DEF Inv, FrameDiscipline, Bookkeeping
    <3> QED
      BY <3>1, <3>2
  <2>3. ~InsnTrapReturn
    BY DEF InsnTrapReturn, CompleteStep
  <2>4. ~ModelErrorReturn
    BY DEF ModelErrorReturn, ContractInv
  <2> QED
    BY <1>6, <2>1, <2>2, <2>3, <2>4 DEF FrameReturn
<1>7. CASE UNCHANGED vars
  BY <1>7 DEF vars, execVars, frameVars
<1> QED
  BY <1>2, <1>3, <1>4, <1>5, <1>6, <1>7 DEF Next

(* A ::step that is accepted starts the pending instruction, unless that   *)
(* one is marked.                                                          *)
LEMMA StepBegins ==
  ASSUME Inv, [Next]_vars, ~StepAwaited, StepAwaited'
  PROVE  IF sim_pending.trap THEN Halted' ELSE sim_executing' # NoInsn
<1> USE DEF StepAwaited
<1>1. Step
  <2>1. CASE Command
    BY <2>1
    DEF Command, CanDispatch, Attach, AttachRefused, AttachThrows, Bp, Delete, DeleteAll, Cont,
        Stop, RunCmd, Status, Refused, Inert
  <2>2. ~Answer
    BY DEF Answer, Reply, InitFails, InitDone, CanInit
  <2>3. ~Input
    BY DEF Input, Fetch, InputEnd, InputError, inputVars
  <2>4. ~Callback
    BY DEF Callback, CallbackThrows, InsnData, InsnDone, InsnError, InsnTrap, Accept, CanReport,
           CompleteStep
  <2>5. ~FrameReturn
    BY DEF FrameReturn, SetNextReturn, InsnDoneReturn, InsnErrorReturn, InsnTrapReturn,
           ModelErrorReturn, TerminateReturn, Terminate, CompleteStep
  <2>6. ~UNCHANGED vars
    BY DEF vars, execVars
  <2> QED
    BY <2>1, <2>2, <2>3, <2>4, <2>5, <2>6 DEF Next
<1>2. ~running /\ ~stop /\ sim_executing = NoInsn /\ sim_pending \in Insn
  BY <1>1 DEF Step, Inv, TypeOK, SuspendedIsIdle
<1>3. sim_pending # NoInsn /\ ExecNext(sim_pending, TRUE)
  BY <1>1, <1>2 DEF Step, Resume, ResumeWith, Throw
<1>4. CASE sim_pending.trap
  <2>1. sim_pending' = [sim_pending EXCEPT !.trap = FALSE] /\ ~running'
    BY <1>2, <1>3, <1>4 DEF ExecNext, SuspendedRunning
  <2>2. ~sim_pending'.trap /\ sim_pending'.run = sim_pending.run
    BY <1>2, <2>1 DEF Insn
  <2>3. sim_pending.run # NoRun
    BY <1>3 DEF Inv, FrameDiscipline, Bookkeeping
  <2> QED
    BY <1>4, <2>1, <2>2, <2>3, InsnFacts DEF Halted
<1>5. CASE ~sim_pending.trap
  BY <1>3, <1>5 DEF ExecNext, Throw, Step
<1> QED
  BY <1>4, <1>5

(* Under the contract, whatever clients do, an unanswered ::step has its   *)
(* instruction executing or trapping, or was issued on an instruction that *)
(* was marked: the one case in which nobody will answer it.                *)
THEOREM StepWaitsFor == ASSUME Contract PROVE Spec => []StepWaits
<1>1. Init => StepWaits
  BY DEF Init, StepWaits, StepAwaited
<1>2. Inv /\ ContractInv /\ StepWaits /\ [Next]_vars => StepWaits'
  BY StepStillWaits, StepBegins DEF StepWaits, Carried
<1>3. Init => ContractInv
  BY InitContract
<1>4. Inv /\ ContractInv /\ [Next]_vars => ContractInv'
  BY StepContract
<1> QED
  BY <1>1, <1>2, <1>3, <1>4, InvHolds, PTL DEF Spec

(* Nobody sets a breakpoint and no model traps.                            *)
Unmarked == "bp" \notin Scmds /\ "trap" \notin Results

MarkFree == bptbl = {} /\ ~sim_pending.trap /\ frame # "insn-trap"

LEMMA StepMarkFree ==
  ASSUME Unmarked, Inv, MarkFree, [Next]_vars
  PROVE  MarkFree'
<1> USE DEF MarkFree
<1>1. ~NoInsn.trap
  BY DEF NoInsn
<1>2. ASSUME NEW insn \in Insn, ~insn.trap, NEW s \in BOOLEAN, ExecNext(insn, s)
      PROVE  ~sim_pending'.trap
  BY <1>1, <1>2 DEF ExecNext, Throw
<1>3. ASSUME NEW single \in BOOLEAN, Resume(single)
      PROVE  ~sim_pending'.trap
  <2>1. sim_pending \in Insn
    BY DEF Inv, TypeOK
  <2> QED
    BY <1>2, <1>3, <2>1 DEF Resume, ResumeWith, Throw, execVars
<1>4. CASE Command
  <2>1. frame' = frame
    BY <1>4
    DEF Command, Attach, AttachRefused, AttachThrows, Bp, Delete, DeleteAll, Cont, Step, Stop,
        RunCmd, Status, Refused, Inert, frameVars
  <2>2. ~ \E a \in Addr : Bp(a)
    BY DEF Unmarked, Bp, CanDispatch
  <2>3. bptbl' = {}
    BY <1>4, <2>2
    DEF Command, Attach, AttachRefused, AttachThrows, Delete, DeleteAll, Cont, Step, Stop,
        RunCmd, Status, Refused, Inert
  <2>4. CASE Cont \/ Step
    BY <1>3, <2>1, <2>3, <2>4 DEF Cont, Step
  <2>5. CASE ~(Cont \/ Step)
    <3>1. sim_pending' \in {sim_pending, NoInsn}
      BY <1>4, <2>2, <2>5
      DEF Command, Attach, AttachRefused, AttachThrows, Delete, DeleteAll, Stop, RunCmd, Status,
          Refused, Inert, execVars
    <3> QED
      BY <1>1, <2>1, <2>3, <3>1
  <2> QED
    BY <2>4, <2>5
<1>5. CASE Answer
  <2>1. UNCHANGED <<frame, bptbl>>
    BY <1>5 DEF Answer, Reply, InitFails, InitDone, frameVars
  <2>2. CASE Reply \/ InitFails
    BY <2>1, <2>2 DEF Reply, InitFails, execVars
  <2>3. CASE InitDone
    BY <1>3, <2>1, <2>3 DEF InitDone, Throw
  <2> QED
    BY <1>5, <2>2, <2>3 DEF Answer
<1>6. CASE Input
  <2>1. CASE Fetch
    <3>1. engine \in Run /\ fetched \in Addr
      BY <2>1, BoundAssumption DEF Fetch, EngineReady, Inv, TypeOK, Addr
    <3>2. Fetched \in Insn /\ ~Fetched.trap
      <4>1. fetched \notin bptbl
        OBVIOUS
      <4>2. (fetched \in bptbl) = FALSE
        BY <4>1
      <4>3. Fetched = [run |-> engine, addr |-> fetched, trap |-> FALSE]
        BY <4>2 DEF Fetched
      <4> QED
        BY <3>1, <4>3, NewInsn
    <3>3. SetNext(Fetched) /\ UNCHANGED bptbl /\ frame = "none"
      BY <2>1 DEF Fetch
    <3>4. CASE ExecNext(Fetched, FALSE) /\ UNCHANGED frame
      BY <1>2, <3>2, <3>3, <3>4
    <3>5. CASE ~(ExecNext(Fetched, FALSE) /\ UNCHANGED frame)
      BY <3>2, <3>3, <3>5 DEF SetNext, Throw
    <3> QED
      BY <3>4, <3>5
  <2>2. CASE InputEnd \/ \E r \in Run : InputError(r)
    BY <2>2 DEF InputEnd, InputError, execVars, frameVars
  <2> QED
    BY <1>6, <2>1, <2>2 DEF Input
<1>7. CASE Callback
  <2>1. ~ \E r \in Run : InsnTrap(r)
    BY DEF Unmarked, InsnTrap, Accept, CanReport
  <2>2. PICK r \in Run : CallbackThrows(r) \/ InsnData(r) \/ InsnDone(r) \/ InsnError(r)
    BY <1>7, <2>1 DEF Callback
  <2> QED
    BY <2>2 DEF CallbackThrows, Throw, InsnData, InsnDone, InsnError, Accept, frameVars
<1>8. CASE FrameReturn
  <2>1. CASE SetNextReturn
    <3>1. UNCHANGED <<sim_pending, bptbl>> /\ frame' = "none"
      BY <2>1 DEF SetNextReturn, Throw, execVars, Inv, NoLostInsn
    <3> QED
      BY <3>1
  <2>2. CASE ~SetNextReturn
    <3>1. /\ sim_pending' \in {sim_pending, NoInsn} /\ UNCHANGED bptbl
          /\ frame' \in {"none", "terminate"}
      BY <1>8, <2>2
      DEF FrameReturn, InsnDoneReturn, InsnErrorReturn, InsnTrapReturn, ModelErrorReturn,
          TerminateReturn, Terminate, Return, execVars
    <3> QED
      BY <1>1, <3>1
  <2> QED
    BY <2>1, <2>2
<1>9. CASE UNCHANGED vars
  BY <1>9 DEF vars, execVars, frameVars
<1> QED
  BY <1>4, <1>5, <1>6, <1>7, <1>8, <1>9 DEF Next

StepOwed ==
  StepAwaited => sim_executing # NoInsn /\ inflight[sim_executing.run] = 1

(* Without breakpoints and traps an unanswered ::step always has its       *)
(* instruction executing, and the model owes the one result that will      *)
(* answer it: with the fairness of that result, it is answered.            *)
THEOREM StepHasAnswerer == ASSUME Contract, Unmarked PROVE Spec => []StepOwed
<1> DEFINE I == MarkFree /\ (StepAwaited => sim_executing # NoInsn)
<1>1. Init => I
  BY DEF Init, MarkFree, StepAwaited, NoInsn
<1>2. Inv /\ ContractInv /\ I /\ [Next]_vars => I'
  <2> SUFFICES ASSUME Inv, ContractInv, I, [Next]_vars PROVE I'
    OBVIOUS
  <2>1. MarkFree'
    BY StepMarkFree
  <2>2. ASSUME StepAwaited' PROVE (sim_executing # NoInsn)'
    <3>1. CASE StepAwaited
      BY <2>1, <2>2, <3>1, StepStillWaits DEF Carried, MarkFree
    <3>2. CASE ~StepAwaited
      BY <2>2, <3>2, StepBegins DEF MarkFree
    <3> QED
      BY <3>1, <3>2
  <2> QED
    BY <2>1, <2>2
<1>3. Init => ContractInv
  BY InitContract
<1>4. Inv /\ ContractInv /\ [Next]_vars => ContractInv'
  BY StepContract
<1>5. Inv /\ ContractInv /\ I => StepOwed
  <2> SUFFICES ASSUME Inv, ContractInv, StepAwaited, sim_executing # NoInsn
               PROVE  inflight[sim_executing.run] = 1
    BY DEF StepOwed
  <2>1. sim_executing.run \in Run
    BY DEF Inv, TypeOK, FrameDiscipline, Bookkeeping, Insn
  <2> QED
    BY <2>1 DEF ContractInv, CallsMatchSlot
<1> HIDE DEF I
<1> QED
  BY <1>1, <1>2, <1>3, <1>4, <1>5, InvHolds, PTL DEF Spec
=============================================================================
