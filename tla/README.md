# cloud-tycoon in TLA+

cloud-tycoon (CT) is a small Node.js framework for simulations. A *model* supplies
instructions through a stream and executes them one at a time; a *simulation controller*
fetches, suspends, steps and resumes; a *client* (a terminal session, or a program)
sends control commands, called scmds. This directory models the controller: it is where
streams, events, callbacks and commands meet, in orders that no test of the repository
exercises (`test/api.test.js` asserts only that 42 is true).

Line numbers below are those of `src/lib/CT_simulation.js` unless a file is named.

## 1. Inventory

| Component | State | Operations | Interacts through | What makes it correct | Here |
|---|---|---|---|---|---|
| Controller, `CT_simulation` | `_running`, `_stop`, `_done`, `_model`, `_engine`, `_input`, `_sim_pending`, `_sim_executing` | `_suspend`, `_resume`, `_set_next`, `_exec_next`, `_terminate`, `_attach_impl`, `set_input_error`, the handlers of the scmds | calls from engine and control stream, events to listeners, `exec`/`init` of the model | one instruction at a time, in order; a stop and a breakpoint are honoured; a suspended simulation is quiet | `Simulation` |
| Engine, `CT_engine` (138-210) | its Transform state: is a `done()` owed | `_transform`, the callback given to the model | input stream, controller, model | asks for an instruction only when the last one is over | `Simulation` |
| Control stream, `CT_ctlstream` (212-254) | `_ctl_pending` | `_transform`, the response callback | control source, `_dispatch` | one command at a time, each answered | `Simulation` |
| Breakpoints (397-541, 719-728, 961-991) | `_bplist`, `_bptbl`, the mark on the pending instruction | `::bp`, `::delete`, `::events`, `:z`, the lookup at fetch | controller | the tables agree; together they are a set of addresses | `Breakpoints` |
| Validators and schema (256-276, 332-395, 454-486, `CT_schema.js`) | none | syntax checks before a handler | `_dispatch` | a handler sees only operands it can use | `Commands` |
| Registry (1155-1235) | `_commands` | `register_scmd`, `_dispatch` | models, `bin/ctc.js` | a name has one handler; a refusal changes nothing | `Commands` |
| Subscribers (757-811) | `_ctl_subscribers`, `_sim_subscribers` | newListener, removeListener | listeners, both streams | data flows if and only if somebody listens | `Subscribers` |
| Session (`CT_session.js`) | readline paused or not, the queue of lines | line, SIGINT, close, response | terminal, `CT_cmdstream`, controller | no accepted line is lost or overtaken; whoever waits has a prompt; the terminal is not left paused | `Session`, composed with `Simulation` |
| Command parser (`CT_cmdstream.js`) | none | `parse_cmd`, `parse_args`, `_transform` | session, control stream | operands are split as quoted; what it emits, the schema accepts or refuses before a handler sees it | `ParseArgs`, `Commands`; its stream in `Session` |
| JSON stream (`jsonstream.js`) | `js_accum` | `_transform`, `_flush` | models' input pipelines | every object once, in order; what is no object is an error | `CalcPipeline` |
| Model contract, standalone driver (`CT_model.js`) | none | `init`, `exec`, `standalone_postattach`, `init_module` | controller | one final result per instruction | the environment of `Simulation` and `InsnStream`; the driver's `::run` is among the commands of `Commands` |
| calc model (`models/calc.js`) | `_accum`, `_pc` | `init`, `exec` | controller, JSON stream | accumulator is a fold of the instructions of the file | `CalcPipeline`, in part |
| DC glue (`models/dc/glue.js`) | `deferred`, `_active_ictx`, `_active_output_func` | logger stream, instruction stream, `exec` | controller, bunyan | every log record reaches the simulation | not modelled, see 7 |
| DC inventory (`dc.js`, `cn.js`, `vm.js`) | tables by uuid, arrays, indices, free resources | `add_cn`, `remove_cn`, `add_vm`, `remove_vm` | nothing calls it | tables agree; resources are conserved | not modelled, see 7 |
| `bin/ctc.js` | none of its own | registers `::quit`, injects `::attach` | controller, session | a command of its own is refused only if the name is taken | `StartUp` in `Commands`, the first command of `Session` |
| `insns.js`, `tools/`, `test/` | none of their own | - | - | - | not modelled |

What is hard in this code:

* **Events in mid-handler.** `emit` calls its listeners at once, and answering a `::step`
  lets the control stream dispatch the next queued command at once. So a command may run
  between `insn-done` (197) and the `done()` that follows it, or inside the suspend event
  of `_terminate()` (1119).
* **Deferred suspends.** A `::stop` while an instruction executes only sets `_stop`; the
  suspend happens when the *next* instruction is fetched (1000). Results, the fetch, the end
  of the input and other commands come in between.
* **Late callbacks.** The model's callback works on whatever `_sim_executing` is when it is
  called (164), and a termination does not cancel it.
* **Sticky state.** The mark of a breakpoint is copied to the instruction when it is fetched;
  the table changes afterwards.
* **Several queues before a handler.** A line passes readline, the buffer of the command source,
  the parser and the buffer of the control stream, each of which may hold one up; whether the
  simulation runs is asked when the line is typed, and it is executed later.
* **Outside failures.** A model's `create()`, its `init()` and its input pipeline fail on
  their own, the last through a call that does not say which run it is about (1129).

The complete list, with lines, is under `hazards` in `PROJECT.json`.

## 2. Plan

Order of the work, the most important behaviour first.

1. `Simulation`, with `MCSimulation` and `SimulationProofs`: controller, engine, control stream. Done.
2. `Breakpoints` refining `BreakpointSet`, with `BreakpointsProofs`. Done.
3. `CalcPipeline`, with `MCCalcPipeline` and `CalcPipelineProofs`: the JSON stream and the calc
   model over a file, against the file as it should be read. Done.
4. `InsnStream`, an abstract specification, and `StreamProofs`: under the model's contract
   `Simulation` implements it. Done.
5. `Session`, composed with `Simulation`, with `SessionProofs`. Done.
6. `Commands` over `ParseArgs`: parser, schema, validators, registry and dispatch, with
   `MCCommands` and `CommandsProofs`; `Subscribers` with `SubscribersProofs`. Done.
7. The data centre (inventory and logger): dropped, since the code does not run (section 7).

8. `FoldFacts`, for proofs about the folds of `ParseArgs` and `CalcPipeline`. Done.

Every invariant and action property of the runs is now also a theorem. What could follow: for `LinesServed`
and `ResponsesHeard` what `PipelineEnds` and `FileExecutedAtRest` are for `FileExecuted` and
`StepHasAnswerer` is for `CommandAnswered`, the facts from which fairness brings it about; a session whose user also types
`::bp` and `::delete`; `calc` with input from the terminal; `div`.

## 3. Modules

### Simulation

One action is one turn of the event loop: a dispatched command, a `_transform()` of the
engine, a call of the model's callback, an event of the input. The exceptions are the handlers
that emit an event and then go on. These are split at the emission, and `frame` names
the handler that still has to finish:

| `frame` | emission | the rest |
|---|---|---|
| `set-next` | suspend, 1001 | `SetNextReturn`, 1005-1006 |
| `insn-done` | insn-done, 197 | `InsnDoneReturn`, 200-202 |
| `insn-error` | insn-error, 177 | `InsnErrorReturn`, 178-180 |
| `insn-trap` | suspend, 187 | `InsnTrapReturn`, 191-193 |
| `model-error` | model-error, 1136 | `ModelErrorReturn`, 1137 |
| `terminate` | suspend, 1119 | `TerminateReturn`, 1121-1126 |

While `frame` is not `none`, only a command can come, and only if the frame is in the constant
`Reentrant`; the constant says which events have listeners that issue commands (for
`insn-done`, `insn-error` and `insn-trap` it also stands for the command queued behind a `::step`).
`resume` (951) and the suspend events of `::stop` and of `_exec_next()` need no frame: in the
first two the command that caused them is still pending, so no other is dispatched, and the last
is followed by nothing.

State, and the field of the code it stands for:

| Variable | Code |
|---|---|
| `running`, `stop`, `done`, `model` | `_running`, `_stop`, `_done`, `_model` |
| `sim_pending`, `sim_executing` | the fields of that name, with the run and address of the instruction and its flag `trap` |
| `engine` | `_engine` and `_input`, as the number of the run they belong to |
| `busy` | the engine has not called the `done` of its `_transform()` |
| `fetched`, `runs` | the input streams: how much the current one delivered, how many there were |
| `bptbl` | the keys of `_bptbl` |
| `ctl_pending` | what the pending command waits for: `reply` (a `setImmediate`), `init` (the model), `step` (an instruction), or `idle` for null |
| `inflight` | the callbacks that models still owe, per run |
| `owed` | the run of the engine whose `done()` the handler in `frame` will call |
| `fault` | the assertion or exception that killed the process |
| `owner`, `retired` | history variables for properties |

The assertions of the code are modelled as what they do: an uncaught exception in a handler
kills the process, so the action sets `fault` and nothing more happens. (That is also why the
configurations do not check for deadlock: the system may really stop, and a client may really
stop sending commands.)

Abstractions. Output of the model and response texts are left out. A model answers in a later turn, as
`CT_model.js:139` demands. The input of any run may report errors at any time and in any number, also after
its end: `set_input_error()` (1129) does not ask, and `jsonstream.js:70` makes it happen (a null, then an
object). The `end` of an input that the engine has been unpiped from does not occur (nothing reads it any
more). Addresses are the positions in the input, as both models in the repository number them.

### InsnStream

What a client may rely on, in three variables: the state of the simulation, the set of addresses
that execute, and the address that comes next. `Simulation` maps to it by

* `state <- SimState`: `inactive` without an engine; `ending` while a handler of an error or of the
  termination still has to finish; otherwise `running` or `suspended`;
* `current <- Current`: the address in `sim_executing`, if there is one;
* `next <- Position`: how many instructions of the current input retired, from `retired`.

`StreamSpec` says so on the condition `Strict`: models give one result to an instruction, inputs
and `create()` do not fail, and nobody answers the suspend event of `_terminate()` with a command.
Where one of them is missing the refinement fails, for the reasons given in section 4.

### Breakpoints and BreakpointSet

`Simulation` keeps only the keys of `_bptbl`. `Breakpoints` models what is behind: the array
`_bplist`, whose index is the id that `::events` shows, the table, and an address as a *text*
with a number and a spelling, since `::bp` takes the number (`parseInt`, 413) and `::delete`
the spelling (495). `BreakpointSet` is what the tables are meant to be, a set of addresses that each
command changes by its operand: `::bp` adds the number its text denotes, `::delete` takes it out if the text
is the plain spelling of an address in the set, and is refused otherwise. `cmd` and `answer` (the last command with its text, and how it was
answered) are variables of both modules for that reason. `ArmedSpec` says that `Breakpoints` implements it
under the mapping `armed <- DOMAIN bptbl`, which is the `bptbl` of `Simulation`.

### Session

`Session` extends `Simulation`: its controller, engine, input and model are those, and the only
client is the pipe of `CT_session.js`:

| Variable | Code |
|---|---|
| `rl_paused`, `prompted` | readline was paused (45-48) and not resumed since; a prompt is on the line |
| `cli` | the buffer of the command source: what its `push()` (46) could not pass on |
| `cs` | `CT_cmdstream`: `free`, the line it holds, or `parsed` while its `done()` is due |
| `ctl_queue` | the writable buffer of the control stream, with the `::attach` of `bin/ctc.js` first |
| `exited` | `process.exit()`, by `::quit` or the end of the terminal's input |
| `heard`, `served` | history variables |

The platform's streams are modelled by their contract: a source with a consumer that waits passes
a push on at once and returns true; what it must keep makes `push()` false, which pauses readline;
`_read()` is called when its buffer has been emptied and resumes readline. A pause
does not recall the lines and ^Cs of a burst that were read with the one that caused it (`MaxBurst`), and
an empty line among them prompts all the same.
A response prompts and resumes only if the simulation is not running when it comes (166-170), a
suspend event always. `Dispatch` takes a command when the control stream is free, also in
the middle of the handler that answered the one before: that is what `Reentrant` is for in
`Simulation`. Left out: what is printed.

### ParseArgs and Commands

`ParseArgs` is `parse_args()` over characters: a loop with its start, its quote flag and its
arguments, as a fold, and for a text without a quote `split()`. Its blank stands for the space and the tab.
Other white space is left out: `split(/\s+/)` cuts there too, the loop for quoted texts does not. `Reference` says the same without a loop: a
blank separates if the quotes before it are balanced.

`Commands` follows a line, or an object another program writes to the control stream, to the
call of a handler. A command is a record of the properties the object has, with `Absent` for one it
lacks and `Null` for null; the long and the short form of a line differ in that for `addr`
(long: null; short: undefined), and the validators ask for one or the other. `commands` is
`_commands`, a name's descriptor with its context. `StartUp` registers the descriptors in the order
of `std_scmds` and then `::quit`; models register theirs between `Require` and `Create`, in any number
and whether or not they are attached in the end. So a model that is attached a second time is
refused its own commands, which stay with the instance that was thrown away; `NamesKept` states
that as what the code does. `Inherited` stands for names every JavaScript object answers to: they count as
registered (1173-1180), and as the address of a `::delete` they fail its assertion. `Verdict`
is `_dispatch()` to the handler. A model's command may have any validator (1167 accepts every function), which the
constant `ModelAccepts` stands for; only the two private ones of `::bp` and `::delete` are out of its reach. What the handlers do then is in `Simulation` and `Breakpoints`.

### Subscribers

The two counters (757-811), the handlers `_emit_ctl` and `_emit_sim` they attach, and the readable
sides of the two streams: one that flows hands what it holds to its handlers or loses it, one that
does not keeps it. `left` remembers that a consumer left another behind, after which the
control stream is paused (791). Left out: that a stream nobody reads takes no further
command once its buffer is full.

### CalcPipeline

One run of `models/calc.js` over a file: lines, `JSONStream`, `CalcInsnStream`, the engine and
`exec()`. The controller appears only as what calc sees of it: an engine that takes the next
instruction when the last has reported (`Exec`), the callback (`Report`), the end of the
input (`End`) and `set_input_error()` (`Break`); nobody stops the simulation here, that is
`Simulation`'s business. What the module adds is what comes in from outside:

* A text is a sequence of *pieces* (the opening of an object with its op, the value and the
  closing, a literal null): enough to tell an object on one line, an object over several lines,
  two objects on one line and leftovers apart. `Parses` is `JSON.parse()` on them.
* The pipeline reads ahead of the engine, by an amount that Node's buffers decide; here it may
  be any amount, so an error at the end of the file can come at any instruction.
* A null that parses ends the stream (71: `push(null)`); what parses afterwards is an error.

`js_accum`, `pc`, `accum` and `done` are `js_accum`, `_pc`, `_accum` and `_done`; `queue` is what
the streams between hold; `result` is what the timer or `setImmediate()` will report; `flushed`
and `unread` are about lstream, an external library, taken to deliver the lines of the file.
Left out: input from the terminal, a file that cannot be opened, `div`.

### FoldFacts

No model: what the left fold and the flattening of the community modules compute when a sequence grows
by one element, and induction over the natural numbers, for the proofs in section 6. The operator
folded with is a constant, so that a proof takes an instance for its own.

## 4. Runs

Passing runs:

| Run | Specification and bounds | Shows |
|---|---|---|
| `anything` | `Spec`; 2 models, 2 runs of 3 instructions, every command, every result and failure, re-entrance at every event; 846 thousand states | `SlotDiscipline`, `SuspendedIsIdle`, `NoLostInsn`, `FrameDiscipline`, `StepArmed`, `BreakpointHonoured`, `StopHonoured` hold whatever the clients, models and inputs do, broken ones included |
| `contract` | `Spec`; 2 models, 3 runs of 3 instructions; no interim data, no failing input or `create()`, listeners issue commands from all events but the suspend of `_terminate()` | `CallsMatchSlot`, `CallbackAccepted`, `ExecutedByOwner`, `RunningHasEngine`, `RetiredInOrder`, `StartedInsnReported`; together, that it implements `InsnStream` (`StreamSpec`) |
| `answered` | `FairSpec`; 1 model, 2 runs of 3 instructions, failing `create()` and `init()`, re-entrance at every event that can occur; no breakpoints, no traps, no errors of the input | `CommandAnswered`, `EndTerminates` |
| `breakpoints` | `Spec` of `Breakpoints`; the addresses 0 and 1 in 2 spellings and NaN, 5 slots | `TableMatchesList`, `ArmedSpec`, `TrapOnlyAtBreakpoint` |
| `calc` | `FairSpec` of `CalcPipeline`; every file of up to 4 lines out of 10: an empty one, whole objects of 4 kinds, halves of objects, a half that closes one and opens the next, two objects on a line, null | `OutputFollowsFile`, `MalformedReported`, `FlushNeverPushes`, `FileExecuted` |
| `session` | `SessionFairSpec`; 1 model, 2 runs of 2 instructions, 4 lines or ^Cs in bursts of up to 2, out of `::run`, `::cont`, `::step`, `::quit` and one that does not parse, with and without an `::attach` before them; models that fail and that trap; no `::bp`, no errors of the input; 1.3 million states | `PausedHasBacklog`, `LinesConserved`, `PromptWhenQuiet`, `LinesServed` |
| `commands` | `Spec` of `Commands`; every name, long, short, with an address or none, operands of up to 2 characters, of up to 5 for `::attach`; injected objects with every absence; 2 instances of models that may register 3 commands, one for itself, one with a taken name, one with a name of the first | `ArgsAsReference`, `AllOrNothing`, `StdRegistered`, `OperandsPresent`, `FormsAgree`, `NamesKept` |
| `subscribers` | `FairSpec` of `Subscribers`; 3 consumers, 2 responses, 2 engines | `HandlersMatch`, `NothingLost`, `ResponsesHeard` |

The bounds. Two runs let state of a finished run (late callbacks, late errors) meet the
next; a third lets one pass over an engine in between. Three instructions give a first, a
middle and a last one, so that every slot, a deferred suspend and a breakpoint can meet both a
successor and the end. Two models are needed to hand an engine from one to the other. Five
slots let one address be set twice, deleted and set again beside another. `MaxRuns`,
`MaxInsns` and `MaxSets` bound the guards of `RunCmd`, `Fetch` and `Bp`, `MaxLines` the files of
`CalcPipeline`: four lines are enough for a whole object, an object over two lines and a
malformed line after them, or for a null between whole objects. In `session` four lines fill
every place of the pipe (the source, the parser, the control stream and the command in progress),
and a burst of two is the least that arrives in spite of a pause; `MaxLines` bounds `TypeLines`.
The addresses of `breakpoints` are two numbers that a wrong radix confuses: read as decimal, `0x1` is 0. Five characters hold a quoted argument with a blank in it between others.
Of three consumers one may join and one leave while one stays; two engines let listeners meet one
that was made before and one after they came. `MaxInstances`, `MaxResponses` and the `MaxRuns` of
`Subscribers` bound `Require`, `Respond` and `InitDone`.

What the configurations leave out, they leave out because the property fails there for a reason
that is documented here: `contract` excludes interim data and failing inputs because a late
callback then kills the process (`interim_data`), failing `create()` because of
`failed_attach`, and the suspend event of `_terminate()` because a `::cont` issued there runs
ahead of the rest of the handler. `answered` excludes breakpoints and traps because of
`step_onto_breakpoint`, and errors of the input because a `::step` whose instruction such an error drops is
answered by nothing: what follows is the late callback that kills the process, and the model lets errors
come before it without end. `session` leaves out errors of the input for the same reason, and `::bp` because
its mark does to a `::step` what the mark of a trap does, which is in the run.

Some properties name the case in which the code does not keep them:

* `EndTerminates` excepts a simulation whose model a failed `::attach` forgot (369): at the last insn-done
  `_terminate()` returns at 1113 and the engine stays.
* `LinesServed` excepts `StepHeldUp`: a `::step` that found its instruction marked by a trap suspends at
  once and is never answered, so every later line and ^C waits for good. A `::step` of any other
  instruction, and everything else, lets the lines through.
* `MalformedReported` exempts files with a null literal: it ends the stream (`jsonstream.js:70`), so what
  follows is not reported if only nulls do, or if the simulation is over by then. `OutputFollowsFile` covers them.
* `FormsAgree` excepts commands with a validator of their own, which may tell null from undefined as it likes,
  and the bare `:b`.
* `OperandsPresent` excepts the bare `:b` and the inherited names.
* `ResponsesHeard` excepts listeners that another left behind, because they hear nothing.

Runs that refute a statement of the repository:

| Run | Refuted | How |
|---|---|---|
| `step_onto_breakpoint` | every command is answered (117-119) | `::step` while the pending instruction is marked: `_exec_next()` suspends with no insn-trap event |
| `late_end` | "Every simulation eventually terminates" (`CT_model.js:208`) | the end of the input comes after the last instruction retired, or the input is empty |
| `interim_data` | the callback may be called any number of times (`CT_model.js:128-134`) | a call with data clears `_sim_executing` (170); the one that says done takes null for the instruction and dies by a TypeError at 198 (the assertion at 167 lets null pass, as assert-plus ~0.1.4 does) |
| `failed_attach` | an attached model that does not run is thrown away (351-352) | a failed `::attach` nulls `_model` but keeps the engine; the next model executes its instructions |

Other behaviour at odds with what the code says, met while modelling and without a run:

* A failed `::attach` while the last instruction executes sets `_model` to null (369), so that the end of
  the input ends nothing: `_terminate()` returns at 1113, and the simulation never terminates, though
  `CT_model.js:208` says that every one does (`EndTerminates` excepts it; the cause is that of `failed_attach`).
* A mark stays on the pending instruction when its breakpoint is deleted (488-515): the simulation stops there once.
* `::run`, `::stop`, `::run`: the second `::run`, "run simulation from the beginning" (856), finds
  `_input` still there and fails the assertion at 584 (`fault` in `Simulation`).
* An address set twice and deleted once leaves a slot that `::events`, "list traced events" (850),
  still shows; it is traced no more.
* `0x10::bp` sets a breakpoint at 16; `0x10::delete` finds none ("no breakpoint matched addr", 497).
* Lines typed ahead are executed while the simulation runs, although `CT_session.js:92-107` says that
  no command can be given then: a `::run` and a `::cont` in one burst.
* The end of the terminal's input exits at once (`CT_session.js:122`), with lines accepted and not served.
* When one of two listeners of ctl-response leaves, the stream is paused for the other (791).
* The command `__proto__` is found in `_commands` (1213), and the call of its handler throws; a
  `::delete` of an address like `constructor` fails an assertion.
* An injected `{ scmd: 'delete', args: ['all'] }` without an `addr` is refused.
* `set_input_error()` while an instruction executes drops it (1117): it gets neither of the two
  events that 65-68 promise for every started instruction, unless the error of the input counts as
  the fatal model error that excuses it.
* In `calc`, that makes a malformed end of a file kill the process if an instruction waits for
  its timer: the timer's callback finds `_sim_executing` null (`fault` in `CalcPipeline`).
* Data that come with an error are pushed to the output (172), though `CT_model.js:136-137` says
  that they are ignored; calc's unknown opcodes come with data.
* `::run` without arguments makes calc return no input of its own (98-99); the controller
  takes its standard input, which gives no instructions but pieces of text.
* `::step` on a simulation that was stopped before its first instruction arrived fails the
  assertion at 954 (`fault = "step"`).
* A `::cont` that a listener of the suspend event in `_set_next()` injects executes the
  instruction at once; the assertion at 1006 then fails (`fault = "resumed"`).
* A `::cont` injected from the suspend event of `_terminate()` leaves a simulation that runs
  without an engine, and that refuses `::run`, `::cont` and `::step`.
* `CT_model.js:84-87` says that commands are executed only while no instruction executes;
  `_dispatch()` does not check.
* The flag `_bp` of an instruction is never cleared, so a trap of the model after a
  breakpoint is reported as a breakpoint (188).
* After a trap of the model the instruction is marked to trap again, so it takes two `::cont`
  to get past it.
* `:b` with no operand passes `scmd_bp_vtor()` (387 tests `args` for `addr`) and throws.
* `foo::bp`, then `NaN::delete`, fails the assertion at 501.
* `::delete` with an id is refused always: the schema lets arguments be strings only, and the
  validator wants a number.

## 5. Fairness

`FairSpec` assumes weak fairness of: the rest of a handler, since it runs in the same turn;
`Reply`, `InitFails`/`InitDone`, callbacks the event loop or the model will make; `Fetch` and
`InputEnd`, a stream that has data delivers it and one that has none left ends; and,
for each run, the last result of an instruction the model was handed, which `CT_model.js:131`
demands. `Fetch` being fair also assumes that somebody consumes the output (`model-data`):
without a listener the engine's buffer fills up. `FairSpec` of `CalcPipeline` assumes
the same of a file, an engine and the timers of `exec()`. `SessionFairness`
repeats that for the composition and adds the pipe, streams that pass on what they hold; the
terminal is not fair, the user types what and when he likes. `FairSpec` of `Subscribers` assumes that the
platform reads a stream that flows. Nothing is assumed of clients: no command is fair.

## 6. Proofs

`SimulationProofs`, for every set of models, every `MaxRuns`, `MaxInsns > 0` and every choice of
commands, results, failures and points of re-entrance. The assumptions are those on the
constants in `Simulation` (`ModelAssumption`, `BoundAssumption`, `ClientAssumption`).

* `InvHolds`: the conjunction `Inv` of `TypeOK`, `SlotDiscipline`, `SuspendedIsIdle`, `NoLostInsn`,
  `StepArmed`, `FrameDiscipline` and `Bookkeeping` (what the model's own variables are about) is inductive. None of the parts is so on its own. A fetch
  finds both slots empty only because no handler owes a `done()` to an engine whose slots are in
  use (`FrameDiscipline`: the slots are still empty when a handler goes on after its event, and it ends a `_transform()`
  that is open, so no instruction is answered with two `done()`s); a deferred suspend that becomes due at the fetch really suspends only
  because nothing else is executing; `NoLostInsn` needs `SuspendedIsIdle` when `_resume()` hands
  over the pending instruction, and both need to know that `_stop` is clear while suspended.
  `run anything` checks the same conjuncts on the small instance. There is a lemma for
  `_exec_next()`, `_resume()` and `_terminate()` each, used by every action that calls them.
* `SlotsDisciplined`, `SuspendedStaysIdle`, `NoInsnLost`, `StepStaysArmed`, `FramesDisciplined`,
  `TypeCorrect`: its parts.
* `BreakpointsHonoured`, `StopsHonoured`: the action properties; in a running simulation only
  `_set_next()` starts an instruction, with nothing marked and no suspend deferred.
* `CallsMatch`, `CallbacksAccepted`: under `Contract` (no interim data, no input errors) the
  callbacks owed are exactly those of the executing instruction, hence none finds the slot empty.
* `StepWaitsFor`: under `Contract`, with every command, breakpoint and point of re-entrance, an unanswered
  `::step` waits for an instruction that executes or traps, or it was issued on a marked one, which the
  simulation has suspended at without an event. So run `step_onto_breakpoint` shows the only
  way in which a `::step` goes unanswered under the contract.
* `StepHasAnswerer`: without breakpoints and traps (`Unmarked`, as in run `answered`) the instruction
  executes and the model owes its one result: `CommandAnswered`, for `::step`, but for fairness.

`StreamProofs`, with the same generality, for the properties of run `contract`:

* `ImplementsStream`: under `Strict` every step of `Simulation` is one of `InsnStream` or a stutter.
  The invariant needed beside `Inv` relates the slots to the input and the engine to the model: the
  instruction in a slot is the first that is not retired and the last that was fetched, an
  empty slot means that what was fetched is retired, and an engine belongs to the attached model. Commands from the suspend event in `_set_next()` are covered: the assertion
  at 1006 kills the process when one has resumed the simulation, before anything is out of order.
* `EngineOfRunning`, `OwnerExecutes`, `InOrderRetired`, `StartedReported`: the parts.

`SessionProofs`, for any lines, bursts and bounds:

* `SessionIsSimulation`: every behaviour of a session is one of `Simulation`, so that (`SessionSafe`)
  all that is proved above holds in a session.
* `TerminalHears`, `SessionPrompts`, `SessionTyped`: the conjunction `SessionInv` of the three is
  inductive. A prompt is owed only when the pipe is empty and nothing runs; the last thing to come
  then, a suspend, a response or a parse-error, prompts because `running` was already false.
* `LinesKept`: `heard` is `served` followed by what is in the pipe. Inductive with two facts more:
  the source is empty when the parser is free (else a line that passes at once would overtake
  those that wait), and an `::attach` is only at the head of the queue.

`CommandsProofs`, for any lines, injected commands and commands of models, and any number of instances:

* `BindingsStay`, `AliasesTogether`: a name once bound stays bound, and the names of a command come
  together. Both by what `register_scmd()` can do to the table, nothing or all.
* `StandardCommandsKept`: "no errors are possible here" (890-896); since no two descriptors share a
  name, and no other code has registered any before the start-up is over.
* `HandlersSpared`: `OperandsPresent`. By the two theorems before, a command that answers to `bp` or
  `delete`, by whatever alias, has the simulation's own descriptor, hence its validator; and
  a command of the shape the parser or a program gives it, that passed it, has its operands. It
  rests on `LineForms` and `InjectedShape`: a line has one of four forms, and `args` is a list,
  null or absent.

`SubscribersProofs`, for any finite set of consumers: `HandlersFollow` and `ResponsesKept`. The second
needs that a stream flows only with its handler attached.

* `ShortAsLong`: `FormsAgree`. The two forms differ only in `addr`, undefined or null, which only the
  validators of `bp` and `delete` could tell apart. No alias of `delete` is short, and the validator of
  `bp` reads `addr` only beside operands. Inductive is that a name in the table is one
  of its command's own; the theorem rests on what the regular expression of a short
  line can spell (`LineForms`) and on models not having the simulation's private validators
  (`ModelValidators`: they are not exported). Commands with a validator of their own are excepted.
* `ParseArgsIsReference`: for every text `parse_args()` computes `Reference`, by induction over the
  text. `ScanInv` says what the loop has after m characters: whether the quotes so far are
  balanced, that the argument it is in begins behind the last separator, and that its arguments are
  the pieces that ended. The step has a case for a quote, for a blank that separates, for one that does
  not, and for any other character. A text without quotes is the case where every blank separates.
* `ArgsAsTyped`: hence `ArgsAsReference`, for lines of any length.

`BreakpointsProofs`, for any set of addresses: `TypeCorrect`, `TablesMatch`, the two tables agree;
`TablesAreASet`, they implement `BreakpointSet`, each command by its own operand; `TrapsAtBreakpoints`, an instruction is marked only
while the table has its number, both for the lookup at the fetch and for a `::bp` that comes later.

`CalcPipelineProofs`, for files of any lines made of pieces (`LineAssumption`):

* `FlushDead`: the text left over at the end of a file never parses, so the `push()` in `_flush()` is
  dead code.
* `TypeCorrect`: it needs that as many numbers are left as lines are unread.
* `KilledByBroken`: the last part of `MalformedReported`. Unless the input broke, a result is due
  exactly while an instruction executes.
* `OutputIsChained`: however far the pipeline reads ahead, the output is numbered without a gap and
  each datum begins with the accumulator that the one before has left. Inductive
  with `InStep`: the queue continues the numbers of what was executed, and the accumulator is what
  the last datum, or the pending result, says. It holds without mentioning the file.
* `OutputIsFiles`: `OutputFollowsFile`. `FollowInv` adds to the chain that what was parsed is
  the beginning of the file's text (`ReadInv`: the text of the lines that were read is two pieces for
  each object that came out, then `js_accum`; the n-th in the queue is the n-th object of the file) and
  that the accumulator is the value of the objects executed so far (`ValueInv`). Both speak of folds over the
  file, so each step of the pipeline is a step of `FoldFacts`.
* `MalformedIsReported`: `MalformedReported`, for files without a null the equivalence, for all others the part that
  concerns the death of the process and well-formed files. `BreakInv` says of a prefix of the file what the
  property says of the whole: until the file ends nothing is reported, and either the text read so far is
  whole objects and at most the opening of one (`SoFarGood`), or the file is malformed and something is
  left in `js_accum` that will never parse (`SoFarBad`).
* `PipelineEnds`: every step decreases `Left`, which counts the lines to read, the instructions to
  execute and to report and the two ends. It begins with four per line and two, so no run of calc over a
  finite file goes on for ever, under any scheduling.
* `FileExecutedAtRest`: when the file was read and nothing is queued or executing, a
  well-formed file of executable objects was executed to its last, and the accumulator has its value.
  With `PipelineEnds` this is `FileExecuted` but for the fairness that takes each step.
  Needed beside `FollowInv` and `BreakInv`: only the end of the file takes the engine away (`EngineInv`).

`FoldFacts`. The induction theorems of the library have an operator for a parameter, which the
provers cannot instantiate. `NatSetInduction` is induction for a *set* of numbers, from the minimum that a
well-founded relation gives every set that is not empty; with it what is to be proved of n becomes
`{n \in Nat : ...}`. `FoldEmpty`, `FoldStep`, `FlattenStep` and `FlattenType` are what the
definitions of the community modules give for a sequence with one element more.

Only model-checked is liveness (`CommandAnswered`, `EndTerminates`, `FileExecuted`, `LinesServed`,
`ResponsesHeard`): it needs fairness and ENABLED, which are beyond this proof system. All the other
properties of the passing runs are theorems.

## 7. Not modelled

* The data centre. It is unfinished code no execution gets through: `dc.js` and `vm.js` export nothing, so no
  data centre and no virtual machine can be made; a VM never gets the uuid by which `cn.js`
  would file it; `remove_vm()` takes the index for the VM and throws (`cn.js:99`), and the indices of the
  VMs and nodes behind a removed one are stale. `glue.js` calls `mod_dc.create()`, which does not
  exist, when it is given a file; its logger stream leaves a `done` uncalled for records that
  it defers (121), and its `exec()` throws on its success path (239) and never clears the
  instruction in progress (219). A model of either would be a model of what the code does not do.
  `insns.js` is empty.
* The standalone driver's `standalone_postattach()`, which prints or aborts the process.
* In `calc`: input from the terminal, a file that cannot be opened, more than one argument, `div`.
* Texts, prompts and formatting; the internals of Node's streams beyond their contract.
* `tools/`, the build; `test/`, which says nothing about the program.
