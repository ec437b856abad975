------------------------------ MODULE Commands ------------------------------
(***************************************************************************)
(* From a line, or an injected object, to a handler: parse_cmd() of        *)
(* lib/CT_cmdstream.js, the schema of lib/CT_schema.js, the registry of    *)
(* commands and _dispatch() of lib/CT_simulation.js with the validators it *)
(* calls, and the models' own commands, registered while attach creates    *)
(* them.  What the handlers do to the simulation is in Simulation and      *)
(* Breakpoints: here they answer, throw or end the process.                *)
(*                                                                         *)
(* A command is a record of the properties the object has: Absent is one   *)
(* it lacks, Null one that is null.  Inherited stands for a name that      *)
(* every JavaScript object answers to ("constructor" is a function,        *)
(* "__proto__" an object).                                                 *)
(***************************************************************************)
EXTENDS ParseArgs, FiniteSets

CONSTANTS
  Lines,         \* what is typed: [form, addr, scmd, text]
  Injected,      \* the commands other code writes to the control stream
  ModelScmds,    \* the descriptors a model may register in its create()
  ModelAccepts(_, _),  \* if a validator of a model's own accepts a command
  MaxInstances   \* the number of instances attach makes

VARIABLES
  registered,    \* how many of Descriptors the start-up has registered
  commands,      \* _commands: a name's descriptor and the ctx it runs in
  model,         \* _model: an instance, or NoModel
  instances,     \* the number of instances create() was called for
  pending,       \* the line and its command, from parse to answer, or None
  outcome        \* how far it has got

vars == <<registered, commands, model, instances, pending, outcome>>

Null == "null"
Absent == "absent"
None == [form |-> "none"]
Self == 0        \* the simulation as ctx; instances are numbered from 1
NoModel == 0
Inherited == {"constructor", "__proto__"}

(* Names that the short forms, ":" or "$" and a letter, cannot spell.      *)
LongNames == {"attach", "bp", "cont", "delete", "events", "run", "scmds",
              "status", "step", "stop", "quit"}

ASSUME LineForms ==
  \A line \in Lines :
    /\ line.form \in {"long", "format", "short", "other"} /\ line.text \in Seq(Char)
    /\ line.form = "short" => line.scmd \notin LongNames

(* A model's command has no validator, or any function: one that does what *)
(* scmd_noargs_vtor() or scmd_attach_vtor() does, or one of the model's    *)
(* own.  It cannot have those of ::bp and ::delete, which are private.     *)
SimVtors == {"none", "noargs", "attach", "bp", "delete"}
ASSUME ModelValidators == \A d \in ModelScmds : d.vtor \notin {"bp", "delete"}

List(args) == [is |-> "list", list |-> args]
NullArgs == [is |-> Null, list |-> <<>>]
AbsentArgs == [is |-> Absent, list |-> <<>>]

Shaped(cmd) == cmd.args.is = "list" \/ cmd.args \in {NullArgs, AbsentArgs}
ASSUME InjectedShape == \A cmd \in Injected : Shaped(cmd)

-----------------------------------------------------------------------------
(* The registry.                                                           *)

D(str, aliases, vtor) == [names |-> {str} \cup aliases, vtor |-> vtor]

(* std_scmds, in the order of the constructor, and ctc.js's own.           *)
Descriptors ==
  << D("$a", {}, "none"), D("attach", {":A"}, "attach"), D("bp", {":b"}, "bp"),
     D("cont", {":c"}, "noargs"), D("delete", {}, "delete"), D("events", {}, "noargs"),
     D("run", {":r"}, "none"), D("scmds", {}, "noargs"), D("status", {}, "noargs"),
     D("step", {}, "noargs"), D("stop", {}, "noargs"), D(":z", {}, "noargs"),
     D("quit", {"$q"}, "none") >>

Bind(cmds, names, entry) ==
  [n \in DOMAIN cmds \cup names |-> IF n \in names THEN entry ELSE cmds[n]]

RegisterRest(cmds, d, ctx) ==  \* mutant: refuses the taken names only
  Bind(cmds, d.names \ DOMAIN cmds, [scmd |-> d, ctx |-> ctx])
RegisterOver(cmds, d, ctx) ==  \* mutant: does not look whether a name is taken
  Bind(cmds, d.names, [scmd |-> d, ctx |-> ctx])
Register(cmds, d, ctx) ==
  IF d.names \cap (DOMAIN cmds \cup Inherited) # {} THEN cmds
  ELSE Bind(cmds, d.names, [scmd |-> d, ctx |-> ctx])

-----------------------------------------------------------------------------
(* Parsing and validation.                                                 *)

Args(text) == IF text = <<>> THEN NullArgs ELSE List(parse_args(text).args)

ParseError(line) == line.form = "other" \/ (line.text # <<>> /\ parse_args(line.text).err)

(* The object that is pushed: only [addr]::scmd sets addr to null, and     *)
(* addr/f and addr=f have no scmd.                                         *)
parse_cmd(line) ==
  CASE line.form = "long" ->
         [scmd |-> line.scmd, addr |-> line.addr, args |-> Args(line.text)]
    [] line.form = "format" ->
         [scmd |-> Absent, addr |-> line.addr, args |-> Args(line.text)]
    [] line.form = "short" ->
         [scmd |-> line.scmd, addr |-> Absent, args |-> Args(line.text)]

(* sScmd: a name, and no empty string anywhere.                            *)
Malformed(cmd) ==
  cmd.scmd \in {Absent, ""} \/ cmd.addr = "" \/ <<>> \in ToSet(cmd.args.list)

NoArgs(cmd) == cmd.args.list = <<>>
(* "addr === null || args === undefined", in the validators of bp and      *)
(* delete.                                                                 *)
NoAddr(cmd) == cmd.addr = Null \/ cmd.args.is = Absent

(* What each of the validators accepts.                                    *)
NoargsForgetsNull(cmd) ==  \* mutant: asks only whether addr is undefined
  NoArgs(cmd) /\ cmd.addr = Absent
Noargs(cmd) == NoArgs(cmd) /\ cmd.addr \in {Null, Absent}

DeleteTakesAny(cmd) ==  \* mutant: the usage is not asked for
  NoArgs(cmd) \/ cmd.args.list[1] = <<"all">>
Delete(cmd) ==
  /\ ~(NoArgs(cmd) /\ NoAddr(cmd))
  /\ NoArgs(cmd) \/ cmd.args.list[1] = <<"all">>
  /\ NoAddr(cmd) \/ cmd.addr # Absent

Accepts(vtor, cmd) ==
  CASE vtor = "none" -> TRUE
    [] vtor = "noargs" -> Noargs(cmd)
    [] vtor = "attach" -> ~NoArgs(cmd)
    [] vtor = "bp" -> ~(NoArgs(cmd) /\ NoAddr(cmd))
    [] vtor = "delete" -> Delete(cmd)
    [] OTHER -> ModelAccepts(vtor, cmd)

-----------------------------------------------------------------------------
(* What reads an operand that is not there: args[0] of null in             *)
(* scmd_bp_hdlr() and scmd_delete_hdlr(), and the assertion of the latter  *)
(* on a slot that is not a number.                                         *)
HandlerThrows(str, cmd) ==
  \/ /\ str = "bp" /\ model # NoModel
     /\ cmd.addr \in {Null, Absent} /\ cmd.args.is # "list"
  \/ /\ str = "delete"
     /\ \/ cmd.addr \in Inherited
        \/ cmd.addr \in {Null, Absent} /\ cmd.args.is # "list"

Is(str, n) == n \in DOMAIN commands /\ str \in commands[n].scmd.names

(* _dispatch(), to the point where the handler is called.                  *)
Verdict(cmd) ==
  CASE Malformed(cmd) -> "malformed"
    [] ~Malformed(cmd) /\ cmd.scmd = "__proto__" -> "threw"
    [] ~Malformed(cmd) /\ cmd.scmd \notin DOMAIN commands \cup {"__proto__"} -> "unknown"
    [] ~Malformed(cmd) /\ cmd.scmd \in DOMAIN commands ->
         IF ~Accepts(commands[cmd.scmd].scmd.vtor, cmd) THEN "syntax"
         ELSE IF \E str \in {"bp", "delete"} : Is(str, cmd.scmd) /\ HandlerThrows(str, cmd)
              THEN "threw"
         ELSE IF Is("quit", cmd.scmd) THEN "exited"
         ELSE IF Is("attach", cmd.scmd) THEN "create"
         ELSE "answered"

-----------------------------------------------------------------------------
Init ==
  /\ registered = 0 /\ commands = <<>>
  /\ model = NoModel /\ instances = 0
  /\ pending = None /\ outcome = "none"

(* The constructor, then main(), before any command is read.               *)
StartUp ==
  /\ registered < Len(Descriptors)
  /\ registered' = registered + 1
  /\ commands' = Register(commands, Descriptors[registered + 1], Self)
  /\ UNCHANGED <<model, instances, pending, outcome>>

Ready == registered = Len(Descriptors) /\ pending = None

(* _transform() of the command stream; a line that is no command emits     *)
(* parse-error and that is all.                                            *)
Type(line) ==
  /\ Ready
  /\ pending' = [form |-> line.form, text |-> line.text,
                 cmd |-> IF ParseError(line) THEN <<>> ELSE parse_cmd(line)]
  /\ outcome' = IF ParseError(line) THEN "parse-error" ELSE "none"
  /\ UNCHANGED <<registered, commands, model, instances>>

inject_ctl(cmd) ==
  /\ Ready
  /\ pending' = [form |-> "object", text |-> <<>>, cmd |-> cmd]
  /\ UNCHANGED <<registered, commands, model, instances, outcome>>

_dispatch ==
  /\ pending # None /\ outcome = "none"
  /\ outcome' = Verdict(pending.cmd)
  /\ UNCHANGED <<registered, commands, model, instances, pending>>

(* scmd_attach_hdlr(): require() fails, or create() begins.                *)
Require ==
  /\ outcome = "create"
  /\ \/ outcome' = "answered" /\ model' = NoModel /\ UNCHANGED instances
     \/ instances < MaxInstances /\ instances' = instances + 1
        /\ outcome' = "creating" /\ UNCHANGED model
  /\ UNCHANGED <<registered, commands, pending>>

(* The model registers a command of its own from create(); it need not     *)
(* look at what register_scmd() returns.                                   *)
register_scmd(d) ==
  /\ outcome = "creating"
  /\ commands' = Register(commands, d, instances)
  /\ UNCHANGED <<registered, model, instances, pending, outcome>>

(* create() throws, or returns and _attach_impl() refuses the instance     *)
(* because a simulation runs or it is no object, or attaches it.           *)
Create ==
  /\ outcome = "creating" /\ outcome' = "answered"
  /\ \/ model' = NoModel
     \/ UNCHANGED model
     \/ model' = instances
  /\ UNCHANGED <<registered, commands, instances, pending>>

(* The response has been pushed: the stream takes the next command.        *)
Answer ==
  /\ outcome \in {"parse-error", "malformed", "unknown", "syntax", "answered"}
  /\ pending' = None /\ outcome' = "none"
  /\ UNCHANGED <<registered, commands, model, instances>>

Next ==
  \/ StartUp
  \/ \E line \in Lines : Type(line)
  \/ \E cmd \in Injected : inject_ctl(cmd)
  \/ _dispatch \/ Require \/ Create \/ Answer
  \/ \E d \in ModelScmds : register_scmd(d)

Spec == Init /\ [][Next]_vars

-----------------------------------------------------------------------------
(* Properties.                                                             *)

(* The operands a typed command is dispatched with are those its text      *)
(* reads as when quoting is defined by counting quotes: parse_args().      *)
ArgsAsReference ==
  pending # None /\ pending.text # <<>> /\ pending.form # "other" =>
    LET ref == Reference(pending.text)
    IN IF ref.err THEN outcome = "parse-error"
       ELSE outcome # "parse-error" /\ pending.cmd.args = List(ref.args)

(* Whatever models are attached, thrown away and attached again, no name   *)
(* is ever bound to another handler or taken away: "already registered".   *)
NamesKept ==
  [][\A n \in DOMAIN commands : n \in DOMAIN commands' /\ commands'[n] = commands[n]]_commands

(* A command can be called by all its names or, refused for one of them,   *)
(* by none: every name of a bound command is bound to that very command,   *)
(* with the same instance as context.                                      *)
AllOrNothing ==
  \A n \in DOMAIN commands :
    \A alias \in commands[n].scmd.names :
      alias \in DOMAIN commands /\ commands[alias] = commands[n]

(* "No errors are possible here because no one else could have registered  *)
(* any scmds before us": every standard command keeps the simulation as    *)
(* its context once the simulation is constructed.                         *)
StdRegistered ==
  \A i \in 1 .. registered : \A n \in Descriptors[i].names :
    n \in DOMAIN commands /\ commands[n] = [scmd |-> Descriptors[i], ctx |-> Self]

(* The validators keep from the handlers all that these cannot take: an    *)
(* exception ends the process only for a bare :b while a model is attached *)
(* (scmd_bp_vtor() asks for args where it means addr) and for an inherited *)
(* name, as a command or as the address of ::delete.                       *)
OperandsPresent ==
  outcome = "threw" =>
    \/ pending.cmd.scmd \in Inherited
    \/ Is("delete", pending.cmd.scmd) /\ pending.cmd.addr \in Inherited
    \/ Is("bp", pending.cmd.scmd) /\ pending.cmd.addr = Absent /\ pending.cmd.args = NullArgs

(* The name is bound to a command with a validator of a model's own.       *)
OwnValidator(n) == n \in DOMAIN commands /\ commands[n].scmd.vtor \notin SimVtors

(* :c and :::c are one command, the second a long line of the same name:   *)
(* that the short form leaves addr undefined, where the long form makes it *)
(* null, changes nothing but a bare :b and a command whose model validates *)
(* it with a function of its own, which may tell the two apart.            *)
FormsAgree ==
  pending # None /\ pending.form = "short" /\ outcome # "parse-error" =>
    LET cmd == pending.cmd
    IN \/ Is("bp", cmd.scmd) /\ NoArgs(cmd)
       \/ OwnValidator(cmd.scmd)
       \/ Verdict(cmd) = Verdict([cmd EXCEPT !.addr = Null])
=============================================================================
