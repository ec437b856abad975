--------------------------- MODULE CommandsProofs ---------------------------
(***************************************************************************)
(* The registry of Commands, for every set of lines, of injected commands  *)
(* and of models' commands, and any number of instances.                   *)
(***************************************************************************)
EXTENDS Commands, FiniteSetTheorems, TLAPS

(* What register_scmd() does to the table: nothing, or all the names of    *)
(* the descriptor join it, none of which was there.                        *)
LEMMA RegisterCases ==
  ASSUME NEW cmds, NEW d, NEW ctx
  PROVE  \/ Register(cmds, d, ctx) = cmds
         \/ /\ d.names \cap DOMAIN cmds = {}
            /\ DOMAIN Register(cmds, d, ctx) = DOMAIN cmds \cup d.names
            /\ \A n \in d.names : Register(cmds, d, ctx)[n] = [scmd |-> d, ctx |-> ctx]
            /\ \A n \in DOMAIN cmds : Register(cmds, d, ctx)[n] = cmds[n]
  BY DEF Register, Bind

LEMMA RegisterKeeps ==
  ASSUME NEW cmds, NEW d, NEW ctx, NEW n \in DOMAIN cmds, NEW new,
         new = Register(cmds, d, ctx)
  PROVE  n \in DOMAIN new /\ new[n] = cmds[n]
  BY DEF Register, Bind

(* A step leaves the table alone or registers one descriptor.              *)
LEMMA TableSteps ==
  ASSUME [Next]_vars
  PROVE  \/ UNCHANGED commands
         \/ \E d, ctx : commands' = Register(commands, d, ctx)
<1>1. CASE StartUp
  <2>1. commands' = Register(commands, Descriptors[registered + 1], Self)
    BY <1>1 DEF StartUp
  <2> QED BY <2>1
<1>2. CASE \E d \in ModelScmds : register_scmd(d)
  <2>1. PICK d \in ModelScmds : register_scmd(d)
    BY <1>2
  <2>2. commands' = Register(commands, d, instances)
    BY <2>1 DEF register_scmd
  <2> QED BY <2>2
<1>3. CASE \/ \E line \in Lines : Type(line)
           \/ \E cmd \in Injected : inject_ctl(cmd)
           \/ _dispatch \/ Require \/ Create \/ Answer \/ UNCHANGED vars
  BY <1>3 DEF Type, inject_ctl, _dispatch, Require, Create, Answer, vars
<1> QED BY <1>1, <1>2, <1>3 DEF Next

(* No step re-binds or removes a name.                                     *)
THEOREM BindingsStay == Spec => NamesKept
<1>1. ASSUME [Next]_vars
      PROVE  [\A n \in DOMAIN commands :
                n \in DOMAIN commands' /\ commands'[n] = commands[n]]_commands
  <2>1. CASE UNCHANGED commands
    BY <2>1
  <2>2. CASE \E d, ctx : commands' = Register(commands, d, ctx)
    <3>1. PICK d, ctx : commands' = Register(commands, d, ctx)
      BY <2>2
    <3>2. SUFFICES ASSUME NEW n \in DOMAIN commands
                   PROVE  n \in DOMAIN commands' /\ commands'[n] = commands[n]
      OBVIOUS
    <3> QED BY <3>1, RegisterKeeps
  <2> QED BY <1>1, <2>1, <2>2, TableSteps
<1> QED BY <1>1, PTL DEF Spec, NamesKept

(* All the names of a command, or none: an entry's aliases are in the      *)
(* table because register_scmd() enters them together, and are never       *)
(* re-bound because it refuses a name that is taken.                       *)
THEOREM AliasesTogether == Spec => []AllOrNothing
<1>1. Init => AllOrNothing
  BY DEF Init, AllOrNothing
<1>2. AllOrNothing /\ [Next]_vars => AllOrNothing'
  <2> SUFFICES ASSUME AllOrNothing, [Next]_vars PROVE AllOrNothing'
    OBVIOUS
  <2>1. CASE UNCHANGED commands
    BY <2>1 DEF AllOrNothing
  <2>2. CASE \E d, ctx : commands' = Register(commands, d, ctx)
    <3>1. PICK d, ctx : commands' = Register(commands, d, ctx)
      BY <2>2
    <3>2. CASE commands' = commands
      BY <3>2 DEF AllOrNothing
    <3>3. CASE /\ d.names \cap DOMAIN commands = {}
               /\ DOMAIN commands' = DOMAIN commands \cup d.names
               /\ \A n \in d.names : commands'[n] = [scmd |-> d, ctx |-> ctx]
               /\ \A n \in DOMAIN commands : commands'[n] = commands[n]
      <4> SUFFICES ASSUME NEW n \in DOMAIN commands',
                          NEW alias \in commands'[n].scmd.names
                   PROVE  alias \in DOMAIN commands' /\ commands'[alias] = commands'[n]
        BY DEF AllOrNothing
      <4>1. CASE n \in d.names
        <5>1. commands'[n] = [scmd |-> d, ctx |-> ctx] /\ alias \in d.names
          BY <3>3, <4>1
        <5> QED BY <3>3, <5>1
      <4>2. CASE n \in DOMAIN commands
        <5>1. commands'[n] = commands[n] /\ alias \in commands[n].scmd.names
          BY <3>3, <4>2
        <5>2. alias \in DOMAIN commands /\ commands[alias] = commands[n]
          BY <4>2, <5>1 DEF AllOrNothing
        <5> QED BY <3>3, <5>1, <5>2
      <4> QED BY <3>3, <4>1, <4>2
    <3> QED BY <3>1, <3>2, <3>3, RegisterCases
  <2> QED BY <2>1, <2>2, TableSteps
<1> QED BY <1>1, <1>2, PTL DEF Spec

-----------------------------------------------------------------------------
(* The start-up.                                                           *)

LEMMA NoSharedNames ==
  \A i, j \in 1 .. 13 : i # j => Descriptors[i].names \cap Descriptors[j].names = {}
  BY SMTT(60) DEF Descriptors, D

LEMMA NoInheritedNames ==
  Len(Descriptors) = 13 /\ \A i \in 1 .. 13 : Descriptors[i].names \cap Inherited = {}
  BY SMTT(60) DEF Descriptors, D, Inherited

(* Before the models can register anything the table holds the names of    *)
(* the commands registered so far and no others.                           *)
StartInv ==
  /\ registered \in 0 .. 13
  /\ registered < 13 =>
       /\ pending = None /\ outcome = "none"
       /\ \A n \in DOMAIN commands : \E i \in 1 .. registered : n \in Descriptors[i].names

RegistryInv == StartInv /\ StdRegistered

LEMMA RegistryInvHolds == Spec => []RegistryInv
<1> USE DEF RegistryInv
<1>1. Init => RegistryInv
  BY DEF Init, StartInv, StdRegistered
<1>2. RegistryInv /\ [Next]_vars => RegistryInv'
  <2> SUFFICES ASSUME StartInv, StdRegistered, [Next]_vars PROVE StartInv' /\ StdRegistered'
    OBVIOUS
  <2>1. CASE StartUp
    <3> DEFINE r == registered + 1
               d == Descriptors[r]
    <3>1. r \in 1 .. 13 /\ registered \in 0 .. 12 /\ registered' = r
      BY <2>1, NoInheritedNames DEF StartUp, StartInv
    <3>2. d.names \cap (DOMAIN commands \cup Inherited) = {}
      <4>1. d.names \cap Inherited = {}
        BY <3>1, NoInheritedNames
      <4>2. ASSUME NEW n \in d.names, n \in DOMAIN commands PROVE FALSE
        <5>1. PICK i \in 1 .. registered : n \in Descriptors[i].names
          BY <3>1, <4>2 DEF StartInv
        <5>2. i \in 1 .. 13 /\ i # r
          BY <3>1
        <5> QED BY <3>1, <4>2, <5>1, <5>2, NoSharedNames
      <4> QED BY <4>1, <4>2
    <3>3. commands' = Bind(commands, d.names, [scmd |-> d, ctx |-> Self])
      BY <2>1, <3>2 DEF StartUp, Register
    <3>4. /\ DOMAIN commands' = DOMAIN commands \cup d.names
          /\ \A n \in d.names : commands'[n] = [scmd |-> d, ctx |-> Self]
          /\ \A n \in DOMAIN commands : commands'[n] = commands[n]
      BY <3>2, <3>3 DEF Bind
    <3>5. StdRegistered'
      <4> SUFFICES ASSUME NEW i \in 1 .. r, NEW n \in Descriptors[i].names
                   PROVE  /\ n \in DOMAIN commands'
                          /\ commands'[n] = [scmd |-> Descriptors[i], ctx |-> Self]
        BY <3>1 DEF StdRegistered
      <4>1. CASE i = r
        BY <3>4, <4>1
      <4>2. CASE i \in 1 .. registered
        BY <3>4, <4>2 DEF StdRegistered
      <4> QED BY <3>1, <4>1, <4>2
    <3>6. StartInv'
      <4>1. pending' = None /\ outcome' = "none"
        BY <2>1, <3>1 DEF StartUp, StartInv
      <4>2. ASSUME NEW n \in DOMAIN commands' PROVE \E i \in 1 .. r : n \in Descriptors[i].names
        <5>1. CASE n \in d.names
          BY <3>1, <5>1
        <5>2. CASE n \in DOMAIN commands
          <6>1. PICK i \in 1 .. registered : n \in Descriptors[i].names
            BY <3>1, <5>2 DEF StartInv
          <6>2. i \in 1 .. r
            BY <3>1
          <6> QED BY <6>1, <6>2
        <5> QED BY <3>4, <5>1, <5>2
      <4> QED BY <3>1, <4>1, <4>2 DEF StartInv
    <3> QED BY <3>5, <3>6
  <2>2. CASE \/ \E line \in Lines : Type(line)
             \/ \E cmd \in Injected : inject_ctl(cmd)
    <3>1. registered' = registered /\ commands' = commands /\ registered = 13
      BY <2>2, NoInheritedNames DEF Type, inject_ctl, Ready
    <3> QED BY <3>1 DEF StartInv, StdRegistered
  <2>3. CASE _dispatch \/ Require \/ Create \/ Answer
    <3>1. registered' = registered /\ commands' = commands
      BY <2>3 DEF _dispatch, Require, Create, Answer
    <3>2. registered = 13
      BY <2>3 DEF _dispatch, Require, Create, Answer, StartInv
    <3> QED BY <3>1, <3>2 DEF StartInv, StdRegistered
  <2>4. CASE \E d \in ModelScmds : register_scmd(d)
    <3>1. PICK d \in ModelScmds : register_scmd(d)
      BY <2>4
    <3>2. registered' = registered /\ registered = 13
      BY <3>1 DEF register_scmd, StartInv
    <3>3. \A n \in DOMAIN commands : n \in DOMAIN commands' /\ commands'[n] = commands[n]
      <4> SUFFICES ASSUME NEW n \in DOMAIN commands
                   PROVE  n \in DOMAIN commands' /\ commands'[n] = commands[n]
        OBVIOUS
      <4>1. commands' = Register(commands, d, instances)
        BY <3>1 DEF register_scmd
      <4> QED BY <4>1, RegisterKeeps
    <3>4. StartInv'
      BY <3>2 DEF StartInv
    <3>5. StdRegistered'
      <4> SUFFICES ASSUME NEW i \in 1 .. 13, NEW n \in Descriptors[i].names
                   PROVE  /\ n \in DOMAIN commands'
                          /\ commands'[n] = [scmd |-> Descriptors[i], ctx |-> Self]
        BY <3>2 DEF StdRegistered
      <4>1. n \in DOMAIN commands /\ commands[n] = [scmd |-> Descriptors[i], ctx |-> Self]
        BY <3>2 DEF StdRegistered
      <4> QED BY <3>3, <4>1
    <3> QED BY <3>4, <3>5
  <2>5. CASE UNCHANGED vars
    BY <2>5 DEF vars, StartInv, StdRegistered
  <2> QED BY <2>1, <2>2, <2>3, <2>4, <2>5 DEF Next
<1> QED BY <1>1, <1>2, PTL DEF Spec

(* Every standard command gets its names, and keeps them.                  *)
THEOREM StandardCommandsKept == Spec => []StdRegistered
BY RegistryInvHolds, PTL DEF RegistryInv

-----------------------------------------------------------------------------
(* What reaches the handlers.                                              *)

(* A command that is called bp or delete, by whatever name, is the one of  *)
(* the simulation, with its validator.                                     *)
LEMMA VtorOf ==
  ASSUME RegistryInv, AllOrNothing, registered = 13,
         NEW n \in DOMAIN commands
  PROVE  /\ "bp" \in commands[n].scmd.names => commands[n].scmd.vtor = "bp"
         /\ "delete" \in commands[n].scmd.names => commands[n].scmd.vtor = "delete"
<1>1. /\ "bp" \in Descriptors[3].names /\ Descriptors[3].vtor = "bp"
      /\ "delete" \in Descriptors[5].names /\ Descriptors[5].vtor = "delete"
  BY DEF Descriptors, D
<1>2. commands["bp"].scmd = Descriptors[3] /\ commands["delete"].scmd = Descriptors[5]
  BY <1>1 DEF RegistryInv, StdRegistered
<1>3. \A alias \in commands[n].scmd.names : commands[alias] = commands[n]
  BY DEF AllOrNothing
<1> QED
  BY <1>1, <1>2, <1>3

(* Only the look-up of an inherited name throws, or one of two handlers.   *)
LEMMA ThrewBy ==
  ASSUME NEW cmd, Verdict(cmd) = "threw"
  PROVE  \/ cmd.scmd \in Inherited
         \/ /\ cmd.scmd \in DOMAIN commands
            /\ Accepts(commands[cmd.scmd].scmd.vtor, cmd)
            /\ \E str \in {"bp", "delete"} : Is(str, cmd.scmd) /\ HandlerThrows(str, cmd)
<1>1. CASE cmd.scmd = "__proto__"
  BY <1>1 DEF Inherited
<1>2. CASE cmd.scmd # "__proto__" /\ Malformed(cmd)
  BY <1>2 DEF Verdict
<1>3. CASE cmd.scmd # "__proto__" /\ ~Malformed(cmd) /\ cmd.scmd \notin DOMAIN commands
  BY <1>3 DEF Verdict
<1>4. CASE cmd.scmd # "__proto__" /\ ~Malformed(cmd) /\ cmd.scmd \in DOMAIN commands
  BY <1>4 DEF Verdict
<1> QED
  BY <1>1, <1>2, <1>3, <1>4

(* The disjunction that OperandsPresent allows.                            *)
Allowed(cmd) ==
  \/ cmd.scmd \in Inherited
  \/ Is("delete", cmd.scmd) /\ cmd.addr \in Inherited
  \/ Is("bp", cmd.scmd) /\ cmd.addr = Absent /\ cmd.args = NullArgs

LEMMA VerdictAllowed ==
  ASSUME RegistryInv, AllOrNothing, registered = 13,
         NEW cmd, Shaped(cmd), Verdict(cmd) = "threw"
  PROVE  Allowed(cmd)
<1> SUFFICES ASSUME cmd.scmd \in DOMAIN commands,
                    Accepts(commands[cmd.scmd].scmd.vtor, cmd),
                    NEW str \in {"bp", "delete"}, Is(str, cmd.scmd), HandlerThrows(str, cmd)
             PROVE  Allowed(cmd)
  BY ThrewBy DEF Allowed
<1>1. cmd.args.is # "list" => NoArgs(cmd)
  BY DEF Shaped, NoArgs, NullArgs, AbsentArgs
<1>2. CASE str = "bp"
  <2>1. ~(NoArgs(cmd) /\ NoAddr(cmd))
    BY <1>2, VtorOf DEF Is, Accepts
  <2>2. cmd.addr \in {Null, Absent} /\ cmd.args.is # "list"
    BY <1>2 DEF HandlerThrows
  <2>3. cmd.addr # Null /\ cmd.args.is # Absent
    BY <1>1, <2>1, <2>2 DEF NoAddr
  <2>4. cmd.args = NullArgs
    BY <2>2, <2>3 DEF Shaped, AbsentArgs
  <2> QED
    BY <1>2, <2>2, <2>3, <2>4 DEF Allowed
<1>3. CASE str = "delete"
  <2>1. Delete(cmd)
    BY <1>3, VtorOf DEF Is, Accepts
  <2>2. cmd.addr \in Inherited \/ (cmd.addr \in {Null, Absent} /\ cmd.args.is # "list")
    BY <1>3 DEF HandlerThrows
  <2> QED
    BY <1>1, <1>3, <2>1, <2>2 DEF Delete, NoAddr, Allowed
<1> QED
  BY <1>2, <1>3

(* Between commands nothing is under way; in between, the command has the  *)
(* shape the parser or another program gave it.                            *)
OperandInv ==
  /\ pending = None => outcome = "none"
  /\ pending # None /\ outcome # "parse-error" => Shaped(pending.cmd)
  /\ outcome = "threw" => Allowed(pending.cmd)

(* It is inductive with what is known of the registry.                     *)
LEMMA OperandInvHolds == Spec => []OperandInv
<1>1. Init => OperandInv
  BY DEF Init, OperandInv
<1>2. OperandInv /\ RegistryInv /\ AllOrNothing /\ [Next]_vars => OperandInv'
  <2> SUFFICES ASSUME OperandInv, RegistryInv, AllOrNothing, [Next]_vars PROVE OperandInv'
    OBVIOUS
  <2>1. CASE StartUp
    <3>1. registered < 13 /\ UNCHANGED <<pending, outcome>>
      BY <2>1, NoInheritedNames DEF StartUp
    <3> QED
      BY <3>1 DEF RegistryInv, StartInv, OperandInv
  <2>2. ASSUME NEW line \in Lines, Type(line) PROVE OperandInv'
    <3>1. CASE ParseError(line)
      <4>1. outcome' = "parse-error" /\ "cmd" \in DOMAIN pending'
        BY <2>2, <3>1 DEF Type
      <4>2. pending' # None
        BY <4>1 DEF None
      <4> QED
        BY <4>1, <4>2 DEF OperandInv
    <3>2. CASE ~ParseError(line)
      <4>1. outcome' = "none" /\ pending'.cmd = parse_cmd(line)
        BY <2>2, <3>2 DEF Type
      <4>2. parse_cmd(line).args = Args(line.text)
        BY <2>2, <3>2, LineForms DEF parse_cmd, ParseError
      <4>3. Shaped(parse_cmd(line))
        BY <4>2 DEF Args, Shaped, List
      <4> QED
        BY <4>1, <4>3 DEF OperandInv
    <3> QED
      BY <3>1, <3>2
  <2>3. ASSUME NEW cmd \in Injected, inject_ctl(cmd) PROVE OperandInv'
    <3>1. outcome = "none" /\ outcome' = "none" /\ pending'.cmd = cmd
      BY <2>3 DEF inject_ctl, Ready, OperandInv
    <3> QED
      BY <2>3, <3>1, InjectedShape DEF OperandInv
  <2>4. CASE _dispatch
    <3>1. /\ pending # None /\ outcome = "none" /\ outcome' = Verdict(pending.cmd)
          /\ UNCHANGED <<registered, commands, model, instances, pending>>
      BY <2>4 DEF _dispatch
    <3>2. registered = 13
      BY <3>1 DEF RegistryInv, StartInv
    <3>3. Shaped(pending.cmd)
      BY <3>1 DEF OperandInv
    <3>4. outcome' = "threw" => Allowed(pending.cmd)
      BY <3>1, <3>2, <3>3, VerdictAllowed
    <3> QED
      BY <3>1, <3>3, <3>4 DEF OperandInv, Allowed, Is
  <2>5. CASE Require \/ Create
    BY <2>5 DEF Require, Create, OperandInv
  <2>6. CASE Answer
    BY <2>6 DEF Answer, OperandInv
  <2>7. ASSUME NEW d \in ModelScmds, register_scmd(d) PROVE OperandInv'
    BY <2>7 DEF register_scmd, OperandInv
  <2>8. CASE UNCHANGED vars
    BY <2>8 DEF vars, OperandInv, Allowed, Is
  <2> QED
    BY <2>1, <2>2, <2>3, <2>4, <2>5, <2>6, <2>7, <2>8 DEF Next
<1> QED
  BY <1>1, <1>2, RegistryInvHolds, AliasesTogether, PTL DEF Spec

(* The validators keep from the handlers whatever these cannot take, up to *)
(* what OperandsPresent names: for all lines and objects, and whatever     *)
(* commands models add, under whatever names.                              *)
THEOREM HandlersSpared == Spec => []OperandsPresent
<1>1. OperandInv => OperandsPresent
  BY DEF OperandInv, OperandsPresent, Allowed
<1> QED
  BY <1>1, OperandInvHolds, PTL
-----------------------------------------------------------------------------
(* The two ways to call a command.                                         *)

(* Every name of the table is one of its command's own names, and every    *)
(* command is a standard one or one of the models'.                        *)
OwnNames ==
  \A n \in DOMAIN commands :
    /\ n \in commands[n].scmd.names
    /\ \/ \E i \in 1 .. 13 : commands[n].scmd = Descriptors[i]
       \/ commands[n].scmd \in ModelScmds

LEMMA RegisterOwnNames ==
  ASSUME OwnNames, NEW d, NEW ctx, commands' = Register(commands, d, ctx),
         (\E i \in 1 .. 13 : d = Descriptors[i]) \/ d \in ModelScmds
  PROVE  OwnNames'
<1>1. CASE commands' = commands
  BY <1>1 DEF OwnNames
<1>2. CASE /\ DOMAIN commands' = DOMAIN commands \cup d.names
           /\ \A n \in d.names : commands'[n] = [scmd |-> d, ctx |-> ctx]
           /\ \A n \in DOMAIN commands : commands'[n] = commands[n]
  <2> SUFFICES ASSUME NEW n \in DOMAIN commands'
               PROVE  /\ n \in commands'[n].scmd.names
                      /\ \/ \E i \in 1 .. 13 : commands'[n].scmd = Descriptors[i]
                         \/ commands'[n].scmd \in ModelScmds
    BY DEF OwnNames
  <2>1. CASE n \in d.names
    <3>1. commands'[n].scmd = d
      BY <1>2, <2>1
    <3> QED BY <2>1, <3>1
  <2>2. CASE n \in DOMAIN commands
    BY <1>2, <2>2 DEF OwnNames
  <2> QED BY <1>2, <2>1, <2>2
<1> QED BY <1>1, <1>2, RegisterCases

(* A line of the two forms, with the same operands.                        *)
ShortCmd(scmd, args) == [scmd |-> scmd, addr |-> Absent, args |-> args]
LongCmd(scmd, args) == [scmd |-> scmd, addr |-> Null, args |-> args]

(* What the parser makes of a short line: no addr, operands or null, and a *)
(* name that is short.                                                     *)
ShortInv ==
  pending # None /\ pending.form = "short" /\ outcome # "parse-error" =>
    /\ pending.cmd = ShortCmd(pending.cmd.scmd, pending.cmd.args)
    /\ pending.cmd.args.is # Absent
    /\ pending.cmd.scmd \notin LongNames

FormsInv == OwnNames /\ ShortInv

LEMMA NextFormsInv ==
  ASSUME FormsInv, RegistryInv, [Next]_vars
  PROVE  FormsInv'
<1>1. CASE StartUp
  <2>1. registered + 1 \in 1 .. 13 /\ UNCHANGED <<pending, outcome>>
    BY <1>1, NoInheritedNames DEF StartUp, RegistryInv, StartInv
  <2>2. commands' = Register(commands, Descriptors[registered + 1], Self)
    BY <1>1 DEF StartUp
  <2>3. OwnNames'
    BY <2>1, <2>2, RegisterOwnNames DEF FormsInv
  <2> QED BY <2>1, <2>3 DEF FormsInv, ShortInv
<1>2. ASSUME NEW line \in Lines, Type(line) PROVE FormsInv'
  <2>1. commands' = commands /\ pending'.form = line.form
    BY <1>2 DEF Type
  <2>2. CASE ParseError(line)
    BY <1>2, <2>1, <2>2 DEF Type, FormsInv, OwnNames, ShortInv
  <2>3. CASE ~ParseError(line)
    <3>1. pending'.cmd = parse_cmd(line)
      BY <1>2, <2>3 DEF Type
    <3>2. Args(line.text).is # Absent
      BY DEF Args, NullArgs, List, Null, Absent
    <3>3. CASE line.form = "short"
      <4>1. parse_cmd(line) = [scmd |-> line.scmd, addr |-> Absent, args |-> Args(line.text)]
        BY <3>3 DEF parse_cmd
      <4> QED BY <2>1, <3>1, <3>2, <3>3, <4>1, LineForms DEF FormsInv, OwnNames, ShortInv, ShortCmd
    <3> QED BY <2>1, <3>3 DEF FormsInv, OwnNames, ShortInv
  <2> QED BY <2>2, <2>3
<1>3. ASSUME NEW cmd \in Injected, inject_ctl(cmd) PROVE FormsInv'
  BY <1>3 DEF inject_ctl, FormsInv, OwnNames, ShortInv
<1>4. CASE _dispatch \/ Require \/ Create \/ Answer
  BY <1>4 DEF _dispatch, Require, Create, Answer, FormsInv, OwnNames, ShortInv
<1>5. ASSUME NEW d \in ModelScmds, register_scmd(d) PROVE FormsInv'
  <2>1. OwnNames'
    BY <1>5, RegisterOwnNames DEF register_scmd, FormsInv
  <2> QED BY <1>5, <2>1 DEF register_scmd, FormsInv, ShortInv
<1>6. CASE UNCHANGED vars
  BY <1>6 DEF vars, FormsInv, OwnNames, ShortInv
<1> QED BY <1>1, <1>2, <1>3, <1>4, <1>5, <1>6 DEF Next

(* A command with a short name has a validator that does not tell a null   *)
(* addr from none, unless it is bp.                                        *)
LEMMA SameAccepted ==
  ASSUME OwnNames, RegistryInv, AllOrNothing, registered = 13,
         NEW scmd \in DOMAIN commands, scmd \notin LongNames,
         NEW args, args.is # Absent,
         Is("bp", scmd) => args.list # <<>>, ~OwnValidator(scmd)
  PROVE  LET vtor == commands[scmd].scmd.vtor
         IN  /\ vtor \in {"none", "noargs", "attach", "bp"}
             /\ Accepts(vtor, ShortCmd(scmd, args)) = Accepts(vtor, LongCmd(scmd, args))
<1> DEFINE vtor == commands[scmd].scmd.vtor
<1>1. ASSUME NEW i \in 1 .. 13, i # 5
      PROVE  Descriptors[i].vtor \in {"none", "noargs", "attach", "bp"}
  BY <1>1 DEF Descriptors, D
<1>2. /\ Descriptors[5].names \subseteq LongNames
      /\ \A i \in 1 .. 13 : Descriptors[i].vtor = "bp" => "bp" \in Descriptors[i].names
  BY DEF Descriptors, D, LongNames
<1>3. /\ vtor \in {"none", "noargs", "attach", "bp"}
      /\ vtor = "bp" => Is("bp", scmd)
  <2>1. CASE commands[scmd].scmd \in ModelScmds
    BY <2>1, ModelValidators DEF OwnValidator, SimVtors
  <2>2. ASSUME NEW i \in 1 .. 13, commands[scmd].scmd = Descriptors[i]
        PROVE  /\ vtor \in {"none", "noargs", "attach", "bp"}
               /\ vtor = "bp" => Is("bp", scmd)
    <3>1. scmd \in Descriptors[i].names
      BY <2>2 DEF OwnNames
    <3>2. i # 5
      BY <1>2, <3>1
    <3> QED BY <1>1, <1>2, <2>2, <3>2 DEF Is
  <2> QED BY <2>1, <2>2 DEF OwnNames
<1> HIDE DEF vtor
<1>4. /\ NoArgs(ShortCmd(scmd, args)) = (args.list = <<>>)
      /\ NoArgs(LongCmd(scmd, args)) = (args.list = <<>>)
      /\ ShortCmd(scmd, args).addr = Absent /\ LongCmd(scmd, args).addr = Null
  BY DEF NoArgs, ShortCmd, LongCmd
<1>5. Accepts(vtor, ShortCmd(scmd, args)) = Accepts(vtor, LongCmd(scmd, args))
  <2>1. CASE vtor = "none"
    BY <2>1 DEF Accepts
  <2>2. CASE vtor = "noargs"
    BY <1>4, <2>2 DEF Accepts, Noargs
  <2>3. CASE vtor = "attach"
    BY <1>4, <2>3 DEF Accepts
  <2>4. CASE vtor = "bp"
    BY <1>3, <1>4, <2>4 DEF Accepts
  <2> QED BY <1>3, <2>1, <2>2, <2>3, <2>4
<1> QED BY <1>3, <1>5 DEF vtor

(* So the answer is the same, whatever the table holds.                    *)
LEMMA SameVerdict ==
  ASSUME OwnNames, RegistryInv, AllOrNothing, registered = 13,
         NEW scmd, scmd \notin LongNames,
         NEW args, args.is # Absent,
         Is("bp", scmd) => args.list # <<>>, ~OwnValidator(scmd)
  PROVE  Verdict(ShortCmd(scmd, args)) = Verdict(LongCmd(scmd, args))
<1> DEFINE short == ShortCmd(scmd, args)
           long == LongCmd(scmd, args)
<1>1. short.scmd = scmd /\ long.scmd = scmd
  BY DEF ShortCmd, LongCmd
<1>2. Malformed(short) = Malformed(long)
  BY DEF Malformed, ShortCmd, LongCmd, Absent, Null
<1>3. \A str \in {"bp", "delete"} : HandlerThrows(str, short) = HandlerThrows(str, long)
  BY DEF HandlerThrows, ShortCmd, LongCmd, Absent, Null, Inherited
<1>4. scmd \in DOMAIN commands =>
        Accepts(commands[scmd].scmd.vtor, short) = Accepts(commands[scmd].scmd.vtor, long)
  BY SameAccepted
<1> HIDE DEF short, long
<1> QED
  <2>1. CASE Malformed(long)
    BY <1>1, <1>2, <2>1 DEF Verdict, short, long
  <2>2. CASE ~Malformed(long) /\ scmd \notin DOMAIN commands
    BY <1>1, <1>2, <2>2 DEF Verdict, short, long
  <2>3. CASE ~Malformed(long) /\ scmd \in DOMAIN commands /\ scmd = "__proto__"
    BY <1>1, <1>2, <1>3, <1>4, <2>3 DEF Verdict, short, long
  <2>4. CASE ~Malformed(long) /\ scmd \in DOMAIN commands /\ scmd # "__proto__"
    BY <1>1, <1>2, <1>3, <1>4, <2>4 DEF Verdict, short, long
  <2> QED BY <2>1, <2>2, <2>3, <2>4

(* :c and :::c answer alike, whatever the table of commands has become:    *)
(* but for a bare :b, and a command that has a validator of a model's own, *)
(* leaving addr undefined is as good as making it null.                    *)
THEOREM ShortAsLong == Spec => []FormsAgree
<1>1. Init => FormsInv
  BY DEF Init, FormsInv, OwnNames, ShortInv
<1>2. FormsInv /\ RegistryInv /\ [Next]_vars => FormsInv'
  BY NextFormsInv
<1>3. FormsInv /\ RegistryInv /\ AllOrNothing => FormsAgree
  <2> SUFFICES ASSUME FormsInv, RegistryInv, AllOrNothing,
                      pending # None, pending.form = "short", outcome # "parse-error",
                      ~(Is("bp", pending.cmd.scmd) /\ NoArgs(pending.cmd)),
                      ~OwnValidator(pending.cmd.scmd)
               PROVE  Verdict(pending.cmd) = Verdict([pending.cmd EXCEPT !.addr = Null])
    BY DEF FormsAgree
  <2> DEFINE scmd == pending.cmd.scmd
             args == pending.cmd.args
  <2>1. /\ pending.cmd = ShortCmd(scmd, args)
        /\ args.is # Absent /\ scmd \notin LongNames
    BY DEF FormsInv, ShortInv
  <2>2. registered = 13
    BY DEF RegistryInv, StartInv
  <2>3. (Is("bp", scmd) => args.list # <<>>) /\ ~OwnValidator(scmd)
    BY DEF NoArgs
  <2> HIDE DEF scmd, args
  <2>4. [ShortCmd(scmd, args) EXCEPT !.addr = Null] = LongCmd(scmd, args)
    BY DEF ShortCmd, LongCmd
  <2>5. Verdict(ShortCmd(scmd, args)) = Verdict(LongCmd(scmd, args))
    BY <2>1, <2>2, <2>3, SameVerdict DEF FormsInv
  <2> QED BY <2>1, <2>4, <2>5
<1> QED
  BY <1>1, <1>2, <1>3, RegistryInvHolds, AliasesTogether, PTL DEF Spec

-----------------------------------------------------------------------------
(* The scanner of parse_args(), for every text: what its loop keeps after  *)
(* m characters, and the pieces of the text that begin among those.        *)

ScanAt(str, s, i) == Scan(s, str, i)
Facts == INSTANCE FoldFacts WITH Op <- ScanAt

State(start, in_quote, args) == [start |-> start, in_quote |-> in_quote, args |-> args]
ScanTo(str, m) == Facts!Fold(str, State(1, FALSE, <<>>), [i \in 1 .. m |-> i])

LEMMA ScanSteps ==
  ASSUME NEW str \in Seq(Char)
  PROVE  /\ Scanned(str) = ScanTo(str, Len(str))
         /\ ScanTo(str, 0) = State(1, FALSE, <<>>)
         /\ \A m \in Nat : ScanTo(str, m + 1) = Scan(ScanTo(str, m), str, m + 1)
<1> DEFINE base == State(1, FALSE, <<>>)
           U(m) == [i \in 1 .. m |-> i]
<1>1. Scanned(str) = ScanTo(str, Len(str))
  <2>1. DOMAIN str = 1 .. Len(str)
    OBVIOUS
  <2> QED
    BY <2>1 DEF Scanned, FoldLeftDomain, ScanTo, State, ScanAt, FoldLeft, MapThenFoldSet, Max,
                Facts!Fold, Facts!FoldLeft, Facts!MapThenFoldSet, Facts!Max
<1>2. ScanTo(str, 0) = base
  <2>1. DOMAIN U(0) = {}
    OBVIOUS
  <2> HIDE DEF U, base
  <2>2. Facts!Fold(str, base, U(0)) = base
    BY <2>1, Facts!FoldEmpty
  <2> QED
    BY <2>2 DEF ScanTo, U, base
<1>3. ASSUME NEW m \in Nat PROVE ScanTo(str, m + 1) = Scan(ScanTo(str, m), str, m + 1)
  <2>1. /\ DOMAIN U(m + 1) = 1 .. (m + 1) /\ DOMAIN U(m) = 1 .. m
        /\ \A i \in 1 .. m : U(m)[i] = U(m + 1)[i]
        /\ U(m + 1)[m + 1] = m + 1
    OBVIOUS
  <2> HIDE DEF U, base
  <2>2. Facts!Fold(str, base, U(m + 1)) = ScanAt(str, Facts!Fold(str, base, U(m)), U(m + 1)[m + 1])
    BY <2>1, Facts!FoldStep
  <2> QED
    BY <2>1, <2>2 DEF ScanTo, U, base, ScanAt
<1> QED
  BY <1>1, <1>2, <1>3

Cut(str, in, m) == FlattenSeq([i \in 1 .. m |-> PieceAt(str, in, i)])

LEMMA CutSteps ==
  ASSUME NEW str, NEW in
  PROVE  /\ Cut(str, in, 0) = <<>>
         /\ \A m \in Nat : Cut(str, in, m + 1) = Cut(str, in, m) \o PieceAt(str, in, m + 1)
         /\ \A m \in Nat : \A A :
              (\A i \in 1 .. m : PieceAt(str, in, i) \in Seq(A)) => Cut(str, in, m) \in Seq(A)
<1> DEFINE U(m) == [i \in 1 .. m |-> PieceAt(str, in, i)]
<1>1. \A s : FlattenSeq(s) = Facts!FlattenSeq(s)
  BY DEF FlattenSeq, Facts!FlattenSeq
<1>2. Cut(str, in, 0) = <<>>
  <2>1. U(0) = <<>>
    OBVIOUS
  <2>2. FlattenSeq(<<>>) = <<>>
    BY DEF FlattenSeq
  <2> QED
    BY <2>1, <2>2 DEF Cut
<1>3. ASSUME NEW m \in Nat, NEW A, \A i \in 1 .. m : PieceAt(str, in, i) \in Seq(A)
      PROVE  U(m) \in Seq(Seq(A)) /\ Len(U(m)) = m
  BY <1>3
<1>4. ASSUME NEW m \in Nat PROVE Cut(str, in, m + 1) = Cut(str, in, m) \o PieceAt(str, in, m + 1)
  <2> DEFINE A == {SubSeq(str, i, EndOf(in, i)) : i \in 1 .. (m + 1)}
  <2>1. \A i \in 1 .. (m + 1) : PieceAt(str, in, i) \in Seq(A)
    <3> SUFFICES ASSUME NEW i \in 1 .. (m + 1) PROVE PieceAt(str, in, i) \in Seq(A)
      OBVIOUS
    <3>1. SubSeq(str, i, EndOf(in, i)) \in A
      OBVIOUS
    <3> HIDE DEF A
    <3>2. <<SubSeq(str, i, EndOf(in, i))>> \in Seq(A) /\ <<>> \in Seq(A)
      BY <3>1
    <3> QED
      BY <3>2 DEF PieceAt
  <2> HIDE DEF A
  <2>2. /\ U(m) \in Seq(Seq(A)) /\ Len(U(m)) = m
        /\ U(m + 1) \in Seq(Seq(A)) /\ Len(U(m + 1)) = m + 1
    BY <1>3, <2>1
  <2>3. /\ \A i \in 1 .. m : U(m)[i] = U(m + 1)[i]
        /\ U(m + 1)[m + 1] = PieceAt(str, in, m + 1)
    OBVIOUS
  <2> HIDE DEF U
  <2>4. Facts!FlattenSeq(U(m + 1)) = Facts!FlattenSeq(U(m)) \o U(m + 1)[m + 1]
    BY <2>2, <2>3, Facts!FlattenStep
  <2> QED
    BY <1>1, <2>3, <2>4 DEF Cut, U
<1>5. ASSUME NEW m \in Nat, NEW A, \A i \in 1 .. m : PieceAt(str, in, i) \in Seq(A)
      PROVE  Cut(str, in, m) \in Seq(A)
  <2>1. Facts!FlattenSeq(U(m)) \in Seq(A)
    BY <1>3, <1>5, Facts!FlattenType
  <2> QED
    BY <1>1, <2>1 DEF Cut
<1> QED
  BY <1>2, <1>4, <1>5

(* A piece ends at the only position where its run may end.                *)
LEMMA EndOfIs ==
  ASSUME NEW in \in SUBSET Nat, NEW i \in in, NEW j \in in,
         j >= i, j + 1 \notin in, i .. j \subseteq in
  PROVE  EndOf(in, i) = j
<1>1. ASSUME NEW k \in in, k >= i, k + 1 \notin in, i .. k \subseteq in PROVE k = j
  <2>1. j + 1 \notin i .. k /\ k + 1 \notin i .. j
    BY <1>1
  <2> QED
    BY <1>1, <2>1
<1> QED
  BY <1>1 DEF EndOf

(* The quotes before a position are counted one by one.                    *)
LEMMA QuotesStep ==
  ASSUME NEW str \in Seq(Char), NEW m \in 0 .. (Len(str) - 1)
  PROVE  /\ QuotesBefore(str, m + 1) \in Nat
         /\ QuotesBefore(str, (m + 1) + 1) =
              QuotesBefore(str, m + 1) + IF str[m + 1] = "'" THEN 1 ELSE 0
<1> DEFINE Q(i) == {j \in DOMAIN str : j < i /\ str[j] = "'"}
<1>1. m \in Nat /\ Len(str) \in Nat /\ DOMAIN str = 1 .. Len(str) /\ m + 1 \in DOMAIN str
  OBVIOUS
<1>2. \A i : IsFiniteSet(Q(i))
  <2>1. IsFiniteSet(1 .. Len(str))
    BY <1>1, FS_Interval
  <2> QED
    BY <1>1, <2>1, FS_Subset
<1>3. Cardinality(Q(m + 1)) \in Nat /\ \A i : QuotesBefore(str, i) = Cardinality(Q(i))
  BY <1>2, FS_CardinalityType DEF QuotesBefore
<1>4. CASE str[m + 1] = "'"
  <2>1. Q((m + 1) + 1) = Q(m + 1) \cup {m + 1} /\ m + 1 \notin Q(m + 1)
    BY <1>1, <1>4
  <2> HIDE DEF Q
  <2>2. Cardinality(Q(m + 1) \cup {m + 1}) = Cardinality(Q(m + 1)) + 1
    BY <1>2, <2>1, FS_AddElement
  <2> QED
    BY <1>3, <1>4, <2>1, <2>2
<1>5. CASE str[m + 1] # "'"
  <2>1. Q((m + 1) + 1) = Q(m + 1)
    BY <1>1, <1>5
  <2> QED
    BY <1>3, <1>5, <2>1
<1> QED
  BY <1>4, <1>5

(* The arguments that pieces stand for.                                    *)
Plain(ps) == [k \in DOMAIN ps |-> Unquoted(ps[k])]

LEMMA PlainAppend ==
  ASSUME NEW A, NEW ps \in Seq(A), NEW x
  PROVE  /\ Plain(ps \o <<>>) = Plain(ps)
         /\ Plain(ps \o <<x>>) = Append(Plain(ps), Unquoted(x))
         /\ Plain(ps) = <<>> <=> ps = <<>>
<1> DEFINE n == Len(ps)
<1>1. n \in Nat /\ DOMAIN ps = 1 .. n /\ ps \o <<>> = ps
  OBVIOUS
<1>2. /\ DOMAIN (ps \o <<x>>) = 1 .. (n + 1) /\ (ps \o <<x>>)[n + 1] = x
      /\ \A k \in 1 .. n : (ps \o <<x>>)[k] = ps[k]
  <2>1. ps \in Seq(A \cup {x}) /\ <<x>> \in Seq(A \cup {x})
    OBVIOUS
  <2> QED
    BY <2>1
<1> DEFINE p == Plain(ps)
           more == Plain(ps \o <<x>>)
           B == {Unquoted(y) : y \in A}
<1>3. p \in Seq(B) /\ Len(p) = n /\ \A k \in 1 .. n : p[k] = Unquoted(ps[k])
  <2>1. \A k \in 1 .. n : Unquoted(ps[k]) \in B
    OBVIOUS
  <2> HIDE DEF B
  <2> QED
    BY <1>1, <2>1 DEF Plain
<1>4. /\ DOMAIN more = 1 .. (n + 1) /\ more[n + 1] = Unquoted(x)
      /\ \A k \in 1 .. n : more[k] = Unquoted(ps[k])
      /\ more = [k \in 1 .. (n + 1) |-> more[k]]
  BY <1>1, <1>2 DEF Plain
<1> HIDE DEF more, p, B, n
<1>5. /\ DOMAIN Append(p, Unquoted(x)) = 1 .. (n + 1)
      /\ Append(p, Unquoted(x))[n + 1] = Unquoted(x)
      /\ \A k \in 1 .. n : Append(p, Unquoted(x))[k] = p[k]
      /\ Append(p, Unquoted(x)) = [k \in 1 .. (n + 1) |-> Append(p, Unquoted(x))[k]]
  <2> DEFINE y == Unquoted(x)
             C == B \cup {y}
  <2>1. p \in Seq(C) /\ y \in C
    BY <1>3
  <2> HIDE DEF C, y
  <2>2. Append(p, y) \in Seq(C) /\ Len(Append(p, y)) = Len(p) + 1
    BY <2>1
  <2>3. Append(p, y)[Len(p) + 1] = y /\ \A k \in 1 .. Len(p) : Append(p, y)[k] = p[k]
    BY <2>1
  <2> DEFINE q == Append(p, y)
  <2>4. q = [k \in 1 .. (Len(p) + 1) |-> q[k]]
    <3>1. q \in Seq(C) /\ Len(q) = Len(p) + 1
      BY <2>2
    <3> HIDE DEF q
    <3>2. q = [k \in 1 .. Len(q) |-> q[k]]
      BY <3>1
    <3> QED
      BY <3>1, <3>2
  <2> QED
    BY <1>1, <1>3, <2>2, <2>3, <2>4 DEF y
<1>6. more = Append(p, Unquoted(x))
  <2>1. \A k \in 1 .. (n + 1) : more[k] = Append(p, Unquoted(x))[k]
    <3> SUFFICES ASSUME NEW k \in 1 .. (n + 1) PROVE more[k] = Append(p, Unquoted(x))[k]
      OBVIOUS
    <3>1. CASE k = n + 1
      <4>1. more[n + 1] = Append(p, Unquoted(x))[n + 1]
        BY <1>4, <1>5
      <4> QED
        BY <3>1, <4>1
    <3>2. CASE k \in 1 .. n
      BY <1>3, <1>4, <1>5, <3>2
    <3>3. k = n + 1 \/ k \in 1 .. n
      <4>1. n \in Nat
        BY <1>1
      <4> QED
        BY <4>1
    <3> QED
      BY <3>1, <3>2, <3>3
  <2> QED
    BY <1>4, <1>5, <2>1
<1>7. p = <<>> <=> ps = <<>>
  BY <1>1, <1>3 DEF n
<1> QED
  BY <1>1, <1>6, <1>7 DEF p, more

(* After m characters: in_quote counts the quotes so far, no separator is  *)
(* between start and m, and the arguments are those of the pieces that     *)
(* begin among the m, but for the one that begins at start.                *)
In(str) == Within(str, Separators(str))
Here(str, start) == SubSeq(str, start, EndOf(In(str), start))

ScanInv(str, m, start, in_quote, args) ==
  /\ in_quote \in BOOLEAN /\ (in_quote <=> QuotesBefore(str, m + 1) % 2 = 1)
  /\ start \in 1 .. (m + 1) /\ start .. m \subseteq In(str) /\ start - 1 \notin In(str)
  /\ start <= m => Append(args, Unquoted(Here(str, start))) = Plain(Cut(str, In(str), m))
  /\ start > m => args = Plain(Cut(str, In(str), m))

LEMMA ScanInvInit ==
  ASSUME NEW str \in Seq(Char)
  PROVE  ScanInv(str, 0, 1, FALSE, <<>>)
<1>1. QuotesBefore(str, 0 + 1) = 0
  <2>1. {j \in DOMAIN str : j < 0 + 1 /\ str[j] = "'"} = {}
    OBVIOUS
  <2> QED
    BY <2>1, FS_EmptySet DEF QuotesBefore
<1>2. 1 .. 0 = {} /\ 0 \notin In(str)
  BY DEF In, Within
<1>3. Plain(Cut(str, In(str), 0)) = <<>>
  BY CutSteps DEF Plain
<1> QED
  BY <1>1, <1>2, <1>3 DEF ScanInv

LEMMA ScanInvStep ==
  ASSUME NEW str \in Seq(Char), NEW m \in 0 .. (Len(str) - 1),
         NEW start, NEW in_quote, NEW args, ScanInv(str, m, start, in_quote, args)
  PROVE  \E start2, in_quote2, args2 :
           /\ Scan(State(start, in_quote, args), str, m + 1) = State(start2, in_quote2, args2)
           /\ ScanInv(str, m + 1, start2, in_quote2, args2)
<1> DEFINE in == In(str)
           cut == Cut(str, in, m)
           more == Cut(str, in, m + 1)
           c == str[m + 1]
           quotes == QuotesBefore(str, m + 1)
           quotes2 == QuotesBefore(str, (m + 1) + 1)
<1>1. /\ m \in Nat /\ Len(str) \in Nat /\ m + 1 \in 1 .. Len(str) /\ (m + 1) - 1 = m
      /\ DOMAIN str = 1 .. Len(str) /\ start \in Nat
  BY DEF ScanInv
<1>2. quotes \in Nat /\ quotes2 = quotes + IF c = "'" THEN 1 ELSE 0
  BY QuotesStep
<1>3. /\ in \in SUBSET Nat
      /\ m + 1 \in in <=> ~(c = " " /\ quotes % 2 = 0)
  <2>1. in \in SUBSET Nat
    BY <1>1 DEF In, Within
  <2>2. m + 1 \in Separators(str) <=> c = " " /\ quotes % 2 = 0
    BY <1>1 DEF Separators
  <2> QED
    BY <1>1, <2>1, <2>2 DEF In, Within
<1>4. more = cut \o PieceAt(str, in, m + 1)
  BY <1>1, CutSteps
<1>5. /\ in_quote \in BOOLEAN /\ (in_quote <=> quotes % 2 = 1)
      /\ start \in 1 .. (m + 1) /\ start .. m \subseteq in /\ start - 1 \notin in
      /\ start <= m => Append(args, Unquoted(Here(str, start))) = Plain(cut)
      /\ start > m => args = Plain(cut)
  BY DEF ScanInv
<1>6. PICK A : cut \in Seq(A)
  <2> DEFINE B == {SubSeq(str, i, EndOf(in, i)) : i \in 1 .. m}
  <2>1. \A i \in 1 .. m : PieceAt(str, in, i) \in Seq(B)
    <3> SUFFICES ASSUME NEW i \in 1 .. m PROVE PieceAt(str, in, i) \in Seq(B)
      OBVIOUS
    <3>1. SubSeq(str, i, EndOf(in, i)) \in B
      OBVIOUS
    <3> HIDE DEF B
    <3>2. <<SubSeq(str, i, EndOf(in, i))>> \in Seq(B) /\ <<>> \in Seq(B)
      BY <3>1
    <3> QED
      BY <3>2 DEF PieceAt
  <2> HIDE DEF B
  <2>2. cut \in Seq(B)
    BY <1>1, <2>1, CutSteps
  <2> QED
    BY <2>2
<1>7. \A x : Plain(cut \o <<>>) = Plain(cut) /\ Plain(cut \o <<x>>) = Append(Plain(cut), Unquoted(x))
  BY <1>6, PlainAppend
<1>8. Here(str, start) = SubSeq(str, start, EndOf(in, start))
  BY DEF Here
<1>9. ASSUME NEW start2, NEW in_quote2, NEW args2,
             in_quote2 \in BOOLEAN, in_quote2 <=> quotes2 % 2 = 1,
             start2 \in 1 .. ((m + 1) + 1), start2 .. (m + 1) \subseteq in, start2 - 1 \notin in,
             start2 <= m + 1 => Append(args2, Unquoted(Here(str, start2))) = Plain(more),
             start2 > m + 1 => args2 = Plain(more)
      PROVE  ScanInv(str, m + 1, start2, in_quote2, args2)
  BY <1>9 DEF ScanInv
<1> HIDE DEF in, cut, more, c, quotes, quotes2

(* A character of an argument.                                             *)
<1>15. /\ quotes % 2 \in {0, 1}
       /\ c = "'" => (quotes2 % 2 = 1 <=> ~(quotes % 2 = 1))
       /\ c # "'" => (quotes2 % 2 = 1 <=> quotes % 2 = 1)
  BY ONLY <1>2
<1>10. ASSUME m + 1 \in in, NEW in_quote2 \in BOOLEAN, in_quote2 <=> quotes2 % 2 = 1
       PROVE  ScanInv(str, m + 1, start, in_quote2, args)
  <2>1. start \in 1 .. ((m + 1) + 1) /\ start .. (m + 1) \subseteq in /\ start - 1 \notin in
    BY <1>1, <1>5, <1>10
  <2>2. CASE start <= m
    <3>1. m \in in
      BY <1>1, <1>5, <2>2
    <3>2. PieceAt(str, in, m + 1) = <<>>
      BY <1>1, <3>1 DEF PieceAt
    <3>3. Plain(more) = Plain(cut)
      BY <1>4, <1>7, <3>2
    <3> QED
      BY <1>1, <1>5, <1>9, <1>10, <2>1, <2>2, <3>3
  <2>3. CASE start > m
    <3>1. start = m + 1
      BY <1>1, <1>5, <2>3
    <3>2. PieceAt(str, in, m + 1) = <<Here(str, start)>>
      BY <1>5, <1>8, <1>10, <3>1 DEF PieceAt
    <3>3. Plain(more) = Append(Plain(cut), Unquoted(Here(str, start)))
      BY <1>4, <1>7, <3>2
    <3>4. Plain(more) = Append(args, Unquoted(Here(str, start)))
      BY <1>5, <2>3, <3>3
    <3>5. ~(start > m + 1)
      BY <1>1, <3>1
    <3> QED
      BY <1>9, <1>10, <2>1, <3>4, <3>5
  <2> QED
    BY <1>1, <2>2, <2>3
<1>11. CASE in_quote
  <2>1. m + 1 \in in
    <3>1. quotes % 2 = 1
      BY <1>5, <1>11
    <3>2. quotes % 2 # 0
      BY <3>1
    <3> QED
      BY <1>3, <3>2
  <2>2. (c # "'") <=> quotes2 % 2 = 1
    BY <1>5, <1>11, <1>15
  <2>3. ScanInv(str, m + 1, start, c # "'", args)
    BY <1>10, <2>1, <2>2
  <2>4. Scan(State(start, in_quote, args), str, m + 1) = State(start, c # "'", args)
    BY <1>11 DEF Scan, State, c
  <2> QED
    BY <2>3, <2>4
<1>12. CASE ~in_quote /\ c = "'"
  <2>1. m + 1 \in in
    BY <1>3, <1>12
  <2>2. quotes2 % 2 = 1
    BY <1>5, <1>12, <1>15
  <2>3. ScanInv(str, m + 1, start, TRUE, args)
    BY <1>10, <2>1, <2>2
  <2>4. Scan(State(start, in_quote, args), str, m + 1) = State(start, TRUE, args)
    BY <1>12 DEF Scan, State, c
  <2> QED
    BY <2>3, <2>4
<1>13. CASE ~in_quote /\ c # "'" /\ c # " "
  <2>1. m + 1 \in in
    BY <1>3, <1>13
  <2>2. ~(quotes2 % 2 = 1)
    BY <1>5, <1>13, <1>15
  <2>3. ScanInv(str, m + 1, start, FALSE, args)
    BY <1>10, <2>1, <2>2
  <2>4. Scan(State(start, in_quote, args), str, m + 1) = State(start, FALSE, args)
    BY <1>5, <1>13 DEF Scan, State, c
  <2> QED
    BY <2>3, <2>4

(* A blank that separates.                                                 *)
<1>14. CASE ~in_quote /\ c = " "
  <2> DEFINE args2 == IF m + 1 > start THEN Append(args, Unquoted(SubSeq(str, start, m))) ELSE args
  <2>1. m + 1 \notin in /\ ~(quotes2 % 2 = 1)
    BY <1>3, <1>5, <1>14, <1>15
  <2>2. Plain(more) = Plain(cut)
    <3>1. PieceAt(str, in, m + 1) = <<>>
      BY <2>1 DEF PieceAt
    <3> QED
      BY <1>4, <1>7, <3>1
  <2>3. args2 = Plain(cut)
    <3>1. CASE start <= m
      <4>1. m \in in /\ start \in in
        BY <1>1, <1>5, <3>1
      <4>2. EndOf(in, start) = m
        BY <1>1, <1>3, <1>5, <2>1, <3>1, <4>1, EndOfIs
      <4>3. m + 1 > start
        BY <1>1, <3>1
      <4> QED
        BY <1>5, <1>8, <3>1, <4>2, <4>3
    <3>2. CASE start > m
      <4>1. ~(m + 1 > start)
        BY <1>1, <3>2
      <4> QED
        BY <1>5, <3>2, <4>1
    <3> QED
      BY <1>1, <3>1, <3>2
  <2>4. Scan(State(start, in_quote, args), str, m + 1) = State((m + 1) + 1, in_quote, args2)
    BY <1>1, <1>5, <1>14 DEF Scan, State, c
  <2> HIDE DEF args2
  <2>5. /\ (m + 1) + 1 \in 1 .. ((m + 1) + 1) /\ ((m + 1) + 1) .. (m + 1) \subseteq in
        /\ ((m + 1) + 1) - 1 \notin in
        /\ (m + 1) + 1 > m + 1 /\ ~((m + 1) + 1 <= m + 1)
    BY <1>1, <2>1
  <2>6. ScanInv(str, m + 1, (m + 1) + 1, in_quote, args2)
    <3>1. in_quote \in BOOLEAN /\ (in_quote <=> quotes2 % 2 = 1) /\ args2 = Plain(more)
      BY <1>5, <1>14, <2>1, <2>2, <2>3
    <3> DEFINE start2 == (m + 1) + 1
    <3>2. start2 \in 1 .. ((m + 1) + 1) /\ start2 .. (m + 1) \subseteq in /\ start2 - 1 \notin in
      BY <2>5
    <3>3. start2 <= m + 1 => Append(args2, Unquoted(Here(str, start2))) = Plain(more)
      BY <2>5
    <3>4. start2 > m + 1 => args2 = Plain(more)
      BY <3>1
    <3> HIDE DEF start2
    <3>5. ScanInv(str, m + 1, start2, in_quote, args2)
      BY <1>9, <3>1, <3>2, <3>3, <3>4
    <3> QED
      BY <3>5 DEF start2
  <2> QED
    BY <2>4, <2>6
<1> QED
  BY <1>5, <1>11, <1>12, <1>13, <1>14

LEMMA ScanInvAll ==
  ASSUME NEW str \in Seq(Char), NEW m \in 0 .. Len(str)
  PROVE  \E start, in_quote, args :
           ScanTo(str, m) = State(start, in_quote, args) /\ ScanInv(str, m, start, in_quote, args)
<1> DEFINE Good(n) == \E start, in_quote, args :
             ScanTo(str, n) = State(start, in_quote, args) /\ ScanInv(str, n, start, in_quote, args)
           S == {n \in Nat : n <= Len(str) => Good(n)}
<1>1. 0 \in S
  BY ScanSteps, ScanInvInit
<1>2. ASSUME NEW n \in Nat, n \in S PROVE n + 1 \in S
  <2> SUFFICES ASSUME n + 1 <= Len(str) PROVE Good(n + 1)
    OBVIOUS
  <2>1. n \in 0 .. (Len(str) - 1) /\ n <= Len(str)
    OBVIOUS
  <2>2. PICK start, in_quote, args :
          ScanTo(str, n) = State(start, in_quote, args) /\ ScanInv(str, n, start, in_quote, args)
    BY <1>2, <2>1
  <2>3. ScanTo(str, n + 1) = Scan(State(start, in_quote, args), str, n + 1)
    BY <2>2, ScanSteps
  <2>4. \E start2, in_quote2, args2 :
          /\ Scan(State(start, in_quote, args), str, n + 1) = State(start2, in_quote2, args2)
          /\ ScanInv(str, n + 1, start2, in_quote2, args2)
    BY <2>1, <2>2, ScanInvStep
  <2> QED
    BY <2>3, <2>4
<1> HIDE DEF S
<1>3. Nat \subseteq S
  BY <1>1, <1>2, Facts!NatSetInduction
<1>4. m \in Nat /\ m <= Len(str)
  OBVIOUS
<1> QED
  BY <1>3, <1>4 DEF S

(* Every run has an end.                                                   *)
LEMMA EndOfWithin ==
  ASSUME NEW n \in Nat, NEW in \in SUBSET (1 .. n), NEW i \in in
  PROVE  EndOf(in, i) \in in
<1> DEFINE Ends(j) == j >= i /\ j + 1 \notin in /\ i .. j \subseteq in
<1>1. ASSUME \A j \in in : ~Ends(j) PROVE FALSE
  <2> DEFINE S == {d \in Nat : i .. (i + d) \subseteq in}
  <2>1. i \in Nat
    OBVIOUS
  <2>2. 0 \in S
    BY <2>1
  <2>3. ASSUME NEW d \in Nat, d \in S PROVE d + 1 \in S
    <3>1. i + d \in in /\ i + d >= i /\ i .. (i + d) \subseteq in
      BY <2>1, <2>3
    <3>2. (i + d) + 1 \in in
      BY <1>1, <3>1
    <3>3. i .. (i + (d + 1)) \subseteq in
      BY <2>1, <3>1, <3>2
    <3> QED
      BY <3>3
  <2> HIDE DEF S
  <2>4. Nat \subseteq S
    BY <2>2, <2>3, Facts!NatSetInduction
  <2>5. i + n \in in
    BY <2>1, <2>4 DEF S
  <2> QED
    BY <2>1, <2>5
<1>2. \E j \in in : Ends(j)
  BY <1>1
<1> QED
  BY <1>2 DEF EndOf

(* A piece without quotes stands for itself.                               *)
LEMMA UnquotedSame ==
  ASSUME NEW A, "'" \notin A, NEW s \in Seq(A)
  PROVE  Unquoted(s) = s
<1> DEFINE U(m) == [i \in 1 .. m |-> <<s[i]>>]
           F(m) == Facts!FlattenSeq(U(m))
           S == {m \in Nat : m <= Len(s) => F(m) = SubSeq(s, 1, m)}
<1>1. \A ss : FlattenSeq(ss) = Facts!FlattenSeq(ss)
  BY DEF FlattenSeq, Facts!FlattenSeq
<1>2. \A m \in 0 .. Len(s) : U(m) \in Seq(Seq(A)) /\ Len(U(m)) = m
  OBVIOUS
<1>3. 0 \in S
  <2>1. U(0) = <<>> /\ SubSeq(s, 1, 0) = <<>>
    OBVIOUS
  <2>2. FlattenSeq(<<>>) = <<>>
    BY DEF FlattenSeq
  <2> QED
    BY <1>1, <2>1, <2>2
<1>4. ASSUME NEW m \in Nat, m \in S PROVE m + 1 \in S
  <2> HIDE DEF F
  <2> SUFFICES ASSUME m + 1 <= Len(s) PROVE F(m + 1) = SubSeq(s, 1, m + 1)
    OBVIOUS
  <2>1. /\ m \in 0 .. Len(s) /\ m + 1 \in 0 .. Len(s)
        /\ \A i \in 1 .. m : U(m)[i] = U(m + 1)[i]
        /\ U(m + 1)[m + 1] = <<s[m + 1]>>
    OBVIOUS
  <2>2. F(m) = SubSeq(s, 1, m)
    BY <1>4, <2>1
  <2>3. /\ U(m) \in Seq(Seq(A)) /\ Len(U(m)) = m
        /\ U(m + 1) \in Seq(Seq(A)) /\ Len(U(m + 1)) = m + 1
    BY <1>2, <2>1
  <2> HIDE DEF U
  <2>4. Facts!FlattenSeq(U(m + 1)) = Facts!FlattenSeq(U(m)) \o U(m + 1)[m + 1]
    BY <2>1, <2>3, Facts!FlattenStep
  <2>5. SubSeq(s, 1, m) \o <<s[m + 1]>> = SubSeq(s, 1, m + 1)
    BY <2>1
  <2> QED
    BY <2>1, <2>2, <2>4, <2>5 DEF F
<1> HIDE DEF S
<1>5. Nat \subseteq S
  BY <1>3, <1>4, Facts!NatSetInduction
<1>6. F(Len(s)) = s
  <2>1. Len(s) \in Nat /\ Len(s) <= Len(s) /\ SubSeq(s, 1, Len(s)) = s
    OBVIOUS
  <2> QED
    BY <1>5, <2>1 DEF S
<1>7. [i \in DOMAIN s |-> IF s[i] = "'" THEN <<>> ELSE <<s[i]>>] = U(Len(s))
  <2>1. DOMAIN s = 1 .. Len(s) /\ \A i \in DOMAIN s : s[i] \in A
    OBVIOUS
  <2> QED
    BY <2>1
<1> QED
  BY <1>1, <1>6, <1>7 DEF Unquoted

LEMMA PiecesAreCut ==
  ASSUME NEW str \in Seq(Char), NEW seps
  PROVE  Pieces(str, seps) = Cut(str, Within(str, seps), Len(str))
<1>1. DOMAIN str = 1 .. Len(str)
  OBVIOUS
<1> QED
  BY <1>1 DEF Pieces, Cut

(* parse_args(), for every text of any length: the arguments are those one *)
(* gets by counting quotes, and an error is reported for an odd number.    *)
THEOREM ParseArgsIsReference ==
  ASSUME NEW str \in Seq(Char)
  PROVE  parse_args(str) = Reference(str)
<1> DEFINE n == Len(str)
<1>1. n \in Nat /\ DOMAIN str = 1 .. n
  OBVIOUS
<1>2. CASE "'" \notin ToSet(str)
  <2> DEFINE blanks == {i \in DOMAIN str : str[i] = " "}
             A == Char \ {"'"}
             in == Within(str, blanks)
  <2>1. \A i \in DOMAIN str : str[i] \in A
    BY <1>2 DEF ToSet
  <2>2. \A i : QuotesBefore(str, i) = 0
    <3> SUFFICES ASSUME NEW i PROVE QuotesBefore(str, i) = 0
      OBVIOUS
    <3>1. {j \in DOMAIN str : j < i /\ str[j] = "'"} = {}
      BY <2>1
    <3> QED
      BY <3>1, FS_EmptySet DEF QuotesBefore
  <2>3. Separators(str) = blanks
    <3>1. \A i \in DOMAIN str : QuotesBefore(str, i) % 2 = 0
      BY <2>2
    <3> QED
      BY <3>1 DEF Separators
  <2>4. Split(str) \in Seq(Seq(A))
    <3>1. in \in SUBSET (1 .. n)
      BY <1>1 DEF Within
    <3>2. ASSUME NEW i \in 1 .. n PROVE PieceAt(str, in, i) \in Seq(Seq(A))
      <4>1. CASE i \in in
        <5>1. EndOf(in, i) \in 1 .. n
          BY <1>1, <3>1, <4>1, EndOfWithin
        <5> HIDE DEF in
        <5>2. str \in Seq(A)
          BY <1>1, <2>1
        <5>3. SubSeq(str, i, EndOf(in, i)) \in Seq(A)
          BY <1>1, <5>1, <5>2
        <5> HIDE DEF A
        <5>4. <<SubSeq(str, i, EndOf(in, i))>> \in Seq(Seq(A)) /\ <<>> \in Seq(Seq(A))
          BY <5>3
        <5>5. PieceAt(str, in, i) = <<SubSeq(str, i, EndOf(in, i))>> \/ PieceAt(str, in, i) = <<>>
          BY Zenon DEF PieceAt
        <5> QED
          BY <5>4, <5>5
      <4>2. CASE i \notin in
        <5> HIDE DEF in, A
        <5>1. PieceAt(str, in, i) = <<>>
          BY <4>2 DEF PieceAt
        <5> QED
          BY <5>1
      <4> QED
        BY <4>1, <4>2
    <3> HIDE DEF in, A
    <3>3. Cut(str, in, n) \in Seq(Seq(A))
      BY <1>1, <3>2, CutSteps
    <3> QED
      BY <3>3, PiecesAreCut DEF Split, in
  <2>5. Plain(Split(str)) = Split(str)
    <3> DEFINE ps == Split(str)
    <3>1. ps = [k \in DOMAIN ps |-> ps[k]] /\ \A k \in DOMAIN ps : ps[k] \in Seq(A)
      BY <2>4
    <3>2. \A k \in DOMAIN ps : Unquoted(ps[k]) = ps[k]
      BY <3>1, UnquotedSame
    <3> HIDE DEF ps
    <3>3. [k \in DOMAIN ps |-> Unquoted(ps[k])] = [k \in DOMAIN ps |-> ps[k]]
      BY <3>2
    <3> QED
      BY <3>1, <3>3 DEF Plain, ps
  <2>6. Reference(str) = [err |-> FALSE, args |-> Plain(Split(str))]
    <3>1. QuotesBefore(str, Len(str) + 1) % 2 # 1
      BY <2>2
    <3>2. Pieces(str, Separators(str)) = Split(str)
      BY <2>3 DEF Split
    <3> QED
      BY <3>1, <3>2 DEF Reference, Plain
  <2>7. parse_args(str) = [err |-> FALSE, args |-> Split(str)]
    BY <1>2 DEF parse_args
  <2> QED
    BY <2>5, <2>6, <2>7
<1>3. CASE "'" \in ToSet(str)
  <2> DEFINE in == In(str)
             ps == Pieces(str, Separators(str))
  <2>1. PICK start, in_quote, args :
          ScanTo(str, n) = State(start, in_quote, args) /\ ScanInv(str, n, start, in_quote, args)
    <3>1. n \in 0 .. Len(str)
      OBVIOUS
    <3> QED
      BY <3>1, ScanInvAll
  <2> DEFINE rest == SubSeq(str, start, Len(str))
             s == Scanned(str)
  <2>2. s.start = start /\ s.in_quote = in_quote /\ s.args = args
    BY <2>1, ScanSteps DEF State
  <2>3. parse_args(str) =
          IF in_quote THEN Failed
          ELSE [err |-> FALSE,
                args |-> IF rest = <<>> THEN args ELSE Append(args, Unquoted(rest))]
    BY <1>3, <2>2 DEF parse_args
  <2>4. Reference(str) =
          IF QuotesBefore(str, n + 1) % 2 = 1 THEN Failed ELSE [err |-> FALSE, args |-> Plain(ps)]
    BY DEF Reference, Plain
  <2>5. /\ in_quote \in BOOLEAN /\ (in_quote <=> QuotesBefore(str, n + 1) % 2 = 1)
        /\ start \in 1 .. (n + 1) /\ start .. n \subseteq in
        /\ start <= n => Append(args, Unquoted(Here(str, start))) = Plain(Cut(str, in, n))
        /\ start > n => args = Plain(Cut(str, in, n))
    BY <2>1 DEF ScanInv
  <2>6. ps = Cut(str, in, n)
    BY PiecesAreCut DEF In
  <2>7. (IF rest = <<>> THEN args ELSE Append(args, Unquoted(rest))) = Plain(ps)
    <3>1. CASE start <= n
      <4>1. in \in SUBSET Nat /\ n + 1 \notin in
        BY <1>1 DEF In, Within
      <4>2. start \in in /\ n \in in
        BY <1>1, <2>5, <3>1
      <4> HIDE DEF in
      <4>3. EndOf(in, start) = n
        BY <1>1, <2>5, <3>1, <4>1, <4>2, EndOfIs
      <4>4. Here(str, start) = rest
        BY <4>3 DEF Here, in
      <4>5. rest # <<>>
        <5>1. Len(rest) = n - start + 1 /\ Len(<<>>) = 0
          BY <1>1, <2>5, <3>1
        <5> QED
          BY <1>1, <2>5, <3>1, <5>1
      <4> HIDE DEF rest
      <4> QED
        BY <2>5, <2>6, <3>1, <4>4, <4>5
    <3>2. CASE start > n
      <4>1. rest = <<>>
        BY <1>1, <2>5, <3>2
      <4> QED
        BY <2>5, <2>6, <3>2, <4>1
    <3> QED
      BY <1>1, <2>5, <3>1, <3>2
  <2> HIDE DEF rest, ps
  <2>8. CASE in_quote
    BY <2>3, <2>4, <2>5, <2>8
  <2>9. CASE ~in_quote
    <3>1. ~(QuotesBefore(str, n + 1) % 2 = 1)
      BY <2>5, <2>9
    <3>2. Reference(str) = [err |-> FALSE, args |-> Plain(ps)]
      BY <2>4, <3>1
    <3>3. parse_args(str) = [err |-> FALSE, args |-> IF rest = <<>> THEN args ELSE Append(args, Unquoted(rest))]
      BY <2>3, <2>9
    <3> QED
      BY <2>7, <3>2, <3>3
  <2> QED
    BY <2>8, <2>9
<1> QED
  BY <1>2, <1>3

-----------------------------------------------------------------------------
(* A command has the operands of its text from the parser to the answer.   *)
ArgsInv ==
  pending # None /\ pending.text # <<>> /\ pending.form # "other" =>
    IF parse_args(pending.text).err THEN outcome = "parse-error"
    ELSE outcome # "parse-error" /\ pending.cmd.args = List(parse_args(pending.text).args)

TextInv == pending # None => pending.text \in Seq(Char)

(* Whatever is typed, with operands of any length and quoted in any way,   *)
(* the command carries the operands that counting the quotes would give.   *)
THEOREM ArgsAsTyped == Spec => []ArgsAsReference
<1> DEFINE Inv == ArgsInv /\ TextInv
<1>1. Init => Inv
  BY DEF Init, ArgsInv, TextInv
<1>2. Inv /\ [Next]_vars => Inv'
  <2> SUFFICES ASSUME Inv, [Next]_vars PROVE Inv'
    OBVIOUS
  <2>1. CASE UNCHANGED <<pending, outcome>>
    BY <2>1 DEF ArgsInv, TextInv
  <2>2. ASSUME NEW line \in Lines, Type(line) PROVE Inv'
    <3>1. /\ line.form \in {"long", "format", "short", "other"} /\ line.text \in Seq(Char)
          /\ pending' = [form |-> line.form, text |-> line.text,
                         cmd |-> IF ParseError(line) THEN <<>> ELSE parse_cmd(line)]
          /\ outcome' = IF ParseError(line) THEN "parse-error" ELSE "none"
      BY <2>2, LineForms DEF Type
    <3>2. TextInv'
      BY <3>1 DEF TextInv
    <3>3. ASSUME line.text # <<>>, line.form # "other"
          PROVE  IF parse_args(line.text).err THEN outcome' = "parse-error"
                 ELSE /\ outcome' # "parse-error"
                      /\ pending'.cmd.args = List(parse_args(line.text).args)
      <4>1. CASE parse_args(line.text).err
        BY <3>1, <3>3, <4>1 DEF ParseError
      <4>2. CASE ~parse_args(line.text).err
        <5>1. ~ParseError(line)
          BY <3>3, <4>2 DEF ParseError
        <5>2. parse_cmd(line).args = Args(line.text)
          BY <3>1, <3>3 DEF parse_cmd
        <5> QED
          BY <3>1, <3>3, <4>2, <5>1, <5>2 DEF Args
      <4> QED
        BY <4>1, <4>2
    <3> QED
      BY <3>1, <3>2, <3>3 DEF ArgsInv
  <2>3. ASSUME NEW cmd \in Injected, inject_ctl(cmd) PROVE Inv'
    BY <2>3 DEF inject_ctl, ArgsInv, TextInv
  <2>4. CASE _dispatch
    <3>1. UNCHANGED pending /\ outcome = "none" /\ outcome' = Verdict(pending.cmd)
      BY <2>4 DEF _dispatch
    <3>2. Verdict(pending.cmd) # "parse-error"
      BY DEF Verdict
    <3> QED
      BY <3>1, <3>2 DEF ArgsInv, TextInv
  <2>5. CASE Require \/ Create
    <3>1. UNCHANGED pending /\ outcome # "parse-error" /\ outcome' # "parse-error"
      BY <2>5 DEF Require, Create
    <3> QED
      BY <3>1 DEF ArgsInv, TextInv
  <2>6. CASE Answer
    BY <2>6 DEF Answer, ArgsInv, TextInv
  <2>7. CASE StartUp \/ (\E d \in ModelScmds : register_scmd(d)) \/ UNCHANGED vars
    BY <2>1, <2>7 DEF StartUp, register_scmd, vars
  <2> QED
    BY <2>2, <2>3, <2>4, <2>5, <2>6, <2>7 DEF Next
<1>3. Inv => ArgsAsReference
  BY ParseArgsIsReference DEF ArgsInv, TextInv, ArgsAsReference
<1> QED
  BY <1>1, <1>2, <1>3, PTL DEF Spec
=============================================================================
