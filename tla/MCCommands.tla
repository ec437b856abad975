----------------------------- MODULE MCCommands -----------------------------
(* The lines, objects and models that Commands is checked with.            *)
EXTENDS Commands

(* The texts of at most n characters that can follow a command's name.     *)
Texts(n) ==
  {<<>>} \cup {t \in UNION {[1 .. k -> Char] : k \in 1 .. n} : t[1] # " " /\ t[Len(t)] # " "}

AllNames ==
  UNION {Descriptors[i].names : i \in DOMAIN Descriptors}
    \cup {"probe", ":p", "nosuch"} \cup Inherited

Line(form, addrs, scmds, texts) ==
  [form : {form}, addr : addrs, scmd : scmds, text : texts]

MCLines ==
  Line("long", {Null, "5", "constructor"}, AllNames, Texts(2))
    \cup Line("long", {Null}, {"attach"}, Texts(5))
    \cup Line("short", {Absent}, {"$a", ":A", ":b", ":c", ":r", ":z", "$q", ":p"}, Texts(2))
    \cup Line("format", {"5"}, {Absent}, Texts(1))
    \cup Line("other", {Absent}, {Absent}, {<<>>})

MCInjected ==
  [scmd : {"attach", "bp", "delete", "run", "stop", ""},
   addr : {Absent, Null, "5", ""},
   args : {AbsentArgs, NullArgs, List(<<>>), List(<< <<"all">> >>), List(<< <<>> >>)}]

(* A command of the model's own with a short name and a validator that     *)
(* wants addr to be there, if only null; one that wants a name of the      *)
(* standard commands, and one that wants a name of the first.              *)
MCModelScmds ==
  {D("probe", {":p"}, "probe"), D("peek", {":c"}, "noargs"), D("poke", {"probe"}, "none")}
MCModelAccepts(vtor, cmd) == vtor = "probe" /\ cmd.addr # Absent
=============================================================================
