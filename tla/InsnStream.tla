----------------------------- MODULE InsnStream -----------------------------
(***************************************************************************)
(* What a client may rely on, whatever the order in which commands, the    *)
(* input and the model act: a simulation executes the instructions of its  *)
(* input one at a time, from the first, in order, none twice and none      *)
(* skipped; it executes nothing while it is suspended; an instruction that *)
(* fails is the last.  How the controller achieves that is not said.       *)
(***************************************************************************)
EXTENDS Naturals

VARIABLES
  state,     \* of the simulation: inactive, running, suspended or ending
  current,   \* the set of the addresses of instructions that execute
  next       \* the address of the first instruction that is not retired

vars == <<state, current, next>>

Init == state = "inactive" /\ current = {} /\ next = 0

Start ==
  /\ state = "inactive"
  /\ state' = "running" /\ next' = 0
  /\ UNCHANGED current

(* Whether it runs on, or starts to run, with that instruction.            *)
Begin ==
  /\ state \in {"running", "suspended"} /\ current = {}
  /\ state' = "running" /\ current' = {next}
  /\ UNCHANGED next

Retire ==
  /\ next \in current
  /\ current' = {} /\ next' = next + 1
  /\ UNCHANGED state

(* A trap puts the instruction back and suspends the simulation.           *)
Trap ==
  /\ current # {}
  /\ state' = "suspended" /\ current' = {}
  /\ UNCHANGED next

Fail ==
  /\ current # {}
  /\ state' = "ending" /\ current' = {}
  /\ UNCHANGED next

(* It is suspended, resumed with nothing to execute yet, or ends.          *)
Turn ==
  /\ state # "inactive" /\ current = {}
  /\ \/ state \in {"running", "suspended"} /\ state' \in {"running", "suspended", "ending"}
        /\ UNCHANGED next
     \/ state' = "inactive" /\ next' = 0
  /\ UNCHANGED current

Next == Start \/ Begin \/ Retire \/ Trap \/ Fail \/ Turn

Spec == Init /\ [][Next]_vars
=============================================================================
