---------------------------- MODULE BreakpointSet ----------------------------
(* What the breakpoints of a simulation are to whoever runs it: a set of    *)
(* addresses, which the fetch of an instruction consults, and commands that *)
(* change it by the address that they name.                                 *)
CONSTANT Addrs

(* The text of an address: the number it stands for, and if it is spelled   *)
(* the way that numbers are printed.                                        *)
Text == [number : Addrs, plain : BOOLEAN]

VARIABLES
  armed,   \* the addresses with a breakpoint
  cmd,     \* the command answered last, with the text it was given
  answer   \* its answer

Init == armed = {} /\ cmd = [scmd |-> "none"] /\ answer = "none"

(* A breakpoint can be set however the address is spelled, ...              *)
Set(t) ==
  /\ cmd' = [scmd |-> "bp", text |-> t]
  /\ armed' = armed \cup {t.number}
  /\ answer' = "done"

(* ... but is taken only by the spelling of numbers that are printed.       *)
Clear(t) ==
  /\ cmd' = [scmd |-> "delete", text |-> t]
  /\ t.plain /\ t.number \in armed
  /\ armed' = armed \ {t.number}
  /\ answer' = "done"

NothingToClear(t) ==
  /\ cmd' = [scmd |-> "delete", text |-> t]
  /\ ~t.plain \/ t.number \notin armed
  /\ armed' = armed
  /\ answer' = "err"

ClearAll == cmd' = [scmd |-> "all"] /\ armed' = {} /\ answer' = "done"

Continue == cmd' = [scmd |-> "cont"] /\ armed' = armed /\ answer' = "done"

Next ==
  \/ \E t \in Text : Set(t) \/ Clear(t) \/ NothingToClear(t)
  \/ ClearAll \/ Continue

Spec == Init /\ [][Next]_<<armed, cmd, answer>>
=============================================================================
