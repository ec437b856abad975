----------------------------- MODULE Breakpoints -----------------------------
(***************************************************************************)
(* The two tables of breakpoints of lib/CT_simulation.js, for a simulation *)
(* that is stopped whenever a command arrives.  _bplist is an array with a *)
(* slot, hence an id, for each breakpoint set; _bptbl maps the key of an   *)
(* address to a slot.  Simulation has only the set of keys of _bptbl.      *)
(*                                                                         *)
(* An address that a command names is a text.  ::bp turns it into a number *)
(* with parseInt(), ::delete uses it as it stands; so what matters of a    *)
(* text is its number, and if it is spelled the way JavaScript spells that *)
(* number ("16", not "0x10"), which makes it the key of that number.       *)
(***************************************************************************)
EXTENDS Naturals, Sequences

CONSTANTS
  Addrs,    \* the addresses, numbers all of them
  NaN,      \* what parseInt() makes of a text that is no number
  Hole,     \* a deleted element of _bplist
  MaxSets   \* bound: the breakpoints set between two deletions of them all

ASSUME AddrsAssumption == NaN \notin Addrs /\ Hole \notin Addrs \cup {NaN}
ASSUME MaxSetsAssumption == MaxSets \in Nat

Number == Addrs \cup {NaN}
Text == [number : Number, plain : BOOLEAN]
Fault == {"none", "bp", "delete"}

VARIABLES
  bplist,   \* _bplist
  bptbl,    \* _bptbl: a function from the keys it has to slots of _bplist
  pending,  \* the address of the pending instruction, or Hole
  trap,     \* its flag ictx.trap
  cmd,      \* history: the command answered last, with the text it was given
  answer,   \* the final response to it: done, or an error
  fault     \* the handler whose exception killed the process, if any

vars == <<bplist, bptbl, pending, trap, cmd, answer, fault>>

Init ==
  /\ bplist = <<>> /\ bptbl = <<>>
  /\ pending = Hole /\ trap = FALSE
  /\ cmd = [scmd |-> "none"] /\ answer = "none" /\ fault = "none"

(* A command that was given the text t has its final response.             *)
Answer(scmd, t, res) == cmd' = [scmd |-> scmd, text |-> t] /\ answer' = res

(* What parseInt() makes of a text that is an address: with the radix 0    *)
(* that it is given, the number for which JavaScript would read it.        *)
ParseIntDecimal(t) ==  \* mutant: radix 10, by which "0x1" is 0
  IF t.plain \/ t.number = NaN THEN t.number ELSE 0
ParseInt(t) == t.number

(* [addr]::bp or ::bp addr, for a text t: the handler pushes the number,   *)
(* though it may be there, and has its key refer to the new slot.          *)
KeyedFirst(n) ==  \* mutant: the index of the element before it
  [k \in DOMAIN bptbl \cup {n} |-> IF k = n THEN Len(bplist) ELSE bptbl[k]]
KeyedNot(n) == bptbl  \* mutant: only the list is updated
KeyedBySlot(n) ==  \* mutant: the key is the slot, not the address
  [k \in DOMAIN bptbl \cup {Len(bplist) + 1} |->
     IF k = Len(bplist) + 1 THEN k ELSE bptbl[k]]
Keyed(n) == [k \in DOMAIN bptbl \cup {n} |-> IF k = n THEN Len(bplist) + 1 ELSE bptbl[k]]

Bp(t) ==
  /\ fault = "none" /\ Len(bplist) < MaxSets
  /\ bplist' = Append(bplist, ParseInt(t))
  /\ bptbl' = Keyed(ParseInt(t))
  /\ trap' = (trap \/ (pending # Hole /\ pending = ParseInt(t)))
  /\ Answer("bp", t, "done")
  /\ UNCHANGED <<pending, fault>>

(* :b with nothing else.  The parser gives it no `addr' and null `args',   *)
(* which scmd_bp_vtor() lets through: it tests args, not addr, for being   *)
(* undefined.  The handler then reads null[0].                             *)
BpBare ==
  /\ fault = "none"
  /\ fault' = "bp"
  /\ UNCHANGED <<bplist, bptbl, pending, trap, cmd, answer>>

(* addr::delete for a text t: refused if it is no key.  The handler then   *)
(* asserts that the slot holds that address, which NaN never equals.       *)
Delete(t) ==
  /\ fault = "none"
  /\ t.plain /\ t.number \in DOMAIN bptbl
  /\ IF bplist[bptbl[t.number]] = t.number /\ t.number # NaN
     THEN /\ bplist' = [bplist EXCEPT ![bptbl[t.number]] = Hole]
          /\ bptbl' = [k \in DOMAIN bptbl \ {t.number} |-> bptbl[k]]
          /\ Answer("delete", t, "done")
          /\ UNCHANGED fault
     ELSE fault' = "delete" /\ UNCHANGED <<bplist, bptbl, cmd, answer>>
  /\ UNCHANGED <<pending, trap>>

DeleteRefused(t) ==
  /\ fault = "none"
  /\ ~(t.plain /\ t.number \in DOMAIN bptbl)
  /\ Answer("delete", t, "err")
  /\ UNCHANGED <<bplist, bptbl, pending, trap, fault>>

(* ::delete all, and :z.  (::delete with an id is refused: the schema lets *)
(* only strings be arguments, and scmd_delete_vtor() wants a number.)      *)
DeleteAll ==
  /\ fault = "none"
  /\ bplist' = <<>> /\ bptbl' = <<>>
  /\ cmd' = [scmd |-> "all"] /\ answer' = "done"
  /\ UNCHANGED <<pending, trap, fault>>

(* The simulation goes on to the instruction at a, and stops there: the    *)
(* breakpoint table is consulted when the instruction is fetched.          *)
Fetch(a) ==
  /\ fault = "none"
  /\ pending = Hole
  /\ pending' = a
  /\ trap' = (a \in DOMAIN bptbl)
  /\ UNCHANGED <<bplist, bptbl, cmd, answer, fault>>

(* ::cont or ::step at the pending instruction: the first one after it was *)
(* marked clears the mark, the next one executes the instruction.          *)
ExecNext ==
  /\ fault = "none"
  /\ pending # Hole
  /\ trap' = FALSE
  /\ pending' = IF trap THEN pending ELSE Hole
  /\ cmd' = [scmd |-> "cont"] /\ answer' = "done"
  /\ UNCHANGED <<bplist, bptbl, fault>>

Next ==
  \/ \E t \in Text : Bp(t) \/ Delete(t) \/ DeleteRefused(t)
  \/ BpBare \/ DeleteAll \/ ExecNext
  \/ \E a \in Addrs : Fetch(a)

Spec == Init /\ [][Next]_vars

-----------------------------------------------------------------------------
TypeOK ==
  /\ bplist \in Seq(Number \cup {Hole})
  /\ DOMAIN bptbl \subseteq Number
  /\ pending \in Addrs \cup {Hole}
  /\ trap \in BOOLEAN
  /\ cmd \in [scmd : {"bp", "delete"}, text : Text] \cup [scmd : {"none", "all", "cont"}]
  /\ answer \in {"none", "done", "err"}
  /\ fault \in Fault

(* Every key refers to a slot that holds its address: what both assertions *)
(* of scmd_delete_hdlr() need, in spite of addresses set twice, and what   *)
(* has ::events, which shows the slots, show every breakpoint.             *)
TableMatchesList ==
  \A k \in DOMAIN bptbl : bptbl[k] \in DOMAIN bplist /\ bplist[bptbl[k]] = k

(* To the fetch of instructions the table is a set of addresses.  A ::bp   *)
(* adds the number its text stands for, however spelled, once or again; a  *)
(* ::delete takes the number its text spells out, or is refused and takes  *)
(* nothing if that has no breakpoint or is spelled otherwise; ::delete all *)
(* takes all; nothing else changes the set.  A command that kills the      *)
(* process changes nothing.  (The list, of which this says nothing, is     *)
(* related to the table by TableMatchesList.)                              *)
Armed == INSTANCE BreakpointSet WITH Addrs <- Number, armed <- DOMAIN bptbl
ArmedSpec == Armed!Spec

(* A mark to trap appears on a pending instruction only while there is a   *)
(* breakpoint for it.                                                      *)
TrapOnlyAtBreakpoint == [][trap' /\ ~trap => pending' \in DOMAIN bptbl']_vars
=============================================================================
