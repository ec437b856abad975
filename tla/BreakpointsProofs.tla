-------------------------- MODULE BreakpointsProofs --------------------------
(* Proofs about Breakpoints: for any set of addresses and any number of     *)
(* breakpoints the two tables agree, and implement a set of addresses.      *)
EXTENDS Breakpoints, TLAPS

Inv == TypeOK /\ TableMatchesList

(* Before any command both tables are empty.                               *)
LEMMA InitInv == Init => Inv
<1>1. DOMAIN <<>> = {} /\ <<>> \in Seq(Number \cup {Hole})
  OBVIOUS
<1> SUFFICES ASSUME Init PROVE Inv
  OBVIOUS
<1>2. DOMAIN bptbl = {} /\ bplist \in Seq(Number \cup {Hole})
  BY <1>1 DEF Init
<1>3. cmd \in [scmd : {"none", "all", "cont"}]
  BY DEF Init
<1>4. pending \in Addrs \cup {Hole} /\ trap \in BOOLEAN /\ answer = "none" /\ fault = "none"
  BY DEF Init
<1>5. TypeOK
  BY <1>2, <1>3, <1>4 DEF TypeOK, Fault
<1>6. TableMatchesList
  BY <1>2 DEF TableMatchesList
<1> QED
  BY <1>5, <1>6 DEF Inv

(* A new slot gets its key, whether or not the key had a slot before; the  *)
(* slots of the other keys stay.                                           *)
LEMMA BpInv ==
  ASSUME Inv, NEW t \in Text, Bp(t)
  PROVE  Inv'
<1>1. t.number \in Number
  BY DEF Text
<1>2. /\ bplist \in Seq(Number \cup {Hole})
      /\ bplist' = Append(bplist, t.number)
      /\ bptbl' = Keyed(t.number)
  BY DEF Bp, ParseInt, Inv, TypeOK
<1>3. TypeOK'
  <2>1. DOMAIN bptbl' \subseteq Number
    BY <1>1, <1>2 DEF Keyed, Inv, TypeOK
  <2>2. bplist' \in Seq(Number \cup {Hole})
    BY <1>1, <1>2
  <2>3. trap' \in BOOLEAN
    BY DEF Bp, Inv, TypeOK
  <2>4. cmd' = [scmd |-> "bp", text |-> t] /\ answer' = "done" /\ UNCHANGED <<pending, fault>>
    BY DEF Bp, Answer
  <2> QED
    BY <2>1, <2>2, <2>3, <2>4 DEF Inv, TypeOK
<1>4. TableMatchesList'
  <2> SUFFICES ASSUME NEW k \in DOMAIN bptbl'
               PROVE  bptbl'[k] \in DOMAIN bplist' /\ bplist'[bptbl'[k]] = k
    BY DEF TableMatchesList
  <2>1. CASE k = t.number
    <3>1. bptbl'[k] = Len(bplist) + 1
      BY <1>2, <2>1 DEF Keyed
    <3> QED
      BY <1>1, <1>2, <2>1, <3>1
  <2>2. CASE k # t.number
    <3>1. k \in DOMAIN bptbl /\ bptbl'[k] = bptbl[k]
      BY <1>2, <2>2 DEF Keyed
    <3>2. bptbl[k] \in DOMAIN bplist /\ bplist[bptbl[k]] = k
      BY <3>1 DEF Inv, TableMatchesList
    <3> QED
      BY <1>1, <1>2, <3>1, <3>2
  <2> QED
    BY <2>1, <2>2
<1> QED
  BY <1>3, <1>4 DEF Inv

(* No two keys share a slot, since each slot holds the address of its key: *)
(* emptying the slot of one key leaves the others theirs.                  *)
LEMMA DeleteInv ==
  ASSUME Inv, NEW t \in Text, Delete(t)
  PROVE  Inv'
<1> DEFINE slot == bptbl[t.number]
<1>1. /\ t.number \in DOMAIN bptbl
      /\ bplist \in Seq(Number \cup {Hole})
      /\ slot \in DOMAIN bplist /\ bplist[slot] = t.number
  BY DEF Delete, Inv, TypeOK, TableMatchesList
<1>2. CASE t.number = NaN
  BY <1>2 DEF Delete, Inv, TypeOK, TableMatchesList, Fault
<1>3. CASE t.number # NaN
  <2>1. /\ bplist' = [bplist EXCEPT ![slot] = Hole]
        /\ bptbl' = [k \in DOMAIN bptbl \ {t.number} |-> bptbl[k]]
        /\ cmd' = [scmd |-> "delete", text |-> t] /\ answer' = "done"
        /\ UNCHANGED <<pending, trap, fault>>
    BY <1>1, <1>3 DEF Delete, Answer
  <2> HIDE DEF slot
  <2>2. TypeOK'
    <3>1. bplist' \in Seq(Number \cup {Hole})
      BY <1>1, <2>1
    <3>2. DOMAIN bptbl' \subseteq Number
      BY <2>1 DEF Inv, TypeOK
    <3> QED
      BY <2>1, <3>1, <3>2 DEF Inv, TypeOK
  <2>3. TableMatchesList'
    <3> SUFFICES ASSUME NEW k \in DOMAIN bptbl'
                 PROVE  bptbl'[k] \in DOMAIN bplist' /\ bplist'[bptbl'[k]] = k
      BY DEF TableMatchesList
    <3>1. k \in DOMAIN bptbl /\ k # t.number /\ bptbl'[k] = bptbl[k]
      BY <2>1
    <3>2. bptbl[k] \in DOMAIN bplist /\ bplist[bptbl[k]] = k
      BY <3>1 DEF Inv, TableMatchesList
    <3>3. bptbl[k] # slot
      BY <1>1, <3>1, <3>2
    <3> QED
      BY <1>1, <2>1, <3>1, <3>2, <3>3
  <2> QED
    BY <2>2, <2>3 DEF Inv
<1> QED
  BY <1>2, <1>3

(* The types and the agreement of the tables are inductive together.       *)
LEMMA NextInv == Inv /\ [Next]_vars => Inv'
<1> SUFFICES ASSUME Inv, [Next]_vars PROVE Inv'
  OBVIOUS
<1>1. ASSUME NEW t \in Text, Bp(t) \/ Delete(t) PROVE Inv'
  BY <1>1, BpInv, DeleteInv
<1>2. CASE \E t \in Text : DeleteRefused(t)
  BY <1>2 DEF DeleteRefused, Answer, Inv, TypeOK, TableMatchesList
<1>3. CASE BpBare
  BY <1>3 DEF BpBare, Inv, TypeOK, TableMatchesList, Fault
<1>4. CASE DeleteAll
  BY <1>4 DEF DeleteAll, Inv, TypeOK, TableMatchesList
<1>5. CASE ExecNext
  BY <1>5 DEF ExecNext, Inv, TypeOK, TableMatchesList
<1>6. ASSUME NEW a \in Addrs, Fetch(a) PROVE Inv'
  BY <1>6 DEF Fetch, Inv, TypeOK, TableMatchesList
<1>7. CASE UNCHANGED vars
  BY <1>7 DEF vars, Inv, TypeOK, TableMatchesList
<1> QED
  BY <1>1, <1>2, <1>3, <1>4, <1>5, <1>6, <1>7 DEF Next

(* In every reachable state the variables have their types and the two     *)
(* tables of breakpoints agree.                                            *)
THEOREM InvHolds == Spec => []Inv
<1> QED
  BY InitInv, NextInv, PTL DEF Spec

(* The tables hold addresses (or NaN) only, and every refusal and every    *)
(* crash is one of those the handlers can produce.                         *)
THEOREM TypeCorrect == Spec => []TypeOK
BY InvHolds, PTL DEF Inv

(* Every key of the table refers to a slot with its address, so the        *)
(* assertions of ::delete hold for every address that is a number.         *)
THEOREM TablesMatch == Spec => []TableMatchesList
BY InvHolds, PTL DEF Inv

(* The tables implement a set of addresses: a ::bp adds the number of its  *)
(* text, however spelled and whether or not it was there; a ::delete takes *)
(* the number that its text spells out, or all, or is refused and takes    *)
(* none; nothing else changes the set.                                     *)
THEOREM TablesAreASet == Spec => ArmedSpec
<1>1. Init => Armed!Init
  BY DEF Init, Armed!Init
<1>2. [Next]_vars => [Armed!Next]_<<DOMAIN bptbl, cmd, answer>>
  <2> SUFFICES ASSUME Next PROVE Armed!Next \/ UNCHANGED <<DOMAIN bptbl, cmd, answer>>
    BY DEF vars
  <2>1. ASSUME NEW t \in Text PROVE t \in Armed!Text
    BY DEF Text, Armed!Text
  <2>2. ASSUME NEW t \in Text, Bp(t) PROVE Armed!Next
    <3>1. DOMAIN bptbl' = DOMAIN bptbl \cup {t.number}
      BY <2>2 DEF Bp, Keyed, ParseInt
    <3>2. Armed!Set(t)
      BY <2>2, <3>1 DEF Bp, Answer, Armed!Set
    <3> QED
      BY <2>1, <3>2 DEF Armed!Next
  <2>3. ASSUME NEW t \in Text, Delete(t)
        PROVE  Armed!Next \/ UNCHANGED <<DOMAIN bptbl, cmd, answer>>
    <3>1. CASE UNCHANGED <<bptbl, cmd, answer>>
      BY <3>1
    <3>2. CASE /\ bptbl' = [k \in DOMAIN bptbl \ {t.number} |-> bptbl[k]]
               /\ Answer("delete", t, "done")
      <4>1. DOMAIN bptbl' = DOMAIN bptbl \ {t.number}
        BY <3>2
      <4>2. Armed!Clear(t)
        BY <2>3, <3>2, <4>1 DEF Delete, Answer, Armed!Clear
      <4> QED
        BY <2>1, <4>2 DEF Armed!Next
    <3> QED
      BY <2>3, <3>1, <3>2 DEF Delete
  <2>4. ASSUME NEW t \in Text, DeleteRefused(t) PROVE Armed!Next
    <3>1. Armed!NothingToClear(t)
      BY <2>4 DEF DeleteRefused, Answer, Armed!NothingToClear
    <3> QED
      BY <2>1, <3>1 DEF Armed!Next
  <2>5. CASE DeleteAll
    <3>1. DOMAIN bptbl' = {}
      BY <2>5 DEF DeleteAll
    <3>2. Armed!ClearAll
      BY <2>5, <3>1 DEF DeleteAll, Armed!ClearAll
    <3> QED
      BY <3>2 DEF Armed!Next
  <2>6. CASE ExecNext
    <3>1. Armed!Continue
      BY <2>6 DEF ExecNext, Armed!Continue
    <3> QED
      BY <3>1 DEF Armed!Next
  <2>7. CASE BpBare \/ \E a \in Addrs : Fetch(a)
    BY <2>7 DEF BpBare, Fetch
  <2> QED
    BY <2>2, <2>3, <2>4, <2>5, <2>6, <2>7 DEF Next
<1> QED
  BY <1>1, <1>2, PTL DEF Spec, ArmedSpec, Armed!Spec

(* An instruction is marked to trap only where the table has a breakpoint: *)
(* when it is fetched at such an address, or a ::bp names the one that is  *)
(* pending.  No other command marks it.                                    *)
THEOREM TrapsAtBreakpoints == Spec => TrapOnlyAtBreakpoint
<1>1. ASSUME [Next]_vars
      PROVE  [trap' /\ ~trap => pending' \in DOMAIN bptbl']_vars
  <2> SUFFICES ASSUME Next, trap', ~trap PROVE pending' \in DOMAIN bptbl'
    BY <1>1
  <2>1. ASSUME NEW t \in Text, Bp(t) PROVE pending' \in DOMAIN bptbl'
    <3>1. pending' = t.number
      BY <2>1 DEF Bp, ParseInt
    <3> QED
      BY <2>1, <3>1 DEF Bp, Keyed, ParseInt
  <2>2. ASSUME NEW t \in Text, Delete(t) \/ DeleteRefused(t) PROVE FALSE
    BY <2>2 DEF Delete, DeleteRefused
  <2>3. CASE BpBare \/ DeleteAll \/ ExecNext
    BY <2>3 DEF BpBare, DeleteAll, ExecNext
  <2>4. ASSUME NEW a \in Addrs, Fetch(a) PROVE pending' \in DOMAIN bptbl'
    BY <2>4 DEF Fetch
  <2> QED
    BY <2>1, <2>2, <2>3, <2>4 DEF Next
<1> QED
  BY <1>1, PTL DEF Spec, TrapOnlyAtBreakpoint
=============================================================================
