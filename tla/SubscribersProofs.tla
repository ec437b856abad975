------------------------- MODULE SubscribersProofs --------------------------
(* Subscribers, for every finite set of consumers and all bounds.          *)
EXTENDS Subscribers, FiniteSetTheorems, TLAPS

(* The stream flows only while a handler is attached: the part of the      *)
(* invariant that NothingLost needs and does not state.                    *)
Inv ==
  /\ ctl \in SUBSET Consumers /\ sim \in SUBSET Consumers
  /\ ctl_data \in BOOLEAN /\ sim_data \in BOOLEAN /\ flowing \in BOOLEAN /\ engine \in BOOLEAN
  /\ HandlersMatch
  /\ flowing => ctl_data
  /\ NothingLost

LEMMA Counting ==
  ASSUME NEW S \in SUBSET Consumers, NEW c \in Consumers
  PROVE  /\ Cardinality(S) \in Nat
         /\ Cardinality(S) = 0 <=> S = {}
         /\ c \notin S => Cardinality(S \cup {c}) = Cardinality(S) + 1
         /\ c \in S => Cardinality(S \ {c}) = Cardinality(S) - 1
         /\ c \in S => (Cardinality(S) = 1 <=> S \ {c} = {})
<1>1. IsFiniteSet(S)
  BY ConsumersFinite, FS_Subset
<1>2. Cardinality(S) \in Nat /\ (Cardinality(S) = 0 <=> S = {})
  BY <1>1, FS_CardinalityType, FS_EmptySet
<1>3. c \notin S => Cardinality(S \cup {c}) = Cardinality(S) + 1
  BY <1>1, FS_AddElement
<1>4. IsFiniteSet(S \ {c}) /\ (c \in S => Cardinality(S \ {c}) = Cardinality(S) - 1)
  BY <1>1, FS_RemoveElement
<1>5. Cardinality(S \ {c}) = 0 <=> S \ {c} = {}
  BY <1>4, FS_EmptySet
<1> QED BY <1>2, <1>3, <1>4, <1>5

LEMMA InvInit == Init => Inv
  BY FS_EmptySet DEF Init, Inv, HandlersMatch, NothingLost

LEMMA InvNext == Inv /\ [Next]_vars => Inv'
<1> SUFFICES ASSUME Inv, [Next]_vars PROVE Inv'
  OBVIOUS
<1> USE DEF Inv, HandlersMatch, NothingLost, control, data
<1>1. ASSUME NEW c \in Consumers, ListenCtl(c) PROVE Inv'
  BY <1>1, Counting DEF ListenCtl
<1>2. ASSUME NEW c \in Consumers, LeaveCtl(c) PROVE Inv'
  <2>1. ctl_subscribers' = Cardinality(ctl') /\ (ctl_subscribers = 1 <=> ctl' = {})
    BY <1>2, Counting DEF LeaveCtl
  <2>2. ctl' \in SUBSET Consumers /\ ctl # {}
    BY <1>2 DEF LeaveCtl
  <2>3. ctl_data' \in BOOLEAN /\ (ctl_data' <=> ctl' # {})
    BY <1>2, <2>1, <2>2, Zenon DEF LeaveCtl
  <2>4. flowing' = FALSE /\ UNCHANGED <<sim, sim_subscribers, engine, sim_data, lost>>
    BY <1>2 DEF LeaveCtl
  <2> QED BY <2>1, <2>2, <2>3, <2>4, Zenon
<1>3. ASSUME NEW c \in Consumers, ListenSim(c) PROVE Inv'
  BY <1>3, Counting DEF ListenSim
<1>4. ASSUME NEW c \in Consumers, LeaveSim(c) PROVE Inv'
  <2>1. sim_subscribers' = Cardinality(sim') /\ (sim_subscribers = 1 <=> sim' = {})
    BY <1>4, Counting DEF LeaveSim
  <2>2. sim' \in SUBSET Consumers /\ sim # {}
    BY <1>4 DEF LeaveSim
  <2>3. sim_data' \in BOOLEAN /\ (sim_data' <=> sim' # {} /\ engine)
    BY <1>4, <2>1, <2>2, Zenon DEF LeaveSim
  <2>4. UNCHANGED <<ctl, ctl_subscribers, ctl_data, flowing, engine, lost>>
    BY <1>4 DEF LeaveSim
  <2> QED BY <2>1, <2>2, <2>3, <2>4, Zenon
<1>5. CASE InitDone
  <2>1. sim_subscribers > 0 <=> sim # {}
    <3>1. Cardinality(sim) \in Nat /\ (Cardinality(sim) = 0 <=> sim = {})
      BY ConsumersFinite, FS_Subset, FS_CardinalityType, FS_EmptySet
    <3> QED BY <3>1
  <2>2. engine' = TRUE /\ sim' = sim
    BY <1>5 DEF InitDone
  <2>3. sim_data' \in BOOLEAN /\ (sim_data' <=> sim' # {} /\ engine')
    <3>1. CASE sim_subscribers > 0
      <4>1. sim_data' = TRUE
        BY <1>5, <3>1 DEF InitDone
      <4> QED BY <2>1, <2>2, <3>1, <4>1, Zenon
    <3>2. CASE ~(sim_subscribers > 0)
      <4>1. sim_data' = FALSE
        BY <1>5, <3>2 DEF InitDone
      <4> QED BY <2>1, <2>2, <3>2, <4>1, Zenon
    <3> QED BY <3>1, <3>2, Zenon
  <2>4. UNCHANGED <<ctl, sim, ctl_subscribers, sim_subscribers, ctl_data, flowing, lost>>
    BY <1>5 DEF InitDone
  <2> QED BY <2>2, <2>3, <2>4, Zenon
<1>6. CASE _terminate
  BY <1>6 DEF _terminate
<1>7. CASE Respond
  BY <1>7 DEF Respond
<1>8. CASE Flow
  BY <1>8 DEF Flow
<1>9. CASE UNCHANGED vars
  BY <1>9 DEF vars
<1> QED BY <1>1, <1>2, <1>3, <1>4, <1>5, <1>6, <1>7, <1>8, <1>9 DEF Next

(* The simulation's own handlers are attached exactly while somebody       *)
(* listens, and the counters say how many.                                 *)
THEOREM HandlersFollow == Spec => []HandlersMatch
<1>1. Inv => HandlersMatch
  BY DEF Inv
<1> QED BY <1>1, InvInit, InvNext, PTL DEF Spec

(* No response is read from the control stream when nobody listens.        *)
THEOREM ResponsesKept == Spec => []NothingLost
<1>1. Inv => NothingLost
  BY DEF Inv
<1> QED BY <1>1, InvInit, InvNext, PTL DEF Spec
=============================================================================
