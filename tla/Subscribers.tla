---------------------------- MODULE Subscribers -----------------------------
(***************************************************************************)
(* Who hears what lib/CT_simulation.js produces.  The simulation counts    *)
(* the listeners of its events ctl-response and model-data, and attaches a *)
(* data handler of its own to the control stream and to the engine while   *)
(* there are any; the engine comes and goes with the runs.                 *)
(*                                                                         *)
(* A stream that flows hands what it holds to its data handlers, and loses *)
(* it if there are none; one that does not flow keeps it.  A stream begins *)
(* to flow when resume() is called or a data handler is attached to it for *)
(* the first time (the streams are the platform's).                        *)
(***************************************************************************)
EXTENDS Integers, FiniteSets

CONSTANTS
  Consumers,      \* the session, a standalone model, other drivers
  MaxResponses,   \* bounds the commands answered
  MaxRuns         \* bounds the engines made

ASSUME ConsumersFinite == IsFiniteSet(Consumers)

VARIABLES
  ctl,               \* the consumers that listen to ctl-response
  sim,               \* the consumers that listen to model-data
  ctl_subscribers,   \* _ctl_subscribers
  sim_subscribers,   \* _sim_subscribers
  ctl_data,          \* _emit_ctl is attached to _ctlstream
  flowing,           \* _ctlstream flows
  engine,            \* _engine is not null
  sim_data,          \* _emit_sim is attached to _engine
  held,              \* the responses _ctlstream holds
  responses,         \* how many have been pushed
  lost,              \* how many were read when no handler was attached
  runs,              \* how many engines were made
  left               \* history: a consumer left while another stayed, since
                     \* ctl-response last had its first listener

control == <<ctl, ctl_subscribers, ctl_data, flowing, held, responses, lost, left>>
data == <<sim, sim_subscribers, engine, sim_data, runs>>
vars == <<control, data>>

Init ==
  /\ ctl = {} /\ sim = {}
  /\ ctl_subscribers = 0 /\ sim_subscribers = 0
  /\ ctl_data = FALSE /\ flowing = FALSE
  /\ engine = FALSE /\ sim_data = FALSE
  /\ held = 0 /\ responses = 0 /\ lost = 0 /\ runs = 0
  /\ left = FALSE

-----------------------------------------------------------------------------
(* on('ctl-response'): newListener is emitted before the listener is in.   *)
ListenCtlSilent(c) ==  \* mutant: the stream is not resumed
  /\ c \notin ctl /\ ctl' = ctl \cup {c}
  /\ ctl_subscribers' = ctl_subscribers + 1
  /\ ctl_data' = TRUE
  /\ left' = (left /\ ctl_subscribers # 0)
  /\ UNCHANGED <<flowing, held, responses, lost, data>>
ListenCtl(c) ==
  /\ c \notin ctl /\ ctl' = ctl \cup {c}
  /\ ctl_subscribers' = ctl_subscribers + 1
  /\ IF ctl_subscribers = 0
     THEN ctl_data' = TRUE /\ flowing' = TRUE /\ left' = FALSE
     ELSE UNCHANGED <<ctl_data, flowing, left>>
  /\ UNCHANGED <<held, responses, lost, data>>

(* removeListener('ctl-response'): pause() is called whoever is left.      *)
LeaveCtlFlowing(c) ==  \* mutant: the stream is not paused
  /\ c \in ctl /\ ctl' = ctl \ {c}
  /\ ctl_subscribers' = ctl_subscribers - 1
  /\ ctl_data' = (ctl_data /\ ctl_subscribers # 1)
  /\ left' = (ctl_subscribers # 1)
  /\ UNCHANGED <<flowing, held, responses, lost, data>>
LeaveCtl(c) ==
  /\ c \in ctl /\ ctl' = ctl \ {c}
  /\ ctl_subscribers' = ctl_subscribers - 1
  /\ flowing' = FALSE
  /\ ctl_data' = (ctl_data /\ ctl_subscribers # 1)
  /\ left' = (ctl_subscribers # 1)
  /\ UNCHANGED <<held, responses, lost, data>>

(* on('model-data'), counted "even if there's no engine".                  *)
ListenSimEngine(c) ==  \* mutant: counts only when there is an engine
  /\ c \notin sim /\ sim' = sim \cup {c}
  /\ sim_subscribers' = IF engine THEN sim_subscribers + 1 ELSE sim_subscribers
  /\ sim_data' = (sim_data \/ engine)
  /\ UNCHANGED <<engine, runs, control>>
ListenSim(c) ==
  /\ c \notin sim /\ sim' = sim \cup {c}
  /\ sim_subscribers' = sim_subscribers + 1
  /\ sim_data' = (sim_data \/ (sim_subscribers = 0 /\ engine))
  /\ UNCHANGED <<engine, runs, control>>

LeaveSim(c) ==
  /\ c \in sim /\ sim' = sim \ {c}
  /\ sim_subscribers' = sim_subscribers - 1
  /\ sim_data' = (sim_data /\ (sim_subscribers # 1 \/ ~engine))
  /\ UNCHANGED <<engine, runs, control>>

(* The callback of a model's init(): a new engine, and _emit_sim attached  *)
(* to it if someone waits.                                                 *)
InitDone ==
  /\ ~engine /\ runs < MaxRuns
  /\ engine' = TRUE /\ runs' = runs + 1
  /\ IF sim_subscribers > 0 THEN sim_data' = TRUE ELSE sim_data' = FALSE
  /\ UNCHANGED <<sim, sim_subscribers, control>>

(* _terminate(): what was attached goes with the engine.                   *)
_terminate ==
  /\ engine /\ engine' = FALSE
  /\ sim_data' = FALSE
  /\ UNCHANGED <<sim, sim_subscribers, runs, control>>

(* A handler's callback: the response is pushed on the control stream.     *)
Respond ==
  /\ responses < MaxResponses
  /\ responses' = responses + 1 /\ held' = held + 1
  /\ UNCHANGED <<ctl, ctl_subscribers, ctl_data, flowing, lost, left, data>>

(* The flowing stream empties its buffer: _emit_ctl() emits ctl-response.  *)
Flow ==
  /\ flowing /\ held > 0
  /\ held' = held - 1
  /\ lost' = IF ctl_data THEN lost ELSE lost + 1
  /\ UNCHANGED <<ctl, ctl_subscribers, ctl_data, flowing, responses, left, data>>

Next ==
  \/ \E c \in Consumers : ListenCtl(c) \/ LeaveCtl(c) \/ ListenSim(c) \/ LeaveSim(c)
  \/ InitDone \/ _terminate \/ Respond \/ Flow

Spec == Init /\ [][Next]_vars
(* The platform's event loop reads a flowing stream.                       *)
FairSpec == Spec /\ WF_vars(Flow)

-----------------------------------------------------------------------------
(* The counters tell who listens, and the simulation's own handlers are    *)
(* attached exactly while somebody does: to the control stream, and to     *)
(* whatever engine there is, whenever it was made.                         *)
HandlersMatch ==
  /\ ctl_subscribers = Cardinality(ctl) /\ sim_subscribers = Cardinality(sim)
  /\ ctl_data <=> ctl # {}
  /\ sim_data <=> sim # {} /\ engine

(* A response nobody waits for is kept, not lost: that is what the pause() *)
(* in the removeListener handler is for.                                   *)
NothingLost == lost = 0

(* Who listens to ctl-response, and stays, hears every response, unless a  *)
(* consumer leaves another behind: the stream is then paused and only its  *)
(* next first listener resumes it.                                         *)
ResponsesHeard == <>[](ctl # {} /\ ~left) => []<>(held = 0)
=============================================================================
