----------------------------- MODULE JobService -----------------------------
(***************************************************************************)
(* What the IPC server promises, with no locks, threads or stages: those   *)
(* in session have a seat each, of the Seats there are; a user in session  *)
(* has at most one job pending; a pending job is carried out once and only *)
(* then answered.                                                          *)
(*                                                                         *)
(* The promise is the one src/ipc_demo/ipc_demo.ipynb makes; IpcSystem     *)
(* states under which refinement mapping the code keeps it.                *)
(***************************************************************************)
EXTENDS Integers

CONSTANTS
  Users,  \* who may ask
  Seats,  \* one is needed for a session
  Mortal  \* the users that may vanish without leaving

VARIABLES
  phase,      \* "away", "ready", "pending" or "answered"
  performed   \* how often the pending or answered job was carried out

serviceVars == <<phase, performed>>

InSession == {u \in Users : phase[u] # "away"}

\* There are seats enough for everyone in S.
Seated(S) == \E seat \in [S -> Seats] : \A u, v \in S : u # v => seat[u] # seat[v]

ServiceInit ==
  /\ phase = [u \in Users |-> "away"]
  /\ performed = [u \in Users |-> 0]

Arrive(u) ==
  /\ phase[u] = "away"
  /\ Seated(InSession \cup {u})
  /\ phase' = [phase EXCEPT ![u] = "ready"]
  /\ UNCHANGED performed

Request(u) ==
  /\ phase[u] = "ready"
  /\ phase' = [phase EXCEPT ![u] = "pending"]
  /\ UNCHANGED performed

Perform(u) ==
  /\ phase[u] = "pending"
  /\ performed[u] = 0
  /\ performed' = [performed EXCEPT ![u] = 1]
  /\ UNCHANGED phase

Answer(u) ==
  /\ phase[u] = "pending"
  /\ performed[u] = 1
  /\ phase' = [phase EXCEPT ![u] = "answered"]
  /\ UNCHANGED performed

\* The answer is taken: the user stays, or goes because it had nothing else to ask.
Collect(u) ==
  /\ phase[u] = "answered"
  /\ \E next \in {"ready", "away"} : phase' = [phase EXCEPT ![u] = next]
  /\ performed' = [performed EXCEPT ![u] = 0]

Leave(u) ==
  /\ phase[u] = "ready"
  /\ phase' = [phase EXCEPT ![u] = "away"]
  /\ UNCHANGED performed

\* A user that vanishes takes its session and its job with it.
Vanish(u) ==
  /\ u \in Mortal
  /\ phase' = [phase EXCEPT ![u] = "away"]
  /\ performed' = [performed EXCEPT ![u] = 0]

ServiceNext ==
  \E u \in Users : \/ Arrive(u) \/ Request(u) \/ Perform(u) \/ Answer(u)
                   \/ Collect(u) \/ Leave(u) \/ Vanish(u)

ServiceSpec == ServiceInit /\ [][ServiceNext]_serviceVars
=============================================================================
