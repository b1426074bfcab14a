------------------------------ MODULE CacheService ------------------------------
(***************************************************************************)
(* What a kernel cache promises its callers, whatever it keeps on disk: a  *)
(* call for a kernel that the process holds is answered with it, neither   *)
(* compiled nor failing; any other call ends with a kernel, which the      *)
(* process holds from then on, or with an exception.                       *)
(***************************************************************************)
CONSTANTS Procs, Calls, ProcOf, KeyOf

VARIABLES
  stage,   \* of a call: idle, asked, missed, served, failed
  held     \* keys of the kernels that each process holds

Holds(c) == KeyOf[c] \in held[ProcOf[c]]

Ask(c) ==
  /\ stage[c] = "idle"
  /\ stage' = [stage EXCEPT ![c] = "asked"]
  /\ UNCHANGED held

Hit(c) ==
  /\ stage[c] = "asked"
  /\ Holds(c)
  /\ stage' = [stage EXCEPT ![c] = "served"]
  /\ UNCHANGED held

Miss(c) ==
  /\ stage[c] = "asked"
  /\ ~Holds(c)
  /\ stage' = [stage EXCEPT ![c] = "missed"]
  /\ UNCHANGED held

Provide(c) ==
  /\ stage[c] = "missed"
  /\ stage' = [stage EXCEPT ![c] = "served"]
  /\ held' = [held EXCEPT ![ProcOf[c]] = @ \cup {KeyOf[c]}]

Fail(c) ==
  /\ stage[c] = "missed"
  /\ stage' = [stage EXCEPT ![c] = "failed"]
  /\ UNCHANGED held

\* The caller has what it asked for, and may ask again.
Take(c) ==
  /\ stage[c] \in {"served", "failed"}
  /\ stage' = [stage EXCEPT ![c] = "idle"]
  /\ UNCHANGED held

\* The process ends, and begins again with nothing: it asks again for what was
\* not answered, and for what else it needs.
Restart(p, again) ==
  /\ \A c \in again : ProcOf[c] = p
  /\ {c \in Calls : ProcOf[c] = p /\ stage[c] \in {"asked", "missed"}} \subseteq again
  /\ stage' = [c \in Calls |-> IF c \in again THEN "idle" ELSE stage[c]]
  /\ held' = [held EXCEPT ![p] = {}]

Clear(p) ==
  /\ held' = [held EXCEPT ![p] = {}]
  /\ UNCHANGED stage

ServiceInit ==
  /\ stage = [c \in Calls |-> "idle"]
  /\ held = [p \in Procs |-> {}]

ServiceNext ==
  \/ \E c \in Calls : Ask(c) \/ Hit(c) \/ Miss(c) \/ Provide(c) \/ Fail(c) \/ Take(c)
  \/ \E p \in Procs : Clear(p) \/ \E again \in SUBSET Calls : Restart(p, again)

Service == ServiceInit /\ [][ServiceNext]_<<stage, held>>
=============================================================================
