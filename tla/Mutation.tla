------------------------------ MODULE Mutation ------------------------------
(***************************************************************************)
(* What a client of sky-cua is promised about each action it asks for.  The*)
(* action takes effect at most once; the caller is told once; `done` only  *)
(* of an action that took effect, `never` only of one that has not and will*)
(* not; of what may or may not have happened it is told `unknown`.         *)
(***************************************************************************)
EXTENDS Naturals

CONSTANT Reqs

VARIABLES
  ran,    \* how often each action took effect
  told    \* what its caller was told

Verdicts == {"done", "never", "unknown"}

Init == ran = [r \in Reqs |-> 0] /\ told = [r \in Reqs |-> "nothing"]

Execute(r) ==
  /\ ran[r] = 0 /\ told[r] # "never"
  /\ ran'[r] = 1 /\ told'[r] = told[r]

Tell(r) ==
  /\ told[r] = "nothing" /\ told'[r] \in Verdicts /\ ran'[r] = ran[r]
  /\ told'[r] = "done" => ran[r] = 1
  /\ told'[r] = "never" => ran[r] = 0

Next == \A r \in Reqs : Execute(r) \/ Tell(r) \/ (ran'[r] = ran[r] /\ told'[r] = told[r])

Spec == Init /\ [][Next]_<<ran, told>>
=============================================================================
