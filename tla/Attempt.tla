------------------------------- MODULE Attempt -------------------------------
(***************************************************************************)
(* What every run of a phase executor shares                               *)
(* (crates/oreia-seca/src/executor/mod.rs): the clone it works in, the     *)
(* processes it starts there, and the outcome it returns.                  *)
(***************************************************************************)
EXTENDS Integers, Sequences, FiniteSets

CONSTANTS
    Paths,      (* files of the clone                                        *)
    MaxSlips    (* Bound: runs with a process left behind or a file in the   *)
                (* index                                                     *)

VARIABLES
    run,        (* the run under way, or the last one; 0 before the first    *)
    at,         (* where it is                                               *)
    isGit,      (* whether it works in a clone, or in a plain directory      *)
    changed,    (* of each file, the run that wrote it since HEAD, or 0      *)
    index,      (* the same of what git has in its index                     *)
    survivors,  (* runs with a process that goes on although they are over   *)
    leaky,      (* History: runs that ever left one                          *)
    outcome     (* PhaseOutcome, or the error, of the last run               *)

clone == <<isGit, changed, index>>
attemptVars == <<run, at, clone, survivors, leaky, outcome>>

Outcome(status, files) == [status |-> status, files |-> files]

Failed == Outcome("err", {})

(* git status --porcelain, in a clone. *)
GitChangedFiles == {p \in Paths : isGit /\ changed[p] # 0}

Pristine == [p \in Paths |-> 0]

Goto(place) == at' = place

Return(what) == Goto("ended") /\ outcome' = what

(* The changed files are listed when the work is done; a listing that fails *)
(* is an empty one.                                                        *)
ReturnFiles == \E files \in {{}, GitChangedFiles} : Return(Outcome("ok", files))

(* An action of the run writes a file. *)
Writes(p) == changed' = [changed EXCEPT ![p] = run] /\ UNCHANGED <<isGit, index>>

Slips(staged, left) == Cardinality(left \cup ({staged[p] : p \in Paths} \ {0}))

(* A command of run r writes files, and may put any into git's index: what *)
(* the prompts forbid is to commit and to push (prompts.rs:37).            *)
Touch(r) ==
    \E written, added \in SUBSET Paths :
        /\ added # {} => isGit
        /\ changed' = [p \in Paths |-> IF p \in written THEN r ELSE changed[p]]
        /\ index' = [p \in Paths |-> IF p \in added THEN changed'[p] ELSE index[p]]
        /\ index' # index => Slips(index', leaky) <= MaxSlips
        /\ UNCHANGED isGit

(* kill_on_drop kills the shell that was started and not what the shell    *)
(* has started: a tool's own processes, or a container, may go on.         *)
KillShell ==
    \/ UNCHANGED <<survivors, leaky>>
    \/ /\ Slips(index, leaky \cup {run}) <= MaxSlips
       /\ survivors' = survivors \cup {run}
       /\ leaky' = leaky \cup {run}

(* What is left of a run writes once more, or comes to its end. *)
SurvivorWrites ==
    \E r \in survivors :
        /\ Touch(r)
        /\ UNCHANGED <<run, at, survivors, leaky, outcome>>

SurvivorEnds ==
    \E r \in survivors :
        /\ survivors' = survivors \ {r}
        /\ UNCHANGED <<run, at, clone, leaky, outcome>>
=============================================================================
