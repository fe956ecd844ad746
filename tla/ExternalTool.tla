----------------------------- MODULE ExternalTool -----------------------------
(***************************************************************************)
(* The external executor (crates/oreia-seca/src/executor/external.rs): a   *)
(* tool of somebody else's is given the phase in a file and works in the   *)
(* clone, as a process or in a container of its own.  Its files lie in a   *)
(* directory named for the clone and the phase, one for all its runs.      *)
(***************************************************************************)
EXTENDS Attempt

CONSTANTS
    Setups          (* how the tool may be set up: container, hostDir        *)
                    (* (OREIA_SECA_HOST_DIR is set), config (it is opencode) *)

VARIABLES
    setup,          (* of [executors.<name>] and .env                        *)
    scratch         (* of each file there, the run that wrote it             *)

ASSUME SetupsAssumption ==
    Setups \subseteq [container : BOOLEAN, hostDir : BOOLEAN, config : BOOLEAN]

Files == {"message", "config", "cmd"}
NoScratch == [f \in {} |-> 0]

Put(f) == scratch' = [g \in DOMAIN scratch \cup {f} |-> IF g = f THEN run ELSE scratch[g]]

(* An error before the command is run: the early return leaves the         *)
(* directory.                                                              *)
FailEarly ==
    /\ \/ at \in {"external", "files", "message"}
       \/ at = "config" /\ setup.container
    /\ Return(Failed)
    /\ UNCHANGED <<run, clone, survivors, leaky, scratch, setup>>

(* The model is resolved, the directory made. *)
MakeScratch ==
    /\ at = "external"
    /\ Goto("files")
    /\ UNCHANGED <<run, clone, survivors, leaky, outcome, scratch, setup>>

(* Slip: a message that is there is taken for this run's. *)
WriteMessageOnce ==
    /\ at = "files"
    /\ scratch' = [f \in DOMAIN scratch \cup {"message"} |->
                      IF f \in DOMAIN scratch THEN scratch[f] ELSE run]
    /\ Goto(IF setup.config THEN "message" ELSE "config")
    /\ UNCHANGED <<run, clone, survivors, leaky, outcome, setup>>

WriteMessage ==
    /\ at = "files"
    /\ Put("message")
    /\ Goto(IF setup.config THEN "message" ELSE "config")
    /\ UNCHANGED <<run, clone, survivors, leaky, outcome, setup>>

WriteOpencodeConfig ==
    /\ at = "message"
    /\ Put("config")
    /\ Goto("config")
    /\ UNCHANGED <<run, clone, survivors, leaky, outcome, setup>>

(* cmd.sh is written, with the key in it, before the host's directory is   *)
(* looked up.                                                              *)
BuildDockerRun ==
    /\ at = "config" /\ setup.container
    /\ Put("cmd")
    /\ \/ setup.hostDir /\ Goto("tool") /\ UNCHANGED outcome
       \/ ~setup.hostDir /\ Return(Failed)
    /\ UNCHANGED <<run, clone, survivors, leaky, setup>>

RunHere ==
    /\ at = "config" /\ ~setup.container
    /\ Goto("tool")
    /\ UNCHANGED <<run, clone, survivors, leaky, outcome, scratch, setup>>

ToolWrites ==
    /\ at = "tool"
    /\ Touch(run)
    /\ UNCHANGED <<run, at, survivors, leaky, outcome, scratch, setup>>

(* The command ends, well or not; a process it put in the background and   *)
(* that holds none of its pipes goes on.                                   *)
ToolExits ==
    /\ at = "tool"
    /\ \E place \in {"exited", "broke"} : Goto(place)
    /\ KillShell
    /\ UNCHANGED <<run, clone, outcome, scratch, setup>>

(* Slip: a container is left to docker. *)
ToolTimeoutHere ==
    /\ at = "tool" /\ ~setup.container
    /\ Goto("broke")
    /\ KillShell
    /\ UNCHANGED <<run, clone, outcome, scratch, setup>>

(* step_timeout: the shell, or docker's client, is killed. *)
ToolTimeout ==
    /\ at = "tool"
    /\ Goto("broke")
    /\ KillShell
    /\ UNCHANGED <<run, clone, outcome, scratch, setup>>

(* remove_dir_all(&dir).await.ok(), then the outcome. *)
CleanUp ==
    /\ at \in {"exited", "broke"}
    /\ scratch' \in {NoScratch, scratch}
    /\ \/ at = "broke" /\ Return(Failed)
       \/ at = "exited" /\ ReturnFiles
    /\ UNCHANGED <<run, clone, survivors, leaky, setup>>

Tool ==
    \/ FailEarly \/ MakeScratch \/ WriteMessage \/ WriteOpencodeConfig
    \/ BuildDockerRun \/ RunHere \/ ToolWrites \/ ToolExits \/ ToolTimeout \/ CleanUp
-----------------------------------------------------------------------------
(* Whatever an earlier run of the phase left in the directory, a tool that *)
(* runs reads the instruction, the configuration and the command of its    *)
(* own run.                                                                *)
OwnInstruction ==
    at = "tool" =>
        /\ scratch["message"] = run
        /\ setup.config => scratch["config"] = run
        /\ setup.container => scratch["cmd"] = run
=============================================================================
