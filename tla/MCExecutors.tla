----------------------------- MODULE MCExecutors -----------------------------
EXTENDS Executors

CONSTANTS p1, outside

Block(name, path, param, line) ==
    [name |-> name, path |-> path, attr |-> {}, param |-> param, tag |-> {},
     line |-> line, json |-> {}]

Shell == Block("shell", p1, {}, {"command"})

(* An empty reply, one that runs a command; and one of three actions: a    *)
(* path outside, a content given in a line beside tags, a file written.    *)
MCReplies ==
    { <<>>, <<Shell>>,
      << Block("file_write", outside, {"path", "content"}, {}),
         Block("file_write", p1, {"path"}, {"content"}),
         Block("file_write", p1, {"path", "content"}, {}) >> }

(* A process; opencode in a container; one without the host's directory.   *)
MCSetups ==
    { [container |-> FALSE, hostDir |-> FALSE, config |-> FALSE],
      [container |-> TRUE, hostDir |-> TRUE, config |-> TRUE],
      [container |-> TRUE, hostDir |-> FALSE, config |-> FALSE] }

MCRungs == <<"builtin", "external">>
=============================================================================
