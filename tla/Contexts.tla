------------------------------ MODULE Contexts ------------------------------
(***************************************************************************)
(* The file of server contexts, ~/.prisn/config.toml, and the commands     *)
(* that read and rewrite it: pkg/context and pkg/cli/context.go.           *)
(*                                                                         *)
(* Every command is a process of its own.  It reads the whole file,        *)
(* changes its copy and writes the whole copy back, without a lock: the    *)
(* file is emptied first and filled in a second step, so that another      *)
(* command may find it empty, and two that write at once may mix.          *)
(***************************************************************************)
EXTENDS Naturals, FiniteSets

CONSTANTS Context,   \* names of contexts
          Process,   \* commands
          Budgets

VARIABLES file,      \* what the file holds
          proc,      \* the commands
          harmed,    \* whether a write was cut short, or two mixed
          left

vars == <<file, proc, harmed, left>>

None == "none"

\* A configuration: the contexts and the current one.
Config == [current : Context \cup {None}, contexts : SUBSET Context]

\* No file and an empty file read alike.
Empty == [current |-> None, contexts |-> {}]

\* What does not parse.
Garbage == [current |-> "garbage", contexts |-> {}]

Commands == {"add", "use", "delete", "rename"}

Idle == [pc |-> "idle", cmd |-> "add", name |-> None, to |-> None, cfg |-> Empty,
         dirty |-> FALSE, result |-> None]

TypeOK ==
    /\ file \in Config \cup {Garbage}
    /\ proc \in [Process -> [pc : {"idle", "change", "truncate", "write", "done"},
                             cmd : Commands, name : Context \cup {None},
                             to : Context \cup {None}, cfg : Config, dirty : BOOLEAN,
                             result : {None, "ok", "error"}]]
    /\ harmed \in BOOLEAN

Init ==
    /\ file = Empty
    /\ proc = [p \in Process |-> Idle]
    /\ harmed = FALSE
    /\ left \in Budgets

Finish(p, result) == proc' = [proc EXCEPT ![p] = [@ EXCEPT !.pc = "done", !.result = result,
                                                          !.cfg = Empty]]

\* The command starts and loads the file.
Load(p) ==
    /\ proc[p].pc = "idle"
    /\ \E cmd \in left.cmds, name, to \in Context :
         /\ cmd # "rename" => to = name
         /\ proc' = [proc EXCEPT ![p] =
                       IF file = Garbage
                         THEN [@ EXCEPT !.pc = "done", !.result = "error"]
                         ELSE [@ EXCEPT !.pc = "change", !.cmd = cmd, !.name = name, !.to = to,
                                        !.cfg = file]]
    /\ UNCHANGED <<file, harmed, left>>

-----------------------------------------------------------------------------
(* What each command makes of its copy; the changed copy, or nothing.      *)

\* The first context becomes the current one, or the one added on request.
Add(cfg, name) ==
    IF name \in cfg.contexts THEN {}
    ELSE {[current |-> c, contexts |-> cfg.contexts \cup {name}] :
            c \in {name} \cup (IF cfg.current = None THEN {} ELSE {cfg.current})}

Use(cfg, name) ==
    IF name \in cfg.contexts THEN {[cfg EXCEPT !.current = name]} ELSE {}

\* The first of the remaining names becomes current; which one that is does
\* not matter here.  The user may say no.
Delete(cfg, name) ==
    IF name \notin cfg.contexts THEN {}
    ELSE LET rest == cfg.contexts \ {name} IN
         {[current |-> c, contexts |-> rest] :
            c \in IF cfg.current # name THEN {cfg.current}
                  ELSE IF rest = {} THEN {None} ELSE rest}

\* Mutant of RenameContext: the current context keeps its old name.
RenameContextOnly(cfg, old, new) ==
    IF old \notin cfg.contexts \/ new \in cfg.contexts THEN {}
    ELSE {[cfg EXCEPT !.contexts = (@ \ {old}) \cup {new}]}

RenameContext(cfg, old, new) ==
    IF old \notin cfg.contexts \/ new \in cfg.contexts THEN {}
    ELSE {[current |-> IF cfg.current = old THEN new ELSE cfg.current,
           contexts |-> (cfg.contexts \ {old}) \cup {new}]}

Changed(p) ==
    LET c == proc[p] IN
    CASE c.cmd = "add" -> Add(c.cfg, c.name)
      [] c.cmd = "use" -> Use(c.cfg, c.name)
      [] c.cmd = "delete" -> Delete(c.cfg, c.name)
      [] c.cmd = "rename" -> RenameContext(c.cfg, c.name, c.to)

Change(p) ==
    /\ proc[p].pc = "change"
    /\ \/ /\ Changed(p) = {}
          /\ Finish(p, "error")
       \/ /\ proc[p].cmd = "delete"
          /\ Finish(p, "ok")
       \/ \E cfg \in Changed(p) :
            proc' = [proc EXCEPT ![p].pc = "truncate", ![p].cfg = cfg]
    /\ UNCHANGED <<file, harmed, left>>

-----------------------------------------------------------------------------
(* Save: os.WriteFile opens the file and empties it, then writes.          *)

Truncate(p) ==
    /\ proc[p].pc = "truncate"
    /\ file' = Empty
    /\ proc' = [q \in Process |->
                  IF q = p THEN [proc[p] EXCEPT !.pc = "write", !.dirty = FALSE] ELSE proc[q]]
    /\ UNCHANGED <<harmed, left>>

\* A write over bytes that another command wrote since the file was emptied
\* leaves the tail of the longer one.
Write(p) ==
    /\ proc[p].pc = "write"
    /\ \/ /\ file' = proc[p].cfg
          /\ UNCHANGED harmed
       \/ /\ proc[p].dirty
          /\ file' = Garbage
          /\ harmed' = TRUE
    /\ proc' = [q \in Process |->
                  IF q = p THEN [proc[p] EXCEPT !.pc = "done", !.result = "ok", !.cfg = Empty]
                  ELSE IF proc[q].pc = "write" THEN [proc[q] EXCEPT !.dirty = TRUE]
                  ELSE proc[q]]
    /\ UNCHANGED left

\* The command is killed while it saves: the file may hold the head of the
\* copy only, and the current context comes first in it.
Kill(p) ==
    /\ proc[p].pc = "write"
    /\ left.kills > 0
    /\ left' = [left EXCEPT !.kills = @ - 1]
    /\ file' \in {file, Garbage, [current |-> proc[p].cfg.current, contexts |-> {}]}
    /\ harmed' = TRUE
    /\ Finish(p, "error")

Next == \E p \in Process : Load(p) \/ Change(p) \/ Truncate(p) \/ Write(p) \/ Kill(p)

Spec == Init /\ [][Next]_vars

-----------------------------------------------------------------------------
(* Properties.                                                             *)

\* What a command resolves: the name of its flag, else of its environment,
\* else the current context; without any, the default server.
Resolve(cfg, flag, env) ==
    LET name == IF flag # None THEN flag ELSE IF env # None THEN env ELSE cfg.current IN
    IF name = None THEN "default" ELSE IF name \in cfg.contexts THEN name ELSE "error"

\* A command that names no context is never left without one: whatever
\* commands overlapped, the current context of the file is one of its
\* contexts (resolve.go:61).  Only a write cut short or mixed can break it.
CurrentResolves ==
    ~ harmed => /\ file # Garbage
                /\ Resolve(file, None, None) # "error"

=============================================================================
