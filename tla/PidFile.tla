------------------------------ MODULE PidFile ------------------------------
(***************************************************************************)
(* The commands start and stop of src/teredacta/__main__.py and the daemon *)
(* between them.  Nothing but a file with a process id relates the three:  *)
(* start reads it, forks and writes it, stop reads it, signals and removes *)
(* it, and a daemon that exits in good order removes it too.  An action is *)
(* one access to the file or one signal; anything may happen in between.   *)
(*                                                                         *)
(* Abstractions.  exists() and the read or removal that follows it at once *)
(* are one step, except in the daemon's exit handler; the 30 probes of     *)
(* stop are any number.  What uvicorn does on SIGTERM depends on its       *)
(* version: it returns, and the exit handlers run, or it raises the signal *)
(* again, and they do not.                                                 *)
(***************************************************************************)
EXTENDS Naturals

CONSTANTS Commands,    \* shells from which somebody runs start or stop
          Pids,        \* process ids, used again by the system
          NoPid,       \* there is no file, no process
          MaxCommands  \* bound: commands run

ASSUME PidFileAssumption == NoPid \notin Pids

VARIABLES pidFile,     \* the process id in the file
          process,     \* what runs under each process id
          step,        \* where each command is
          target,      \* its variable pid
          disturbed,   \* commands overlapped, or a start was cut off after its fork
          commandsRun

pidVars == <<pidFile, process, step, target, disturbed, commandsRun>>

\* forked: the exit handler is not registered yet; stopping: uvicorn shuts
\* down; removing: the exit handler has seen the file; leaving: it has run;
\* stranger: a process of somebody else.
States == {"none", "forked", "serving", "stopping", "removing", "leaving", "stranger"}
Steps == {"idle", "start", "probe", "removeStale", "fork", "write",
          "stop", "check", "term", "wait", "kill", "remove"}

Alive(p) == process[p] # "none"    \* os.kill(p, 0)
\* The daemons that serve, or will, or did until a moment ago.
Daemons == {p \in Pids : process[p] \in {"forked", "serving", "stopping", "removing"}}

PidInit ==
    /\ pidFile = NoPid
    /\ process = [p \in Pids |-> "none"]
    /\ step = [c \in Commands |-> "idle"]
    /\ target = [c \in Commands |-> NoPid]
    /\ disturbed = FALSE
    /\ commandsRun = 0

Proceed(c, s) == step' = [step EXCEPT ![c] = s]
Becomes(p, s) == process' = [process EXCEPT ![p] = s]

Run(c) ==
    /\ step[c] = "idle"
    /\ commandsRun < MaxCommands
    /\ commandsRun' = commandsRun + 1
    /\ Proceed(c, "start") \/ Proceed(c, "stop")
    /\ disturbed' = (disturbed \/ \E d \in Commands : step[d] # "idle")
    /\ UNCHANGED <<pidFile, process, target>>

-----------------------------------------------------------------------------
(* start *)

ReadForStart(c) ==
    /\ step[c] = "start"
    /\ IF pidFile = NoPid
       THEN Proceed(c, "fork") /\ UNCHANGED target
       ELSE Proceed(c, "probe") /\ target' = [target EXCEPT ![c] = pidFile]
    /\ UNCHANGED <<pidFile, process, disturbed, commandsRun>>

\* Mutant: the process is not looked for, any file is taken for stale.
ProbeNever(c) ==
    /\ step[c] = "probe"
    /\ Proceed(c, "removeStale")
    /\ UNCHANGED <<pidFile, process, target, disturbed, commandsRun>>

\* "Already running"
Probe(c) ==
    /\ step[c] = "probe"
    /\ Proceed(c, IF Alive(target[c]) THEN "idle" ELSE "removeStale")
    /\ UNCHANGED <<pidFile, process, target, disturbed, commandsRun>>

\* os.remove raises when the file is gone.
RemoveStale(c) ==
    /\ step[c] = "removeStale"
    /\ Proceed(c, IF pidFile = NoPid THEN "idle" ELSE "fork")
    /\ pidFile' = NoPid
    /\ UNCHANGED <<process, target, disturbed, commandsRun>>

Fork(c) ==
    /\ step[c] = "fork"
    /\ \E p \in Pids :
          /\ process[p] = "none"
          /\ Becomes(p, "forked")
          /\ target' = [target EXCEPT ![c] = p]
    /\ Proceed(c, "write")
    /\ UNCHANGED <<pidFile, disturbed, commandsRun>>

WriteFile(c) ==
    /\ step[c] = "write"
    /\ pidFile' = target[c]
    /\ Proceed(c, "idle")
    /\ UNCHANGED <<process, target, disturbed, commandsRun>>

-----------------------------------------------------------------------------
(* stop *)

ReadForStop(c) ==
    /\ step[c] = "stop"
    /\ IF pidFile = NoPid
       THEN Proceed(c, "idle") /\ UNCHANGED target
       ELSE Proceed(c, "check") /\ target' = [target EXCEPT ![c] = pidFile]
    /\ UNCHANGED <<pidFile, process, disturbed, commandsRun>>

Check(c) ==
    /\ step[c] = "check"
    /\ Proceed(c, IF Alive(target[c]) THEN "term" ELSE "remove")
    /\ UNCHANGED <<pidFile, process, target, disturbed, commandsRun>>

\* Before uvicorn's handler is there SIGTERM ends the process at once.
Terminate(c) ==
    /\ step[c] = "term"
    /\ Proceed(c, IF Alive(target[c]) THEN "wait" ELSE "remove")
    /\ \/ process[target[c]] \in {"forked", "serving", "stranger"} /\ Becomes(target[c], "none")
       \/ process[target[c]] = "serving" /\ Becomes(target[c], "stopping")
       \/ process[target[c]] \notin {"forked", "serving"} /\ UNCHANGED process
    /\ UNCHANGED <<pidFile, target, disturbed, commandsRun>>

Wait(c) ==
    /\ step[c] = "wait"
    /\ Proceed(c, IF Alive(target[c]) THEN "kill" ELSE "remove")
    /\ UNCHANGED <<pidFile, process, target, disturbed, commandsRun>>

Kill(c) ==
    /\ step[c] = "kill"
    /\ Becomes(target[c], "none")
    /\ Proceed(c, "remove")
    /\ UNCHANGED <<pidFile, target, disturbed, commandsRun>>

\* The file goes, whatever it names by now; without one the command ends with
\* an exception.
Remove(c) ==
    /\ step[c] = "remove"
    /\ pidFile' = NoPid
    /\ Proceed(c, "idle")
    /\ UNCHANGED <<process, target, disturbed, commandsRun>>

\* Ctrl-C, or any other end of a command between two steps.
CutOff(c) ==
    /\ step[c] # "idle"
    /\ Proceed(c, "idle")
    /\ disturbed' = (disturbed \/ step[c] = "write")
    /\ UNCHANGED <<pidFile, process, target, commandsRun>>

-----------------------------------------------------------------------------
(* Processes. *)

\* atexit.register, and uvicorn begins to serve.
Register(p) ==
    /\ process[p] = "forked"
    /\ Becomes(p, "serving")
    /\ UNCHANGED <<pidFile, step, target, disturbed, commandsRun>>

\* uvicorn returns: the port is taken, or a signal from somebody else.
ExitHandler(p) ==
    /\ process[p] \in {"serving", "stopping"}
    /\ Becomes(p, IF pidFile = NoPid THEN "leaving" ELSE "removing")
    /\ UNCHANGED <<pidFile, step, target, disturbed, commandsRun>>

\* Whatever process the file names.
ExitRemoves(p) ==
    /\ process[p] = "removing"
    /\ pidFile' = NoPid
    /\ Becomes(p, "leaving")
    /\ UNCHANGED <<step, target, disturbed, commandsRun>>

\* A process ends: it has left, or is killed, or uvicorn raised its signal.
Dies(p) ==
    /\ process[p] # "none"
    /\ Becomes(p, "none")
    /\ UNCHANGED <<pidFile, step, target, disturbed, commandsRun>>

Stranger(p) ==
    /\ process[p] = "none"
    /\ Becomes(p, "stranger")
    /\ UNCHANGED <<pidFile, step, target, disturbed, commandsRun>>

Command(c) ==
    \/ ReadForStart(c) \/ Probe(c) \/ RemoveStale(c) \/ Fork(c) \/ WriteFile(c)
    \/ ReadForStop(c) \/ Check(c) \/ Terminate(c) \/ Wait(c) \/ Kill(c) \/ Remove(c)

PidNext ==
    \/ \E c \in Commands : Run(c) \/ Command(c) \/ CutOff(c)
    \/ \E p \in Pids : Register(p) \/ ExitHandler(p) \/ ExitRemoves(p) \/ Dies(p) \/ Stranger(p)

PidSpec == PidInit /\ [][PidNext]_pidVars
-----------------------------------------------------------------------------
(* Properties. *)

PidTypeOK ==
    /\ pidFile \in Pids \union {NoPid}
    /\ process \in [Pids -> States]
    /\ step \in [Commands -> Steps]
    /\ target \in [Commands -> Pids \union {NoPid}]
    /\ disturbed \in BOOLEAN
    /\ commandsRun \in Nat

\* Between two commands, a daemon that runs is the one in the file, so there is
\* at most one and stop finds it: although daemons crash and leave their file
\* behind, exit handlers remove it, commands fail half way and process ids are
\* used again.  Commands at the same time, or a start cut off between its fork
\* and its file, are all that can break it.
FileNamesDaemon ==
    disturbed \/ (\E c \in Commands : step[c] # "idle") \/ \A p \in Daemons : pidFile = p
=============================================================================
