------------------------------ MODULE Process -------------------------------
(***************************************************************************)
(* src/config.c, src/process/main.c and src/init-script.sh: processes that *)
(* start, detach, serve and stop each other, and the pid file by which     *)
(* they find each other.  All are given the same port and pid file.        *)
(***************************************************************************)
EXTENDS Naturals, FiniteSets

CONSTANTS
    Pid,        \* process ids; they are used again
    Nil,        \* no file, nothing written
    Everyone,   \* what kill() takes -1 for
    Command,    \* command lines: the flags before --pid-file and those after it
    MayFail,    \* options may be wrong, initialisation and fork() may fail
    MaxOthers,  \* how many processes that are not rs-serve run at once
    MayHang,    \* a handler may take long, or for ever
    MayCrash,   \* processes may be killed
    Script      \* the init script stops servers, too

Flag == {"stop", "detach"}

ASSUME ProcessAssumption ==
    /\ Command \subseteq [before : SUBSET Flag, after : SUBSET Flag]
    /\ MayFail \in BOOLEAN /\ MayHang \in BOOLEAN /\ MayCrash \in BOOLEAN /\ Script \in BOOLEAN
    /\ Nil \notin Pid \cup {Everyone} /\ Everyone \notin Pid
    /\ \A p \in Pid, q \in Pid \cup {Nil, Everyone} : [by |-> p, pid |-> q] # Nil

VARIABLES
    proc,       \* the process of each id
    file,       \* the pid file: who created it and what is written in it
    pending,    \* the processes with a SIGTERM to be read from their signalfd
    harm        \* a file was removed by the init script, or left by a death or a failed fork()

vars == <<proc, file, pending, harm>>

\* "other" is a process that is not rs-serve; "exiting" follows exit().
\* Before main() blocks SIGTERM it is deadly, after that it can be read, by
\* a server in its event loop: one that is "stuck" is in a handler, which loops
\* (storage.c:483) or waits for the lock of the authorizations.
Deaf == {"other", "options", "kill", "opened", "init"}
Serving == {"serving", "stuck"}
Hearing == {"masked", "parent"} \cup Serving
Step == Deaf \cup Hearing \cup {"free", "exiting"}

\* has: the flags that are set, and what is open: the file for writing, the
\* port; after: the flags to come; target: whom to signal, or the child.
Process == [at : Step, has : SUBSET (Flag \cup {"pid-file", "port"}), after : SUBSET Flag,
            target : SUBSET Pid]
Free == [at |-> "free", has |-> {}, after |-> {}, target |-> {}]

Holds(p) == "pid-file" \in proc[p].has
Goto(p, step) == proc' = [proc EXCEPT ![p].at = step]

\* What the deaths of these processes make of harm.
Harmed(dead) == IF \E p \in dead : Holds(p) THEN "death" ELSE harm

-----------------------------------------------------------------------------
\* exit() closes the pid file, the system the port.
Leave(p) == proc' = [proc EXCEPT ![p] = [Free EXCEPT !.at = "exiting", !.has = proc[p].has \cap {"port"}]]

\* Bug: exit() without the handler that removes the file.
Exit_keeping(p) == Leave(p) /\ UNCHANGED <<file, pending, harm>>

\* exit() calls close_pid_file(), which unlinks whatever is at the path.
Exit(p) ==
    /\ Leave(p)
    /\ file' = IF Holds(p) THEN Nil ELSE file
    /\ UNCHANGED <<pending, harm>>

\* abort(), a deadly signal
Die(p) ==
    /\ proc' = [proc EXCEPT ![p] = Free]
    /\ pending' = pending \ {p}
    /\ harm' = Harmed({p})
    /\ UNCHANGED file

Start(p, command) ==
    /\ proc[p].at = "free"
    /\ proc' = [proc EXCEPT ![p] = [Free EXCEPT !.at = "options", !.has = command.before, !.after = command.after]]
    /\ UNCHANGED <<file, pending, harm>>

-----------------------------------------------------------------------------
(***************************************************************************)
(* config.c: init_config() processes the options one after the other; only *)
(* --pid-file does more than set a variable.                               *)
(***************************************************************************)
\* --help, --version, what getopt_long() does not know, a log file that cannot
\* be opened, SSL options that lack a file
Refuse(p) == proc[p].at \in {"options", "opened"} /\ MayFail /\ Exit(p)

Opened(p) ==
    /\ proc' = [proc EXCEPT ![p].at = "opened", ![p].has = @ \cup {"pid-file"}]
    /\ file' = [by |-> p, pid |-> Nil]

\* Bug: the file is opened even if it exists.
OpenPidFile_w(p) ==
    /\ proc[p].at = "options" /\ "stop" \notin proc[p].has
    /\ Opened(p) /\ UNCHANGED <<pending, harm>>

\* fopen(..., "wx") and atexit()
OpenPidFile(p) ==
    /\ proc[p].at = "options" /\ "stop" \notin proc[p].has
    /\ \/ file # Nil /\ Exit(p)
       \/ file = Nil /\ Opened(p) /\ UNCHANGED <<pending, harm>>

\* Whom kill() takes what is read for: fscanf() leaves an uninitialised pid if
\* the file is empty, which may be anyone's, or zero or negative, a group's.
Named(p) ==
    CASE file.pid = Nil -> SUBSET Pid
      [] file.pid = Everyone -> {Pid \ {p}}
      [] OTHER -> {{file.pid}}

ReadPidFile(p) ==
    /\ proc[p].at = "options" /\ "stop" \in proc[p].has
    /\ \/ file = Nil /\ Exit(p)
       \/ /\ file # Nil
          /\ \E target \in Named(p) :
               proc' = [proc EXCEPT ![p].at = "kill", ![p].target = target]
          /\ UNCHANGED <<file, pending, harm>>

\* Bug: SIGTERM is blocked from the start.
Kill_blocked(p) ==
    /\ proc[p].at = "kill" /\ Leave(p)
    /\ pending' = pending \cup {q \in proc[p].target : proc[q].at # "free"}
    /\ UNCHANGED <<file, harm>>

Kill(p) ==
    /\ proc[p].at = "kill"
    /\ LET dead == {q \in proc[p].target : proc[q].at \in Deaf} IN
       /\ proc' = [q \in Pid |-> IF q \in dead THEN Free
                                 ELSE IF q = p THEN [Free EXCEPT !.at = "exiting"]
                                 ELSE proc[q]]
       /\ pending' = pending \cup {q \in proc[p].target : proc[q].at \in Hearing}
       /\ harm' = Harmed(dead)
       /\ UNCHANGED file

\* Bug: who is told to stop another, but only after --pid-file, serves.
EndOptions_late_stop(p) ==
    /\ proc[p].at = "opened"
    /\ proc' = [proc EXCEPT ![p].at = "init", ![p].has = @ \cup proc[p].after, ![p].after = {}]
    /\ UNCHANGED <<file, pending, harm>>

\* --stop without a --pid-file after it
EndOptions(p) ==
    /\ proc[p].at = "opened"
    /\ \/ "stop" \in proc[p].after /\ Exit(p)
       \/ /\ "stop" \notin proc[p].after
          /\ proc' = [proc EXCEPT ![p].at = "init", ![p].has = @ \cup proc[p].after, ![p].after = {}]
          /\ UNCHANGED <<file, pending, harm>>

-----------------------------------------------------------------------------
(***************************************************************************)
(* main.c                                                                  *)
(***************************************************************************)
\* Up to the mask of signals, which nobody can tell from the bind before it.
\* A socket is open until all who share it are gone.
Initialise(p) ==
    /\ proc[p].at = "init"
    /\ \/ MayFail /\ (Exit(p) \/ Die(p))    \* libmagic; open_authorizations()
       \/ (\E q \in Pid : "port" \in proc[q].has) /\ Exit(p)
       \/ /\ \A q \in Pid : "port" \notin proc[q].has
          /\ proc' = [proc EXCEPT ![p].at = "masked", ![p].has = @ \cup {"port"}]
          /\ UNCHANGED <<file, pending, harm>>

\* Through the descriptor: the path may have come to name another file.
Write(p, pid) == file' = IF Holds(p) /\ file # Nil /\ file.by = p THEN [file EXCEPT !.pid = pid] ELSE file

Run(p) ==
    /\ proc[p].at = "masked" /\ "detach" \notin proc[p].has
    /\ Write(p, p) /\ Goto(p, "serving")
    /\ UNCHANGED <<pending, harm>>

\* The result -1 is not looked at.
Fork(p) ==
    /\ proc[p].at = "masked" /\ "detach" \in proc[p].has
    /\ \/ \E child \in Pid :
            /\ proc[child].at = "free"
            /\ proc' = [proc EXCEPT ![p].at = "parent", ![p].target = {child},
                                    ![child] = [proc[p] EXCEPT !.at = "serving"]]
            /\ UNCHANGED harm
       \/ MayFail /\ Goto(p, "parent") /\ harm' = Harmed({p})
    /\ UNCHANGED <<file, pending>>

\* Bug: the parent leaves by exit().
Parent_exit(p) == proc[p].at = "parent" /\ Exit(p)

\* ... and leaves by _exit().
Parent(p) ==
    /\ proc[p].at = "parent"
    /\ IF proc[p].target = {} THEN Write(p, Everyone) ELSE \E child \in proc[p].target : Write(p, child)
    /\ proc' = [proc EXCEPT ![p] = Free] /\ pending' = pending \ {p}
    /\ UNCHANGED harm

\* Bug: only SIGINT ends the process.
handle_signal_int(p) == proc[p].at = "serving" /\ p \in pending /\ pending' = pending \ {p}
                        /\ UNCHANGED <<proc, file, harm>>

handle_signal(p) == proc[p].at = "serving" /\ p \in pending /\ Exit(p)

\* A handler does not come back to the event loop, and may never do.
Hang(p) == MayHang /\ proc[p].at = "serving" /\ Goto(p, "stuck") /\ UNCHANGED <<file, pending, harm>>

Return(p) == proc[p].at = "stuck" /\ Goto(p, "serving") /\ UNCHANGED <<file, pending, harm>>

Vanish(p) == proc[p].at = "exiting" /\ Die(p)

-----------------------------------------------------------------------------
(***************************************************************************)
(* Others: processes that are not rs-serve, who kills, the init script     *)
(***************************************************************************)
Other(p) ==
    \/ proc[p].at = "free" /\ Cardinality({q \in Pid : proc[q].at = "other"}) < MaxOthers
       /\ Goto(p, "other") /\ UNCHANGED <<file, pending, harm>>
    \/ proc[p].at = "other" /\ Die(p)

Crash(p) == MayCrash /\ proc[p].at \notin {"free", "other", "exiting"} /\ Die(p)

\* "stop": SIGTERM if there is such a process, then rm, without waiting.
ScriptStop(p) ==
    /\ Script /\ file # Nil /\ file.pid = p /\ proc[p].at # "free"
    /\ file' = Nil /\ harm' = IF harm = "none" THEN "script" ELSE harm
    /\ IF proc[p].at \in Deaf
       THEN proc' = [proc EXCEPT ![p] = Free] /\ UNCHANGED pending
       ELSE pending' = pending \cup {q \in {p} : proc[q].at \in Hearing} /\ UNCHANGED proc

-----------------------------------------------------------------------------
Init ==
    /\ proc = [p \in Pid |-> Free]
    /\ file = Nil /\ pending = {} /\ harm = "none"

init_config(p) ==
    Refuse(p) \/ OpenPidFile(p) \/ ReadPidFile(p) \/ Kill(p) \/ EndOptions(p)

main(p) ==
    \/ init_config(p) \/ Initialise(p) \/ Run(p) \/ Fork(p) \/ Parent(p)
    \/ handle_signal(p) \/ Vanish(p)

Next ==
    \E p \in Pid :
        main(p) \/ Hang(p) \/ Return(p) \/ Other(p) \/ Crash(p) \/ ScriptStop(p) \/ \E command \in Command : Start(p, command)

Spec == Init /\ [][Next]_vars

\* Nothing main() calls up to its event loop blocks.  The loop asks for events
\* again after the handlers that were due, so it reads the signalfd if every
\* handler returns; that one does is not taken for granted.
FairSpec == Spec /\ \A p \in Pid : WF_vars(main(p)) /\ SF_vars(handle_signal(p))

-----------------------------------------------------------------------------
(***************************************************************************)
(* Properties                                                              *)
(***************************************************************************)
TypeOK ==
    /\ proc \in [Pid -> Process]
    /\ file \in [by : Pid, pid : Pid \cup {Nil, Everyone}] \cup {Nil}
    /\ pending \subseteq {p \in Pid : proc[p].at \in Hearing \cup {"exiting"}}
    /\ harm \in {"none", "script", "death"}

\* A server started with --pid-file can be found by it as long as it serves:
\* nobody else's exit removes the file, nobody else is named in it.  It may
\* be empty while the parent is about to write it, or was killed before.
ServersAreRegistered ==
    \A p \in Pid : proc[p].at \in Serving /\ Holds(p) /\ harm = "none" =>
        /\ file # Nil
        /\ \/ file.pid = p
           \/ file.pid = Nil /\ \E q \in Pid : proc[q].at = "parent" /\ proc[q].target = {p}

\* A file without a process is left only by a death or a failed fork(), never
\* by a start that was refused, wrong options, a regular end, or the init
\* script: otherwise no server could be started until somebody removes it.
OnlyDeathLeavesFile ==
    file # Nil /\ harm # "death" => \E p \in Pid : Holds(p)

\* A process told to stop another never serves, wherever --stop stands.
StopNeverServes == \A p \in Pid : "stop" \in proc[p].has => "port" \notin proc[p].has

\* A server that is sent SIGTERM ends, unless a handler holds it for ever, and
\* the file that named it is gone when it does, unless it was killed.
StoppedServerEnds ==
    \A p \in Pid : []<>(proc[p].at # "stuck") =>
        (p \in pending /\ proc[p].at \in Serving
            ~> proc[p].at \notin Serving /\ (file = Nil \/ file.pid # p \/ harm = "death"))

\* config.c:33-34: "Stop a running rs-serve process.  The process is
\* identified by the PID file": a --stop signals no other process.
StopFindsServer ==
    [][\A p \in Pid : proc[p].at = "kill" /\ proc'[p].at # "kill" =>
         \A q \in proc[p].target : proc[q].at # "other"]_vars
=============================================================================
