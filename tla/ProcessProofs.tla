--------------------------- MODULE ProcessProofs ----------------------------
(***************************************************************************)
(* What Process promises, for any number of processes and any commands.    *)
(***************************************************************************)
EXTENDS Process, TLAPS

-----------------------------------------------------------------------------
(***************************************************************************)
(* Types                                                                   *)
(***************************************************************************)
LEMMA FreeIsProcess == Free \in Process
BY DEF Free, Process, Step, Deaf

LEMMA GotoTypeOK ==
    ASSUME TypeOK, NEW p \in Pid, NEW step \in Step, Goto(p, step),
           p \in pending => step \in Hearing \cup {"exiting"}
    PROVE  proc' \in [Pid -> Process] /\ pending \subseteq {q \in Pid : proc'[q].at \in Hearing \cup {"exiting"}}
BY DEF TypeOK, Goto, Process

LEMMA ExitTypeOK ==
    ASSUME TypeOK, NEW p \in Pid, Exit(p)
    PROVE  TypeOK'
<1>1. [Free EXCEPT !.at = "exiting", !.has = proc[p].has \cap {"port"}] \in Process
    BY FreeIsProcess DEF Process, Step
<1>2. proc' \in [Pid -> Process] /\ pending \subseteq {q \in Pid : proc'[q].at \in Hearing \cup {"exiting"}}
    BY <1>1, FreeIsProcess DEF Exit, Leave, TypeOK, Process
<1> QED BY <1>2 DEF Exit, TypeOK

LEMMA DieTypeOK ==
    ASSUME TypeOK, NEW p \in Pid, Die(p)
    PROVE  TypeOK'
BY FreeIsProcess DEF TypeOK, Die, Harmed

LEMMA WriteTypeOK ==
    ASSUME TypeOK, NEW p \in Pid, NEW pid \in Pid \cup {Everyone}, Write(p, pid)
    PROVE  file' \in [by : Pid, pid : Pid \cup {Nil, Everyone}] \cup {Nil}
BY DEF TypeOK, Write

LEMMA NextTypeOK == TypeOK /\ [Next]_vars => TypeOK'
<1> SUFFICES ASSUME TypeOK, [Next]_vars PROVE TypeOK'
    OBVIOUS
<1>1. CASE UNCHANGED vars
    BY <1>1 DEF vars, TypeOK
<1>2. ASSUME NEW p \in Pid, NEW command \in Command, Start(p, command) PROVE TypeOK'
    <2>1. command.before \subseteq Flag /\ command.after \subseteq Flag
        BY ProcessAssumption
    <2>2. [Free EXCEPT !.at = "options", !.has = command.before, !.after = command.after] \in Process
        BY <2>1, FreeIsProcess DEF Process, Step, Deaf
    <2>3. proc' \in [Pid -> Process] /\ pending \subseteq {q \in Pid : proc'[q].at \in Hearing \cup {"exiting"}}
        BY <1>2, <2>2 DEF TypeOK, Start, Hearing, Serving
    <2> QED BY <1>2, <2>3 DEF TypeOK, Start
<1>3. ASSUME NEW p \in Pid, Refuse(p) PROVE TypeOK'
    BY <1>3, ExitTypeOK DEF Refuse
<1>4. ASSUME NEW p \in Pid, OpenPidFile(p) PROVE TypeOK'
    <2>1. CASE Exit(p)
        BY <2>1, ExitTypeOK
    <2>2. CASE Opened(p) /\ UNCHANGED <<pending, harm>> /\ proc[p].at = "options"
        <3>1. proc' \in [Pid -> Process]
            <4>1. [proc[p] EXCEPT !.at = "opened", !.has = @ \cup {"pid-file"}] \in Process
                <5>1. "opened" \in Step
                    BY DEF Step, Deaf
                <5>2. proc[p] \in Process /\ {"pid-file"} \subseteq Flag \cup {"pid-file", "port"}
                    BY DEF TypeOK
                <5> QED BY <5>1, <5>2 DEF Process
            <4>2. proc' = [proc EXCEPT ![p] = [proc[p] EXCEPT !.at = "opened", !.has = @ \cup {"pid-file"}]]
                BY <2>2 DEF Opened, TypeOK, Process
            <4> QED BY <4>1, <4>2 DEF TypeOK
        <3>2. pending \subseteq {q \in Pid : proc'[q].at \in Hearing \cup {"exiting"}}
            BY <2>2 DEF Opened, TypeOK, Process, Hearing, Serving
        <3> QED BY <2>2, <3>1, <3>2 DEF Opened, TypeOK
    <2> QED BY <1>4, <2>1, <2>2 DEF OpenPidFile
<1>5. ASSUME NEW p \in Pid, ReadPidFile(p) PROVE TypeOK'
    <2>1. CASE Exit(p)
        BY <2>1, ExitTypeOK
    <2>2. CASE ~Exit(p)
        <3>1. PICK target \in Named(p) : proc' = [proc EXCEPT ![p].at = "kill", ![p].target = target]
            BY <1>5, <2>2 DEF ReadPidFile
        <3>2. proc[p].at = "options" /\ file \in [by : Pid, pid : Pid \cup {Nil, Everyone}] /\ UNCHANGED <<file, pending, harm>>
            BY <1>5, <2>2 DEF ReadPidFile, TypeOK
        <3>3. target \subseteq Pid
            BY <3>1, <3>2 DEF Named
        <3>4. proc' \in [Pid -> Process]
            <4>1. [proc[p] EXCEPT !.at = "kill", !.target = target] \in Process
                <5>1. "kill" \in Step
                    BY DEF Step, Deaf
                <5>2. proc[p] \in Process
                    BY DEF TypeOK
                <5> QED BY <3>3, <5>1, <5>2 DEF Process
            <4>2. proc' = [proc EXCEPT ![p] = [proc[p] EXCEPT !.at = "kill", !.target = target]]
                BY <3>1 DEF TypeOK, Process
            <4> QED BY <4>1, <4>2 DEF TypeOK
        <3>5. pending \subseteq {q \in Pid : proc'[q].at \in Hearing \cup {"exiting"}}
            BY <3>1, <3>2 DEF TypeOK, Process, Hearing, Serving
        <3> QED BY <3>2, <3>4, <3>5 DEF TypeOK
    <2> QED BY <2>1, <2>2
<1>6. ASSUME NEW p \in Pid, Kill(p) PROVE TypeOK'
    <2>1. [Free EXCEPT !.at = "exiting"] \in Process /\ [Free EXCEPT !.at = "exiting"].at = "exiting"
        BY FreeIsProcess DEF Process, Step
    <2>2. proc' \in [Pid -> Process]
        BY <1>6, <2>1, FreeIsProcess DEF Kill, TypeOK
    <2>3. pending' \subseteq {q \in Pid : proc'[q].at \in Hearing \cup {"exiting"}}
        <3>1. \A q \in Pid : proc[q].at \in Hearing /\ q # p => proc'[q] = proc[q]
            BY <1>6 DEF Kill, TypeOK, Deaf, Hearing, Serving
        <3>2. \A q \in Pid : proc[q].at = "exiting" => proc'[q] = proc[q]
            BY <1>6 DEF Kill, TypeOK, Deaf
        <3>3. p \notin pending /\ proc[p].at \notin Hearing
            BY <1>6 DEF Kill, TypeOK, Hearing, Serving
        <3>4. \A q \in pending' : q \in Pid /\ q # p /\ proc[q].at \in Hearing \cup {"exiting"}
            BY <1>6, <3>3 DEF Kill, TypeOK, Process
        <3> QED BY <3>1, <3>2, <3>4
    <2> QED BY <1>6, <2>2, <2>3 DEF Kill, TypeOK, Harmed
<1>7. ASSUME NEW p \in Pid, EndOptions(p) PROVE TypeOK'
    <2>1. CASE Exit(p)
        BY <2>1, ExitTypeOK
    <2>2. CASE ~Exit(p)
        <3>1. proc' \in [Pid -> Process]
            BY <1>7, <2>2 DEF EndOptions, TypeOK, Process, Step, Deaf
        <3>2. pending \subseteq {q \in Pid : proc'[q].at \in Hearing \cup {"exiting"}}
            BY <1>7, <2>2 DEF EndOptions, TypeOK, Process, Hearing, Serving
        <3> QED BY <1>7, <2>2, <3>1, <3>2 DEF EndOptions, TypeOK
    <2> QED BY <2>1, <2>2
<1>8. ASSUME NEW p \in Pid, Initialise(p) PROVE TypeOK'
    <2>1. CASE Exit(p) \/ Die(p)
        BY <2>1, ExitTypeOK, DieTypeOK
    <2>2. CASE ~(Exit(p) \/ Die(p))
        <3>1. proc' \in [Pid -> Process]
            BY <1>8, <2>2 DEF Initialise, TypeOK, Process, Step, Hearing, Serving
        <3>2. pending \subseteq {q \in Pid : proc'[q].at \in Hearing \cup {"exiting"}}
            BY <1>8, <2>2 DEF Initialise, TypeOK, Process, Hearing, Serving
        <3> QED BY <1>8, <2>2, <3>1, <3>2 DEF Initialise, TypeOK
    <2> QED BY <2>1, <2>2
<1>9. ASSUME NEW p \in Pid, Run(p) PROVE TypeOK'
    <2>1. "serving" \in Step /\ "serving" \in Hearing
        BY DEF Step, Hearing, Serving
    <2>2. proc' \in [Pid -> Process] /\ pending \subseteq {q \in Pid : proc'[q].at \in Hearing \cup {"exiting"}}
        BY <1>9, <2>1, GotoTypeOK DEF Run
    <2>3. file' \in [by : Pid, pid : Pid \cup {Nil, Everyone}] \cup {Nil}
        BY <1>9, WriteTypeOK DEF Run
    <2> QED BY <1>9, <2>2, <2>3 DEF Run, TypeOK
<1>10. ASSUME NEW p \in Pid, Fork(p) PROVE TypeOK'
    <2>1. "parent" \in Step /\ "serving" \in Step /\ "parent" \in Hearing /\ "serving" \in Hearing
        BY DEF Step, Hearing, Serving
    <2>2. CASE Goto(p, "parent")
        <3>1. proc' \in [Pid -> Process] /\ pending \subseteq {q \in Pid : proc'[q].at \in Hearing \cup {"exiting"}}
            BY <2>1, <2>2, GotoTypeOK
        <3> QED BY <1>10, <3>1 DEF Fork, TypeOK, Harmed
    <2>3. ASSUME NEW child \in Pid, proc[child].at = "free", UNCHANGED harm,
                 proc' = [proc EXCEPT ![p].at = "parent", ![p].target = {child},
                                      ![child] = [proc[p] EXCEPT !.at = "serving"]]
          PROVE  TypeOK'
        <3>1. proc' \in [Pid -> Process]
            BY <2>1, <2>3 DEF TypeOK, Process
        <3>2. pending \subseteq {q \in Pid : proc'[q].at \in Hearing \cup {"exiting"}}
            BY <2>1, <2>3 DEF TypeOK, Process
        <3> QED BY <1>10, <2>3, <3>1, <3>2 DEF Fork, TypeOK
    <2> QED BY <1>10, <2>2, <2>3 DEF Fork
<1>11. ASSUME NEW p \in Pid, Parent(p) PROVE TypeOK'
    <2>1. proc' \in [Pid -> Process] /\ pending' \subseteq {q \in Pid : proc'[q].at \in Hearing \cup {"exiting"}}
        BY <1>11, FreeIsProcess DEF Parent, TypeOK
    <2>2. proc[p].target \subseteq Pid
        BY DEF TypeOK, Process
    <2>3. file' \in [by : Pid, pid : Pid \cup {Nil, Everyone}] \cup {Nil}
        BY <1>11, <2>2, WriteTypeOK DEF Parent
    <2> QED BY <1>11, <2>1, <2>3 DEF Parent, TypeOK
<1>12. ASSUME NEW p \in Pid, handle_signal(p) PROVE TypeOK'
    BY <1>12, ExitTypeOK DEF handle_signal
<1>13. ASSUME NEW p \in Pid, Vanish(p) \/ Crash(p) PROVE TypeOK'
    BY <1>13, DieTypeOK DEF Vanish, Crash
<1>14. ASSUME NEW p \in Pid, Other(p) PROVE TypeOK'
    <2>1. "other" \in Step
        BY DEF Step, Deaf
    <2>2. CASE Die(p)
        BY <2>2, DieTypeOK
    <2>3. CASE proc[p].at = "free" /\ Goto(p, "other") /\ UNCHANGED <<file, pending, harm>>
        <3>1. p \notin pending
            BY <2>3 DEF TypeOK, Hearing, Serving
        <3>2. proc' \in [Pid -> Process] /\ pending \subseteq {q \in Pid : proc'[q].at \in Hearing \cup {"exiting"}}
            BY <2>1, <2>3, <3>1, GotoTypeOK
        <3> QED BY <2>3, <3>2 DEF TypeOK
    <2> QED BY <1>14, <2>2, <2>3 DEF Other
<1>15. ASSUME NEW p \in Pid, ScriptStop(p) PROVE TypeOK'
    <2>1. proc' \in [Pid -> Process]
        BY <1>15, FreeIsProcess DEF ScriptStop, TypeOK
    <2>2. pending' \subseteq {q \in Pid : proc'[q].at \in Hearing \cup {"exiting"}}
        BY <1>15 DEF ScriptStop, TypeOK, Deaf, Hearing, Serving
    <2> QED BY <1>15, <2>1, <2>2 DEF ScriptStop, TypeOK
<1>16. ASSUME NEW p \in Pid, Hang(p) \/ Return(p) PROVE TypeOK'
    <2>1. "stuck" \in Step /\ "serving" \in Step /\ "stuck" \in Hearing /\ "serving" \in Hearing
        BY DEF Step, Hearing, Serving
    <2>2. proc' \in [Pid -> Process] /\ pending \subseteq {q \in Pid : proc'[q].at \in Hearing \cup {"exiting"}}
        BY <1>16, <2>1, GotoTypeOK DEF Hang, Return
    <2> QED BY <1>16, <2>2 DEF Hang, Return, TypeOK
<1> QED BY <1>1, <1>2, <1>3, <1>4, <1>5, <1>6, <1>7, <1>8, <1>9, <1>10, <1>11, <1>12, <1>13, <1>14, <1>15, <1>16
        DEF Next, main, init_config

\* Whatever is started, however it ends: every process is at a step of its
\* own, and only those that block SIGTERM have one waiting.
THEOREM TypeCorrect == Spec => []TypeOK
<1>1. Init => TypeOK
    BY FreeIsProcess DEF Init, TypeOK
<1> QED BY <1>1, NextTypeOK, PTL DEF Spec

\* What a successful fork() makes of the processes.
LEMMA ForkedProcesses ==
    ASSUME TypeOK, NEW p \in Pid, NEW child \in Pid, child # p,
           proc' = [proc EXCEPT ![p].at = "parent", ![p].target = {child},
                                ![child] = [proc[p] EXCEPT !.at = "serving"]]
    PROVE  /\ proc'[p].at = "parent" /\ proc'[p].has = proc[p].has /\ proc'[p].target = {child}
           /\ proc'[child].at = "serving" /\ proc'[child].has = proc[p].has
           /\ \A q \in Pid \ {p, child} : proc'[q] = proc[q]
<1> DEFINE parent == [proc[p] EXCEPT !.at = "parent", !.target = {child}]
<1>1. proc[p] \in Process /\ proc \in [Pid -> Process]
    BY DEF TypeOK
<1>2. parent.at = "parent" /\ parent.has = proc[p].has /\ parent.target = {child}
    BY <1>1 DEF Process
<1>3. proc' = [proc EXCEPT ![p] = parent, ![child] = [proc[p] EXCEPT !.at = "serving"]]
    BY <1>1 DEF Process
<1> HIDE DEF parent
<1>4. proc'[p] = parent /\ proc'[child] = [proc[p] EXCEPT !.at = "serving"]
    BY <1>1, <1>3
<1>5. \A q \in Pid \ {p, child} : proc'[q] = proc[q]
    BY <1>1, <1>3
<1>6. proc'[child].at = "serving" /\ proc'[child].has = proc[p].has
    BY <1>1, <1>4 DEF Process
<1> QED BY <1>2, <1>4, <1>5, <1>6

-----------------------------------------------------------------------------
(***************************************************************************)
(* --stop                                                                  *)
(***************************************************************************)
\* Who is told to stop another is in init_config() or on its way out.
Stopping ==
    \A p \in Pid : "stop" \in proc[p].has =>
        proc[p].at \in {"options", "kill", "exiting"} /\ "port" \notin proc[p].has

LEMMA NextStopping == TypeOK /\ Stopping /\ [Next]_vars => Stopping'
<1> SUFFICES ASSUME TypeOK, Stopping, [Next]_vars PROVE Stopping'
    OBVIOUS
<1> USE DEF TypeOK, Stopping
<1>1. CASE UNCHANGED vars
    BY <1>1 DEF vars
<1>2. ASSUME NEW p \in Pid, Exit(p) PROVE Stopping'
    BY <1>2 DEF Exit, Leave, Free
<1>3. ASSUME NEW p \in Pid, Die(p) PROVE Stopping'
    BY <1>3 DEF Die, Free
<1>4. ASSUME NEW p \in Pid, NEW command \in Command, Start(p, command) PROVE Stopping'
    <2>1. "port" \notin command.before
        BY ProcessAssumption DEF Flag
    <2> QED BY <1>4, <2>1 DEF Start, Free
<1>5. ASSUME NEW p \in Pid, OpenPidFile(p), ~Exit(p) PROVE Stopping'
    BY <1>5 DEF OpenPidFile, Opened, Process
<1>6. ASSUME NEW p \in Pid, ReadPidFile(p), ~Exit(p) PROVE Stopping'
    BY <1>6 DEF ReadPidFile, Process
<1>7. ASSUME NEW p \in Pid, Kill(p) PROVE Stopping'
    BY <1>7 DEF Kill, Free
<1>8. ASSUME NEW p \in Pid, EndOptions(p), ~Exit(p) PROVE Stopping'
    BY <1>8 DEF EndOptions, Process
<1>9. ASSUME NEW p \in Pid, Initialise(p), ~Exit(p), ~Die(p) PROVE Stopping'
    BY <1>9 DEF Initialise, Process
<1>10. ASSUME NEW p \in Pid, Run(p) PROVE Stopping'
    BY <1>10 DEF Run, Goto
<1>11. ASSUME NEW p \in Pid, Fork(p) PROVE Stopping'
    <2>1. proc[p].at = "masked" /\ "stop" \notin proc[p].has
        BY <1>11 DEF Fork
    <2>2. CASE Goto(p, "parent")
        BY <2>1, <2>2 DEF Goto
    <2>3. CASE ~Goto(p, "parent")
        <3>1. PICK child \in Pid :
                /\ proc[child].at = "free"
                /\ proc' = [proc EXCEPT ![p].at = "parent", ![p].target = {child},
                                        ![child] = [proc[p] EXCEPT !.at = "serving"]]
            BY <1>11, <2>3 DEF Fork
        <3>2. child # p
            BY <2>1, <3>1
        <3>3. /\ proc'[p].has = proc[p].has /\ proc'[child].has = proc[p].has
              /\ \A q \in Pid \ {p, child} : proc'[q] = proc[q]
            BY <3>1, <3>2, ForkedProcesses
        <3> QED BY <2>1, <3>3
    <2> QED BY <2>2, <2>3
<1>12. ASSUME NEW p \in Pid, Parent(p) PROVE Stopping'
    BY <1>12 DEF Parent, Free
<1>13. ASSUME NEW p \in Pid, Other(p), ~Die(p) PROVE Stopping'
    <2>1. proc[p].at = "free" /\ Goto(p, "other")
        BY <1>13 DEF Other
    <2> QED BY <2>1 DEF Goto
<1>14. ASSUME NEW p \in Pid, ScriptStop(p) PROVE Stopping'
    BY <1>14 DEF ScriptStop, Free
<1>15. ASSUME NEW p \in Pid, Hang(p) \/ Return(p) PROVE Stopping'
    BY <1>15 DEF Hang, Return, Goto, Process
<1> HIDE DEF TypeOK, Stopping
<1>16. ASSUME NEW p \in Pid, main(p) PROVE Stopping'
    BY <1>2, <1>3, <1>5, <1>6, <1>7, <1>8, <1>9, <1>10, <1>11, <1>12, <1>16
       DEF main, init_config, Refuse, handle_signal, Vanish
<1> QED BY <1>1, <1>3, <1>4, <1>13, <1>14, <1>15, <1>16 DEF Next, Crash

\* A process that is told to stop another, before or after --pid-file, never
\* opens the port.
THEOREM NoStopperServes == Spec => []StopNeverServes
<1>1. Init => Stopping
    BY DEF Init, Stopping, Free
<1>2. Stopping => StopNeverServes
    BY DEF Stopping, StopNeverServes
<1> QED BY <1>1, <1>2, NextStopping, TypeCorrect, PTL DEF Spec
-----------------------------------------------------------------------------
(***************************************************************************)
(* The pid file.  Unless a death left one or others removed one, whoever   *)
(* created the file that is there is alone with it until it forks.         *)
(***************************************************************************)
Alone == {"opened", "init", "masked"}

OnlyOpenersHold == \A p \in Pid : Holds(p) => proc[p].at \in Alone \cup Serving \cup {"parent"}

NewFileIsEmpty ==
    \A p \in Pid : proc[p].at \in Alone /\ Holds(p) => file # Nil /\ file.by = p /\ file.pid = Nil

\* The server is named in the file, or its parent is about to do that.
ServerIsNamed ==
    \A p \in Pid : proc[p].at \in Serving /\ Holds(p) =>
        /\ file # Nil
        /\ \/ file.pid = p
           \/ /\ file.pid = Nil /\ file.by \in Pid
              /\ proc[file.by].at = "parent" /\ Holds(file.by) /\ proc[file.by].target = {p}

\* What a parent is going to write, if its file is still there, is its server.
ParentHasServer ==
    \A q \in Pid : proc[q].at = "parent" /\ Holds(q) /\ file # Nil /\ file.by = q =>
        /\ file.pid = Nil
        /\ \E p \in Pid : proc[q].target = {p} /\ proc[p].at \in Serving /\ Holds(p)

Clean == OnlyOpenersHold /\ NewFileIsEmpty /\ ServerIsNamed /\ ParentHasServer
FileInv == harm = "none" => Clean

\* Only one process that is not a parent or on its way out holds the file.
LEMMA OneHolds ==
    ASSUME TypeOK, Clean, NEW p \in Pid, NEW q \in Pid, Holds(p), Holds(q),
           proc[p].at \in Alone \cup Serving, proc[q].at \in Alone \cup Serving
    PROVE  p = q
BY ProcessAssumption DEF Clean, NewFileIsEmpty, ServerIsNamed, Alone

\* A process that neither has the file open nor comes to have it matters not.
LEMMA OthersKeepClean ==
    ASSUME TypeOK, Clean, NEW P \in SUBSET Pid, \A p \in P : ~Holds(p) /\ ~Holds(p)',
           \A q \in Pid \ P : proc'[q] = proc[q], UNCHANGED file
    PROVE  Clean'
<1>1. \A q \in Pid : Holds(q)' => Holds(q) /\ q \notin P /\ proc'[q] = proc[q]
    BY DEF Holds
<1>2. \A q \in Pid : Holds(q) => Holds(q)' /\ q \notin P /\ proc'[q] = proc[q]
    BY DEF Holds
<1>3. OnlyOpenersHold'
    BY <1>1 DEF Clean, OnlyOpenersHold
<1>4. NewFileIsEmpty'
    BY <1>1 DEF Clean, NewFileIsEmpty
<1>5. ServerIsNamed'
    BY <1>1, <1>2 DEF Clean, ServerIsNamed
<1>6. ParentHasServer'
    BY <1>1, <1>2 DEF Clean, ParentHasServer
<1> QED BY <1>3, <1>4, <1>5, <1>6 DEF Clean

\* The exit of who holds the file removes no other's.
LEMMA ExitKeepsClean ==
    ASSUME TypeOK, Clean, NEW p \in Pid, Exit(p), proc[p].at \in {"options", "opened", "init", "serving"}
    PROVE  Clean'
<1>1. ~Holds(p)' /\ \A q \in Pid \ {p} : proc'[q] = proc[q]
    BY DEF TypeOK, Holds, Exit, Leave, Free
<1>2. CASE Holds(p)
    <2>1. proc[p].at \in Alone \cup Serving
        BY <1>2 DEF Clean, OnlyOpenersHold, Alone, Serving
    <2>2. \A q \in Pid : Holds(q)' => Holds(q) /\ proc'[q].at = "parent"
        BY <1>1, <1>2, <2>1, OneHolds DEF Holds, Clean, OnlyOpenersHold
    <2>3. file' = Nil
        BY <1>2 DEF Exit
    <2>4. OnlyOpenersHold' /\ NewFileIsEmpty' /\ ServerIsNamed'
        BY <2>2 DEF OnlyOpenersHold, NewFileIsEmpty, ServerIsNamed, Alone, Serving
    <2>5. ParentHasServer'
        BY <2>3 DEF ParentHasServer
    <2> QED BY <2>4, <2>5 DEF Clean
<1>3. CASE ~Holds(p)
    <2>1. {p} \in SUBSET Pid /\ file' = file
        BY <1>3 DEF Exit
    <2> QED BY <1>1, <1>3, <2>1, OthersKeepClean
<1> QED BY <1>2, <1>3

\* A death that does no harm is of one without the file.
LEMMA DieKeepsClean ==
    ASSUME TypeOK, Clean, NEW p \in Pid, Die(p), harm' = "none"
    PROVE  Clean'
<1>1. ~Holds(p) /\ file' = file
    BY DEF Die, Harmed
<1>2. ~Holds(p)' /\ \A q \in Pid \ {p} : proc'[q] = proc[q]
    BY DEF TypeOK, Die, Free, Holds
<1>3. {p} \in SUBSET Pid
    OBVIOUS
<1> QED BY <1>1, <1>2, <1>3, OthersKeepClean

\* Up to the fork, its creator only holds the file.
LEMMA AloneKeepsClean ==
    ASSUME TypeOK, Clean, NEW p \in Pid, proc[p].at \in Alone, proc'[p].at \in Alone,
           Holds(p)' <=> Holds(p), \A q \in Pid \ {p} : proc'[q] = proc[q], UNCHANGED file
    PROVE  Clean'
<1>1. \A q \in Pid \ {p} : Holds(q)' <=> Holds(q)
    BY DEF Holds
<1>2. OnlyOpenersHold'
    BY <1>1 DEF Clean, OnlyOpenersHold
<1>3. NewFileIsEmpty'
    BY <1>1 DEF Clean, NewFileIsEmpty
<1>4. ServerIsNamed'
    BY <1>1 DEF Clean, ServerIsNamed, Alone, Serving
<1>5. ParentHasServer'
    BY <1>1 DEF Clean, ParentHasServer, Alone, Serving
<1> QED BY <1>2, <1>3, <1>4, <1>5 DEF Clean

\* A handler that takes its time, or returns, does not touch the file.
LEMMA ServingKeepsClean ==
    ASSUME TypeOK, Clean, NEW p \in Pid, proc[p].at \in Serving, proc'[p].at \in Serving,
           proc'[p].has = proc[p].has, \A q \in Pid \ {p} : proc'[q] = proc[q], UNCHANGED file
    PROVE  Clean'
<1>1. \A q \in Pid : Holds(q)' <=> Holds(q)
    BY DEF Holds
<1>2. OnlyOpenersHold'
    BY <1>1 DEF Clean, OnlyOpenersHold
<1>3. NewFileIsEmpty'
    BY <1>1 DEF Clean, NewFileIsEmpty, Alone, Serving
<1>4. ServerIsNamed'
    BY <1>1 DEF Clean, ServerIsNamed, Serving
<1>5. ParentHasServer'
    BY <1>1 DEF Clean, ParentHasServer, Serving
<1> QED BY <1>2, <1>3, <1>4, <1>5 DEF Clean

LEMMA OpenKeepsClean ==
    ASSUME TypeOK, Clean, NEW p \in Pid, Opened(p), file = Nil
    PROVE  Clean'
<1>1. /\ proc'[p].at = "opened" /\ Holds(p)'
      /\ \A q \in Pid \ {p} : proc'[q] = proc[q] /\ (Holds(q)' <=> Holds(q))
    BY DEF TypeOK, Process, Opened, Holds
<1>2. file' # Nil /\ file'.by = p /\ file'.pid = Nil
    BY ProcessAssumption DEF Opened
<1>3. \A q \in Pid : Holds(q) => proc[q].at = "parent"
    BY DEF Clean, OnlyOpenersHold, NewFileIsEmpty, ServerIsNamed, Serving
<1>4. OnlyOpenersHold'
    BY <1>1, <1>3 DEF OnlyOpenersHold, Alone, Serving
<1>5. NewFileIsEmpty' /\ ServerIsNamed' /\ ParentHasServer'
    BY <1>1, <1>2, <1>3 DEF NewFileIsEmpty, ServerIsNamed, ParentHasServer, Alone, Serving
<1> QED BY <1>4, <1>5 DEF Clean

\* A server in the foreground names itself.
LEMMA RunKeepsClean ==
    ASSUME TypeOK, Clean, NEW p \in Pid, Run(p)
    PROVE  Clean'
<1>1. /\ proc[p].at = "masked" /\ proc'[p].at = "serving" /\ proc'[p].has = proc[p].has
      /\ \A q \in Pid \ {p} : proc'[q] = proc[q]
    BY DEF TypeOK, Process, Run, Goto
<1>2. \A q \in Pid : Holds(q)' <=> Holds(q)
    BY <1>1 DEF Holds
<1>3. CASE Holds(p)
    <2>1. file # Nil /\ file.by = p
        BY <1>1, <1>3 DEF Clean, NewFileIsEmpty, Alone, Serving
    <2>2. file' = [file EXCEPT !.pid = p]
        BY <1>3, <2>1 DEF Run, Write
    <2>3. file' # Nil /\ file'.by = p /\ file'.pid = p
        BY <2>1, <2>2, ProcessAssumption DEF TypeOK
    <2>4. \A q \in Pid : Holds(q)' => q = p \/ proc'[q].at = "parent"
        BY <1>1, <1>2, <1>3, OneHolds DEF Clean, OnlyOpenersHold, Alone, Serving
    <2>5. OnlyOpenersHold'
        BY <1>1, <2>4 DEF OnlyOpenersHold, Serving
    <2>6. NewFileIsEmpty'
        BY <1>1, <2>4 DEF NewFileIsEmpty, Alone, Serving
    <2>7. ServerIsNamed'
        BY <2>3, <2>4 DEF ServerIsNamed, Serving
    <2>8. ParentHasServer'
        BY <1>1, <2>3 DEF ParentHasServer, Serving
    <2> QED BY <2>5, <2>6, <2>7, <2>8 DEF Clean
<1>4. CASE ~Holds(p)
    <2>1. UNCHANGED file
        BY <1>4 DEF Run, Write
    <2> QED BY <1>1, <1>2, <1>4, <2>1, OthersKeepClean
<1> QED BY <1>3, <1>4

\* The child has the file, too.
LEMMA ForkKeepsClean ==
    ASSUME TypeOK, Clean, NEW p \in Pid, Fork(p), harm' = "none"
    PROVE  Clean'
<1>1. proc[p].at = "masked" /\ UNCHANGED file
    BY DEF Fork
<1>2. CASE Goto(p, "parent") /\ harm' = Harmed({p})
    <2>1. ~Holds(p)
        BY <1>2 DEF Harmed
    <2>2. proc'[p].has = proc[p].has /\ \A q \in Pid \ {p} : proc'[q] = proc[q]
        BY <1>2 DEF TypeOK, Process, Goto
    <2>3. {p} \in SUBSET Pid /\ \A q \in {p} : ~Holds(q) /\ ~Holds(q)'
        BY <2>1, <2>2 DEF Holds
    <2> QED BY <1>1, <2>2, <2>3, OthersKeepClean
<1>3. CASE ~(Goto(p, "parent") /\ harm' = Harmed({p}))
    <2>1. PICK child \in Pid :
            /\ proc[child].at = "free"
            /\ proc' = [proc EXCEPT ![p].at = "parent", ![p].target = {child},
                                    ![child] = [proc[p] EXCEPT !.at = "serving"]]
        BY <1>3 DEF Fork
    <2>2. child # p /\ ~Holds(child)
        BY <1>1, <2>1 DEF Clean, OnlyOpenersHold, Alone, Serving
    <2>3. /\ proc'[p].at = "parent" /\ proc'[p].has = proc[p].has /\ proc'[p].target = {child}
          /\ proc'[child].at = "serving" /\ proc'[child].has = proc[p].has
          /\ \A q \in Pid \ {p, child} : proc'[q] = proc[q]
        BY <2>1, <2>2, ForkedProcesses
    <2>4. CASE Holds(p)
        <3>1. file # Nil /\ file.by = p /\ file.pid = Nil
            BY <1>1, <2>4 DEF Clean, NewFileIsEmpty, Alone, Serving
        <3>2. Holds(p)' /\ Holds(child)'
            BY <2>3, <2>4 DEF Holds
        <3>3. \A q \in Pid \ {p, child} : Holds(q)' => proc'[q].at = "parent"
            BY <1>1, <2>3, <2>4, OneHolds DEF Clean, OnlyOpenersHold, Alone, Holds, Serving
        <3>4. OnlyOpenersHold'
            BY <2>3, <3>3 DEF OnlyOpenersHold, Serving
        <3>5. NewFileIsEmpty'
            BY <2>3, <3>3 DEF NewFileIsEmpty, Alone, Serving
        <3>6. ServerIsNamed'
            BY <1>1, <2>3, <3>1, <3>2, <3>3 DEF ServerIsNamed, Serving
        <3>7. ParentHasServer'
            BY <1>1, <2>3, <3>1, <3>2 DEF ParentHasServer, Serving
        <3> QED BY <3>4, <3>5, <3>6, <3>7 DEF Clean
    <2>5. CASE ~Holds(p)
        <3>1. {p, child} \in SUBSET Pid /\ \A q \in {p, child} : ~Holds(q) /\ ~Holds(q)'
            BY <2>2, <2>3, <2>5 DEF Holds
        <3> QED BY <1>1, <2>3, <3>1, OthersKeepClean
    <2> QED BY <2>4, <2>5
<1> QED BY <1>2, <1>3

\* The parent names its child, if the file is still the one it created.
LEMMA ParentKeepsClean ==
    ASSUME TypeOK, Clean, NEW p \in Pid, Parent(p)
    PROVE  Clean'
<1>1. /\ proc[p].at = "parent" /\ proc'[p].at = "free" /\ proc'[p].has = {}
      /\ \A q \in Pid \ {p} : proc'[q] = proc[q]
    BY DEF TypeOK, Parent, Free
<1>2. \A q \in Pid : Holds(q)' <=> Holds(q) /\ q # p
    BY <1>1 DEF Holds
<1>3. CASE Holds(p) /\ file # Nil /\ file.by = p
    <2>1. PICK server \in Pid : /\ proc[p].target = {server} /\ proc[server].at \in Serving
                                /\ Holds(server)
        BY <1>1, <1>3 DEF Clean, ParentHasServer, Serving
    <2>2. file' = [file EXCEPT !.pid = server]
        BY <1>3, <2>1 DEF Parent, Write
    <2>3. file' # Nil /\ file'.by = p /\ file'.pid = server
        BY <1>3, <2>2, ProcessAssumption DEF TypeOK
    <2>4. \A q \in Pid : Holds(q)' => /\ q # p /\ proc'[q] = proc[q]
                                      /\ q = server \/ proc'[q].at = "parent"
        BY <1>1, <1>2, <2>1, OneHolds DEF Clean, OnlyOpenersHold, Alone, Serving
    <2>5. OnlyOpenersHold'
        BY <1>1, <2>1, <2>4 DEF OnlyOpenersHold, Serving
    <2>6. NewFileIsEmpty'
        BY <1>1, <2>1, <2>4 DEF NewFileIsEmpty, Alone, Serving
    <2>7. ServerIsNamed'
        BY <2>3, <2>4 DEF ServerIsNamed, Serving
    <2>8. ParentHasServer'
        BY <1>1, <2>3 DEF ParentHasServer, Serving
    <2> QED BY <2>5, <2>6, <2>7, <2>8 DEF Clean
<1>4. CASE ~(Holds(p) /\ file # Nil /\ file.by = p)
    <2>1. UNCHANGED file
        BY <1>4 DEF Parent, Write
    <2>2. OnlyOpenersHold' /\ NewFileIsEmpty'
        BY <1>1, <1>2, <2>1 DEF Clean, OnlyOpenersHold, NewFileIsEmpty, Serving
    <2>3. ServerIsNamed'
        BY <1>1, <1>2, <1>4, <2>1 DEF Clean, ServerIsNamed, Serving
    <2>4. ParentHasServer'
        BY <1>1, <1>2, <2>1 DEF Clean, ParentHasServer, Serving
    <2> QED BY <2>2, <2>3, <2>4 DEF Clean
<1> QED BY <1>3, <1>4

LEMMA KillKeepsClean ==
    ASSUME TypeOK, Clean, NEW p \in Pid, Kill(p), harm' = "none"
    PROVE  Clean'
<1> DEFINE dead == {q \in proc[p].target : proc[q].at \in Deaf}
<1>1. \A q \in dead \cup {p} : q \in Pid /\ ~Holds(q)
    <2>1. \A q \in dead : ~Holds(q)
        BY DEF Kill, Harmed
    <2>2. ~Holds(p)
        BY DEF Kill, Clean, OnlyOpenersHold, Alone, Serving
    <2> QED BY <2>1, <2>2 DEF TypeOK, Process
<1>2. UNCHANGED file /\ \A q \in Pid \ (dead \cup {p}) : proc'[q] = proc[q]
    BY DEF Kill
<1>3. proc'[p].has \in {{}, proc[p].has} /\ \A q \in dead : proc'[q].has = {}
    BY <1>1 DEF TypeOK, Process, Kill, Free
<1>4. \A q \in dead \cup {p} : ~Holds(q)'
    BY <1>1, <1>3 DEF Holds
<1> HIDE DEF dead
<1>5. dead \cup {p} \in SUBSET Pid
    BY <1>1
<1> QED BY <1>1, <1>2, <1>4, <1>5, OthersKeepClean

\* What changes one process that has not opened the file, and nothing else.
LEMMA OneKeepsClean ==
    ASSUME TypeOK, Clean, NEW p \in Pid, proc[p].at \in {"free", "options", "kill"},
           "pid-file" \notin proc'[p].has, \A q \in Pid \ {p} : proc'[q] = proc[q], UNCHANGED file
    PROVE  Clean'
<1>1. {p} \in SUBSET Pid /\ \A q \in {p} : ~Holds(q) /\ ~Holds(q)'
    BY DEF TypeOK, Holds, Clean, OnlyOpenersHold, Alone, Serving
<1> QED BY <1>1, OthersKeepClean

LEMMA NextFileInv == TypeOK /\ FileInv /\ [Next]_vars => FileInv'
<1> SUFFICES ASSUME TypeOK, FileInv, [Next]_vars, harm' = "none" PROVE Clean'
    BY DEF FileInv
<1>1. CASE UNCHANGED vars
    BY <1>1 DEF vars, FileInv, Clean, OnlyOpenersHold, NewFileIsEmpty, ServerIsNamed, ParentHasServer, Holds, Serving
<1>2. CASE Next
    <2>1. harm = "none"
        BY <1>2 DEF Next, main, init_config, Start, Refuse, OpenPidFile, ReadPidFile, Kill, EndOptions, Initialise,
                    Run, Fork, Parent, handle_signal, Vanish, Hang, Return, Other, Crash, ScriptStop, Exit, Die, Harmed
    <2>2. Clean
        BY <2>1 DEF FileInv
    <2>3. ASSUME NEW p \in Pid, NEW command \in Command, Start(p, command) PROVE Clean'
        <3>1. "pid-file" \notin command.before
            BY ProcessAssumption DEF Flag
        <3>2. "pid-file" \notin proc'[p].has /\ \A q \in Pid \ {p} : proc'[q] = proc[q]
            BY <2>3, <3>1 DEF Start, TypeOK, Free
        <3> QED BY <2>2, <2>3, <3>2, OneKeepsClean DEF Start
    <2>4. ASSUME NEW p \in Pid, Refuse(p) PROVE Clean'
        BY <2>2, <2>4, ExitKeepsClean DEF Refuse
    <2>5. ASSUME NEW p \in Pid, OpenPidFile(p) PROVE Clean'
        BY <2>2, <2>5, ExitKeepsClean, OpenKeepsClean DEF OpenPidFile
    <2>6. ASSUME NEW p \in Pid, ReadPidFile(p) PROVE Clean'
        <3>1. proc[p].at = "options"
            BY <2>6 DEF ReadPidFile
        <3>2. CASE ~Exit(p)
            <4>1. "pid-file" \notin proc[p].has
                BY <2>2, <3>1 DEF Clean, OnlyOpenersHold, Alone, Holds, Serving
            <4>2. proc'[p].has = proc[p].has /\ UNCHANGED file /\ \A q \in Pid \ {p} : proc'[q] = proc[q]
                BY <2>6, <3>2 DEF ReadPidFile, TypeOK, Process
            <4> QED BY <2>2, <3>1, <4>1, <4>2, OneKeepsClean
        <3> QED BY <2>2, <3>1, <3>2, ExitKeepsClean
    <2>7. ASSUME NEW p \in Pid, Kill(p) PROVE Clean'
        BY <2>2, <2>7, KillKeepsClean
    <2>8. ASSUME NEW p \in Pid, EndOptions(p) PROVE Clean'
        <3>1. proc[p].at = "opened" /\ "pid-file" \notin proc[p].after
            BY <2>8 DEF EndOptions, TypeOK, Process, Flag
        <3>2. CASE ~Exit(p)
            <4>1. /\ proc'[p].at = "init" /\ proc'[p].has = proc[p].has \cup proc[p].after
                  /\ UNCHANGED file /\ \A q \in Pid \ {p} : proc'[q] = proc[q]
                BY <2>8, <3>2 DEF EndOptions, TypeOK, Process
            <4>2. Holds(p)' <=> Holds(p)
                BY <3>1, <4>1 DEF Holds
            <4> QED BY <2>2, <3>1, <4>1, <4>2, AloneKeepsClean DEF Alone, Serving
        <3> QED BY <2>2, <3>1, <3>2, ExitKeepsClean
    <2>9. ASSUME NEW p \in Pid, Initialise(p) PROVE Clean'
        <3>1. proc[p].at = "init"
            BY <2>9 DEF Initialise
        <3>2. CASE ~Exit(p) /\ ~Die(p)
            <4>1. /\ proc'[p].at = "masked" /\ proc'[p].has = proc[p].has \cup {"port"}
                  /\ UNCHANGED file /\ \A q \in Pid \ {p} : proc'[q] = proc[q]
                BY <2>9, <3>2 DEF Initialise, TypeOK, Process
            <4>2. Holds(p)' <=> Holds(p)
                BY <4>1 DEF Holds
            <4> QED BY <2>2, <3>1, <4>1, <4>2, AloneKeepsClean DEF Alone, Serving
        <3> QED BY <2>2, <3>1, <3>2, ExitKeepsClean, DieKeepsClean
    <2>10. ASSUME NEW p \in Pid, Run(p) \/ Fork(p) \/ Parent(p) PROVE Clean'
        BY <2>2, <2>10, RunKeepsClean, ForkKeepsClean, ParentKeepsClean
    <2>11. ASSUME NEW p \in Pid, handle_signal(p) PROVE Clean'
        BY <2>2, <2>11, ExitKeepsClean DEF handle_signal
    <2>12. ASSUME NEW p \in Pid, Vanish(p) \/ Crash(p) PROVE Clean'
        BY <2>2, <2>12, DieKeepsClean DEF Vanish, Crash
    <2>13. ASSUME NEW p \in Pid, Other(p) PROVE Clean'
        <3>1. CASE proc[p].at = "free" /\ Goto(p, "other") /\ UNCHANGED file
            <4>1. "pid-file" \notin proc[p].has
                BY <2>2, <3>1 DEF Clean, OnlyOpenersHold, Alone, Holds, Serving
            <4>2. proc'[p].has = proc[p].has /\ \A q \in Pid \ {p} : proc'[q] = proc[q]
                BY <3>1 DEF Goto, TypeOK, Process
            <4> QED BY <2>2, <3>1, <4>1, <4>2, OneKeepsClean
        <3> QED BY <2>2, <2>13, <3>1, DieKeepsClean DEF Other
    <2>14. ASSUME NEW p \in Pid, ScriptStop(p) PROVE Clean'
        BY <2>14 DEF ScriptStop
    <2>15. ASSUME NEW p \in Pid, Hang(p) \/ Return(p) PROVE Clean'
        <3>1. /\ proc[p].at \in Serving /\ proc'[p].at \in Serving /\ proc'[p].has = proc[p].has
              /\ UNCHANGED file /\ \A q \in Pid \ {p} : proc'[q] = proc[q]
            BY <2>15 DEF Hang, Return, Goto, TypeOK, Process, Serving
        <3> QED BY <2>2, <3>1, ServingKeepsClean
    <2> QED BY <1>2, <2>3, <2>4, <2>5, <2>6, <2>7, <2>8, <2>9, <2>10, <2>11, <2>12, <2>13, <2>14, <2>15
            DEF Next, main, init_config
<1> QED BY <1>1, <1>2

LEMMA SpecFileInv == Spec => []FileInv
<1>1. Init => FileInv
    BY DEF Init, FileInv, Clean, OnlyOpenersHold, NewFileIsEmpty, ServerIsNamed, ParentHasServer, Holds, Serving,
           Free, Alone, Serving
<1> QED BY <1>1, NextFileInv, TypeCorrect, PTL DEF Spec

\* However many processes are started, stopped and refused: a server with a
\* pid file stays the one the file leads to.
THEOREM ServersStayRegistered == Spec => []ServersAreRegistered
<1>1. TypeOK /\ FileInv => ServersAreRegistered
    BY DEF TypeOK, FileInv, Clean, ServerIsNamed, ServersAreRegistered, Serving
<1> QED BY <1>1, SpecFileInv, TypeCorrect, PTL

-----------------------------------------------------------------------------
(***************************************************************************)
(* The init script removes a file, and with it what the other servers rely *)
(* on, but it leaves none behind.                                          *)
(***************************************************************************)
\* Who is not done with the file, and will remove it unless it dies.
Keeps(p) == Holds(p) /\ proc[p].at \in Alone \cup Serving

FileIsKept == file # Nil /\ harm # "death" => \E p \in Pid : Keeps(p)

LEMMA ExitKeepsFileKept ==
    ASSUME TypeOK, FileIsKept, NEW p \in Pid, Exit(p)
    PROVE  FileIsKept'
<1>1. CASE Holds(p)
    BY <1>1 DEF Exit, FileIsKept
<1>2. CASE ~Holds(p)
    <2>1. UNCHANGED <<file, harm>> /\ \A q \in Pid : Keeps(q) => Keeps(q)'
        BY <1>2 DEF Exit, Leave, Keeps, Holds, TypeOK
    <2> QED BY <2>1 DEF FileIsKept
<1> QED BY <1>1, <1>2

LEMMA DieKeepsFileKept ==
    ASSUME TypeOK, FileIsKept, NEW p \in Pid, Die(p)
    PROVE  FileIsKept'
<1>1. CASE Holds(p)
    BY <1>1 DEF Die, Harmed, FileIsKept
<1>2. CASE ~Holds(p)
    <2>1. UNCHANGED <<file, harm>> /\ \A q \in Pid : Keeps(q) => Keeps(q)'
        BY <1>2 DEF Die, Harmed, Keeps, Holds, TypeOK
    <2> QED BY <2>1 DEF FileIsKept
<1> QED BY <1>1, <1>2

LEMMA NextFileIsKept == TypeOK /\ FileIsKept /\ [Next]_vars => FileIsKept'
<1> SUFFICES ASSUME TypeOK, FileIsKept, [Next]_vars PROVE FileIsKept'
    OBVIOUS
<1>1. CASE UNCHANGED vars
    BY <1>1 DEF vars, FileIsKept, Keeps, Holds
<1>2. ASSUME NEW p \in Pid, NEW command \in Command, Start(p, command) PROVE FileIsKept'
    <2>1. UNCHANGED <<file, harm>> /\ \A q \in Pid : Keeps(q) => Keeps(q)'
        BY <1>2 DEF Start, Keeps, Holds, TypeOK, Alone, Serving
    <2> QED BY <2>1 DEF FileIsKept
<1>3. ASSUME NEW p \in Pid, OpenPidFile(p) PROVE FileIsKept'
    <2>1. CASE Opened(p)
        <3>1. Keeps(p)'
            BY <2>1 DEF Opened, Keeps, Holds, Alone, TypeOK, Process
        <3> QED BY <3>1 DEF FileIsKept
    <2> QED BY <1>3, <2>1, ExitKeepsFileKept DEF OpenPidFile
<1>4. ASSUME NEW p \in Pid, ReadPidFile(p) PROVE FileIsKept'
    <2>1. CASE ~Exit(p)
        <3>1. UNCHANGED <<file, harm>> /\ \A q \in Pid : Keeps(q) => Keeps(q)'
            BY <1>4, <2>1 DEF ReadPidFile, Keeps, Holds, TypeOK, Process, Alone, Serving
        <3> QED BY <3>1 DEF FileIsKept
    <2> QED BY <2>1, ExitKeepsFileKept
<1>5. ASSUME NEW p \in Pid, Kill(p) PROVE FileIsKept'
    <2>1. CASE harm' = "death"
        BY <2>1 DEF FileIsKept
    <2>2. CASE harm' # "death"
        <3>1. UNCHANGED <<file, harm>> /\ \A q \in proc[p].target : proc[q].at \in Deaf => ~Holds(q)
            BY <1>5, <2>2 DEF Kill, Harmed
        <3>2. \A q \in Pid : Keeps(q) => Keeps(q)'
            BY <1>5, <3>1 DEF Kill, Keeps, Holds, TypeOK, Alone, Serving
        <3> QED BY <3>1, <3>2 DEF FileIsKept
    <2> QED BY <2>1, <2>2
<1>6. ASSUME NEW p \in Pid, EndOptions(p) PROVE FileIsKept'
    <2>1. CASE ~Exit(p)
        <3>1. UNCHANGED <<file, harm>> /\ \A q \in Pid : Keeps(q) => Keeps(q)'
            BY <1>6, <2>1 DEF EndOptions, Keeps, Holds, TypeOK, Process, Alone
        <3> QED BY <3>1 DEF FileIsKept
    <2> QED BY <2>1, ExitKeepsFileKept
<1>7. ASSUME NEW p \in Pid, Initialise(p) PROVE FileIsKept'
    <2>1. CASE ~Exit(p) /\ ~Die(p)
        <3>1. UNCHANGED <<file, harm>> /\ \A q \in Pid : Keeps(q) => Keeps(q)'
            BY <1>7, <2>1 DEF Initialise, Keeps, Holds, TypeOK, Process, Alone
        <3> QED BY <3>1 DEF FileIsKept
    <2> QED BY <2>1, ExitKeepsFileKept, DieKeepsFileKept
<1>8. ASSUME NEW p \in Pid, Run(p) PROVE FileIsKept'
    <2>1. harm' = harm /\ (file' # Nil => file # Nil)
        BY <1>8 DEF Run, Write
    <2>2. \A q \in Pid : Keeps(q) => Keeps(q)'
        BY <1>8 DEF Run, Goto, Keeps, Holds, TypeOK, Process, Serving
    <2> QED BY <2>1, <2>2 DEF FileIsKept
<1>9. ASSUME NEW p \in Pid, Fork(p) PROVE FileIsKept'
    <2>1. proc[p].at = "masked" /\ UNCHANGED file
        BY <1>9 DEF Fork
    <2>2. CASE Goto(p, "parent") /\ harm' = Harmed({p})
        <3>1. CASE Holds(p)
            BY <2>2, <3>1 DEF Harmed, FileIsKept
        <3>2. CASE ~Holds(p)
            <4>1. harm' = harm /\ \A q \in Pid : Keeps(q) => Keeps(q)'
                BY <2>2, <3>2 DEF Harmed, Goto, Keeps, Holds, TypeOK
            <4> QED BY <2>1, <4>1 DEF FileIsKept
        <3> QED BY <3>1, <3>2
    <2>3. CASE ~(Goto(p, "parent") /\ harm' = Harmed({p}))
        <3>1. PICK child \in Pid :
                /\ proc[child].at = "free"
                /\ proc' = [proc EXCEPT ![p].at = "parent", ![p].target = {child},
                                        ![child] = [proc[p] EXCEPT !.at = "serving"]]
                /\ UNCHANGED harm
            BY <1>9, <2>3 DEF Fork
        <3>2. child # p
            BY <2>1, <3>1
        <3>3. /\ proc'[child].at = "serving" /\ proc'[child].has = proc[p].has
              /\ \A q \in Pid \ {p, child} : proc'[q] = proc[q]
            BY <3>1, <3>2, ForkedProcesses
        <3>4. Keeps(p) => Keeps(child)'
            BY <3>3 DEF Keeps, Holds, Serving
        <3>5. \A q \in Pid \ {p} : Keeps(q) => Keeps(q)'
            BY <3>1, <3>3 DEF Keeps, Holds, Alone, Serving
        <3> QED BY <2>1, <3>1, <3>4, <3>5 DEF FileIsKept
    <2> QED BY <2>2, <2>3
<1>10. ASSUME NEW p \in Pid, Parent(p) PROVE FileIsKept'
    <2>1. harm' = harm /\ (file' # Nil => file # Nil)
        BY <1>10 DEF Parent, Write
    <2>2. \A q \in Pid : Keeps(q) => Keeps(q)'
        BY <1>10 DEF Parent, Keeps, Holds, TypeOK, Alone, Serving
    <2> QED BY <2>1, <2>2 DEF FileIsKept
<1>11. ASSUME NEW p \in Pid, Hang(p) \/ Return(p) PROVE FileIsKept'
    <2>1. UNCHANGED <<file, harm>> /\ \A q \in Pid : Keeps(q) => Keeps(q)'
        BY <1>11 DEF Hang, Return, Goto, Keeps, Holds, TypeOK, Process, Serving
    <2> QED BY <2>1 DEF FileIsKept
<1>12. ASSUME NEW p \in Pid, Other(p), ~Die(p) PROVE FileIsKept'
    <2>1. UNCHANGED <<file, harm>> /\ \A q \in Pid : Keeps(q) => Keeps(q)'
        BY <1>12 DEF Other, Goto, Keeps, Holds, TypeOK, Alone, Serving
    <2> QED BY <2>1 DEF FileIsKept
<1>13. ASSUME NEW p \in Pid, ScriptStop(p) PROVE FileIsKept'
    BY <1>13 DEF ScriptStop, FileIsKept
<1>14. ASSUME NEW p \in Pid, main(p) PROVE FileIsKept'
    BY <1>3, <1>4, <1>5, <1>6, <1>7, <1>8, <1>9, <1>10, <1>14, ExitKeepsFileKept, DieKeepsFileKept
       DEF main, init_config, Refuse, handle_signal, Vanish
<1> QED BY <1>1, <1>2, <1>11, <1>12, <1>13, <1>14, DieKeepsFileKept DEF Next, Crash

\* No start that is refused, no regular end and no stop by the init script
\* leaves a pid file behind: a death does, or a fork() that fails.
THEOREM FilesHaveHolders == Spec => []OnlyDeathLeavesFile
<1>1. Init => FileIsKept
    BY DEF Init, FileIsKept
<1>2. FileIsKept => OnlyDeathLeavesFile
    BY DEF FileIsKept, Keeps, OnlyDeathLeavesFile
<1> QED BY <1>1, <1>2, NextFileIsKept, TypeCorrect, PTL DEF Spec
=============================================================================
