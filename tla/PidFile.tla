------------------------------- MODULE PidFile -------------------------------
(***************************************************************************)
(* The pid file that keeps a second instance from starting.  Instances     *)
(* start, end and crash; the file outlives them.                           *)
(***************************************************************************)
EXTENDS Naturals

CONSTANTS Instances     \* process ids

ASSUME PidAssumption == Instances \cap {"none", "empty"} = {}

VARIABLES
  pidfile,        \* "none", "empty" or a process id
  stage,          \* instance -> where its pid_file_t is
  seen,           \* instance -> the file as it was read
  \* History
  rivals,         \* two instances were starting at the same time
  mangled         \* one died between opening and writing the file

pidVars == <<pidfile, stage, seen, rivals, mangled>>

Starting == {"reading", "judging", "writing", "opened"}
Alive(i) == stage[i] \in Starting \cup {"running"}

PidInit ==
  /\ pidfile = "none" /\ rivals = FALSE /\ mangled = FALSE
  /\ stage = [i \in Instances |-> "off"]
  /\ seen = [i \in Instances |-> "none"]

Goto(i, where) == stage' = [stage EXCEPT ![i] = where]

\* exists()
Begin(i) ==
  /\ stage[i] = "off"
  /\ Goto(i, IF pidfile = "none" THEN "writing" ELSE "reading")
  /\ rivals' = (rivals \/ \E j \in Instances : stage[j] \in Starting)
  /\ UNCHANGED <<pidfile, seen, mangled>>

\* The file is opened and read; one that is gone meanwhile is an error.
ReadPid(i) ==
  /\ stage[i] = "reading"
  /\ Goto(i, IF pidfile = "none" THEN "refused" ELSE "judging")
  /\ seen' = [seen EXCEPT ![i] = pidfile]
  /\ UNCHANGED <<pidfile, rivals, mangled>>

\* kill(pid, 0): an empty file reads as 0, the caller's own process group.
Answers(pid) == IF pid = "empty" THEN TRUE ELSE Alive(pid)

\* Mutant: any answer of kill() is taken for the absence of the process.
JudgeGone(i) ==
  /\ stage[i] = "judging"
  /\ pidfile' = "none" /\ Goto(i, "writing")
  /\ UNCHANGED <<seen, rivals, mangled>>

Judge(i) ==
  /\ stage[i] = "judging"
  /\ \/ /\ ~Answers(seen[i])
        /\ pidfile' = "none" /\ Goto(i, "writing")
     \/ /\ Answers(seen[i])
        /\ Goto(i, "refused") /\ UNCHANGED pidfile
  /\ UNCHANGED <<seen, rivals, mangled>>

OpenPid(i) ==
  /\ stage[i] = "writing"
  /\ pidfile' = "empty" /\ Goto(i, "opened")
  /\ UNCHANGED <<seen, rivals, mangled>>

WritePid(i) ==
  /\ stage[i] = "opened"
  /\ pidfile' = i /\ Goto(i, "running")
  /\ UNCHANGED <<seen, rivals, mangled>>

\* The destructor removes the file, whoever wrote it.
Finish(i) ==
  /\ stage[i] = "running"
  /\ pidfile' = "none" /\ Goto(i, "over")
  /\ UNCHANGED <<seen, rivals, mangled>>

Die(i) ==
  /\ Alive(i)
  /\ Goto(i, "over")
  /\ mangled' = (mangled \/ stage[i] = "opened")
  /\ UNCHANGED <<pidfile, seen, rivals>>

PidNext ==
  \E i \in Instances :
    Begin(i) \/ ReadPid(i) \/ Judge(i) \/ OpenPid(i) \/ WritePid(i) \/ Finish(i) \/ Die(i)

PidSpec == PidInit /\ [][PidNext]_pidVars

-----------------------------------------------------------------------------
\* Instances that do not start at the same time exclude each other: at most
\* one runs, and the file has its process id, whatever crashed before.
OneInstance ==
  ~rivals =>
    /\ \A i, j \in Instances : stage[i] = "running" /\ stage[j] = "running" => i = j
    /\ \A i \in Instances : stage[i] = "running" => pidfile = i

\* A file left by a crash does not keep anybody from starting: an instance
\* is refused for what it reads only while another one is there, unless two started at the
\* same time or one died having opened the file and not written it.
CrashDoesNotBlock ==
  [][\A i \in Instances : stage[i] = "judging" /\ stage'[i] = "refused" /\ ~rivals /\ ~mangled =>
       \E j \in Instances \ {i} : Alive(j)]_pidVars
=============================================================================
