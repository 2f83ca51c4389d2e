------------------------------- MODULE Daemon -------------------------------
(***************************************************************************)
(* The life of device_d processes around one pid-file and one port         *)
(* (server/device_d.cpp, main): starting in console or daemon mode,        *)
(* --stop and --reload, signals, and leaving, by different users.  Every   *)
(* invocation and every forked child is a process of its own; process      *)
(* numbers are not used again.  A pid-file can be read by everybody, and   *)
(* written by the user that created it and by root.                        *)
(***************************************************************************)
EXTENDS Naturals, FiniteSets

CONSTANTS
  Procs,     \* process numbers of device_d
  Outside,   \* any other number, of a process or of none
  Users,
  Root,      \* the user who may signal every process
  NoFile,    \* there is no pid-file
  Empty,     \* nothing is in the pid-file
  Mixed,     \* what two processes wrote over each other
  Nobody     \* no process listens on the port

ASSUME ProcsAssumption ==
  /\ {NoFile, Empty, Mixed, Nobody, Outside} \cap Procs = {}
  /\ NoFile # Outside /\ Empty # Mixed
  /\ Root \in Users

VARIABLES
  pidfile,   \* the file under the name of the pid-file: who created it
  text,      \* what is in it (Empty if there is none)
  out,       \* the file behind the stream that each process writes
  port,      \* who listens on the port
  pc,        \* where each process is in main
  mode,      \* console, daemon, stop or reload
  uid,       \* the user each process runs as
  mypid,     \* variable mypid of main: this process wrote a pid-file
  target,    \* for --stop and --reload: the number read from the pid-file
  unclean,   \* history: some process was ended without returning from main
  careless   \* history: a command or a signal came before earlier ones
             \* settled, or from a user who may not signal what runs

vars == <<pidfile, text, out, port, pc, mode, uid, mypid, target, unclean, careless>>
files == <<pidfile, text, out>>

\* On the way from the start to the installation of the signal handlers
Starting == {"check", "remove_old", "fork", "create", "write", "serve", "handlers"}
\* With signal handlers
Serving  == {"loop", "cleanup", "remove"}
Commands == {"s_read", "s_kill", "s_wait", "s_remove"}

\* Types; a process that runs --stop or --reload never goes on to serve.
TypeOK ==
  /\ pidfile \in Procs \cup {NoFile}
  /\ text \in Procs \cup {Empty, Mixed}
  /\ out \in [Procs -> Procs \cup {NoFile}]
  /\ port \in Procs \cup {Nobody}
  /\ pc \in [Procs -> {"new", "dead"} \cup Starting \cup Serving \cup Commands]
  /\ mode \in [Procs -> {"none", "console", "daemon", "stop", "reload"}]
  /\ uid \in [Procs -> Users]
  /\ mypid \in [Procs -> BOOLEAN]
  /\ target \in [Procs -> Procs \cup {NoFile, Outside}]
  /\ unclean \in BOOLEAN
  /\ careless \in BOOLEAN
  /\ \A p \in Procs : mode[p] \in {"stop", "reload"} => pc[p] \in Commands \cup {"dead"}

Init ==
  /\ pidfile = NoFile /\ text = Empty
  /\ out = [p \in Procs |-> NoFile]
  /\ port = Nobody
  /\ pc = [p \in Procs |-> "new"]
  /\ mode = [p \in Procs |-> "none"]
  /\ uid = [p \in Procs |-> Root]
  /\ mypid = [p \in Procs |-> FALSE]
  /\ target = [p \in Procs |-> NoFile]
  /\ unclean = FALSE
  /\ careless = FALSE

Alive(p) == pc[p] \notin {"new", "dead"}
Goto(p, l) == pc' = [pc EXCEPT ![p] = l]

\* p may signal q, and may write a file that q created.
Rules(p, q) == uid[p] \in {Root, uid[q]}

\* remove(pidfile.c_str()) by p; somebody else's file may be kept by its
\* directory.
Unlink(p) ==
  \/ pidfile' = NoFile /\ text' = Empty
  \/ pidfile # NoFile /\ ~Rules(p, pidfile) /\ UNCHANGED <<pidfile, text>>

-----------------------------------------------------------------------------
(* Starting.                                                               *)

Settled == \A q \in Procs : pc[q] \in {"new", "loop", "dead"}

\* Somebody runs device_d, with --user perhaps.
Launch(p) ==
  /\ pc[p] = "new"
  /\ \E u \in Users :
       /\ uid' = [uid EXCEPT ![p] = u]
       /\ careless' = \/ careless
                      \/ ~Settled
                      \/ \E q \in Procs : Alive(q) /\ u \notin {Root, uid[q]}
  /\ \E m \in {"console", "daemon", "stop", "reload"} :
       /\ mode' = [mode EXCEPT ![p] = m]
       /\ Goto(p, IF m \in {"stop", "reload"} THEN "s_read" ELSE "check")
  /\ UNCHANGED <<files, port, mypid, target, unclean>>

AfterCheck(p) == IF mode[p] = "daemon" THEN "fork" ELSE "create"

\* Can p signal the process whose number is in the pid-file?  If so that is an
\* error (to the end of main); if not, whatever the reason, the file is old.
\* Without a number in the file any process may be asked, or none.
Check(p) ==
  /\ pc[p] = "check"
  /\ \/ pidfile = NoFile /\ Goto(p, AfterCheck(p))
     \/ /\ pidfile # NoFile /\ text \in Procs
        /\ Goto(p, IF Alive(text) /\ Rules(p, text) THEN "remove" ELSE "remove_old")
     \/ /\ pidfile # NoFile /\ text \in {Empty, Mixed}
        /\ \E l \in {"remove", "remove_old"} : Goto(p, l)
  /\ UNCHANGED <<files, port, mode, uid, mypid, target, unclean, careless>>

RemoveOld(p) ==
  /\ pc[p] = "remove_old"
  /\ Unlink(p)
  /\ Goto(p, AfterCheck(p))
  /\ UNCHANGED <<out, port, mode, uid, mypid, target, unclean, careless>>

\* The parent returns 0 at once, the child goes on.
Fork(p) ==
  /\ pc[p] = "fork"
  /\ \E q \in Procs :
       /\ pc[q] = "new"
       /\ pc' = [pc EXCEPT ![p] = "dead", ![q] = "create"]
       /\ mode' = [mode EXCEPT ![q] = "daemon"]
       /\ uid' = [uid EXCEPT ![q] = uid[p]]
  /\ UNCHANGED <<files, port, mypid, target, unclean, careless>>

ForkFail(p) ==
  /\ pc[p] = "fork"
  /\ Goto(p, "remove")
  /\ UNCHANGED <<files, port, mode, uid, mypid, target, unclean, careless>>

\* std::ofstream truncates or creates the file, or cannot.
Create(p) ==
  /\ pc[p] = "create"
  /\ \/ /\ pidfile # NoFile => Rules(p, pidfile)
        /\ pidfile' = IF pidfile = NoFile THEN p ELSE pidfile
        /\ text' = Empty
        /\ out' = [out EXCEPT ![p] = pidfile']
        /\ Goto(p, "write")
     \/ UNCHANGED files /\ Goto(p, "remove")
  /\ UNCHANGED <<port, mode, uid, mypid, target, unclean, careless>>

\* The number goes to the file that was opened, under whatever name it is now,
\* from its beginning: what another process has written there may remain
\* behind it.
WritePid(p) ==
  /\ pc[p] = "write"
  /\ \/ out[p] # pidfile /\ UNCHANGED text
     \/ out[p] = pidfile /\ text' = p
     \/ out[p] = pidfile /\ text # Empty /\ text' = Mixed
  /\ out' = [out EXCEPT ![p] = NoFile]
  /\ mypid' = [mypid EXCEPT ![p] = TRUE]
  /\ Goto(p, "serve")
  /\ UNCHANGED <<pidfile, port, mode, uid, target, unclean, careless>>

\* Mutant: a server that does not get the port leaves without cleaning up.
Serve_LeavesFile(p) ==
  /\ pc[p] = "serve"
  /\ \/ port = Nobody /\ port' = p /\ Goto(p, "handlers")
     \/ UNCHANGED port /\ Goto(p, "dead")
  /\ UNCHANGED <<files, mode, uid, mypid, target, unclean, careless>>

\* DevManager and HTTP_Server: an error if somebody else has the port, another
\* program perhaps, or the address is wrong
Serve(p) ==
  /\ pc[p] = "serve"
  /\ \/ port = Nobody /\ port' = p /\ Goto(p, "handlers")
     \/ UNCHANGED port /\ Goto(p, "remove")
  /\ UNCHANGED <<files, mode, uid, mypid, target, unclean, careless>>

Handlers(p) ==
  /\ pc[p] = "handlers"
  /\ Goto(p, "loop")
  /\ UNCHANGED <<files, port, mode, uid, mypid, target, unclean, careless>>

-----------------------------------------------------------------------------
(* Signals and leaving.                                                    *)

\* Mutant: the stop handler does nothing.
AfterSignal_Ignored(p, stop) ==
  IF pc[p] \in Starting \cup Commands THEN {"dead"} ELSE {pc[p]}

\* Where a signal takes a process.  Without handlers it ends the process.  In
\* the main loop SIGTERM leaves the loop, and so does SIGHUP if the device
\* list has an error.  Later the exception of the stop handler has no catch,
\* and the reload handler uses a device manager that is gone.
AfterSignal(p, stop) ==
  CASE pc[p] \in Starting \cup Commands        -> {"dead"}
    [] pc[p] = "loop" /\ stop                  -> {"cleanup"}
    [] pc[p] = "loop" /\ ~stop                 -> {"loop", "cleanup"}
    [] pc[p] \in {"cleanup", "remove"} /\ stop -> {"dead"}
    [] OTHER                                   -> {pc[p], "dead"}

\* q gets a signal; l is where the process that sends it goes
Signal(q, stop, p, l) ==
  \E r \in AfterSignal(q, stop) :
    /\ pc' = [pc EXCEPT ![p] = l, ![q] = r]
    /\ port' = IF r = "dead" /\ port = q THEN Nobody ELSE port
    /\ unclean' = (unclean \/ r = "dead")

\* A signal from elsewhere (kill, ^C, shutdown); careless
\* unless it goes to a running server.
ExternalSignal(q) ==
  /\ Alive(q)
  /\ careless' = (careless \/ pc[q] # "loop")
  /\ \E stop \in BOOLEAN : Signal(q, stop, q, pc[q])
  /\ UNCHANGED <<files, mode, uid, mypid, target>>

\* SIGKILL, or the machine is switched off: nothing is cleaned up.
Die(q) ==
  /\ Alive(q)
  /\ Goto(q, "dead")
  /\ port' = IF port = q THEN Nobody ELSE port
  /\ unclean' = TRUE
  /\ UNCHANGED <<files, mode, uid, mypid, target, careless>>

\* The destructors of HTTP_Server and DevManager
Cleanup(p) ==
  /\ pc[p] = "cleanup"
  /\ port' = IF port = p THEN Nobody ELSE port
  /\ Goto(p, "remove")
  /\ UNCHANGED <<files, mode, uid, mypid, target, unclean, careless>>

\* Mutant: the pid-file is removed whoever wrote it.
Remove_Always(p) ==
  /\ pc[p] = "remove"
  /\ Unlink(p)
  /\ Goto(p, "dead")
  /\ UNCHANGED <<out, port, mode, uid, mypid, target, unclean, careless>>

\* The end of main
Remove(p) ==
  /\ pc[p] = "remove"
  /\ IF mypid[p] THEN Unlink(p) ELSE UNCHANGED <<pidfile, text>>
  /\ Goto(p, "dead")
  /\ UNCHANGED <<out, port, mode, uid, mypid, target, unclean, careless>>

-----------------------------------------------------------------------------
(* --stop and --reload                                                     *)

\* Error "can't open pid-file", or the number in it; without a number there
\* the variable is not set, and two numbers over each other are a third.
StopRead(p) ==
  /\ pc[p] = "s_read"
  /\ \/ pidfile = NoFile /\ Goto(p, "dead") /\ UNCHANGED target
     \/ /\ pidfile # NoFile
        /\ \E q \in IF text \in Procs THEN {text} ELSE Procs \cup {Outside} :
             target' = [target EXCEPT ![p] = q]
        /\ Goto(p, "s_kill")
  /\ UNCHANGED <<files, port, mode, uid, mypid, unclean, careless>>

\* The signal is sent, and --stop waits
KillSent(p) ==
  /\ Alive(target[p]) /\ Rules(p, target[p])
  /\ Signal(target[p], mode[p] = "stop", p, IF mode[p] = "stop" THEN "s_wait" ELSE "dead")

\* Error "can't stop device_d process"
KillRefused(p) ==
  /\ Alive(target[p]) /\ ~Rules(p, target[p])
  /\ Goto(p, "dead") /\ UNCHANGED <<port, unclean>>

KillNoProcess(p) ==
  /\ ~Alive(target[p])
  /\ Goto(p, "s_remove") /\ UNCHANGED <<port, unclean>>

\* kill() of a number that is no device_d: it gets the signal, may not get it,
\* or is not there.
KillOutside(p) ==
  /\ \E l \in {"dead", "s_remove"} \cup (IF mode[p] = "stop" THEN {"s_wait"} ELSE {}) : Goto(p, l)
  /\ UNCHANGED <<port, unclean>>

StopKill(p) ==
  /\ pc[p] = "s_kill"
  /\ \/ target[p] \in Procs /\ (KillSent(p) \/ KillRefused(p) \/ KillNoProcess(p))
     \/ target[p] = Outside /\ KillOutside(p)
  /\ UNCHANGED <<files, mode, uid, mypid, target, careless>>

\* The process that --stop waits for is there no more.
StopWait(p) ==
  /\ pc[p] = "s_wait" /\ target[p] \in Procs
  /\ ~Alive(target[p])
  /\ Goto(p, "dead")
  /\ UNCHANGED <<files, port, mode, uid, mypid, target, unclean, careless>>

\* A process that is no device_d ends, if it does.
OutsideEnds(p) ==
  /\ pc[p] = "s_wait" /\ target[p] = Outside
  /\ Goto(p, "dead")
  /\ UNCHANGED <<files, port, mode, uid, mypid, target, unclean, careless>>

\* Mutant: main goes on after the pid-file is removed.
StopRemove_NoReturn(p) ==
  /\ pc[p] = "s_remove"
  /\ Unlink(p)
  /\ Goto(p, "check")
  /\ UNCHANGED <<out, port, mode, uid, mypid, target, unclean, careless>>

\* There was no such process: its pid-file is removed.
StopRemove(p) ==
  /\ pc[p] = "s_remove"
  /\ Unlink(p)
  /\ Goto(p, "dead")
  /\ UNCHANGED <<out, port, mode, uid, mypid, target, unclean, careless>>

-----------------------------------------------------------------------------
\* The steps that a process makes by itself
Step(p) ==
  \/ Check(p) \/ RemoveOld(p) \/ Fork(p) \/ Create(p) \/ ForkFail(p)
  \/ WritePid(p) \/ Serve(p) \/ Handlers(p)
  \/ Cleanup(p) \/ Remove(p)
  \/ StopRead(p) \/ StopKill(p) \/ StopWait(p) \/ StopRemove(p)

\* All numbers are used up, and what is waited for never ends.
Terminated ==
  /\ \A p \in Procs : pc[p] = "dead"
  /\ UNCHANGED vars

Next ==
  \/ \E p \in Procs :
       Launch(p) \/ Step(p) \/ OutsideEnds(p) \/ ExternalSignal(p) \/ Die(p)
  \/ Terminated

Spec == Init /\ [][Next]_vars

\* Running processes make their steps.
FairSpec == Spec /\ \A p \in Procs : WF_vars(Step(p))

-----------------------------------------------------------------------------
\* "Stop running daemon (found by pid-file)" (main, --stop): the pid-file of a
\* running server holds its number, after crashes and after other servers that
\* tried to start, as long as commands are given one after another by users
\* who may signal what runs.
ServerFound ==
  ~careless => \A p \in Procs : pc[p] = "loop" => pidfile # NoFile /\ text = p

\* The end of main: once every process has returned from it there is no
\* pid-file, in whatever order servers of whatever users started, opened and
\* removed each other's files, lost the port, and were stopped.
CleanExit ==
  (\A p \in Procs : ~Alive(p)) /\ ~unclean => pidfile = NoFile

\* main, --stop returns: a server that got SIGTERM ends, wherever it was.
StopReturns ==
  \A p \in Procs : pc[p] = "s_wait" /\ target[p] \in Procs ~> pc[p] = "dead"

-----------------------------------------------------------------------------
(* The inductive invariant behind ServerFound and CleanExit.               *)

\* p has written its number to a pid-file and will remove the pid-file.
Owner(p) == Alive(p) /\ mypid[p]

\* mypid is set on the way from the pid-file to the port, and not before.
MypidSet ==
  \A p \in Procs :
    /\ pc[p] \in {"serve", "handlers", "loop", "cleanup"} => mypid[p]
    /\ pc[p] \notin {"serve", "handlers", "loop", "cleanup", "remove", "dead"} => ~mypid[p]

\* The port belongs to the one process that serves.
PortHeld == \A p \in Procs : pc[p] \in {"handlers", "loop", "cleanup"} <=> port = p

\* Whoever created the pid-file is going to write its number or to remove the
\* file, unless some process was ended before it could.
FileHasOwner ==
  ~unclean /\ pidfile # NoFile => pc[pidfile] = "write" \/ Owner(pidfile)

\* Without a pid-file there is nothing in it, and whoever writes has a file.
NoFileNoText ==
  /\ pidfile = NoFile => text = Empty
  /\ \A p \in Procs : pc[p] = "write" => out[p] # NoFile

\* One process starts, stops or reloads, and may signal every other one.
OneCommand ==
  \A p, q \in Procs :
    pc[p] \in Starting \cup Commands =>
      /\ pc[q] \in Starting \cup Commands => p = q
      /\ Alive(q) => Rules(p, q)

\* The pid-file names its owner, and what is being written is the pid-file.
OwnerNamed ==
  \A p \in Procs :
    /\ Owner(p) => pidfile # NoFile /\ text = p
    /\ pc[p] = "write" => pidfile # NoFile /\ text = Empty /\ out[p] = pidfile

\* Nobody who is about to replace or remove a pid-file passes by an owner, and
\* a command signals nobody else.
NoneReplaced ==
  \A p, q \in Procs :
    Owner(q) => /\ pc[p] \notin {"remove_old", "fork", "create", "write", "s_remove"}
                /\ pc[p] = "s_kill" => target[p] = q

\* --stop and --reload have read the number of a server in its main loop, or
\* on its way out of it.
RightTarget ==
  \A p \in Procs :
    pc[p] = "s_kill" => /\ target[p] \in Procs
                        /\ pc[target[p]] \in Serving \cup {"dead"}
                        /\ mypid[target[p]]

\* As long as commands are given one after another by users who may
OneByOne ==
  ~careless => /\ OneCommand /\ OwnerNamed /\ NoneReplaced
               /\ ~unclean => RightTarget

IInv == TypeOK /\ MypidSet /\ PortHeld /\ FileHasOwner /\ NoFileNoText /\ OneByOne
=============================================================================
