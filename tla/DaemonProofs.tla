---------------------------- MODULE DaemonProofs ----------------------------
(* Proofs about Daemon, for any set of process numbers: any number of      *)
(* servers, children and commands in one life of the pid-file.             *)
EXTENDS Daemon, TLAPS

USE ProcsAssumption

-----------------------------------------------------------------------------
(* The inductive invariant.                                                *)

\* At the beginning no process runs and there is no pid-file.
LEMMA InitIInv == Init => IInv
BY DEF Init, IInv, TypeOK, MypidSet, PortHeld, FileHasOwner, NoFileNoText, OneByOne,
       OneCommand, OwnerNamed, NoneReplaced, RightTarget, Owner, Alive, Starting,
       Serving, Commands

\* A new command starts, of some user; nobody else changes.
LEMMA LaunchIInv ==
  ASSUME IInv, NEW p \in Procs, Launch(p)
  PROVE  IInv'
<1>1. PICK m \in {"console", "daemon", "stop", "reload"} :
        /\ mode' = [mode EXCEPT ![p] = m]
        /\ pc' = [pc EXCEPT ![p] = IF m \in {"stop", "reload"} THEN "s_read" ELSE "check"]
  BY DEF Launch, Goto
<1>2. PICK u \in Users :
        /\ uid' = [uid EXCEPT ![p] = u]
        /\ careless' = \/ careless
                       \/ ~Settled
                       \/ \E q \in Procs : Alive(q) /\ u \notin {Root, uid[q]}
  BY DEF Launch
<1>3. pc[p] = "new" /\ UNCHANGED <<pidfile, text, out, port, mypid, target, unclean>>
  BY DEF Launch, files
<1>4. /\ pc'[p] \in {"s_read", "check"} /\ ~mypid[p]
      /\ \A q \in Procs \ {p} : pc'[q] = pc[q] /\ uid'[q] = uid[q]
  BY <1>1, <1>2, <1>3 DEF IInv, TypeOK, MypidSet
<1>5. TypeOK'
  <2>1. careless' \in BOOLEAN
    BY <1>2
  <2> QED
    BY <1>1, <1>2, <1>3, <2>1 DEF IInv, TypeOK, Starting, Commands
<1>6. MypidSet' /\ PortHeld' /\ FileHasOwner' /\ NoFileNoText'
  BY <1>3, <1>4 DEF IInv, TypeOK, MypidSet, PortHeld, FileHasOwner, NoFileNoText, Owner, Alive
<1>7. OneByOne'
  <2> SUFFICES ASSUME ~careless' PROVE OneByOne'
    BY DEF OneByOne
  <2>1. /\ ~careless /\ Settled
        /\ \A q \in Procs : Alive(q) => u \in {Root, uid[q]}
    BY <1>2
  <2>2. \A q \in Procs \ {p} : pc[q] \in {"new", "loop", "dead"}
    BY <2>1 DEF Settled
  <2>3. OneCommand'
    BY <1>2, <1>3, <1>4, <2>1, <2>2 DEF IInv, TypeOK, OneCommand, Rules, Alive, Starting, Commands
  <2>4. OwnerNamed' /\ NoneReplaced' /\ RightTarget'
    BY <1>3, <1>4, <2>1, <2>2 DEF IInv, OneByOne, OwnerNamed, NoneReplaced, RightTarget,
       Owner, Alive
  <2> QED
    BY <2>3, <2>4 DEF OneByOne
<1> QED
  BY <1>5, <1>6, <1>7 DEF IInv

\* The way from the command line to the main loop
LEMMA StartingIInv ==
  ASSUME IInv, NEW p \in Procs,
         \/ Launch(p) \/ Check(p) \/ RemoveOld(p) \/ Fork(p) \/ Create(p)
         \/ ForkFail(p) \/ WritePid(p) \/ Serve(p) \/ Handlers(p)
  PROVE  IInv'
<1> USE DEF IInv, TypeOK, MypidSet, PortHeld, FileHasOwner, NoFileNoText, OneByOne,
            OneCommand, OwnerNamed, NoneReplaced, RightTarget, Owner, Alive, Starting,
            Serving, Commands, Goto, files
<1>1. CASE Launch(p)
  BY <1>1, LaunchIInv
<1>2. CASE Check(p)
  BY <1>2 DEF Check, AfterCheck, Rules
<1>3. CASE RemoveOld(p)
  BY <1>3 DEF RemoveOld, AfterCheck, Unlink, Rules
<1>4. CASE Fork(p)
  BY <1>4 DEF Fork, Rules
<1>5. CASE Create(p)
  BY <1>5 DEF Create, Rules
<1>6. CASE ForkFail(p)
  BY <1>6 DEF ForkFail, Rules
<1>7. CASE WritePid(p)
  <2>1. /\ pc[p] = "write" /\ pc' = [pc EXCEPT ![p] = "serve"]
        /\ mypid' = [mypid EXCEPT ![p] = TRUE]
        /\ out' = [out EXCEPT ![p] = NoFile]
        /\ UNCHANGED <<pidfile, port, mode, uid, target, unclean, careless>>
    BY <1>7 DEF WritePid
  <2>2. /\ text' \in {text, p, Mixed}
        /\ text' # text => out[p] = pidfile
        /\ out[p] = pidfile /\ text = Empty => text' = p
    BY <1>7 DEF WritePid
  <2>3. TypeOK' /\ MypidSet' /\ PortHeld'
    BY <2>1, <2>2
  <2>4. FileHasOwner'
    BY <2>1
  <2>5. NoFileNoText'
    BY <2>1, <2>2
  <2>6. OneByOne'
    BY <2>1, <2>2 DEF Rules
  <2> QED
    BY <2>3, <2>4, <2>5, <2>6
<1>8. CASE Serve(p)
  BY <1>8 DEF Serve, Rules
<1>9. CASE Handlers(p)
  BY <1>9 DEF Handlers, Rules
<1> QED
  BY <1>1, <1>2, <1>3, <1>4, <1>5, <1>6, <1>7, <1>8, <1>9

\* A signal changes the receiver q, and the sender p if it is another process,
\* from s_kill to s_wait or to its end.
LEMMA SignalIInv ==
  ASSUME IInv, NEW p \in Procs, NEW q \in Procs, NEW stop \in BOOLEAN, NEW l,
         Alive(q), Signal(q, stop, p, l),
         p # q => pc[p] = "s_kill" /\ l \in {"s_wait", "dead"},
         careless' \in BOOLEAN, careless => careless',
         UNCHANGED <<pidfile, text, out, mode, uid, mypid, target>>
  PROVE  IInv'
<1> USE DEF IInv, TypeOK, MypidSet, PortHeld, FileHasOwner, NoFileNoText, OneByOne,
            OneCommand, OwnerNamed, NoneReplaced, RightTarget, Owner, Alive, Rules,
            Starting, Serving, Commands
<1>1. PICK r \in AfterSignal(q, stop) :
        /\ pc' = [pc EXCEPT ![p] = l, ![q] = r]
        /\ port' = IF r = "dead" /\ port = q THEN Nobody ELSE port
        /\ unclean' = (unclean \/ r = "dead")
  BY DEF Signal
<1>2. \/ r = "dead"
      \/ r = pc[q] /\ pc[q] \notin Starting \cup Commands
      \/ pc[q] = "loop" /\ r = "cleanup"
  BY DEF AfterSignal
<1>3. unclean' \in BOOLEAN /\ (r = "dead" => unclean')
  BY <1>1
<1>4. CASE r = "dead"
  BY <1>1, <1>3, <1>4
<1>5. CASE r = pc[q] /\ r # "dead" /\ pc[q] \notin Starting \cup Commands
  BY <1>1, <1>5
<1>6. CASE pc[q] = "loop" /\ r = "cleanup"
  BY <1>1, <1>6
<1> QED
  BY <1>2, <1>4, <1>5, <1>6

\* The end of a server, by itself or by others
LEMMA EndingIInv ==
  ASSUME IInv, NEW p \in Procs,
         ExternalSignal(p) \/ Die(p) \/ Cleanup(p) \/ Remove(p)
  PROVE  IInv'
<1>1. CASE ExternalSignal(p)
  <2>1. Alive(p) /\ UNCHANGED <<pidfile, text, out, mode, uid, mypid, target>>
    BY <1>1 DEF ExternalSignal, files
  <2>2. PICK stop \in BOOLEAN : Signal(p, stop, p, pc[p])
    BY <1>1 DEF ExternalSignal
  <2>3. careless' \in BOOLEAN /\ (careless => careless')
    BY <1>1 DEF ExternalSignal, IInv, TypeOK
  <2> QED
    BY <2>1, <2>2, <2>3, SignalIInv
<1> USE DEF IInv, TypeOK, MypidSet, PortHeld, FileHasOwner, NoFileNoText, OneByOne,
            OneCommand, OwnerNamed, NoneReplaced, RightTarget, Owner, Alive, Rules,
            Starting, Serving, Commands, Goto, files
<1>2. CASE Die(p)
  BY <1>2 DEF Die
<1>3. CASE Cleanup(p)
  BY <1>3 DEF Cleanup
<1>4. CASE Remove(p)
  BY <1>4 DEF Remove, Unlink
<1> QED
  BY <1>1, <1>2, <1>3, <1>4

\* --stop and --reload
LEMMA CommandIInv ==
  ASSUME IInv, NEW p \in Procs,
         StopRead(p) \/ StopKill(p) \/ StopWait(p) \/ OutsideEnds(p) \/ StopRemove(p)
  PROVE  IInv'
<1>1. CASE StopKill(p) /\ target[p] \in Procs /\ KillSent(p)
  <2> DEFINE stop == mode[p] = "stop"
             l    == IF mode[p] = "stop" THEN "s_wait" ELSE "dead"
  <2>1. /\ pc[p] = "s_kill" /\ Alive(p) /\ stop \in BOOLEAN
        /\ UNCHANGED <<pidfile, text, out, mode, uid, mypid, target, careless>>
        /\ careless' \in BOOLEAN /\ (careless => careless')
    BY <1>1 DEF StopKill, Alive, IInv, TypeOK, files
  <2>2. Alive(target[p]) /\ Signal(target[p], stop, p, l)
    BY <1>1 DEF KillSent
  <2>3. l \in {"s_wait", "dead"}
    OBVIOUS
  <2> HIDE DEF stop, l
  <2> QED
    BY <1>1, <2>1, <2>2, <2>3, SignalIInv
<1> USE DEF IInv, TypeOK, MypidSet, PortHeld, FileHasOwner, NoFileNoText, OneByOne,
            OneCommand, OwnerNamed, NoneReplaced, RightTarget, Owner, Alive, Rules,
            Starting, Serving, Commands, Goto, files
<1>2. CASE StopKill(p) /\ ~(target[p] \in Procs /\ KillSent(p))
  <2>1. \E l \in {"dead", "s_wait", "s_remove"} :
          /\ pc' = [pc EXCEPT ![p] = l]
          /\ l = "s_remove" /\ target[p] \in Procs => ~Alive(target[p])
    BY <1>2 DEF StopKill, KillRefused, KillNoProcess, KillOutside
  <2>2. pc[p] = "s_kill" /\ UNCHANGED <<pidfile, text, out, port, mode, uid, mypid, target, unclean, careless>>
    BY <1>2 DEF StopKill, KillRefused, KillNoProcess, KillOutside
  <2> QED
    BY <2>1, <2>2
<1>3. CASE StopRead(p)
  BY <1>3 DEF StopRead
<1>4. CASE StopWait(p) \/ OutsideEnds(p)
  BY <1>4 DEF StopWait, OutsideEnds
<1>5. CASE StopRemove(p)
  BY <1>5 DEF StopRemove, Unlink
<1> QED
  BY <1>1, <1>2, <1>3, <1>4, <1>5

LEMMA NextIInv == IInv /\ [Next]_vars => IInv'
<1> SUFFICES ASSUME IInv, [Next]_vars PROVE IInv'
  OBVIOUS
<1>1. CASE UNCHANGED vars
  BY <1>1 DEF vars, IInv, TypeOK, MypidSet, PortHeld, FileHasOwner, NoFileNoText, OneByOne,
     OneCommand, OwnerNamed, NoneReplaced, RightTarget, Owner, Alive, Rules, Starting,
     Serving, Commands
<1>2. CASE Terminated
  BY <1>1, <1>2 DEF Terminated
<1>3. ASSUME NEW p \in Procs,
             Launch(p) \/ Step(p) \/ OutsideEnds(p) \/ ExternalSignal(p) \/ Die(p)
      PROVE  IInv'
  BY <1>3, StartingIInv, EndingIInv, CommandIInv DEF Step
<1> QED
  BY <1>1, <1>2, <1>3 DEF Next

-----------------------------------------------------------------------------
(* Theorems                                                                *)

\* The pid-file, what is in it, the port, mypid and the processes of the
\* machine fit together however servers, commands, signals and crashes of
\* whatever users follow each other.
THEOREM IInvHolds == Spec => []IInv
<1> QED
  BY InitIInv, NextIInv, PTL DEF Spec

\* A process that runs --stop or --reload never becomes a server.
THEOREM TypeCorrect == Spec => []TypeOK
<1>1. IInv => TypeOK
  BY DEF IInv
<1> QED
  BY <1>1, IInvHolds, PTL

\* main: the pid-file of a running server is neither removed nor replaced by
\* the end, the crash or the failed start of another one, as long as commands
\* are given one after another by users who may signal what runs.
THEOREM ServerIsFound == Spec => []ServerFound
<1>1. IInv => ServerFound
  BY DEF IInv, MypidSet, OneByOne, OwnerNamed, Owner, Alive, ServerFound
<1> QED
  BY <1>1, IInvHolds, PTL

\* The end of main: the last process to leave has removed the pid-file.
THEOREM ExitIsClean == Spec => []CleanExit
<1>1. IInv => CleanExit
  BY DEF IInv, TypeOK, FileHasOwner, Owner, Alive, CleanExit
<1> QED
  BY <1>1, IInvHolds, PTL

\* HTTP_Server: at most one device_d is in its main loop.
THEOREM OneServer == Spec => [](\A p, q \in Procs : pc[p] = "loop" /\ pc[q] = "loop" => p = q)
<1>1. IInv => \A p, q \in Procs : pc[p] = "loop" /\ pc[q] = "loop" => p = q
  BY DEF IInv, PortHeld
<1> QED
  BY <1>1, IInvHolds, PTL

\* kill() in main: as long as commands are given one after another by users who
\* may signal what runs, and no process was killed before it could remove its
\* pid-file, --stop and --reload signal a server that has written the pid-file,
\* in its main loop or on its way out, and never one that is still starting,
\* when the signal would end it at once.
THEOREM CommandsReachServers ==
  Spec => [](~careless /\ ~unclean =>
               \A p \in Procs : pc[p] = "s_kill" =>
                 /\ target[p] \in Procs
                 /\ pc[target[p]] \in Serving \cup {"dead"}
                 /\ mypid[target[p]])
<1>1. IInv => (~careless /\ ~unclean =>
                \A p \in Procs : pc[p] = "s_kill" =>
                  /\ target[p] \in Procs
                  /\ pc[target[p]] \in Serving \cup {"dead"}
                  /\ mypid[target[p]])
  BY DEF IInv, OneByOne, RightTarget
<1> QED
  BY <1>1, IInvHolds, PTL
=============================================================================
