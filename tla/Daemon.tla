------------------------------- MODULE Daemon -------------------------------
(***************************************************************************)
(* The processes of the server: the monitor (main() in server/gld.c), gld  *)
(* itself (gld(), server/signals.c), and the children it forks to save its *)
(* state and to send reports.                                              *)
(*                                                                         *)
(* Signal handlers only set flags; check_signals() acts on them, once per  *)
(* turn of the loop.  There are four moments that matter: a signal arrives *)
(* between a test of its flag and the next; between check_signals() and    *)
(* recvfrom(); in recvfrom(), which it interrupts; or while gld starts,    *)
(* when the handlers are not set yet.                                      *)
(*                                                                         *)
(* The state that is saved is reduced to a version per file: 0 for what    *)
(* the first start found, then the number of the change, or Partial for    *)
(* what a reader of a half-written file makes of it.                       *)
(***************************************************************************)
EXTENDS Integers, Sequences, FiniteSets

CONSTANTS
  MaxChildren, \* bound: children at a time
  NumFiles,    \* the files of save_state(), in its order
  MaxAbends,   \* 20 in main()
  Window,      \* 5.0 seconds in main()
  MaxChanges,  \* bound: changes of the state
  MaxCrashes,  \* bound: abnormal ends of gld
  MaxBusy,     \* bound: abnormal ends of gld after which it forks, dumps and changes no more
  MaxTime      \* bound: the clock of the monitor

ASSUME DaemonAssumption ==
  /\ MaxChildren \in Nat /\ NumFiles \in Nat \ {0} /\ MaxAbends \in Nat /\ Window \in Nat \ {0}
  /\ MaxChanges \in Nat /\ MaxCrashes \in Nat /\ MaxBusy \in Nat /\ MaxTime \in Nat

Slot    == 1 .. MaxChildren
Gld     == 0
Process == Slot \cup {Gld}
File    == 1 .. NumFiles
Partial == -1
Version == -1 .. MaxChanges

VARIABLES
  pc,          \* where gld is: see Where
  pending,     \* mf_sigchld, mf_sigalrm, mf_sigterm (and mf_sigint, mf_sigquit), mf_sigusr1
  armed,       \* the timer of alarm()
  mem, file,   \* the version of each file's state in memory and on the disk
  changes,     \* the changes so far
  process,     \* the children, and gld as far as it is saving its state
  rivals,      \* a child was saving when gld began to save at the end
  abend_last, abend_count,
  deaths       \* when the monitor saw gld end abnormally

files    == <<mem, file, changes>>
watch    == <<abend_last, abend_count, deaths>>
vars     == <<pc, pending, armed, files, process, rivals, watch>>

Signals  == {"chld", "alrm", "stop", "usr1"}
InCheck  == {"chld", "reap", "alrm", "stop"}
Looping  == InCheck \cup {"recv", "blocked"}
Alive    == Looping \cup {"load", "save"}
Where    == Alive \cup {"aborted", "stopped", "killed", "exited", "resigned"}

Busy     == Len(deaths) <= MaxBusy
Children(state) == {s \in Slot : process[s].state = state}
Saving   == Children("saving")
Ours     == {s \in Slot : process[s].state # "none" /\ ~process[s].orphan}
Zombies  == Children("zombie")

Nobody   == [state |-> "none", snap |-> [f \in File |-> 0], at |-> 1,
             open |-> FALSE, mixed |-> FALSE, orphan |-> FALSE]
Born(state) == [Nobody EXCEPT !.state = state, !.snap = IF state = "saving" THEN mem ELSE @]

Init ==
  /\ pc = "load" /\ pending = {} /\ armed = FALSE
  /\ file = [f \in File |-> 0] /\ mem = file /\ changes = 0
  /\ process = [p \in Process |-> Nobody] /\ rivals = FALSE
  /\ abend_last = 0 /\ abend_count = 0 /\ deaths = <<>>
-----------------------------------------------------------------------------
(***************************************************************************)
(* save_state(), run by gld itself or by a child on its copy of the state: *)
(* fopen() truncates each file, and stdio writes it in pieces until        *)
(* fclose().  A process that has a file open together with others writes   *)
(* over what they write; unless all write the same, any mixture may come   *)
(* of it, and as long as one of them has the file open it may be cut off.  *)
(***************************************************************************)
Opened(p, f) == process[p].open /\ process[p].at = f
Others(p, f) == {q \in Process \ {p} : Opened(q, f)}

OpenFile(p) ==
  LET f    == process[p].at
      mine == process[p].snap[f]
  IN
  /\ process[p].state = "saving" /\ ~process[p].open /\ f \in File
  /\ file' = [file EXCEPT ![f] = Partial]
  /\ process' = [q \in Process |->
       IF q = p
       THEN [process[p] EXCEPT !.open = TRUE,
                               !.mixed = \E r \in Others(p, f) : process[r].snap[f] # mine]
       ELSE [process[q] EXCEPT !.mixed = @ \/ (Opened(q, f) /\ process[q].snap[f] # mine)]]
  /\ UNCHANGED <<pc, pending, armed, mem, changes, rivals, watch>>

CloseFile(p) ==
  LET f     == process[p].at
      mine  == process[p].snap[f]
      whole == Others(p, f) = {} /\ ~process[p].mixed
  IN
  /\ process[p].state = "saving" /\ process[p].open
  /\ \E v \in {mine} \cup (IF whole THEN {} ELSE {Partial}) : file' = [file EXCEPT ![f] = v]
  /\ process' = [process EXCEPT ![p].open = FALSE, ![p].mixed = FALSE, ![p].at = f + 1]
  /\ UNCHANGED <<pc, pending, armed, mem, changes, rivals, watch>>

Saved(p) == process[p].state = "saving" /\ process[p].at > NumFiles

(***************************************************************************)
(* A signal reaches gld.  In recvfrom() it makes the call fail with EINTR  *)
(* (set_signal() does not ask for SA_RESTART), elsewhere it only sets the  *)
(* flag.                                                                   *)
(***************************************************************************)
Raise(s) ==
  /\ pending' = pending \cup {s}
  /\ pc' = IF pc = "blocked" THEN "chld" ELSE pc

(* kill `cat gld.pid`; while gld starts, the signal still has its default effect *)
StopSignal ==
  /\ pc \in Alive /\ "stop" \notin pending
  /\ IF pc = "load" THEN pc' = "killed" /\ UNCHANGED pending ELSE Raise("stop")
  /\ UNCHANGED <<armed, files, process, rivals, watch>>

(* SIGUSR1 asks for a dump of all tuples; at the start it would be a crash *)
DumpSignal ==
  /\ pc \in Alive \ {"load"} /\ "usr1" \notin pending /\ Busy
  /\ Raise("usr1")
  /\ UNCHANGED <<armed, files, process, rivals, watch>>

AlarmFires ==
  /\ armed /\ pc \in Alive
  /\ armed' = FALSE /\ Raise("alrm")
  /\ UNCHANGED <<files, process, rivals, watch>>

(* a child ends: _exit() after save_state(), a dump, or a report, which Control.tla follows *)
ChildEnds(s) ==
  /\ Saved(s) \/ process[s].state = "reporting"
  /\ IF process[s].orphan
     THEN process' = [process EXCEPT ![s] = Nobody] /\ UNCHANGED <<pc, pending>>
     ELSE process' = [process EXCEPT ![s] = [Nobody EXCEPT !.state = "zombie"]] /\ Raise("chld")
  /\ UNCHANGED <<armed, files, rivals, watch>>
-----------------------------------------------------------------------------
(***************************************************************************)
(* The loop of gld().                                                      *)
(***************************************************************************)

(* GlobalsInit(): a file that is being written is read as far as it is there *)
Load ==
  /\ pc = "load" /\ pc' = "chld"
  /\ mem' = file /\ armed' = TRUE
  /\ UNCHANGED <<pending, file, changes, process, rivals, watch>>

(* a mistake: all flags are cleared with this one *)
CheckChildClearsAll ==
  /\ pc = "chld"
  /\ pc' = IF "chld" \in pending THEN "reap" ELSE "alrm"
  /\ pending' = IF "chld" \in pending THEN {} ELSE pending
  /\ UNCHANGED <<armed, files, process, rivals, watch>>

CheckChild ==
  /\ pc = "chld"
  /\ pc' = IF "chld" \in pending THEN "reap" ELSE "alrm"
  /\ pending' = pending \ {"chld"}
  /\ UNCHANGED <<armed, files, process, rivals, watch>>

(***************************************************************************)
(* The loop of handle_sigchld(): it ends when waitpid() says ECHILD, that  *)
(* is, when no child is left.  While one is alive and none has ended,      *)
(* waitpid() returns 0, and the loop spins.                                *)
(***************************************************************************)
(* a mistake: one child per signal *)
ReapOneOnly(s) ==
  /\ pc = "reap" /\ s \in Zombies
  /\ process' = [process EXCEPT ![s] = Nobody]
  /\ pc' = "alrm"
  /\ UNCHANGED <<pending, armed, files, rivals, watch>>

ReapOne(s) ==
  /\ pc = "reap" /\ s \in Zombies
  /\ process' = [process EXCEPT ![s] = Nobody]
  /\ UNCHANGED <<pc, pending, armed, files, rivals, watch>>

(* a mistake: ECHILD is tried again like EINTR *)
ReapEndsWithChild ==
  /\ pc = "reap" /\ Ours # {} /\ Zombies = {}
  /\ pc' = "alrm"
  /\ UNCHANGED <<pending, armed, files, process, rivals, watch>>

ReapEnds ==
  /\ pc = "reap" /\ Ours = {}
  /\ pc' = "alrm"
  /\ UNCHANGED <<pending, armed, files, process, rivals, watch>>

(***************************************************************************)
(* handle_sigalrm(): expiry is in TupleSpace.tla; here, every now and then *)
(* a child is forked that saves the state, unless fork() fails.  Only this *)
(* handler sets the timer again.                                           *)
(***************************************************************************)
Fork(what) ==
  /\ Busy
  /\ \E s \in Children("none") :
       /\ \A t \in Children("none") : s <= t
       /\ process' = [process EXCEPT ![s] = Born(what)]

(* a mistake: a clean-up without a save returns before it sets the timer *)
CheckAlarmReturnsEarly ==
  /\ pc = "alrm" /\ pc' = "stop"
  /\ pending' = pending \ {"alrm"}
  /\ IF "alrm" \in pending
     THEN (armed' = TRUE /\ Fork("saving")) \/ UNCHANGED <<armed, process>>
     ELSE UNCHANGED <<armed, process>>
  /\ UNCHANGED <<files, rivals, watch>>

CheckAlarm ==
  /\ pc = "alrm" /\ pc' = "stop"
  /\ pending' = pending \ {"alrm"}
  /\ IF "alrm" \in pending
     THEN armed' = TRUE /\ (Fork("saving") \/ UNCHANGED process)
     ELSE UNCHANGED <<armed, process>>
  /\ UNCHANGED <<files, rivals, watch>>

CheckStop ==
  /\ pc = "stop" /\ "stop" \in pending
  /\ pc' = "save"
  /\ process' = [process EXCEPT ![Gld] = Born("saving")]
  /\ rivals' = (Saving # {})
  /\ UNCHANGED <<pending, armed, files, watch>>

(***************************************************************************)
(* handle_sigusr1(): a child writes a file that nobody reads back, unless  *)
(* fork() fails.  The test of this flag follows that of the others.        *)
(***************************************************************************)
CheckDump ==
  /\ pc = "stop" /\ "stop" \notin pending
  /\ pc' = "recv" /\ pending' = pending \ {"usr1"}
  /\ ("usr1" \in pending /\ Fork("reporting")) \/ UNCHANGED process
  /\ UNCHANGED <<armed, files, rivals, watch>>

(***************************************************************************)
(* What gld leaves behind: a child that saves goes on, nobody's now, and   *)
(* a file that gld had open is half-written.  A report goes on as well but *)
(* has nothing to do with the server any more.                             *)
(***************************************************************************)
Dies(where) ==
  /\ pc' = where /\ pending' = {} /\ armed' = FALSE
  /\ process' = [p \in Process |->
       IF p = Gld \/ process[p].state # "saving" THEN Nobody
       ELSE [process[p] EXCEPT !.orphan = TRUE,
                               !.mixed = @ \/ (process[Gld].open /\ Opened(p, process[Gld].at))]]

(* a mistake: the signal is raised first *)
StopAtOnce ==
  /\ pc = "save" /\ ~process[Gld].open
  /\ Dies("stopped")
  /\ UNCHANGED <<files, rivals, watch>>

(* raise() with the default disposition: the monitor sees the signal and returns *)
Stop ==
  /\ pc = "save" /\ Saved(Gld)
  /\ Dies("stopped")
  /\ UNCHANGED <<files, rivals, watch>>

Block ==
  /\ pc = "recv" /\ pc' = "blocked"
  /\ UNCHANGED <<pending, armed, files, process, rivals, watch>>

(***************************************************************************)
(* A packet: a mail, a command that changes the state, or a report.        *)
(* SIGUSR2 and SIGHUP wake gld as a mail does, to clean up or to log.      *)
(***************************************************************************)
Mail ==
  /\ pc = "blocked" /\ pc' = "chld"
  /\ UNCHANGED <<pending, armed, files, process, rivals, watch>>

Change(f) ==
  /\ pc = "blocked" /\ pc' = "chld"
  /\ changes < MaxChanges /\ Busy
  /\ changes' = changes + 1
  /\ mem' = [mem EXCEPT ![f] = changes']
  /\ UNCHANGED <<pending, armed, file, process, rivals, watch>>

Report ==
  /\ pc = "blocked" /\ pc' = "chld"
  /\ Fork("reporting")
  /\ UNCHANGED <<pending, armed, files, rivals, watch>>

(* fork() or create_socket() fails at the start: main() returns *)
StartFails ==
  /\ pc = "load" /\ pc' = "exited"
  /\ UNCHANGED <<pending, armed, files, process, rivals, watch>>

(* a failed assertion, a bad access, kill -9 *)
Crash ==
  /\ pc \in Alive /\ Len(deaths) < MaxCrashes
  /\ Dies("aborted")
  /\ UNCHANGED <<files, rivals, watch>>
-----------------------------------------------------------------------------
(***************************************************************************)
(* main(): waitpid() reports a signal that is not SIGTERM, SIGQUIT, SIGINT.*)
(* Only now does the time matter.                                          *)
(***************************************************************************)
Now == IF deaths = <<>> THEN 0 ELSE deaths[Len(deaths)]

(* a mistake: every end starts the window again *)
MonitorAbendRenews ==
  \E abend_now \in Now .. MaxTime :
    LET soon  == abend_now - abend_last < Window
        count == IF soon THEN abend_count + 1 ELSE 0
    IN /\ pc = "aborted"
       /\ abend_count' = count
       /\ abend_last' = abend_now
       /\ deaths' = Append(deaths, abend_now)
       /\ pc' = IF count > MaxAbends THEN "resigned" ELSE "load"
       /\ UNCHANGED <<pending, armed, files, process, rivals>>

(* a mistake: ends in the same second are not taken for a burst *)
MonitorAbendForgives ==
  \E abend_now \in Now .. MaxTime :
    LET soon  == abend_now - abend_last < Window
        count == IF soon THEN abend_count + 1 ELSE 0
    IN /\ pc = "aborted"
       /\ abend_count' = count
       /\ abend_last' = IF soon THEN abend_last ELSE abend_now
       /\ deaths' = Append(deaths, abend_now)
       /\ pc' = IF count > MaxAbends /\ soon /\ abend_now > abend_last THEN "resigned" ELSE "load"
       /\ UNCHANGED <<pending, armed, files, process, rivals>>

MonitorAbend ==
  \E abend_now \in Now .. MaxTime :
    LET soon  == abend_now - abend_last < Window
        count == IF soon THEN abend_count + 1 ELSE 0
    IN /\ pc = "aborted"
       /\ abend_count' = count
       /\ abend_last' = IF soon THEN abend_last ELSE abend_now
       /\ deaths' = Append(deaths, abend_now)
       /\ pc' = IF count > MaxAbends THEN "resigned" ELSE "load"
       /\ UNCHANGED <<pending, armed, files, process, rivals>>

GldSteps ==
  \/ Load \/ CheckChild \/ ReapEnds \/ CheckAlarm \/ CheckStop \/ CheckDump \/ Stop \/ Block
  \/ OpenFile(Gld) \/ CloseFile(Gld)
  \/ \E s \in Slot : ReapOne(s)

ChildSteps(s) == OpenFile(s) \/ CloseFile(s) \/ ChildEnds(s)

Next ==
  \/ GldSteps \/ MonitorAbend
  \/ \E s \in Slot : ChildSteps(s)
  \/ StopSignal \/ DumpSignal \/ AlarmFires \/ StartFails \/ Crash
  \/ Mail \/ Report \/ \E f \in File : Change(f)

(***************************************************************************)
(* Processes run, timers fire, and there is mail.  A stop signal or an     *)
(* alarm that comes between check_signals() and recvfrom() waits for the   *)
(* next packet or signal: without mail it may wait for ever.  A report     *)
(* ends because it times out without a reader, and because its reader      *)
(* reads on or quits: alarm(0) comes before the writing.                   *)
(***************************************************************************)
Fairness ==
  /\ WF_vars(GldSteps) /\ WF_vars(MonitorAbend)
  /\ \A s \in Slot : WF_vars(ChildSteps(s))
  /\ WF_vars(AlarmFires) /\ WF_vars(Mail)

Spec == Init /\ [][Next]_vars /\ Fairness
-----------------------------------------------------------------------------
(* the types of the state *)
TypeOK ==
  /\ pc \in Where /\ pending \subseteq Signals /\ armed \in BOOLEAN
  /\ mem \in [File -> Version] /\ file \in [File -> Version]
  /\ changes \in 0 .. MaxChanges
  /\ process \in [Process -> [state : {"none", "saving", "reporting", "zombie"},
                              snap : [File -> Version], at : 1 .. NumFiles + 1,
                              open : BOOLEAN, mixed : BOOLEAN, orphan : BOOLEAN]]
  /\ rivals \in BOOLEAN
  /\ abend_last \in 0 .. Now /\ Now <= MaxTime /\ abend_count \in 0 .. MaxAbends + 1

(***************************************************************************)
(* No child that has ended is forgotten: several may end for one SIGCHLD,  *)
(* and one may end at any moment of handle_sigchld().                      *)
(***************************************************************************)
ZombiesNoticed == Zombies # {} => "chld" \in pending \/ pc = "reap"

(***************************************************************************)
(* The timer that drives expiry and saving is never lost: in the loop it   *)
(* is running, or its signal waits for its handler, which starts it again. *)
(***************************************************************************)
HousekeepingDue == pc \in Looping => armed \/ "alrm" \in pending

(***************************************************************************)
(* INSTALL:80 ("It will dump its current state and then stop.") for a stop *)
(* that finds no child saving: every file is whole, and the newest state.  *)
(***************************************************************************)
QuietStopSaves == pc = "stopped" /\ ~rivals => file = mem

(***************************************************************************)
(* main() gives up only if the last MaxAbends + 1 ends came within Window, *)
(* and never lets more than 2 * MaxAbends + 1 pass in one Window.          *)
(***************************************************************************)
GivesUpOnBurst ==
  LET n == Len(deaths) IN
  /\ pc = "resigned" => /\ n > MaxAbends
                       /\ deaths[n] - (IF n > MaxAbends + 1 THEN deaths[n - MaxAbends] ELSE 0) < Window
  /\ pc # "resigned" => \A i \in 1 .. n - (2 * MaxAbends + 1) :
                         deaths[i + 2 * MaxAbends + 1] - deaths[i] >= Window

(***************************************************************************)
(* Once gld has noted the request to stop, it stops (or dies), and one for *)
(* a dump is served, even if they come while children are waited for, or   *)
(* just before recvfrom().                                                 *)
(***************************************************************************)
OrdersObeyed ==
  /\ "stop" \in pending ~> pc \notin Alive
  /\ "usr1" \in pending ~> "usr1" \notin pending

(* The alarm is served again and again, so tuples expire and state is saved. *)
HousekeepingGoesOn == []<>(armed \/ pc \notin Looping)
=============================================================================
