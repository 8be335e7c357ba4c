---------------------------- MODULE DaemonProofs ----------------------------
(***************************************************************************)
(* The safety of the server's processes (Daemon.tla), for any number of    *)
(* children, files and crashes, and any limits of the monitor.             *)
(***************************************************************************)
EXTENDS Daemon, TLAPS

Child == [state : {"none", "saving", "reporting", "zombie"},
          snap : [File -> Version], at : 1 .. NumFiles + 1,
          open : BOOLEAN, mixed : BOOLEAN, orphan : BOOLEAN]

Typed ==
  /\ pc \in Where /\ pending \subseteq Signals /\ armed \in BOOLEAN
  /\ mem \in [File -> Version] /\ file \in [File -> Version]
  /\ changes \in 0 .. MaxChanges
  /\ process \in [Process -> Child]
  /\ rivals \in BOOLEAN

(* a process writes only while it saves, and one of the files; a zombie has a parent *)
Orderly ==
  \A p \in Process :
    /\ process[p].open => process[p].state = "saving" /\ process[p].at \in File
    /\ process[p].state = "zombie" => ~process[p].orphan

(***************************************************************************)
(* gld saves only at its end.  If no child was saving then, none is until  *)
(* it has stopped, so the files it has closed hold what the memory holds.  *)
(***************************************************************************)
SavesAlone ==
  /\ process[Gld].state # "none" => pc = "save" /\ process[Gld].state = "saving"
  /\ pc \in {"save", "stopped"} /\ ~rivals => Saving = {}
  /\ pc = "save" /\ ~rivals =>
       /\ process[Gld].snap = mem /\ ~process[Gld].mixed
       /\ \A f \in File : f < process[Gld].at => file[f] = mem[f]
  /\ pc = "stopped" /\ ~rivals => file = mem

(***************************************************************************)
(* The monitor's window.  Of the deaths d[1] .. d[n], the last c came in   *)
(* the window that began at L, which is when the one before them came (or  *)
(* the start), and a window before it is at least Window seconds back.     *)
(***************************************************************************)
Ordered(n, d)       == \A i, j \in 1 .. n : i <= j => d[i] <= d[j]
Opening(n, d, L, c) == (c < n => d[n - c] = L) /\ (c = n => L = 0)
Inside(n, d, L, c)  == \A i \in 1 .. n : n - c < i => L <= d[i] /\ d[i] < L + Window
FarBack(n, d, L, c) == \A j \in 1 .. n : j < n - c - MaxAbends => d[j] + Window <= L
Spaced(n, d)        == \A i, j \in 1 .. n : j = i + 2 * MaxAbends + 1 => d[i] + Window <= d[j]

Watched(n, d, L, c) == Ordered(n, d) /\ Opening(n, d, L, c) /\ Inside(n, d, L, c) /\ FarBack(n, d, L, c)

WindowKept ==
  /\ deaths \in Seq(0 .. MaxTime) /\ abend_last \in Nat /\ abend_count \in 0 .. Len(deaths)
  /\ Watched(Len(deaths), deaths, abend_last, abend_count)
  /\ pc = "resigned" => abend_count = MaxAbends + 1
  /\ pc # "resigned" => abend_count <= MaxAbends /\ Spaced(Len(deaths), deaths)

IInv == Typed /\ Orderly /\ ZombiesNoticed /\ HousekeepingDue /\ SavesAlone /\ WindowKept
-----------------------------------------------------------------------------
LEMMA NobodyIsChild == Nobody \in Child /\ Nobody.state = "none" /\ ~Nobody.open /\ ~Nobody.orphan
  BY DaemonAssumption DEF Nobody, Child, Version

LEMMA VersionType == Partial \in Version /\ 0 \in Version
  BY DaemonAssumption DEF Partial, Version

(* a new child, or gld itself as it begins to save *)
LEMMA BornIsChild ==
  ASSUME Typed, NEW what \in {"saving", "reporting"}
  PROVE  /\ Born(what) \in Child
         /\ Born(what).state = what /\ ~Born(what).open /\ ~Born(what).mixed
         /\ Born(what).at = 1 /\ ~Born(what).orphan
         /\ what = "saving" => Born(what).snap = mem
  <1>1. Nobody \in Child /\ NumFiles \in Nat \ {0} /\ 0 \in Version
    BY DaemonAssumption DEF Nobody, Child, Version
  <1>2. mem \in [File -> Version]
    BY DEF Typed
  <1> QED
    BY <1>1, <1>2 DEF Born, Nobody, Child

(* what fork() does to the children *)
LEMMA ForkAddsOne ==
  ASSUME Typed, NEW what \in {"saving", "reporting"}, Fork(what)
  PROVE  \E s \in Slot : /\ process[s].state = "none"
                         /\ process' = [process EXCEPT ![s] = Born(what)]
                         /\ process'[s] = Born(what) /\ s \in Process /\ s # Gld
  <1>1. PICK s \in Slot : process[s].state = "none" /\ process' = [process EXCEPT ![s] = Born(what)]
    BY DEF Fork, Children
  <1>2. s \in Process /\ s # Gld
    BY DaemonAssumption DEF Slot, Gld, Process
  <1>3. process'[s] = Born(what)
    BY <1>1, <1>2 DEF Typed
  <1> QED
    BY <1>1, <1>2, <1>3

LEMMA OpenFileTyped ==
  ASSUME Typed, Orderly, NEW p \in Process, OpenFile(p)
  PROVE  Typed' /\ Orderly'
  <1> USE DEF Typed, Child, OpenFile
  <1>1. file' \in [File -> Version]
    BY VersionType
  <1>2. process' \in [Process -> Child]
    <2> SUFFICES ASSUME NEW q \in Process PROVE process'[q] \in Child
      OBVIOUS
    <2>1. process[q] \in Child
      OBVIOUS
    <2>2. CASE q = p
      BY <2>1, <2>2
    <2>3. CASE q # p
      BY <2>1, <2>3
    <2> QED
      BY <2>2, <2>3
  <1>3. Orderly'
    <2> SUFFICES ASSUME NEW q \in Process
                 PROVE  /\ process'[q].open => process'[q].state = "saving" /\ process'[q].at \in File
                        /\ process'[q].state = "zombie" => ~process'[q].orphan
      BY DEF Orderly
    <2>1. process[q] \in Child
      OBVIOUS
    <2>2. CASE q = p
      BY <2>1, <2>2
    <2>3. CASE q # p
      BY <2>1, <2>3 DEF Orderly
    <2> QED
      BY <2>2, <2>3
  <1> QED
    BY <1>1, <1>2, <1>3

LEMMA CloseFileTyped ==
  ASSUME Typed, Orderly, NEW p \in Process, CloseFile(p)
  PROVE  Typed' /\ Orderly'
  <1> USE DEF Typed, Child, CloseFile
  <1>1. process[p] \in Child /\ process[p].at \in File
    BY DEF Orderly
  <1>2. file' \in [File -> Version]
    BY <1>1, VersionType
  <1>a. process[p].at + 1 \in 1 .. NumFiles + 1
    BY <1>1, DaemonAssumption DEF File
  <1>3. process' \in [Process -> Child]
    BY <1>1, <1>a
  <1>4. Orderly'
    BY <1>1, <1>3 DEF Orderly
  <1> QED
    BY <1>2, <1>3, <1>4

LEMMA DiesTyped ==
  ASSUME Typed, Orderly, NEW where \in Where, Dies(where), UNCHANGED <<files, rivals>>
  PROVE  Typed' /\ Orderly'
  <1> USE DEF Typed, Child, Dies, files
  <1>1. Nobody \in Child
    BY NobodyIsChild
  <1>2. process' \in [Process -> Child]
    <2> SUFFICES ASSUME NEW q \in Process PROVE process'[q] \in Child
      OBVIOUS
    <2>1. process[q] \in Child /\ process[Gld] \in Child
      BY DEF Process, Gld
    <2> QED
      BY <1>1, <2>1
  <1>3. Orderly'
    <2> SUFFICES ASSUME NEW q \in Process
                 PROVE  /\ process'[q].open => process'[q].state = "saving" /\ process'[q].at \in File
                        /\ process'[q].state = "zombie" => ~process'[q].orphan
      BY DEF Orderly
    <2>1. process[q] \in Child
      OBVIOUS
    <2>2. CASE q = Gld \/ process[q].state # "saving"
      BY <2>2 DEF Nobody
    <2>3. CASE ~(q = Gld \/ process[q].state # "saving")
      BY <2>1, <2>3 DEF Orderly
    <2> QED
      BY <2>2, <2>3
  <1> QED
    BY <1>2, <1>3

(* a step that gives one process a new, tidy record, or none *)
LEMMA OneChanged ==
  ASSUME Typed, Orderly, NEW p \in Process, NEW r \in Child, ~r.open, ~r.orphan,
         process' = [process EXCEPT ![p] = r]
  PROVE  process' \in [Process -> Child] /\ Orderly'
  BY DEF Typed, Orderly

LEMMA ForkTyped ==
  ASSUME Typed, Orderly, NEW what \in {"saving", "reporting"}, Fork(what) \/ UNCHANGED process
  PROVE  process' \in [Process -> Child] /\ Orderly'
  <1>1. CASE UNCHANGED process
    BY <1>1 DEF Typed, Orderly
  <1>2. CASE Fork(what)
    <2>1. PICK s \in Slot : process' = [process EXCEPT ![s] = Born(what)] /\ s \in Process
      BY <1>2, ForkAddsOne
    <2> QED
      BY <2>1, BornIsChild, OneChanged
  <1> QED
    BY <1>1, <1>2

LEMMA TypedStep ==
  ASSUME Typed, Orderly, [Next]_vars
  PROVE  Typed' /\ Orderly'
  <1> USE DaemonAssumption
  <1> DEFINE Same == UNCHANGED <<files, process, rivals>>
  <1>w. pc \in Where /\ pending \subseteq Signals /\ armed \in BOOLEAN
    BY DEF Typed
  <1>s. ASSUME Same, pc' \in Where, pending' \subseteq Signals, armed' \in BOOLEAN
        PROVE  Typed' /\ Orderly'
    BY <1>s DEF Typed, Orderly, files
  <1>n. Nobody \in Child /\ ~Nobody.open /\ ~Nobody.orphan
    BY NobodyIsChild
  <1> USE DEF Where, Alive, Looping, InCheck, Signals
  <1>1. CASE UNCHANGED vars
    BY <1>1, <1>s, <1>w DEF vars, files, watch
  <1>2. CASE Load
    BY <1>2 DEF Load, Typed, Orderly
  <1>3. CASE CheckChild
    BY <1>3, <1>s, <1>w DEF CheckChild
  <1>4. CASE \E s \in Slot : ReapOne(s)
    <2>1. PICK s \in Slot : ReapOne(s)
      BY <1>4
    <2>2. process' \in [Process -> Child] /\ Orderly'
      BY <2>1, <1>n, OneChanged DEF ReapOne, Process
    <2> QED
      BY <2>1, <2>2 DEF ReapOne, Typed, files
  <1>5. CASE ReapEnds
    BY <1>5, <1>s, <1>w DEF ReapEnds
  <1>6. CASE CheckAlarm
    <2>1. process' \in [Process -> Child] /\ Orderly'
      BY <1>6, ForkTyped DEF CheckAlarm
    <2> QED
      BY <1>6, <2>1 DEF CheckAlarm, Typed, files
  <1>7. CASE CheckStop
    <2>1. process' \in [Process -> Child] /\ Orderly'
      BY <1>7, OneChanged, BornIsChild DEF CheckStop, Process, Gld
    <2> QED
      BY <1>7, <2>1 DEF CheckStop, Typed, files
  <1>8. CASE CheckDump
    <2>1. process' \in [Process -> Child] /\ Orderly'
      BY <1>8, ForkTyped DEF CheckDump
    <2> QED
      BY <1>8, <2>1 DEF CheckDump, Typed, files
  <1>9. CASE Stop
    BY <1>9, DiesTyped DEF Stop
  <1>10. CASE Block
    BY <1>10, <1>s, <1>w DEF Block
  <1>11. CASE \E p \in Process : OpenFile(p)
    BY <1>11, OpenFileTyped
  <1>12. CASE \E p \in Process : CloseFile(p)
    BY <1>12, CloseFileTyped
  <1>13. CASE MonitorAbend
    BY <1>13, <1>s, <1>w DEF MonitorAbend
  <1>14. CASE \E s \in Slot : ChildEnds(s)
    <2>1. PICK s \in Slot : ChildEnds(s)
      BY <1>14
    <2>2. s \in Process
      BY DEF Process
    <2>3. [Nobody EXCEPT !.state = "zombie"] \in Child
          /\ ~[Nobody EXCEPT !.state = "zombie"].open /\ ~[Nobody EXCEPT !.state = "zombie"].orphan
      BY <1>n DEF Child, Nobody
    <2>4. process' \in [Process -> Child] /\ Orderly'
      BY <2>1, <2>2, <2>3, <1>n, OneChanged DEF ChildEnds
    <2> QED
      BY <2>1, <2>4 DEF ChildEnds, Raise, Typed, files
  <1>15. CASE StopSignal
    BY <1>15, <1>s, <1>w DEF StopSignal, Raise
  <1>16. CASE DumpSignal
    BY <1>16, <1>s, <1>w DEF DumpSignal, Raise
  <1>17. CASE AlarmFires
    BY <1>17, <1>s, <1>w DEF AlarmFires, Raise
  <1>18. CASE StartFails
    BY <1>18, <1>s, <1>w DEF StartFails
  <1>19. CASE Crash
    BY <1>19, DiesTyped DEF Crash
  <1>20. CASE Mail
    BY <1>20, <1>s, <1>w DEF Mail
  <1>21. CASE Report
    <2>1. process' \in [Process -> Child] /\ Orderly'
      BY <1>21, ForkTyped DEF Report
    <2> QED
      BY <1>21, <2>1 DEF Report, Typed, files
  <1>22. CASE \E f \in File : Change(f)
    BY <1>22 DEF Change, Typed, Orderly, Version
  <1> QED
    BY <1>1, <1>2, <1>3, <1>4, <1>5, <1>6, <1>7, <1>8, <1>9, <1>10, <1>11, <1>12, <1>13, <1>14,
       <1>15, <1>16, <1>17, <1>18, <1>19, <1>20, <1>21, <1>22
    DEF Next, GldSteps, ChildSteps, Process
-----------------------------------------------------------------------------
LEMMA InitIsGood == Init => IInv
  <1> SUFFICES ASSUME Init PROVE IInv
    OBVIOUS
  <1> USE DaemonAssumption DEF Init
  <1>1. Typed
    <2>1. mem \in [File -> Version] /\ file \in [File -> Version]
      BY VersionType
    <2>2. process \in [Process -> Child]
      BY NobodyIsChild
    <2>3. changes \in 0 .. MaxChanges /\ pending \subseteq Signals
      OBVIOUS
    <2>4. armed \in BOOLEAN /\ rivals \in BOOLEAN
      OBVIOUS
    <2>5. pc \in Where
      BY DEF Where, Alive
    <2> QED
      BY <2>1, <2>2, <2>3, <2>4, <2>5 DEF Typed
  <1>2. \A p \in Process : process[p] = Nobody
    OBVIOUS
  <1>3. Orderly /\ ZombiesNoticed
    BY <1>2, NobodyIsChild DEF Orderly, ZombiesNoticed, Zombies, Children, Slot, Process
  <1>4. HousekeepingDue
    BY DEF HousekeepingDue, Looping, InCheck
  <1>5. SavesAlone
    BY <1>2, NobodyIsChild DEF SavesAlone, Gld, Process
  <1>6. WindowKept
    BY DEF WindowKept, Watched, Ordered, Opening, Inside, FarBack, Spaced
  <1> QED
    BY <1>1, <1>3, <1>4, <1>5, <1>6 DEF IInv

(***************************************************************************)
(* A child that has ended is noticed: its end raises SIGCHLD, and the loop *)
(* that takes the signal does not end before all such children are reaped. *)
(***************************************************************************)
LEMMA ZombieStep ==
  ASSUME Typed, Orderly, ZombiesNoticed, [Next]_vars
  PROVE  ZombiesNoticed'
  <1> USE DEF Slot, Process, Gld
  <1>k. (* no new zombie, and it was noticed already *)
        ASSUME \A s \in Slot : process'[s].state = "zombie" => process[s].state = "zombie",
               "chld" \in pending \/ pc = "reap" => "chld" \in pending' \/ pc' = "reap"
        PROVE  ZombiesNoticed'
    BY <1>k DEF ZombiesNoticed, Zombies, Children
  <1>f. ASSUME NEW what \in {"saving", "reporting"}, Fork(what) \/ UNCHANGED process, NEW s \in Slot
        PROVE  process'[s].state = "zombie" => process[s].state = "zombie"
    BY <1>f, ForkAddsOne, BornIsChild DEF Typed
  <1>1. CASE UNCHANGED vars
    BY <1>1, <1>k DEF vars, files, watch
  <1>2. CASE Load
    BY <1>2, <1>k DEF Load
  <1>3. CASE CheckChild
    BY <1>3, <1>k DEF CheckChild
  <1>4. CASE \E s \in Slot : ReapOne(s)
    BY <1>4, <1>k, NobodyIsChild DEF ReapOne, Typed
  <1>5. CASE ReapEnds
    <2>1. Zombies = {}
      BY <1>5 DEF ReapEnds, Ours, Zombies, Children, Orderly
    <2> QED
      BY <1>5, <2>1 DEF ReapEnds, ZombiesNoticed, Zombies, Children
  <1>6. CASE CheckAlarm
    BY <1>6, <1>k, <1>f DEF CheckAlarm
  <1>7. CASE CheckStop
    BY <1>7, <1>k, BornIsChild DEF CheckStop, Typed
  <1>8. CASE CheckDump
    BY <1>8, <1>k, <1>f DEF CheckDump
  <1>9. CASE \E where \in Where : Dies(where)
    <2>1. PICK where \in Where : Dies(where)
      BY <1>9
    <2>2. ASSUME NEW s \in Slot PROVE process'[s].state # "zombie"
      <3>1. s \in Process /\ process[s] \in Child
        BY DEF Typed
      <3>2. CASE s = Gld \/ process[s].state # "saving"
        BY <2>1, <3>1, <3>2, NobodyIsChild DEF Dies
      <3>3. CASE ~(s = Gld \/ process[s].state # "saving")
        BY <2>1, <3>1, <3>3 DEF Dies, Child
      <3> QED
        BY <3>2, <3>3
    <2> QED
      BY <2>2 DEF ZombiesNoticed, Zombies, Children
  <1>10. CASE Block
    BY <1>10, <1>k DEF Block
  <1>11. CASE \E p \in Process : OpenFile(p)
    <2>1. PICK p \in Process : OpenFile(p)
      BY <1>11
    <2>2. ASSUME NEW s \in Slot PROVE process'[s].state = process[s].state
      <3>1. s \in Process /\ process[s] \in Child
        BY DEF Typed
      <3>2. CASE s = p
        BY <2>1, <3>1, <3>2 DEF OpenFile, Child
      <3>3. CASE s # p
        BY <2>1, <3>1, <3>3 DEF OpenFile, Child
      <3> QED
        BY <3>2, <3>3
    <2> QED
      BY <2>1, <2>2, <1>k DEF OpenFile
  <1>12. CASE \E p \in Process : CloseFile(p)
    BY <1>12, <1>k DEF CloseFile, Typed
  <1>13. CASE MonitorAbend
    BY <1>13, <1>k DEF MonitorAbend
  <1>14. CASE \E s \in Slot : ChildEnds(s)
    <2>1. PICK s \in Slot : ChildEnds(s)
      BY <1>14
    <2>2. CASE process[s].orphan
      BY <2>1, <2>2, <1>k, NobodyIsChild DEF ChildEnds, Typed
    <2>3. CASE ~process[s].orphan
      BY <2>1, <2>3 DEF ChildEnds, Raise, ZombiesNoticed
    <2> QED
      BY <2>2, <2>3
  <1>15. CASE StopSignal \/ DumpSignal \/ AlarmFires
    BY <1>15, <1>k DEF StopSignal, DumpSignal, AlarmFires, Raise
  <1>16. CASE StartFails
    BY <1>16, <1>k DEF StartFails
  <1>17. CASE Mail
    BY <1>17, <1>k DEF Mail
  <1>18. CASE Report
    BY <1>18, <1>k, <1>f DEF Report
  <1>19. CASE \E f \in File : Change(f)
    BY <1>19, <1>k DEF Change
  <1> QED
    BY <1>1, <1>2, <1>3, <1>4, <1>5, <1>6, <1>7, <1>8, <1>9, <1>10, <1>11, <1>12, <1>13, <1>14,
       <1>15, <1>16, <1>17, <1>18, <1>19
    DEF Next, GldSteps, ChildSteps, Stop, Crash, Where

(* Only handle_sigalrm() takes SIGALRM away, and it sets the timer again. *)
LEMMA TimerStep ==
  ASSUME Typed, HousekeepingDue, [Next]_vars
  PROVE  HousekeepingDue'
  <1> USE DEF HousekeepingDue, Looping, InCheck
  <1>k. ASSUME pc \in Looping \/ pc' \notin Looping, armed' = armed, "alrm" \in pending => "alrm" \in pending'
        PROVE  HousekeepingDue'
    BY <1>k
  <1>1. CASE UNCHANGED vars
    BY <1>1 DEF vars
  <1>2. CASE Load
    BY <1>2 DEF Load
  <1>3. CASE CheckChild \/ ReapEnds \/ CheckStop \/ CheckDump \/ Block \/ (\E s \in Slot : ReapOne(s))
    BY <1>3, <1>k DEF CheckChild, ReapEnds, CheckStop, CheckDump, Block, ReapOne
  <1>4. CASE CheckAlarm
    BY <1>4 DEF CheckAlarm
  <1>5. CASE Stop \/ Crash \/ StartFails
    BY <1>5 DEF Stop, Crash, StartFails, Dies
  <1>6. CASE \E p \in Process : OpenFile(p) \/ CloseFile(p)
    BY <1>6, <1>k DEF OpenFile, CloseFile
  <1>7. CASE MonitorAbend
    BY <1>7, <1>k DEF MonitorAbend
  <1>8. CASE \E s \in Slot : ChildEnds(s)
    BY <1>8, <1>k DEF ChildEnds, Raise
  <1>9. CASE StopSignal \/ DumpSignal
    BY <1>9, <1>k DEF StopSignal, DumpSignal, Raise
  <1>10. CASE AlarmFires
    BY <1>10 DEF AlarmFires, Raise
  <1>11. CASE Mail \/ Report \/ (\E f \in File : Change(f))
    BY <1>11, <1>k DEF Mail, Report, Change
  <1> QED
    BY <1>1, <1>2, <1>3, <1>4, <1>5, <1>6, <1>7, <1>8, <1>9, <1>10, <1>11
    DEF Next, GldSteps, ChildSteps, Process

(***************************************************************************)
(* A stop that finds no child saving leaves every file as the memory was.  *)
(***************************************************************************)
LEMMA NobodyElseOpen ==
  ASSUME Typed, Orderly, Saving = {}, NEW f
  PROVE  Others(Gld, f) = {}
  BY DEF Orderly, Saving, Children, Others, Opened, Process

LEMMA GldOpensFile ==
  ASSUME Typed, Orderly, SavesAlone, OpenFile(Gld)
  PROVE  SavesAlone'
  <1> DEFINE f == process[Gld].at
  <1>1. Gld \in Process /\ Gld \notin Slot /\ process[Gld] \in Child
    BY DEF Typed, Process, Slot, Gld
  <1>2. pc = "save" /\ f \in File /\ f \in Nat
    <2>1. process[Gld].state = "saving" /\ f \in File
      BY DEF OpenFile
    <2>2. f \in Nat
      BY <2>1, DaemonAssumption DEF File
    <2> QED
      BY <2>1, <2>2 DEF SavesAlone
  <1>3. /\ process'[Gld].state = process[Gld].state /\ process'[Gld].at = f
        /\ process'[Gld].snap = process[Gld].snap
    BY <1>1 DEF OpenFile, Child
  <1>4. \A s \in Slot : process'[s].state = process[s].state
    <2> SUFFICES ASSUME NEW s \in Slot PROVE process'[s].state = process[s].state
      OBVIOUS
    <2>1. s \in Process /\ s # Gld /\ process[s] \in Child
      BY <1>1 DEF Process, Typed
    <2> QED
      BY <2>1 DEF OpenFile, Child
  <1>5. Saving' = Saving
    BY <1>4 DEF Saving, Children
  <1>6. ASSUME ~rivals PROVE /\ ~process'[Gld].mixed
                             /\ \A g \in File : g < f => file'[g] = mem[g]
    <2>1. Others(Gld, f) = {}
      BY <1>2, <1>6, NobodyElseOpen DEF SavesAlone
    <2>2. ~process'[Gld].mixed
      BY <1>1, <2>1 DEF OpenFile, Child
    <2>3. \A g \in File : g < f => file'[g] = file[g]
      <3> SUFFICES ASSUME NEW g \in File, g < f PROVE file'[g] = file[g]
        OBVIOUS
      <3>1. g # f
        BY <1>2 DEF File
      <3>2. file' = [file EXCEPT ![f] = Partial]
        BY DEF OpenFile
      <3> QED
        BY <3>1, <3>2 DEF Typed
    <2> QED
      BY <1>2, <1>6, <2>2, <2>3 DEF SavesAlone
  <1>7. pc' = pc /\ rivals' = rivals /\ mem' = mem
    BY DEF OpenFile
  <1> QED
    BY <1>2, <1>3, <1>5, <1>6, <1>7 DEF SavesAlone

LEMMA GldClosesFile ==
  ASSUME Typed, Orderly, SavesAlone, CloseFile(Gld)
  PROVE  SavesAlone'
  <1> DEFINE f == process[Gld].at
  <1>1. Gld \in Process /\ Gld \notin Slot /\ process[Gld] \in Child
    BY DEF Typed, Process, Slot, Gld
  <1>2. pc = "save" /\ f \in File /\ f \in Nat
    BY <1>1 DEF CloseFile, SavesAlone, File, Orderly
  <1>3. /\ process'[Gld].state = process[Gld].state /\ process'[Gld].at = f + 1
        /\ process'[Gld].snap = process[Gld].snap /\ ~process'[Gld].mixed
    BY <1>1 DEF CloseFile, Child, Typed
  <1>4. Saving' = Saving
    <2>1. ASSUME NEW s \in Slot PROVE process'[s] = process[s]
      <3>1. s \in Process /\ s # Gld
        BY <1>1 DEF Process
      <3> QED
        BY <3>1 DEF CloseFile, Typed
    <2> QED
      BY <2>1 DEF Saving, Children
  <1>5. ASSUME ~rivals PROVE \A g \in File : g < f + 1 => file'[g] = mem[g]
    <2>1. Others(Gld, f) = {} /\ ~process[Gld].mixed /\ process[Gld].snap = mem
      BY <1>2, <1>5, NobodyElseOpen DEF SavesAlone
    <2>2. file' = [file EXCEPT ![f] = mem[f]]
      BY <2>1 DEF CloseFile
    <2> SUFFICES ASSUME NEW g \in File, g < f + 1 PROVE file'[g] = mem[g]
      OBVIOUS
    <2>3. CASE g = f
      BY <2>2, <2>3, <1>2 DEF Typed
    <2>4. CASE g # f
      <3>1. g < f
        BY <2>4, <1>2 DEF File
      <3> QED
        BY <3>1, <2>2, <2>4, <1>2, <1>5 DEF Typed, SavesAlone
    <2> QED
      BY <2>3, <2>4
  <1>6. pc' = pc /\ rivals' = rivals /\ mem' = mem
    BY DEF CloseFile
  <1> QED
    BY <1>2, <1>3, <1>4, <1>5, <1>6 DEF SavesAlone

(* a child that writes: whoever it disturbs, it has been counted as a rival *)
LEMMA ChildWrites ==
  ASSUME Typed, Orderly, SavesAlone, NEW s \in Slot, OpenFile(s) \/ CloseFile(s)
  PROVE  SavesAlone'
  <1>1. s \in Process /\ Gld \in Process /\ s # Gld
    BY DEF Process, Slot, Gld
  <1>2. s \in Saving
    BY DEF OpenFile, CloseFile, Saving, Children
  <1>3. pc \in {"save", "stopped"} => rivals
    BY <1>2 DEF SavesAlone
  <1>4. process'[Gld].state = process[Gld].state
    <2>1. process[Gld] \in Child
      BY <1>1 DEF Typed
    <2>2. CASE OpenFile(s)
      BY <2>1, <2>2, <1>1 DEF OpenFile, Child
    <2>3. CASE CloseFile(s)
      BY <2>3, <1>1 DEF CloseFile, Typed
    <2> QED
      BY <2>2, <2>3
  <1>5. pc' = pc /\ rivals' = rivals
    BY DEF OpenFile, CloseFile
  <1> QED
    BY <1>3, <1>4, <1>5 DEF SavesAlone

LEMMA GldStops ==
  ASSUME Typed, Orderly, SavesAlone, Stop
  PROVE  SavesAlone'
  <1>1. Gld \in Process /\ process[Gld] \in Child
    BY DEF Typed, Process
  <1>2. process'[Gld].state = "none"
    BY <1>1, NobodyIsChild DEF Stop, Dies
  <1>3. ASSUME NEW s \in Slot, process'[s].state = "saving" PROVE process[s].state = "saving"
    <2>1. s \in Process
      BY DEF Process
    <2> QED
      BY <1>3, <2>1, NobodyIsChild DEF Stop, Dies
  <1>4. ASSUME ~rivals PROVE Saving' = {} /\ file = mem
    <2>1. Saving = {} /\ \A f \in File : f < process[Gld].at => file[f] = mem[f]
      BY <1>4 DEF Stop, SavesAlone
    <2>2. \A f \in File : f < process[Gld].at
      BY <1>1, DaemonAssumption DEF Stop, Saved, File, Child
    <2>3. file = mem
      BY <2>1, <2>2 DEF Typed
    <2> QED
      BY <2>1, <2>3, <1>3 DEF Saving, Children
  <1>5. pc' = "stopped" /\ rivals' = rivals /\ mem' = mem /\ file' = file
    BY DEF Stop, Dies, files
  <1> QED
    BY <1>2, <1>4, <1>5 DEF SavesAlone

LEMMA SavesStep ==
  ASSUME Typed, Orderly, SavesAlone, [Next]_vars
  PROVE  SavesAlone'
  <1> USE DEF Process, Slot, Gld
  <1>k. (* gld does not save now, and has not just stopped *)
        ASSUME pc' \notin {"save", "stopped"}, process'[Gld].state = "none" PROVE SavesAlone'
    BY <1>k DEF SavesAlone
  <1>g. pc # "save" => process[Gld].state = "none"
    BY DEF SavesAlone
  <1>q. (* neither a file nor gld is touched, and no child begins to save *)
        ASSUME pc' = pc, rivals' = rivals, UNCHANGED files, process'[Gld] = process[Gld], Saving' \subseteq Saving
        PROVE  SavesAlone'
    BY <1>q DEF SavesAlone, files
  <1>f. ASSUME NEW what \in {"saving", "reporting"}, Fork(what) \/ UNCHANGED process
        PROVE  process'[Gld] = process[Gld]
    BY <1>f, ForkAddsOne DEF Typed
  <1>1. CASE UNCHANGED vars
    BY <1>1, <1>q DEF vars, Saving, Children, files
  <1>2. CASE Load \/ CheckChild \/ ReapEnds \/ Block \/ Mail \/ StartFails \/ (\E f \in File : Change(f))
    BY <1>2, <1>k, <1>g DEF Load, CheckChild, ReapEnds, Block, Mail, StartFails, Change
  <1>3. CASE MonitorAbend
    BY <1>3, <1>k, <1>g DEF MonitorAbend
  <1>4. CASE \E s \in Slot : ReapOne(s)
    BY <1>4, <1>k, <1>g DEF ReapOne, Typed
  <1>5. CASE CheckAlarm \/ CheckDump \/ Report
    BY <1>5, <1>k, <1>g, <1>f DEF CheckAlarm, CheckDump, Report
  <1>6. CASE CheckStop
    <2>1. Born("saving").state = "saving" /\ Born("saving").snap = mem
          /\ ~Born("saving").mixed /\ Born("saving").at = 1
      BY BornIsChild
    <2>2. process'[Gld] = Born("saving") /\ Saving' = Saving
      BY <1>6 DEF CheckStop, Typed, Saving, Children
    <2>3. \A f \in File : ~(f < 1)
      BY DEF File
    <2> QED
      BY <1>6, <2>1, <2>2, <2>3 DEF CheckStop, SavesAlone, files
  <1>7. CASE Stop
    BY <1>7, GldStops
  <1>8. CASE Crash
    <2>1. process'[Gld].state = "none"
      BY <1>8, NobodyIsChild DEF Crash, Dies
    <2> QED
      BY <1>8, <2>1, <1>k DEF Crash, Dies
  <1>9. CASE \E p \in Process : OpenFile(p) \/ CloseFile(p)
    BY <1>9, GldOpensFile, GldClosesFile, ChildWrites
  <1>10. CASE \E s \in Slot : ChildEnds(s)
    <2>1. PICK s \in Slot : ChildEnds(s)
      BY <1>10
    <2>2. process'[Gld] = process[Gld]
      BY <2>1 DEF ChildEnds, Typed
    <2>3. Saving' \subseteq Saving
      BY <2>1, NobodyIsChild DEF ChildEnds, Typed, Saving, Children, Nobody
    <2>4. pc' = pc \/ (pc = "blocked" /\ pc' = "chld")
      BY <2>1 DEF ChildEnds, Raise
    <2> QED
      BY <2>1, <2>2, <2>3, <2>4, <1>g, <1>k, <1>q DEF ChildEnds
  <1>11. CASE StopSignal \/ DumpSignal \/ AlarmFires
    <2>1. UNCHANGED <<files, process, rivals>>
      BY <1>11 DEF StopSignal, DumpSignal, AlarmFires
    <2>2. pc' = pc \/ (pc # "save" /\ pc' \in {"chld", "killed"})
      BY <1>11 DEF StopSignal, DumpSignal, AlarmFires, Raise
    <2> QED
      BY <2>1, <2>2, <1>g, <1>k, <1>q DEF Saving, Children
  <1> QED
    BY <1>1, <1>2, <1>3, <1>4, <1>5, <1>6, <1>7, <1>8, <1>9, <1>10, <1>11
    DEF Next, GldSteps, ChildSteps
-----------------------------------------------------------------------------
(***************************************************************************)
(* The monitor's arithmetic.  A death within the window is counted; one    *)
(* after it opens the next, and then every death but the last MaxAbends    *)
(* before it is at least Window seconds back.  The death at t is one more  *)
(* in e than in d.                                                         *)
(***************************************************************************)
Longer(n, d, e, t) == /\ \A i \in 1 .. n : d[i] \in Nat /\ d[i] <= t /\ e[i] = d[i]
                      /\ e[n + 1] = t

LEMMA OneMoreOrdered ==
  ASSUME NEW n \in Nat, NEW d, NEW e, NEW t \in Nat, Longer(n, d, e, t), Ordered(n, d)
  PROVE  Ordered(n + 1, e)
  <1> SUFFICES ASSUME NEW i \in 1 .. n + 1, NEW j \in 1 .. n + 1, i <= j PROVE e[i] <= e[j]
    BY DEF Ordered
  <1>1. CASE j = n + 1
    <2>1. i = n + 1 \/ i \in 1 .. n
      OBVIOUS
    <2> QED
      BY <1>1, <2>1 DEF Longer
  <1>2. CASE j # n + 1
    <2>1. i \in 1 .. n /\ j \in 1 .. n
      BY <1>2
    <2> QED
      BY <2>1 DEF Longer, Ordered
  <1> QED
    BY <1>1, <1>2

LEMMA OneMoreSoon ==
  ASSUME NEW n \in Nat, NEW d, NEW e, NEW t \in Nat, NEW L \in Nat, NEW c \in 0 .. n,
         Longer(n, d, e, t), Watched(n, d, L, c), L <= t, t < L + Window
  PROVE  /\ Watched(n + 1, e, L, c + 1)
         /\ c + 1 <= MaxAbends /\ Spaced(n, d) => Spaced(n + 1, e)
  <1> USE DaemonAssumption
  <1>1. Ordered(n + 1, e)
    BY OneMoreOrdered DEF Watched
  <1>2. Opening(n + 1, e, L, c + 1)
    <2>1. c < n => n - c \in 1 .. n /\ (n + 1) - (c + 1) = n - c
      OBVIOUS
    <2> QED
      BY <2>1 DEF Watched, Opening, Longer
  <1>3. Inside(n + 1, e, L, c + 1)
    <2> SUFFICES ASSUME NEW i \in 1 .. n + 1, (n + 1) - (c + 1) < i PROVE L <= e[i] /\ e[i] < L + Window
      BY DEF Inside
    <2>1. i = n + 1 \/ (i \in 1 .. n /\ n - c < i)
      OBVIOUS
    <2> QED
      BY <2>1 DEF Watched, Inside, Longer
  <1>4. FarBack(n + 1, e, L, c + 1)
    <2> SUFFICES ASSUME NEW j \in 1 .. n + 1, j < (n + 1) - (c + 1) - MaxAbends PROVE e[j] + Window <= L
      BY DEF FarBack
    <2>1. j \in 1 .. n /\ j < n - c - MaxAbends
      OBVIOUS
    <2> QED
      BY <2>1 DEF Watched, FarBack, Longer
  <1>5. ASSUME c + 1 <= MaxAbends, Spaced(n, d) PROVE Spaced(n + 1, e)
    <2> SUFFICES ASSUME NEW i \in 1 .. n + 1, NEW j \in 1 .. n + 1, j = i + 2 * MaxAbends + 1
                 PROVE  e[i] + Window <= e[j]
      BY DEF Spaced
    <2>1. i \in 1 .. n
      OBVIOUS
    <2>2. CASE j = n + 1
      <3>1. i < n - c - MaxAbends
        BY <1>5, <2>2
      <3>2. d[i] + Window <= L
        BY <2>1, <3>1 DEF Watched, FarBack
      <3> QED
        BY <2>1, <2>2, <3>2 DEF Longer
    <2>3. CASE j # n + 1
      <3>1. j \in 1 .. n
        BY <2>3
      <3> QED
        BY <1>5, <2>1, <3>1 DEF Spaced, Longer
    <2> QED
      BY <2>2, <2>3
  <1> QED
    BY <1>1, <1>2, <1>3, <1>4, <1>5 DEF Watched

LEMMA OneMoreLate ==
  ASSUME NEW n \in Nat, NEW d, NEW e, NEW t \in Nat, NEW L \in Nat, NEW c \in 0 .. n,
         Longer(n, d, e, t), Watched(n, d, L, c), L + Window <= t, c <= MaxAbends, Spaced(n, d)
  PROVE  Watched(n + 1, e, t, 0) /\ Spaced(n + 1, e)
  <1> USE DaemonAssumption
  <1>1. Ordered(n + 1, e)
    BY OneMoreOrdered DEF Watched
  <1>2. Opening(n + 1, e, t, 0) /\ Inside(n + 1, e, t, 0)
    BY DEF Opening, Inside, Longer
  <1>3. ASSUME NEW j \in 1 .. n, j <= n - MaxAbends PROVE d[j] + Window <= t
    <2>1. n - c \in 1 .. n /\ j <= n - c /\ c < n
      BY <1>3
    <2>2. d[j] <= d[n - c]
      BY <2>1 DEF Watched, Ordered
    <2>3. d[n - c] = L
      BY <2>1 DEF Watched, Opening
    <2>4. d[j] \in Nat
      BY DEF Longer
    <2> QED
      BY <2>2, <2>3, <2>4
  <1>4. FarBack(n + 1, e, t, 0)
    <2> SUFFICES ASSUME NEW j \in 1 .. n + 1, j < (n + 1) - 0 - MaxAbends PROVE e[j] + Window <= t
      BY DEF FarBack
    <2>1. j \in 1 .. n /\ j <= n - MaxAbends
      OBVIOUS
    <2> QED
      BY <1>3, <2>1 DEF Longer
  <1>5. Spaced(n + 1, e)
    <2> SUFFICES ASSUME NEW i \in 1 .. n + 1, NEW j \in 1 .. n + 1, j = i + 2 * MaxAbends + 1
                 PROVE  e[i] + Window <= e[j]
      BY DEF Spaced
    <2>1. i \in 1 .. n
      OBVIOUS
    <2>2. CASE j = n + 1
      <3>1. i <= n - MaxAbends
        BY <2>2
      <3> QED
        BY <1>3, <2>1, <2>2, <3>1 DEF Longer
    <2>3. CASE j # n + 1
      <3>1. j \in 1 .. n
        BY <2>3
      <3> QED
        BY <2>1, <3>1 DEF Spaced, Longer
    <2> QED
      BY <2>2, <2>3
  <1> QED
    BY <1>1, <1>2, <1>4, <1>5 DEF Watched

(* the last death is the latest, and the window began by then *)
LEMMA NowIsLatest ==
  ASSUME WindowKept
  PROVE  /\ Now \in 0 .. MaxTime /\ abend_last <= Now
         /\ \A i \in 1 .. Len(deaths) : deaths[i] \in 0 .. MaxTime /\ deaths[i] <= Now
  <1>1. deaths \in Seq(0 .. MaxTime) /\ Len(deaths) \in Nat
    BY DEF WindowKept
  <1>2. \A i \in 1 .. Len(deaths) : deaths[i] \in 0 .. MaxTime
    BY <1>1, DaemonAssumption
  <1>3. abend_last \in Nat /\ abend_count \in 0 .. Len(deaths)
    BY DEF WindowKept
  <1>4. CASE deaths = <<>>
    <2>1. Len(deaths) = 0
      BY <1>4
    <2>2. abend_last = 0
      BY <1>3, <2>1 DEF WindowKept, Watched, Opening
    <2>3. Now = 0
      BY <1>4 DEF Now
    <2> QED
      BY <2>1, <2>2, <2>3, DaemonAssumption
  <1>5. CASE deaths # <<>>
    <2>1. Len(deaths) \in 1 .. Len(deaths) /\ Now = deaths[Len(deaths)]
      BY <1>1, <1>5 DEF Now
    <2>2. \A i \in 1 .. Len(deaths) : deaths[i] <= Now
      BY <1>2, <2>1 DEF WindowKept, Watched, Ordered
    <2>3. CASE abend_count < Len(deaths)
      <3>1. Len(deaths) - abend_count \in 1 .. Len(deaths)
        BY <1>1, <1>3, <2>3
      <3>2. deaths[Len(deaths) - abend_count] = abend_last
        BY <2>3 DEF WindowKept, Watched, Opening
      <3> QED
        BY <1>2, <2>1, <2>2, <3>1, <3>2
    <2>4. CASE abend_count = Len(deaths)
      <3>1. abend_last = 0
        BY <2>4 DEF WindowKept, Watched, Opening
      <3> QED
        BY <1>2, <2>1, <2>2, <3>1
    <2> QED
      BY <1>1, <1>3, <2>3, <2>4
  <1> QED
    BY <1>4, <1>5

LEMMA AbendKeepsWindow ==
  ASSUME WindowKept, MonitorAbend
  PROVE  WindowKept'
  <1> USE DaemonAssumption
  <1> DEFINE n == Len(deaths)  L == abend_last  c == abend_count
  <1>1. PICK t \in Now .. MaxTime :
          /\ t - L < Window => abend_count' = c + 1 /\ abend_last' = L
          /\ ~(t - L < Window) => abend_count' = 0 /\ abend_last' = t
          /\ deaths' = Append(deaths, t)
          /\ abend_count' > MaxAbends => pc' = "resigned"
          /\ ~(abend_count' > MaxAbends) => pc' = "load"
    BY DEF MonitorAbend
  <1>2. c <= MaxAbends /\ Spaced(n, deaths)
    BY DEF MonitorAbend, WindowKept
  <1>3. deaths \in Seq(0 .. MaxTime) /\ n \in Nat /\ L \in Nat /\ c \in 0 .. n
    BY DEF WindowKept
  <1>4. Watched(n, deaths, L, c)
    BY DEF WindowKept
  <1>5. t \in 0 .. MaxTime /\ t \in Nat /\ L <= t
    <2>1. Now \in 0 .. MaxTime /\ L <= Now
      BY NowIsLatest
    <2> HIDE DEF L
    <2> QED
      BY <1>3, <2>1
  <1>6. deaths' \in Seq(0 .. MaxTime) /\ Len(deaths') = n + 1
    BY <1>1, <1>3, <1>5
  <1>7. Longer(n, deaths, deaths', t)
    <2>1. \A i \in 1 .. n : deaths[i] \in Nat /\ deaths[i] <= t
      <3> SUFFICES ASSUME NEW i \in 1 .. n PROVE deaths[i] \in Nat /\ deaths[i] <= t
        OBVIOUS
      <3>1. deaths[i] \in 0 .. MaxTime /\ deaths[i] <= Now /\ Now \in 0 .. MaxTime
        BY NowIsLatest
      <3> QED
        BY <3>1, <1>5
    <2>2. deaths'[n + 1] = t /\ \A i \in 1 .. n : deaths'[i] = deaths[i]
      BY <1>1, <1>3, <1>5
    <2> QED
      BY <2>1, <2>2 DEF Longer
  <1>8. CASE t - L < Window
    <2>1. abend_count' = c + 1 /\ abend_last' = L /\ t < L + Window
      BY <1>1, <1>3, <1>5, <1>8
    <2>2. /\ Watched(n + 1, deaths', L, c + 1)
          /\ c + 1 <= MaxAbends => Spaced(n + 1, deaths')
      BY <1>2, <1>3, <1>4, <1>5, <1>7, <2>1, OneMoreSoon
    <2>3. pc' = "resigned" => c + 1 = MaxAbends + 1
      BY <1>1, <1>2, <1>3, <2>1
    <2>4. pc' # "resigned" => c + 1 <= MaxAbends
      BY <1>1, <1>3, <2>1
    <2>5. c + 1 \in 0 .. n + 1
      BY <1>3
    <2> QED
      BY <1>3, <1>6, <2>1, <2>2, <2>3, <2>4, <2>5 DEF WindowKept
  <1>9. CASE ~(t - L < Window)
    <2>1. abend_count' = 0 /\ abend_last' = t /\ L + Window <= t
      BY <1>1, <1>3, <1>5, <1>9
    <2>2. pc' = "load"
      BY <1>1, <2>1
    <2>3. Watched(n + 1, deaths', t, 0) /\ Spaced(n + 1, deaths')
      BY <1>2, <1>3, <1>4, <1>5, <1>7, <2>1, OneMoreLate
    <2> QED
      BY <1>3, <1>5, <1>6, <2>1, <2>2, <2>3 DEF WindowKept
  <1> QED
    BY <1>8, <1>9

LEMMA WindowStep ==
  ASSUME WindowKept, [Next]_vars
  PROVE  WindowKept'
  <1>k. ASSUME UNCHANGED watch, pc' = "resigned" <=> pc = "resigned" PROVE WindowKept'
    BY <1>k DEF WindowKept, watch
  <1>1. CASE MonitorAbend
    BY <1>1, AbendKeepsWindow
  <1>2. CASE UNCHANGED vars
    BY <1>2, <1>k DEF vars
  <1>3. CASE GldSteps
    BY <1>3, <1>k DEF GldSteps, Load, CheckChild, ReapEnds, CheckAlarm, CheckStop, CheckDump, Stop, Dies,
                      Block, OpenFile, CloseFile, ReapOne
  <1>4. CASE \E s \in Slot : ChildSteps(s)
    BY <1>4, <1>k DEF ChildSteps, OpenFile, CloseFile, ChildEnds, Raise
  <1>5. CASE StopSignal \/ DumpSignal \/ AlarmFires
    BY <1>5, <1>k DEF StopSignal, DumpSignal, AlarmFires, Raise, Alive, Looping, InCheck
  <1>6. CASE StartFails \/ Crash \/ Mail \/ Report \/ (\E f \in File : Change(f))
    BY <1>6, <1>k DEF StartFails, Crash, Dies, Mail, Report, Change, Alive, Looping, InCheck
  <1> QED
    BY <1>1, <1>2, <1>3, <1>4, <1>5, <1>6 DEF Next
-----------------------------------------------------------------------------
(* The invariant holds of every run: each signal, child and alarm keeps all its parts. *)
THEOREM Invariance == Spec => []IInv
  <1>1. IInv /\ [Next]_vars => IInv'
    BY TypedStep, ZombieStep, TimerStep, SavesStep, WindowStep DEF IInv
  <1> QED
    BY <1>1, InitIsGood, PTL DEF Spec

(* The state of the processes keeps its types. *)
THEOREM TypeCorrect == Spec => []TypeOK
  <1>1. IInv => TypeOK
    <2> SUFFICES ASSUME IInv PROVE TypeOK
      OBVIOUS
    <2>1. Now \in 0 .. MaxTime /\ abend_last <= Now
      BY NowIsLatest DEF IInv
    <2>2. abend_last \in Nat /\ abend_count \in 0 .. Len(deaths) /\ Len(deaths) \in Nat
      BY DEF IInv, WindowKept
    <2>3. abend_count = MaxAbends + 1 \/ abend_count <= MaxAbends
      BY DEF IInv, WindowKept
    <2>4. abend_last \in 0 .. Now /\ Now <= MaxTime /\ abend_count \in 0 .. MaxAbends + 1
      BY <2>1, <2>2, <2>3, DaemonAssumption
    <2> QED
      BY <2>4 DEF IInv, Typed, Child, TypeOK
  <1> QED
    BY <1>1, Invariance, PTL

(* No child that has ended is forgotten, whatever ends while SIGCHLD is handled. *)
THEOREM ZombiesAlwaysNoticed == Spec => []ZombiesNoticed
  BY Invariance, PTL DEF IInv

(* The timer that drives expiry and saving is never lost. *)
THEOREM HousekeepingAlwaysDue == Spec => []HousekeepingDue
  BY Invariance, PTL DEF IInv

(* A stop that finds no child saving leaves the newest state in every file. *)
THEOREM QuietStopAlwaysSaves == Spec => []QuietStopSaves
  <1>1. IInv => QuietStopSaves
    BY DEF IInv, SavesAlone, QuietStopSaves
  <1> QED
    BY <1>1, Invariance, PTL

(* The monitor gives up on a burst only, and no longer one passes. *)
THEOREM GivesUpOnBurstOnly == Spec => []GivesUpOnBurst
  <1>1. IInv => GivesUpOnBurst
    <2> SUFFICES ASSUME IInv PROVE GivesUpOnBurst
      OBVIOUS
    <2> USE DaemonAssumption
    <2> DEFINE n == Len(deaths)
    <2>1. n \in Nat /\ abend_last \in Nat /\ abend_count \in 0 .. n
      BY DEF IInv, WindowKept
    <2>2. \A i \in 1 .. n : deaths[i] \in 0 .. MaxTime
      BY NowIsLatest DEF IInv
    <2>3. ASSUME pc = "resigned"
          PROVE  /\ n > MaxAbends
                 /\ deaths[n] - (IF n > MaxAbends + 1 THEN deaths[n - MaxAbends] ELSE 0) < Window
      <3>1. abend_count = MaxAbends + 1 /\ n > MaxAbends
        BY <2>1, <2>3 DEF IInv, WindowKept
      <3>2. n \in 1 .. n /\ n - MaxAbends \in 1 .. n /\ n - abend_count < n - MaxAbends /\ n - abend_count < n
        BY <2>1, <3>1
      <3>3. deaths[n] < abend_last + Window /\ abend_last <= deaths[n - MaxAbends]
        BY <3>2 DEF IInv, WindowKept, Watched, Inside
      <3>4. CASE n > MaxAbends + 1
        BY <2>1, <2>2, <3>1, <3>2, <3>3, <3>4
      <3>5. CASE ~(n > MaxAbends + 1)
        <4>1. abend_count = n
          BY <2>1, <3>1, <3>5
        <4>2. abend_last = 0
          BY <4>1 DEF IInv, WindowKept, Watched, Opening
        <4> QED
          BY <2>1, <2>2, <3>1, <3>2, <3>3, <3>5, <4>2
      <3> QED
        BY <3>4, <3>5
    <2>4. ASSUME pc # "resigned", NEW i \in 1 .. n - (2 * MaxAbends + 1)
          PROVE  deaths[i + 2 * MaxAbends + 1] - deaths[i] >= Window
      <3>1. i \in 1 .. n /\ i + 2 * MaxAbends + 1 \in 1 .. n
        BY <2>1
      <3>2. deaths[i] + Window <= deaths[i + 2 * MaxAbends + 1]
        BY <2>4, <3>1 DEF IInv, WindowKept, Spaced
      <3>3. deaths[i] \in Int /\ deaths[i + 2 * MaxAbends + 1] \in Int
        BY <2>2, <3>1
      <3> QED
        BY <3>2, <3>3
    <2> QED
      BY <2>3, <2>4 DEF GivesUpOnBurst
  <1> QED
    BY <1>1, Invariance, PTL
=============================================================================
