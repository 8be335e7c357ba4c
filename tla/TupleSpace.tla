----------------------------- MODULE TupleSpace -----------------------------
(***************************************************************************)
(* The tuple space of gld (server/tuple.c) and the handlers that work on   *)
(* it: the tail of type_greylist(), type_tuple_remove(), tuple_expire()    *)
(* under SIGALRM or SIGUSR2, whitelist_load() at the start and             *)
(* whitelist_dump() when the state is saved.                               *)
(*                                                                         *)
(* pool is the array of records, tuplespace the array of pointers into it: *)
(* its first poolnum cells are the tuples in use, sorted by key, and the   *)
(* others are the free records.  The server is one thread and its signal   *)
(* handlers only set a flag, so each handler is one action; loading the    *)
(* whitelist is one action per line.                                       *)
(*                                                                         *)
(* A key stands for [ip,from,to], in the order of tuple_look_ift().        *)
(***************************************************************************)
EXTENDS OrderedArray, SavedFile

CONSTANTS
  PoolMax,       \* c_poolmax
  Key,           \* the keys clients ask about
  Embargo,       \* c_timeout_embargo
  GreyTimeout,   \* c_timeout_grey
  WhiteTimeout,  \* c_timeout_white
  Debug,         \* TRUE when assert() is compiled in (no -DNDEBUG)
  Files,         \* whitelist files the first start may find
  MaxTime,       \* bound: the clock stops there
  MaxWhite       \* bound: no promotion once g_whitelisted is this high

ASSUME PoolAssumption  == PoolMax \in Nat \ {0}
ASSUME KeyAssumption   == Key \subseteq Nat
ASSUME TimeAssumption  == /\ Embargo \in Nat /\ GreyTimeout \in Nat
                          /\ WhiteTimeout \in Nat /\ MaxTime \in Nat
ASSUME DebugAssumption == Debug \in BOOLEAN
ASSUME FilesAssumption == Files \subseteq Seq(Key)
ASSUME WhiteAssumption == MaxWhite \in Nat

VARIABLES
  pool,          \* g_pool
  tuplespace,    \* g_tuplespace
  poolnum,       \* g_poolnum
  whitelisted,   \* g_whitelisted
  low, high,     \* g_tuples_low, g_tuples_high
  now,           \* the clock
  file,          \* c_whitefile: one key per line
  todo,          \* while loading, the lines not read yet
  status,        \* what the process is doing, or how it ended
  reply          \* what the last request was told

marks  == <<low, high>>
memory == <<pool, tuplespace, poolnum, whitelisted, low, high>>
vars   == <<pool, tuplespace, poolnum, whitelisted, low, high,
            now, file, todo, status, reply>>

Slot    == 0 .. PoolMax-1
NoKey   == -1
Time    == 0 .. MaxTime
Command == {"CMD_GREYLIST", "CMD_WHITELIST"}
Record  == [key : Key \cup {NoKey}, ctime : Time, atime : Time,
            white : BOOLEAN, remove : BOOLEAN]

Running == {"loading", "up"}
Ended   == {"stopped", "killed", "assert_expire", "bad_index"}

Blank == [key |-> NoKey, ctime |-> 0, atime |-> 0, white |-> FALSE, remove |-> FALSE]

(***************************************************************************)
(* Views of the state                                                      *)
(***************************************************************************)
Used  == 0 .. poolnum-1
KeyAt == [i \in Slot |-> pool[tuplespace[i]].key]
Live  == {tuplespace[i] : i \in Used}

MaxOf(a, b) == IF a > b THEN a ELSE b
MinOf(a, b) == IF a < b THEN a ELSE b

Fresh(k, white) == [key |-> k, ctime |-> now, atime |-> now,
                    white |-> white, remove |-> FALSE]

Identity == [i \in Slot |-> i]

-----------------------------------------------------------------------------
(***************************************************************************)
(* tuple_expire(): mark what is stale, move the kept tuples down, put      *)
(* every flagged record behind them in the order of the pool.              *)
(***************************************************************************)
(* a mistake: a tuple is stale at its timeout, not after it *)
StaleAtTimeout(r) == now - r.atime >= (IF r.white THEN WhiteTimeout ELSE GreyTimeout)

Stale(r) == now - r.atime > (IF r.white THEN WhiteTimeout ELSE GreyTimeout)

Marked == [s \in Slot |-> IF s \in Live /\ Stale(pool[s])
                          THEN [pool[s] EXCEPT !.remove = TRUE]
                          ELSE pool[s]]

Kept  == {i \in Used : ~Marked[tuplespace[i]].remove}
Freed == {s \in Slot : Marked[s].remove}

WhiteExpired == {s \in Live \cap Freed : pool[s].white}

(* a mistake: the kept tuples in the order of the pool *)
CompactedInPoolOrder ==
  LET nk == Cardinality(Kept)
      nf == Cardinality(Freed)
  IN  [j \in Slot |-> IF j < nk THEN Nth({tuplespace[i] : i \in Kept}, j)
                      ELSE IF j < nk + nf THEN Nth(Freed, j - nk)
                      ELSE tuplespace[j]]

(* a mistake: the freed records go to the end of the array *)
CompactedToTheEnd ==
  LET nk == Cardinality(Kept)
      nf == Cardinality(Freed)
      rest == Slot \ (Freed \cup {tuplespace[i] : i \in Kept})
  IN  [j \in Slot |-> IF j < nk THEN tuplespace[Nth(Kept, j)]
                      ELSE IF j < PoolMax - nf THEN Nth(rest, j - nk)
                      ELSE Nth(Freed, j - (PoolMax - nf))]

Compacted ==
  LET nk == Cardinality(Kept)
      nf == Cardinality(Freed)
  IN  [j \in Slot |-> IF j < nk THEN tuplespace[Nth(Kept, j)]
                      ELSE IF j < nk + nf THEN Nth(Freed, j - nk)
                      ELSE tuplespace[j]]

(* assert(j < c_poolmax), which runs after each flagged record is placed *)
ExpireFits == Freed # {} => Cardinality(Kept) + Cardinality(Freed) < PoolMax
ExpireOk   == Debug => ExpireFits

(***************************************************************************)
(* memcpy(stored,&tuple) and tuple_add(stored,idx) on the arrays p and ts  *)
(* whose first n cells are in use; the record is the first free one.       *)
(***************************************************************************)
(* a mistake: the high mark counts additions *)
AddTupleCountsAdditions(p, ts, n, idx, rec) ==
  /\ pool' = [p EXCEPT ![ts[n]] = rec]
  /\ tuplespace' = InsertAt(ts, n, idx, ts[n])
  /\ poolnum' = n + 1
  /\ high' = high + 1

AddTuple(p, ts, n, idx, rec) ==
  /\ pool' = [p EXCEPT ![ts[n]] = rec]
  /\ tuplespace' = InsertAt(ts, n, idx, ts[n])
  /\ poolnum' = n + 1
  /\ high' = MaxOf(high, n + 1)

(* The process is gone and its memory with it. *)
End(why) ==
  /\ pool' = [s \in Slot |-> Blank] /\ tuplespace' = Identity /\ poolnum' = 0
  /\ whitelisted' = 0 /\ low' = 0 /\ high' = 0
  /\ todo' = <<>> /\ reply' = "none" /\ status' = why
  /\ UNCHANGED <<now, file>>

Init ==
  /\ pool = [s \in Slot |-> Blank] /\ tuplespace = Identity /\ poolnum = 0
  /\ whitelisted = 0 /\ low = 0 /\ high = 0
  /\ now = 0 /\ file \in {Whole(q) : q \in Files} /\ todo = file.lines
  /\ status = "loading" /\ reply = "none"
-----------------------------------------------------------------------------
(***************************************************************************)
(* whitelist_load(), one line at a time.  A line may name a tuple that is  *)
(* already there: the file separates the fields by spaces, so two          *)
(* addresses can collapse into one line.                                   *)
(***************************************************************************)
Line == Head(todo)

LoadKnown ==
  /\ status = "loading" /\ todo # <<>>
  /\ \E i \in Slot :
       /\ FoundAt(KeyAt, poolnum, Line, i)
       /\ pool' = [pool EXCEPT ![tuplespace[i]] = [@ EXCEPT !.atime = now, !.white = TRUE]]
       /\ whitelisted' = IF pool[tuplespace[i]].white THEN whitelisted ELSE whitelisted + 1
  /\ todo' = Tail(todo)
  /\ UNCHANGED <<tuplespace, poolnum, marks, now, file, status, reply>>

LoadNew ==
  /\ status = "loading" /\ todo # <<>> /\ poolnum < PoolMax
  /\ \E i \in 0 .. poolnum :
       /\ MissingAt(KeyAt, poolnum, Line, i)
       /\ AddTuple(pool, tuplespace, poolnum, i, Fresh(Line, TRUE))
  /\ whitelisted' = whitelisted + 1
  /\ todo' = Tail(todo)
  /\ UNCHANGED <<low, now, file, status, reply>>

(***************************************************************************)
(* The file has more lines than the pool has records (SERVER_MAX_TUPLES    *)
(* was lowered).  Nothing can be stale while loading, so tuple_allocate()  *)
(* starts over; idx still belongs to the full array, and unlike            *)
(* type_greylist() nobody corrects it.                                     *)
(***************************************************************************)
LoadFull ==
  /\ status = "loading" /\ todo # <<>> /\ poolnum = PoolMax
  /\ \E i \in 0 .. poolnum :
       /\ MissingAt(KeyAt, poolnum, Line, i)
       /\ \/ /\ i = 0
             /\ AddTuple(pool, Identity, 0, 0, Fresh(Line, TRUE))
             /\ low' = 0
             /\ whitelisted' = whitelisted + 1
             /\ todo' = Tail(todo)
             /\ UNCHANGED <<now, file, status, reply>>
          \/ i > 0 /\ End("bad_index")

LoadDone ==
  /\ status = "loading" /\ todo = <<>>
  /\ low' = poolnum /\ high' = poolnum
  /\ status' = "up"
  /\ UNCHANGED <<pool, tuplespace, poolnum, whitelisted, now, file, todo, reply>>
-----------------------------------------------------------------------------
(***************************************************************************)
(* The tuple stage of type_greylist() for a key that is stored.            *)
(***************************************************************************)
(* a mistake: a request takes back a removal *)
RequestKnownRevives(k, cmd) ==
  /\ status = "up"
  /\ \E i \in Slot :
       /\ FoundAt(KeyAt, poolnum, k, i)
       /\ pool' = [pool EXCEPT ![tuplespace[i]] = [@ EXCEPT !.atime = now, !.remove = FALSE]]
  /\ UNCHANGED <<tuplespace, poolnum, whitelisted, marks, now, file, todo, status, reply>>

RequestKnown(k, cmd) ==
  /\ status = "up"
  /\ \E i \in Slot :
       LET s       == tuplespace[i]
           promote == /\ ~pool[s].white
                      /\ cmd = "CMD_WHITELIST" \/ now - pool[s].ctime >= Embargo
       IN  /\ FoundAt(KeyAt, poolnum, k, i)
           /\ promote => whitelisted < MaxWhite
           /\ pool' = [pool EXCEPT ![s] = [pool[s] EXCEPT !.atime = now,
                                                          !.white = pool[s].white \/ promote]]
           /\ whitelisted' = IF promote THEN whitelisted + 1 ELSE whitelisted
           /\ reply' = IF pool[s].white \/ promote THEN "accept" ELSE "greylist"
  /\ UNCHANGED <<tuplespace, poolnum, marks, now, file, todo, status>>

(* the tail common to the three ways a new tuple is stored *)
CountAndReply(n, cmd) ==
  /\ cmd = "CMD_WHITELIST" => whitelisted < MaxWhite
  /\ whitelisted' = IF cmd = "CMD_WHITELIST" THEN n + 1 ELSE n
  /\ reply' = IF cmd = "CMD_WHITELIST" THEN "accept" ELSE "greylist"
  /\ UNCHANGED <<now, file, todo, status>>

RequestNew(k, cmd) ==
  /\ status = "up" /\ poolnum < PoolMax
  /\ \E i \in 0 .. poolnum :
       /\ MissingAt(KeyAt, poolnum, k, i)
       /\ AddTuple(pool, tuplespace, poolnum, i, Fresh(k, cmd = "CMD_WHITELIST"))
  /\ UNCHANGED low
  /\ CountAndReply(whitelisted, cmd)

(***************************************************************************)
(* tuple_allocate() with a full pool.  If the clean-up finds nothing, the  *)
(* whole space is given up; g_whitelisted is not touched.                  *)
(***************************************************************************)
(* a mistake: the low mark stays *)
RequestStartsOverKeepsLow(k, cmd) ==
  /\ status = "up" /\ poolnum = PoolMax /\ Freed = {}
  /\ \E i \in 0 .. poolnum : MissingAt(KeyAt, poolnum, k, i)
  /\ AddTuple(pool, Identity, 0, 0, Fresh(k, cmd = "CMD_WHITELIST"))
  /\ UNCHANGED low
  /\ CountAndReply(whitelisted, cmd)

RequestStartsOver(k, cmd) ==
  /\ status = "up" /\ poolnum = PoolMax /\ Freed = {}
  /\ \E i \in 0 .. poolnum : MissingAt(KeyAt, poolnum, k, i)
  /\ AddTuple(pool, Identity, 0, 0, Fresh(k, cmd = "CMD_WHITELIST"))
  /\ low' = 0
  /\ CountAndReply(whitelisted, cmd)

(***************************************************************************)
(* If the clean-up frees something, idx is still the cell found before     *)
(* tuple_expire() moved the tuples; it is corrected only when nothing is   *)
(* left.  An idx past the end ends the process: the assertion in           *)
(* tuple_add() fails, or memmove() is given a length that wrapped around.  *)
(***************************************************************************)
RequestCleansHouse(k, cmd) ==
  /\ status = "up" /\ poolnum = PoolMax /\ Freed # {} /\ ExpireOk
  /\ LET n == Cardinality(Kept)
     IN  \E i \in 0 .. poolnum :
           LET idx == IF n = 0 THEN 0 ELSE i
           IN  /\ MissingAt(KeyAt, poolnum, k, i)
               /\ \/ /\ idx <= n
                     /\ AddTuple(Marked, Compacted, n, idx, Fresh(k, cmd = "CMD_WHITELIST"))
                     /\ low' = MinOf(low, n)
                     /\ CountAndReply(whitelisted - Cardinality(WhiteExpired), cmd)
                  \/ idx > n /\ End("bad_index")

RequestAborts(k) ==
  /\ status = "up" /\ poolnum = PoolMax /\ ~ExpireOk
  /\ \E i \in 0 .. poolnum : MissingAt(KeyAt, poolnum, k, i)
  /\ End("assert_expire")

(***************************************************************************)
(* type_tuple_remove(): the tuple stays in use until the next expiry.      *)
(***************************************************************************)
(* a mistake: the counter is adjusted here, and again by the expiry *)
TupleRemoveCountsDown(k) ==
  /\ status = "up"
  /\ \E i \in Slot :
       /\ FoundAt(KeyAt, poolnum, k, i)
       /\ pool' = [pool EXCEPT ![tuplespace[i]] = [@ EXCEPT !.remove = TRUE]]
       /\ whitelisted' = IF pool[tuplespace[i]].white THEN whitelisted - 1 ELSE whitelisted
  /\ reply' = "none"
  /\ UNCHANGED <<tuplespace, poolnum, marks, now, file, todo, status>>

TupleRemove(k) ==
  /\ status = "up"
  /\ \E i \in Slot :
       /\ FoundAt(KeyAt, poolnum, k, i)
       /\ pool' = [pool EXCEPT ![tuplespace[i]] = [@ EXCEPT !.remove = TRUE]]
  /\ reply' = "none"
  /\ UNCHANGED <<tuplespace, poolnum, whitelisted, marks, now, file, todo, status>>

(***************************************************************************)
(* tuple_expire() from handle_sigalrm() or handle_sigusr2().               *)
(***************************************************************************)
Expire ==
  /\ status = "up"
  /\ \/ /\ ExpireOk
        /\ pool' = Marked
        /\ tuplespace' = Compacted
        /\ poolnum' = Cardinality(Kept)
        /\ whitelisted' = whitelisted - Cardinality(WhiteExpired)
        /\ low' = MinOf(low, Cardinality(Kept))
        /\ high' = MaxOf(high, Cardinality(Kept))
        /\ reply' = "none"
        /\ UNCHANGED <<now, file, todo, status>>
     \/ ~ExpireOk /\ End("assert_expire")
-----------------------------------------------------------------------------
(***************************************************************************)
(* whitelist_dump_stream(): the whitelisted tuples not marked for removal, *)
(* in the order of the array.                                              *)
(***************************************************************************)
Dump == LET W == {i \in Used : pool[tuplespace[i]].white /\ ~pool[tuplespace[i]].remove}
        IN  [n \in 1 .. Cardinality(W) |-> KeyAt[Nth(W, n-1)]]

(* save_state(), in a child; if fopen() fails, the file stays as it was *)
SaveState ==
  /\ status = "up"
  /\ file' = Whole(Dump)
  /\ reply' = "none"
  /\ UNCHANGED <<memory, now, todo, status>>

(***************************************************************************)
(* save_state() that does not come to its end; a crash may follow at once. *)
(* A line cut in its last field names another recipient, and is read back; *)
(* one that lost that field is skipped.                                    *)
(***************************************************************************)
SaveCut ==
  /\ status = "up"
  /\ file' \in CutOff(Dump, Key)
  /\ reply' = "none"
  /\ UNCHANGED <<memory, now, todo, status>>

(* SIGINT, SIGQUIT and SIGTERM: save, unless fopen() fails, then die of the signal *)
Terminate ==
  /\ status = "up"
  /\ pool' = [s \in Slot |-> Blank] /\ tuplespace' = Identity /\ poolnum' = 0
  /\ whitelisted' = 0 /\ low' = 0 /\ high' = 0
  /\ todo' = <<>> /\ reply' = "none" /\ status' = "stopped"
  /\ file' \in {file, Whole(Dump)}
  /\ UNCHANGED now

(* any death that does not pass through the handlers above *)
Crash == status \in Running /\ End("killed")

(* the monitor's fork(), or the operator's scripts/greylist start *)
Start ==
  /\ status \in Ended
  /\ status' = "loading" /\ todo' = file.lines
  /\ UNCHANGED <<memory, now, file, reply>>

Tick ==
  /\ status = "up" /\ now < MaxTime
  /\ now' = now + 1
  /\ UNCHANGED <<memory, file, todo, status, reply>>

Next ==
  \/ LoadKnown \/ LoadNew \/ LoadFull \/ LoadDone
  \/ \E k \in Key :
       \/ \E cmd \in Command :
            \/ RequestKnown(k, cmd) \/ RequestNew(k, cmd)
            \/ RequestStartsOver(k, cmd) \/ RequestCleansHouse(k, cmd)
       \/ RequestAborts(k) \/ TupleRemove(k)
  \/ Expire \/ SaveState \/ SaveCut \/ Terminate \/ Crash \/ Start \/ Tick

Spec == Init /\ [][Next]_vars
-----------------------------------------------------------------------------
TypeOK ==
  /\ pool \in [Slot -> Record]
  /\ tuplespace \in [Slot -> Slot]
  /\ poolnum \in 0 .. PoolMax
  /\ whitelisted \in Int
  /\ low \in 0 .. PoolMax /\ high \in 0 .. PoolMax
  /\ now \in Time
  /\ file \in FileOf(Key) /\ todo \in Seq(Key)
  /\ status \in Running \cup Ended
  /\ reply \in {"none", "accept", "greylist"}

(***************************************************************************)
(* However tuples are added, expired and thrown away, no record is reached *)
(* from two cells: an aliased record would be handed out as free while it  *)
(* is in use, and a lost one would never be used again.                    *)
(***************************************************************************)
NoAlias == \A i, j \in Slot : tuplespace[i] = tuplespace[j] => i = j

(***************************************************************************)
(* The free records still flagged F_REMOVE by an earlier expiry are the    *)
(* first free cells.  tuple_expire() depends on it: its second loop puts   *)
(* EVERY flagged record of the pool right behind the kept tuples, also     *)
(* those freed long ago, and must overwrite exactly their old cells.       *)
(***************************************************************************)
FlaggedFirst ==
  \E m \in poolnum .. PoolMax :
    \A j \in poolnum .. PoolMax-1 : pool[tuplespace[j]].remove <=> j < m

(***************************************************************************)
(* The used cells are in strict key order, so the binary search finds      *)
(* every stored tuple and no tuple is stored twice.                        *)
(***************************************************************************)
Sorted == StrictlySorted(KeyAt, poolnum)

(***************************************************************************)
(* g_whitelisted never falls below the number of whitelisted tuples in     *)
(* use, so tuple_expire() never takes the unsigned counter below zero.     *)
(***************************************************************************)
WhiteUsed == {s \in Live : pool[s].white}

WhitelistedCovers == whitelisted >= Cardinality(WhiteUsed)

(***************************************************************************)
(* The marks reported to the operator bracket the number of tuples.        *)
(***************************************************************************)
MarksBracket == low <= poolnum /\ poolnum <= high

(***************************************************************************)
(* A sender that got through the embargo keeps its place: as long as its   *)
(* tuple is in use, no step takes the whitelisting away, and its flag for  *)
(* removal, once set, stays until the tuple leaves.                        *)
(***************************************************************************)
UsedKeys == {pool[s].key : s \in Live}
WhiteKeys == {pool[s].key : s \in WhiteUsed}
DoomedKeys == {pool[s].key : s \in {x \in Live : pool[x].remove}}

FlagsStick == /\ WhiteKeys \cap UsedKeys' \subseteq WhiteKeys'
              /\ DoomedKeys \cap UsedKeys' \subseteq DoomedKeys'
FlagsStickWhileUsed == [][FlagsStick]_vars

(***************************************************************************)
(* What an assertion of tuple_expire() says never happens.                 *)
(***************************************************************************)
NoExpireAssert == status # "assert_expire"   \* assert(j < c_poolmax), line 219

(***************************************************************************)
(* It fails only in a process whose pool has been full at some time.       *)
(***************************************************************************)
FailsWhenFull == status # "assert_expire" /\ status' = "assert_expire" => high = PoolMax
FailsOnlyWhenFull == [][FailsWhenFull]_vars
-----------------------------------------------------------------------------
(***************************************************************************)
(* With assertions compiled in, the arrays implement the map of            *)
(* Greylisting.tla: the first poolnum cells are its tuples.                *)
(***************************************************************************)
AsTuple(r) == [ctime |-> r.ctime, atime |-> r.atime, white |-> r.white, doomed |-> r.remove]

MapOf(p, ts, n) ==
  [k \in {p[ts[i]].key : i \in 0 .. n-1} |->
     AsTuple(p[ts[CHOOSE i \in 0 .. n-1 : p[ts[i]].key = k]])]

Db        == MapOf(pool, tuplespace, poolnum)
Listed(q) == {q[n] : n \in 1 .. Len(q)}
OnDisk    == [keys |-> Listed(file.lines), whole |-> file.whole]
Serving   == IF status \in Running THEN status ELSE "down"

Abstract == INSTANCE Greylisting WITH
  Capacity <- PoolMax,
  db       <- Db,
  saved    <- OnDisk,
  pending  <- Listed(todo),
  serving  <- Serving

ImplementsGreylisting == Abstract!Spec
=============================================================================
