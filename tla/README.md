# A formal model of x-grey

x-grey greylists mail. A daemon, `gld`, decides about triples (IP address,
sender, recipient) that mail servers ask about; `pfc` (Postfix) and `smc`
(sendmail) do the asking; `gld-mcp` is the operator's command line. This
directory holds TLA+ models of its parts, configurations that model-check them
with TLC, and proofs that TLAPS checks. Lines below refer to the files of the
repository.

## 1. The system

### Parts, state, operations

| part | source | state | operations |
|---|---|---|---|
| tuple space | `server/tuple.c`, tail of `type_greylist()` and `type_tuple_remove()` in `server/gld.c` | `g_pool` (records), `g_tuplespace` (sorted pointers), `g_poolnum`, counters, marks, the whitelist file | request, removal, `tuple_expire()`, `tuple_allocate()`, `whitelist_load()`, `whitelist_dump()` |
| IP list | `server/iplist.c` | a binary tree over address bits, `g_ipcnt`, the IP list file | `ip_match()`, `ip_add_sm()`, `iplist_read()`, `iplist_dump()` with `ip_table()`/`ip_collect()` |
| rule lists | `server/emaildomain.c`, `cmd_mcp_tofrom()` in `server/gld.c` | four sorted, growing arrays (to, to-domain, from, from-domain), four defaults, four files | lookup, set, remove, set default, load, dump |
| filters | `type_greylist()` | the five lists above and counts per filter and command | one request passes IP, from, from-domain, to, to-domain, then the tuple space |
| binary search | `common/bisearch.c` | none | used by the tuple space and the rule lists |
| monitor, signals, children | `server/gld.c`, `server/signals.c` | flags set by handlers, the alarm, child processes, abend counters | fork and restart `gld`, `check_signals()`, reap, clean up, fork a saver, save and stop, fork a report |
| pfc | `postfix/pfc.c` | one socket, one alarm | read a question from Postfix, ask gld, wait, answer |
| smc | `sendmail/smc.c` | one socket, one alarm, and per connection a buffer with the sender | libmilter callbacks, each connection in a thread of its own |
| gld-mcp | `control/gld-mcp.c` | one socket, one alarm, the connection of a report | one request and one reply per command or line of a file; a connection and a pager per report |
| reports | `cmd_mcp_report()` in `server/gld.c` | a child per report, a TCP socket on gld's own port | bind, fork, listen, reply, accept, write |
| common | `common/util.c`, `common/crc32.c`, `common/greylist.h` | none | conversions, sockets, checksums, packet layout |

### How they interact

Clients and `gld-mcp` send one UDP datagram per question; `gld` answers each
with one datagram. Nothing in a reply names the question. `gld` is one thread:
its loop (`gld.c:198-219`) runs `check_signals()`, then blocks in `recvfrom()`,
then handles one packet to the end. Signal handlers only set flags. The alarm
drives `tuple_expire()`; now and then `handle_sigalrm()` forks a child that
writes the six state files while the parent goes on. SIGUSR1 has a child write a
dump. A report is sent by a child, too: gld binds a TCP socket to its own port
and forks; the child listens, replies over UDP that the report is ready, and
waits ten seconds for a connection, which `gld-mcp` makes when it gets the reply.
All children share the port. The monitor (`main()`) forks `gld` again when it dies of
a signal that is not SIGTERM, SIGINT or SIGQUIT. `gld` reads the files at every
start.

### What is hard here, and what correct means

* **Tuple space.** Each operation permutes an array of pointers into a pool;
  `tuple_expire()` puts the records it frees back as the first free cells, and
  relies on the flagged records of earlier expiries being exactly those. Correct:
  no record is reached twice, the used cells are sorted, counters cover what
  they count, and a sender that persists gets in after the embargo, and nobody
  before.
* **Lists.** Counters size an allocation that is then filled without a bound
  (`iplist.c:392`); rules are removed without removing nodes; file lines repeat
  and contradict each other. Correct: a table with longest-prefix match, and a
  map with a default.
* **Filters.** Five filters with two bypasses coded as jumps. Correct: the
  documented order, and counts that add up.
* **Processes.** Signals at any moment, several children, concurrent writers of
  one file, crashes and restarts. Correct: no child and no alarm is lost, a stop
  is obeyed and saves, the monitor tells a burst from bad luck.
* **Clients.** Datagrams are lost, late, doubled, and the timeout races the
  answer; threads of the milter share a socket and a timer. Correct: a question
  is answered, the answer is to that question unless something was disturbed, and
  mail is refused only on gld's word.
* **Milter.** A connection carries several messages in one buffer. Correct: gld is
  asked about the sender that was given.
* **Operators.** Several of them, several reports on one port, replies that do not
  name their command. Correct: an OK stands for something done, a report that was
  promised can be read, the prompt comes back, and gld serves again.

`PROJECT.json` lists the hazards, each at its line, with the properties that
would catch it.

## 2. The modules

| module | models | extends / instantiates |
|---|---|---|
| `OrderedArray` | a sorted prefix of an array: what a search reports, insertion and deletion by `memmove()` | |
| `BiSearch` | `bisearch()`, one action per turn of its loop | `OrderedArray` |
| `Greylisting` | what the tuple space promises: a bounded map from keys to tuples | |
| `SavedFile` | a state file: what a save leaves in it, and what one that is cut off may leave | |
| `TupleSpace` | the arrays, the handlers, the whitelist file, crash and restart | `OrderedArray`, `SavedFile`, `Greylisting` (refinement) |
| `SenderView` | `Greylisting` plus what each sender did | `Greylisting` |
| `PrefixRules` | what the IP list promises: the longest rule decides | |
| `IPList` | the tree, walked node by node; loading, saving, crash, restart | `SavedFile`, `PrefixRules` (refinement) |
| `RuleMap` | what a rule list promises: a map with a default | |
| `RuleList` | the growing sorted array, the loader line by line, the file | `OrderedArray`, `SavedFile`, `RuleMap` (refinement) |
| `Filters` | `type_greylist()` up to the tuple space, one action per filter | |
| `Daemon` | monitor, gld's loop and flags, children, the state files | |
| `Control` | gld-mcp, gld's handling of its requests, the children that hand out reports | |
| `MailClient` | `check_greylist()` of pfc and smc over UDP, one thread or several | |
| `Milter` | the callbacks of smc, and the sender's buffer character by character | `OrderedArray` (the n-th element of a set) |
| `*Proofs` | theorems about the module they are named after; `RequestProofs` is about `Filters` and `SenderView`, `ClientProofs` about `Milter` and `MailClient`, and `RuleListProofs` also about `BiSearch` | those modules, `OrderedArrayProofs` where they need it, `TLAPS` |
| `MC*` | constants of the instances TLC checks | the module they are named after |

Definitions that begin with "a mistake" are variants of the definition next to
them, as a plausible slip would write it. No action uses them; each shows, when
put in place of the real one, that a property notices it.

### State and actions against the code

* **`TupleSpace`.** `pool`, `tuplespace`, `poolnum`, `whitelisted`, `low`, `high`
  are `g_pool`, `g_tuplespace` (as indices), `g_poolnum`, `g_whitelisted`,
  `g_tuples_low`, `g_tuples_high`. A key stands for (IP, from, to) in the order of
  `tuple_look_ift()`. Each handler is one action, because `gld` runs it to the
  end: `RequestKnown`, `RequestNew`, `RequestCleansHouse` and `RequestStartsOver`
  are the ways through the tail of `type_greylist()` with `tuple_search()`,
  `tuple_allocate()` and `tuple_add()`; the index found by the search is used
  after `tuple_allocate()` as the code does. `Expire` is `tuple_expire()` with
  its assertion. Loading is one action per line, since a crash may fall between.
* **The state files** (`SavedFile`, and `SaveState`/`SaveCut` of the three modules
  that save). Each file is truncated by `fopen()` and written in place
  (`tuple.c:240`, `iplist.c:188`, `emaildomain.c:320`). A save that comes to its
  end is `SaveState`; `SaveCut` is one that does not, because the process that
  saves is killed or the disk is full: it leaves any number of the first lines,
  and the next one torn or not. A torn line of the whitelist may name another
  recipient; one of the IP list is no rule, and the reading ends there; one of a
  rule list has too few fields, or is a rule for a shorter text. The torn text may
  be any that the model has (any that comes before it, in a rule list), which
  allows more than the code. A last save at a stop may also find that `fopen()`
  fails, and the file stays as it was. What writers at the same time do to one
  file is in `Daemon`. `whole` is a ghost: whether the file was written to its
  end. The abstract modules promise all of the state after a save that was, and
  after one that was cut off a part of it, each entry as it was, but for one at
  most that was torn.
* **`IPList`.** A node is named by the bits from the root. `match`, `count`,
  `ipcnt` are the fields of `struct ipnode` and `g_ipcnt`. `MatchDown`/`MatchEnd`
  and `AddDown`/`AddRoot`/`AddEnd` are the turns and the ends of the two walks.
  The depth of an address is a constant (32 in the code). A node that does not
  exist is modelled as one without a rule or a count. `LoadError` is the four error
  returns of `iplist_read()`: what was read before the line stays.
* **`RuleList`.** One of four copies of the same text. `array` has the allocated
  cells, `size` and `maxsize` are `g_sto` and `g_smaxto`. `dangling` is the
  pointer `fields` between a comment line and the next turn of the loop of
  `tofrom_read_stream()`: `Aborts` is the allocator noticing the second free.
  The loader takes any word for a command: `Words` has REMOVE, which is stored as
  it is, and `UNKNOWN`, the -1 that `ci_map_int()` gives for a word it does not
  know. Such a rule is kept, and saved as a line of two fields (`Written`), so the
  next start does not have it. A lookup that finds either is left out (section 5).
* **`Filters`.** The lists are maps (that `RuleList` implements) and a request
  carries the verdict `IPList` would give; each filter is one action that counts
  and either replies or names the next filter.
* **`Daemon`.** `pc` is where gld is: `chld`, `alrm`, `stop` are the tests of
  `check_signals()`, `recv` is the gap before `recvfrom()`, `blocked` is in it.
  `pending` is the set of flags that are set. Saved state is a version number per
  file; a process between `fopen()` and `fclose()` has a file open, and files
  written by two processes at a time may hold any mixture (`Partial`).
* **`Control`.** `pc` is where an operator's gld-mcp is: at the prompt, in
  `send_request()`, told that a report is ready, in the pager. `requests` and
  `replies` are the datagrams on their way; one that is lost stays there, as
  nothing says that it arrives. `gld` is its loop reduced to what matters here:
  whether it serves, has noted SIGCHLD too late for this turn, or sits in
  `handle_sigchld()` until no child is left, where another SIGCHLD is noted for the
  turn after. `AskFails` is a `sendto()` that fails. `child` has a record per report
  child: `Fork` is `create_socket()` and `gld_fork()` in the parent, `Listen` is
  `listen()`, `alarm(10)` and the reply, then come `accept()` or its failure, the
  alarm, and the writing. Two sockets may be bound to the port while none listens
  (SO_REUSEADDR); of two `listen()` the second fails, which the code does not
  look at. `okfor` (what an operator was told), `carried`, `givenup` and `upset`
  are ghosts.
* **`MailClient`.** A thread sends, sets the alarm, waits, receives and returns.
  Delayed, reordered and doubled datagrams are the network's doing; a lost one never
  arrives. `Says` is what gld may answer. `alarm` is one Boolean, as the process has
  one timer; SIGALRM is delivered to any thread. A `recvfrom()` that fails
  (`ReceiveFails`) ends in the same default as the timeout. `disturbed` and
  `crossed` are ghosts: the questions that timed out, failed or were doubled, and
  those that were open together with another thread's.
* **`Milter`.** `sender` is `data->sender`, a function from its cells to
  characters; `Copied` is the `memcpy()` without a NUL, `Strip` is CGILib's
  `remove_char()` as the code uses it. `MessageEnds` is sendmail's: another MAIL
  FROM on the same connection, of which smc is told nothing in between.

### Abstractions

Texts, addresses and keys are numbers or model values in the order of their
comparison. Parsing is reduced to the kinds of line a loader tells apart, of a line
that was torn to what it may be taken for. Unsigned counters do not wrap (each is
bounded by the bounds below). Time is a bounded clock that ticks between handlers.
The verdicts of a request are the three of `greylist.h`; `RuleList` also has rules
with others. Packets that fail their checksum, version or type are dropped by gld
before any state changes, and are the value `Unusable` for a client.

## 3. What the runs check

Every bound is a CONSTANT named in the configuration.

| run | instance | what it shows |
|---|---|---|
| `bisearch` | arrays of up to 4 cells, 5 keys, sorted or not | the search ends; `MeetsContract`: a hit is a hit and a miss is an index between neighbours |
| `tuple_slots` | pool of 2, 3 keys, built without assertions | `NoAlias`, `FlaggedFirst`, `WhitelistedCovers`, `MarksBracket` through requests, removals, expiry, a full pool that is cleaned or given up, save, crash and restart |
| `tuple_refines` | pool of 2, 3 keys, files of up to 3 lines and what a save leaves when it is cut off, built with assertions | `Sorted`; the arrays implement `Greylisting`; a removal flag of a tuple in use is never taken back |
| `sender_view` | capacity 2, 3 interchangeable keys; embargo 2, timeouts 1 and 2 | `PersistenceIsRewarded`, `NobodyIsEarly` |
| `ip_list` | addresses of 2 bits (7 ranges), 2 verdicts, 3 files, one with a line that is no rule, 1 lookup, 2 changes, saves cut off anywhere | `LongestDecides`, `TableFits`, `HitsConserved`, and the tree implements `PrefixRules` |
| `rule_list` | 3 texts, 4 words, growth by 2, 2 files, 1 lookup, 2 changes, saves cut off anywhere | rules fit the allocated cells, `Sorted`, and the array implements `RuleMap` |
| `filters` | 2 senders, 2 recipients, 1 domain; 2 changes, 2 requests | `FilteredAsDocumented` (RUNNING:90-99): the answer is the verdict of the rule or default that decides; `CountsConserved` |
| `daemon` | 2 children, 1 file, 4 crashes, the clock to 4, windows of 2, `MaxAbends` 1 | `ZombiesNoticed`, `HousekeepingDue`, `QuietStopSaves`, `GivesUpOnBurst`; under fairness `OrdersObeyed`, `HousekeepingGoesOn` |
| `mail_clients` | 2 threads, 3 questions, 1 doubled datagram | `OffOnlyIfDisturbed`, `RefusedByGldOnly`; under fairness `AnsweredUnlessCrossed` |
| `control` | 2 operators, 3 commands, 2 report children | `OkIsEarned`, `PromisedReportIsRead`; under fairness `EveryCommandReturns`, `GldServesAgain` |
| `expire_assert` | pool of 2 | **violated**: `tuple_expire()` fails its own assertion |
| `milter_sender` | senders of up to 4 letters, a buffer of 7 | **violated**: gld is asked about a sender nobody gave |

**Why the bounds are enough.** A pool of two fills up with a third key waiting,
has one tuple to keep beside one to drop, and a flagged record beside a used
one; the theorems of section 4 cover every size of pool, and the two runs both
ways of building. In `sender_view` a sender has to try three times, at least
once within the embargo, and white tuples outlive grey ones. In two bits there
are rules at every depth, siblings, and a rule inside a rule inside the default.
Three texts with growth by two make the array grow from empty and again when it
is full, and leave a text that is missing on either side. Two changes are enough
for an address and its domain to contradict each other. Two children give two
writers of one file beside gld, and two ends for one SIGCHLD. With three
questions an answer can lag behind by one and by two, and with two threads one
may as well be idle, which is pfc. Of the verdicts one is enough that a client
passes on and one that it cannot use. Two operators with three commands give two
reports at a time, and a late reply for the next command of the same gld-mcp. In
a buffer of seven the longest sender fits without its brackets, or is cut with
them.

In `daemon`, `MaxAbends` is 1 and a window takes 2 seconds (20 and 5 in the code,
`gld.c:148-156`): the monitor goes on with a count above 0, and four ends in five
seconds lie in one window or straddle two. Only the first gld is given changes,
children and dumps (`MaxBusy` is 0); the ones after it find the files and the
children that it left. The theorems about `Daemon` are not
bound by it.

In `ip_list` and `rule_list` one lookup and two changes meet every file, every
place a save may be cut off at, and a restart: of the counts it is enough that one
is not zero, and two changes make a rule beside another, replace one or remove it.
In `sender_view`, states that differ only in the last reply or in `whole` are
taken for one (VIEW); no action reads either, and the two promises are about
steps, each of which is checked.

**Deadlock.** `bisearch` ends; gld really stops after a stop signal or when the
monitor gives up; a client that has asked all its questions, and an operator who
has given all commands, is done. These
configurations set `CHECK_DEADLOCK FALSE`; in the others a restart is always
possible and deadlock is checked.

**Fairness.** `bisearch`: the loop runs. `Daemon`: gld, the monitor and the
children are scheduled (weak fairness on their steps), a timer that is set
fires, and mail keeps coming. The last is needed: a signal that arrives after
`check_signals()` and before `recvfrom()` sets its flag, and nothing wakes gld
until the next packet or signal. That a saver ends needs nothing but the disk;
that a report ends is shown in `Control`, under an assumption: `alarm(0)` comes
before the writing (`gld.c:854`), so an operator who stops reading keeps the
child, and with it gld in `handle_sigchld()`; operators are taken to read on or to
quit the pager. Otherwise `Control` assumes that processes run and timers expire,
and nothing of the network: a report child whose reader never comes ends by its
`alarm(10)`. `MailClient`: threads run and the timer fires; nothing is assumed of
gld or of the network, which is the point of the timeout. There is one timing
assumption in each: `alarm()` and the call it is to interrupt are less than the
timer's seconds apart.

### Findings

* **`expire_assert`** (`tuple.c:219`): `assert(j < c_poolmax)` runs after `j++`, so
  placing the last flagged record into the last cell aborts gld. It needs a pool
  that has been full once (`AssertionNeedsFullPool`). Makefile builds have
  assertions on.
* **`milter_sender`** (`smc.c:163`): RUNNING:4-10 says that a request consists of
  the address, the sender's and the recipient's. `mf_mail_from()` copies a sender
  without its NUL into a buffer that only `mf_connect()` clears. After a longer
  sender on the same connection the tail of that one stays, its closing bracket
  removed only if the new text did not end before it. `LongestSenderIsRight`
  proves when it does not happen.

Two promises of the documents hold only under a condition, and the properties
state it:

* INSTALL:80 says that a stopped gld dumps its current state. A child forked by
  `handle_sigalrm()` may be writing the same files and gld does not wait for it
  (`signals.c:242`): both write over each other, or the child leaves its older
  snapshot. `QuietStopSaves` shows the promise kept when no child is saving.
* conf.h:195-198 promises a default reply after the timeout. One timer serves all
  threads of smc (`smc.c:269`), so another thread's `alarm(0)`, or its being
  picked for SIGALRM, leaves a thread without one. `AnsweredUnlessCrossed` shows
  the promise kept for every question that no other thread's got in the way of,
  and so always for pfc (conf.h:163-166). libmilter's own threads, which may be
  picked as well, are not modelled.

Not violations of a stated promise, but visible in the models: in a build
without assertions the index found before `tuple_allocate()` is used after the
clean-up has moved the tuples, and the array may lose its order (which is why
the theorem on order assumes assertions); `g_whitelisted` is not reset when a
full pool is given up (`tuple.c:105-115`), so it covers the whitelisted tuples
but may exceed them; `handle_sigchld()` spins while a child is alive; after one
timeout `pfc` hands every mail the answer of the mail before it until a reply is
lost (`OffOnlyIfDisturbed` says that a disturbance is needed for that); gld-mcp,
too, takes a late reply for its next command, if it is of the same type
(`OkIsEarned`); a save that is cut off in the middle of a line may have gld read
back, at its next start, a whitelisted recipient or a rule for a text that nobody
gave; a rule of a list file with a word that gld does not know is served until the
next save and lost with it.

**What the properties do not catch.** They say what the code keeps; some of the
hazards in `PROJECT.json` are damage that nothing in the code prevents or
notices, and those have no property or a note: two processes that save at a time,
the answers of a client once they are shifted or crossed, a late OK after a
give-up, the report one operator reads for another when two children begin to
listen at once, the order of the array in a build without assertions, the hits
that a removed rule leaves in its node, and the byte that a walk reads past a
full address.

## 4. What is proved

The theorems hold for every value of the constants under the named assumptions
of the modules; the bounds of the models appear in the proofs only as arbitrary
numbers. TLC evaluates the same assumptions on every run. Every safety property
the passing runs check is stated by a theorem.

* **`TupleSpaceProofs`**: `TypeCorrect`, `NeverAliased`, `FlaggedAlwaysFirst`,
  `CounterCovers`, `MarksHold`, and, with assertions, `AlwaysSorted`,
  `Refinement` and `FlagsAlwaysStick`.
  The properties are not inductive one by one: expiry writes the flagged records
  into the cells behind the kept ones, and does not alias any only if the records
  flagged before were the first free ones. `IInv` therefore joins permutation,
  the flagged prefix, named keys and the counters. `AlwaysSorted` needs
  assertions because `tuple_expire()` on a full pool frees something only if its
  assertion fails first (`FullSweepFails`), so the stale index is never used.
  `Refinement` shows that every handler, line of the whitelist and end of the
  process is one step of `Greylisting`, or none. It needs `RInv`: besides `IInv`,
  that a process that is gone holds no tuple, and that while the whitelist is
  loaded every tuple carries the current time, so that a full pool has nothing
  stale and is given up. It assumes assertions, since without them the array may
  lose its order and the lookup a tuple, which no map does. `FlagsAlwaysStick`
  follows from it, as the flags of a tuple are read off the map.
  `AssertionNeedsFullPool` is the other side of the finding `expire_assert`: no
  flagged record ever lies beyond the high mark (`FlaggedBelowHigh`), so
  `tuple_expire()` ends no process whose pool has not been full.
* **`RequestProofs`**, about the filters: `FiltersTypeCorrect`,
  `AlwaysFilteredAsDocumented`, `CountsAlwaysConserved`. That an answer is the
  verdict of the rule that decides is judged when it is given, so `IInv` adds what a
  request on its way has behind it: no filter passed so far objects, and it stands
  at a domain's filter only if the address had no rule (`Unobjected`). The counts
  need a stronger bound on the domain filters, which are skipped by some requests
  (`DomainsPassed`). About the sender's view of `Greylisting`: `TypeCorrect`,
  `NobodyIsEverEarly`, `PersistenceIsAlwaysRewarded`. Both promises relate what a
  sender did to what is stored, and `ViewInv` says how: a tuple that nobody vouched
  for is no older than the sender's first attempt in this process and is white only
  an embargo after it, and the tuple of an unbroken series is stored, dates from the
  series' first attempt or before, and was used at its last or later. `GreyTimeout`
  must not exceed `WhiteTimeout`, as in the code's defaults: otherwise a tuple that
  became white in between would be dropped although its sender goes on.
* **`IPListProofs`**: `TypeCorrect`, `LongestAlwaysDecides`, `TableAlwaysFits`,
  `HitsAlwaysConserved`, `Refinement`. `LongestDecides` speaks of the end of a
  walk; `IInv` adds that every ancestor of a node exists, that the walk is on the
  way to its address, and that `best` is the longest rule passed so far. For the
  sum over the nodes the provers have no induction. It is replaced by a smallest
  counterexample: if the sum did not unfold element by element, or did not grow
  by one when one count does, there would be a set of least size for which it
  failed, and one element less would be smaller (`Smallest`, `SumsExist`,
  `SumFacts`); the nodes are finitely many because each is named by its length
  and its set of ones.
  `Refinement` shows that the tree, the walks, the file and the loader are the one
  table of `PrefixRules`. While a file is being read the table is what the tree
  will be when the rest has been applied; what a saved file gives when it is read
  back is the table that was saved (`TableReadsBack`), and one that was cut off a
  part of it, because `ip_collect()` names
  each rule once (`CollectedIsAll`) and the default comes first.
* **`RuleListProofs`**: `TypeCorrect` (the used cells fit the allocated ones) and
  `AlwaysSorted`, with `UsedAreRules`: what `realloc()` left undefined lies behind
  the used cells. `Refinement` shows that a list is a map with a default, whatever
  words the files have and wherever a save is cut off: the rules before the cut are
  read back, and the torn line adds one at most (`Strange`). Between a stop and the
  end of the next loading what the list promises is what the file says line after
  line, the first rule for a text standing and the last default (`Faithful`); an
  abort of the loader is a stop. About the search: `ContractHolds` and
  `SearchIsExact`, from `SearchInv`: the cell just left of the window holds a
  smaller key, the one just right of it a larger one. `EveryTurnCounts` is the
  safety half of termination: in each turn one of the branches is taken, and it
  reports or makes the window smaller.
* **`ClientProofs`**, about smc's buffer: `LongestSenderIsRight`: for a buffer of
  any size and any texts, the sender asked about is the one given if it fits with
  its brackets and none before it on the connection was longer. The invariant:
  from the length of the longest sender on, the buffer has no letter, only ends
  and brackets; so whatever text is laid over it, what is left behind is stripped
  or not seen.
  About the exchange with gld: `MailTypeCorrect`, `AlwaysOffOnlyIfDisturbed`,
  `AlwaysRefusedByGldOnly`, for any number of threads. The invariant follows the
  datagrams: a question that nothing disturbed or crossed is one datagram at most,
  a question or a reply (`Single`), and the thread that asked still waits for it
  (`Awaited`); questions open together are crossed (`Overlaps`). So a thread that
  receives another question's reply can blame one that was disturbed. Whatever is
  on its way back gld has said (`SaidBefore`), and what a client says without gld
  is the default, which accepts.
* **`DaemonProofs`**: `TypeCorrect`, `ZombiesAlwaysNoticed`,
  `HousekeepingAlwaysDue`, `QuietStopAlwaysSaves`, `GivesUpOnBurstOnly`, for any
  number of children, files and crashes and any limits of the monitor. `IInv`
  adds what each promise rests on: only a process that saves has a file open, and
  no orphan waits to be reaped (`Orderly`); while gld saves alone, the files
  behind it hold its memory (`SavesAlone`); and the monitor's window began at the
  abnormal end before the ones it has counted, `Window` seconds after all but the
  last `MaxAbends` before that (`WindowKept`), which is why 2 * `MaxAbends` + 2
  ends never fall within one `Window` while the monitor goes on.
* **`ControlProofs`**: `ControlTypeCorrect`, `OkIsAlwaysEarned`, `PromisesAreKept`,
  for any number of operators, commands and children. A command is in one place at
  a time: a request, a child that has not spoken yet, a reply, or an OK that was
  told (`OneToken`). What is on its way for an operator is therefore what it waits
  for, or comes after something it gave up (`Late`). As long as nothing was given
  up and no child upset, each OK on its way or just told has a child that listens
  for it (`CalmChildren`, `Promises`), so no connection but the right one reaches
  it.
* **`OrderedArrayProofs`**: lemmas on insertion, deletion, on the n-th element of
  a set and on first and last members, used by the others.

Left to TLC: liveness under fairness, and ENABLED, which the provers do not reach
(`Terminates`, `OrdersObeyed`, `HousekeepingGoesOn`, `AnsweredUnlessCrossed`,
`EveryCommandReturns`, `GldServesAgain`); and of course the two properties that are
violated. No module declares a RECURSIVE operator, and where data has to be
counted over, a smallest counterexample stands in for induction.

## 5. Not modelled

The text of reports and printed figures, packet layout and checksum arithmetic,
option parsing, daemonising, logging, the init script, the test programs. SIGUSR2
calls `tuple_expire()`, which `TupleSpace` has as `Expire`; SIGHUP only logs.
`send_packet()` retries a failed `sendto()` without a limit; its errors are the
kernel's. A rule with a command outside the three verdicts, which a list file may
bring (`RuleList` loads and saves it), indexes the counters past their end when a
lookup finds it (`gld.c:463`); no lookup of the models does. `tuple()` of gld-mcp
prints a reason from its buffer even when no reply came (`gld-mcp.c:1093`). A
`malloc()` or `fdopen()` that fails.

## 6. Plan

Done, in this order: `OrderedArray` and `BiSearch` (everything searches),
`Greylisting`, `SavedFile`, `TupleSpace`, `SenderView` (the core promise),
`PrefixRules` and `IPList`, `RuleMap` and `RuleList`, `Filters`, `Daemon`,
`MailClient`, `Control`, `Milter`; proofs of every safety property the runs check,
and of the three refinements.

Next:

1. Proofs: the promises of `SenderView` for the arrays themselves, that is, the
   history variables carried along `TupleSpace`'s actions and its refinement
   extended to them; the safety half (what makes progress, and what bounds it) of
   the liveness properties of `MailClient` and `Control`.
2. A composition of clients, network and `Greylisting`: what a misattributed
   answer does to the promises of `SenderView`.
3. `Daemon`: two state files, so that a stop between them can leave lists of
   different ages.
