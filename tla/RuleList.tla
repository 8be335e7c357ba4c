------------------------------ MODULE RuleList ------------------------------
(***************************************************************************)
(* One of the four rule lists of gld (server/emaildomain.c): a sorted      *)
(* array of rules that grows by ED_DELTA cells, searched with bisearch()   *)
(* by type_greylist(), changed by cmd_mcp_tofrom(), loaded by              *)
(* tofrom_read_stream() and saved by tofrom_dump_stream().  The code has   *)
(* the same text four times, for g_to, g_tod, g_from and g_fromd.          *)
(*                                                                         *)
(* A text is a number, in the order of strcmp().  A line of the file is a  *)
(* rule, the default rule, a line with less than three fields, or one that *)
(* is blank or a comment.  The loader takes any word for a command.  Only  *)
(* GREYLIST, ACCEPT and REJECT have a counter, so a lookup that finds      *)
(* another one writes outside g_*_cmdcnt[] (server/gld.c:463): no lookup   *)
(* here goes that far.                                                     *)
(***************************************************************************)
EXTENDS OrderedArray, SavedFile

CONSTANTS
  Text,          \* the addresses or domains rules are about
  Verdicts,      \* the commands that have a counter
  Words,         \* the words of a file where a command should be
  Delta,         \* ED_DELTA
  OldCounts,     \* cf_oldcounts
  Files,         \* the file as the first start may find it
  MaxRequests,   \* bound: lookups in the whole run
  MaxChanges     \* bound: changes by the operator in the whole run

NONE    == "none"
UNKNOWN == "unknown"    \* the words ci_map_int() maps to -1
NoText  == -1

Entry == [text : Text \cup {NoText}, cmd : Words \cup {NONE}, count : Nat]
Junk  == [text |-> NoText, cmd |-> NONE, count |-> 0]
Line  == {l \in [kind : {"rule", "default", "short", "skipped"},
                 text : Text \cup {NoText}, cmd : Words \cup {NONE}, count : Nat] :
            /\ l.kind \in {"rule", "default"} => l.cmd \in Words
            /\ l.kind = "rule" => l.text \in Text}

RuleLine(e) == [kind |-> "rule", text |-> e.text, cmd |-> e.cmd, count |-> e.count]
DefaultLine(d) == [kind |-> "default", text |-> NoText, cmd |-> d.cmd, count |-> d.count]
Short == [kind |-> "short", text |-> NoText, cmd |-> NONE, count |-> 0]

ASSUME TextAssumption    == Text \subseteq Nat
ASSUME VerdictAssumption == /\ "greylist" \in Verdicts /\ Verdicts \subseteq Words
                            /\ NONE \notin Words /\ UNKNOWN \notin Verdicts
ASSUME DeltaAssumption   == Delta \in Nat \ {0}
ASSUME CountsAssumption  == OldCounts \in BOOLEAN
ASSUME FilesAssumption   == Files \subseteq Seq(Line)
ASSUME BoundAssumption   == MaxRequests \in Nat /\ MaxChanges \in Nat

VARIABLES
  array,         \* g_to: the cells allocated
  size,          \* g_sto
  maxsize,       \* g_smaxto
  default,       \* g_defto and g_toc
  file, todo,    \* the file, and the lines of it not read yet
  dangling,      \* while loading: does `fields' point to freed memory
  status,
  requests, changes   \* the bounded counters

list == <<array, size, maxsize, default>>
vars == <<array, size, maxsize, default, file, todo, dangling, status, requests, changes>>

TextAt == [i \in DOMAIN array |-> array[i].text]
Rule(cmd, count) == [cmd |-> cmd, count |-> count]
Empty == [i \in {} |-> Junk]

Init ==
  /\ array = Empty /\ size = 0 /\ maxsize = 0
  /\ default = Rule("greylist", 0)
  /\ \E lines \in Files : file = Whole(lines) /\ todo = lines
  /\ dangling = FALSE
  /\ status = "loading" /\ requests = 0 /\ changes = 0
-----------------------------------------------------------------------------
(***************************************************************************)
(* edomain_add_*(): realloc() by ED_DELTA cells when the array is full,    *)
(* then memmove() and store.                                               *)
(***************************************************************************)
(* a mistake: the array grows once it is past full *)
GrowthWhenPastFull == IF size = maxsize + 1 THEN maxsize + Delta ELSE maxsize

Growth == IF size = maxsize THEN maxsize + Delta ELSE maxsize

Grown == [i \in 0 .. Growth-1 |-> IF i \in DOMAIN array THEN array[i] ELSE Junk]

AddEntry(idx, entry) ==
  /\ maxsize' = Growth
  /\ array' = InsertAt(Grown, size, idx, entry)
  /\ size' = size + 1

(* edomain_remove_*() *)
RemoveEntry(idx) ==
  /\ array' = DeleteAt(array, size, idx)
  /\ size' = size - 1
  /\ UNCHANGED maxsize
-----------------------------------------------------------------------------
(***************************************************************************)
(* tofrom_read_stream(), one line at a time.  Every turn of its loop       *)
(* begins with free(fields); a blank line or a comment starts the next     *)
(* turn before split() has given fields a new value, which is then freed   *)
(* a second time.  The allocator may end the process there, or go on.      *)
(***************************************************************************)
Reading(kind) == status = "loading" /\ todo # <<>> /\ Head(todo).kind = kind

NextLine(leaves) ==
  /\ todo' = Tail(todo) /\ dangling' = leaves
  /\ UNCHANGED <<file, status, requests, changes>>

Kept(count) == IF OldCounts THEN count ELSE 0

LoadDefault ==
  /\ Reading("default")
  /\ default' = Rule(Head(todo).cmd, Kept(Head(todo).count))
  /\ UNCHANGED <<array, size, maxsize>>
  /\ NextLine(FALSE)

LoadNew ==
  /\ Reading("rule")
  /\ \E i \in 0 .. size :
       /\ MissingAt(TextAt, size, Head(todo).text, i)
       /\ AddEntry(i, [text |-> Head(todo).text, cmd |-> Head(todo).cmd,
                       count |-> Kept(Head(todo).count)])
  /\ UNCHANGED default
  /\ NextLine(FALSE)

(* a mistake: the later of two lines about one text wins *)
LoadKnownLastWins ==
  /\ Reading("rule")
  /\ \E i \in 0 .. size-1 :
       /\ FoundAt(TextAt, size, Head(todo).text, i)
       /\ array' = [array EXCEPT ![i].cmd = Head(todo).cmd]
  /\ UNCHANGED <<size, maxsize, default>>
  /\ NextLine(FALSE)

LoadKnown ==
  /\ Reading("rule")
  /\ \E i \in 0 .. size-1 : FoundAt(TextAt, size, Head(todo).text, i)
  /\ UNCHANGED list
  /\ NextLine(FALSE)

LoadShort   == Reading("short") /\ UNCHANGED list /\ NextLine(FALSE)
LoadSkipped == Reading("skipped") /\ UNCHANGED list /\ NextLine(TRUE)

LoadDone ==
  /\ status = "loading" /\ todo = <<>>
  /\ status' = "up" /\ dangling' = FALSE
  /\ UNCHANGED <<list, file, todo, requests, changes>>
-----------------------------------------------------------------------------
(***************************************************************************)
(* One of the four lookups in type_greylist().                             *)
(***************************************************************************)
LookupFound(k) ==
  /\ status = "up" /\ requests < MaxRequests
  /\ \E i \in 0 .. size-1 :
       /\ FoundAt(TextAt, size, k, i) /\ array[i].cmd \in Verdicts
       /\ array' = [array EXCEPT ![i].count = @ + 1]
  /\ requests' = requests + 1
  /\ UNCHANGED <<size, maxsize, default, file, todo, dangling, status, changes>>

LookupDefault(k) ==
  /\ status = "up" /\ requests < MaxRequests
  /\ \E i \in 0 .. size : MissingAt(TextAt, size, k, i)
  /\ default.cmd \in Verdicts
  /\ default' = [default EXCEPT !.count = @ + 1]
  /\ requests' = requests + 1
  /\ UNCHANGED <<array, size, maxsize, file, todo, dangling, status, changes>>

(***************************************************************************)
(* cmd_mcp_tofrom().  Removing the default, or a text without a rule, is   *)
(* answered like the others and changes nothing.                           *)
(***************************************************************************)
Changing ==
  /\ status = "up" /\ changes < MaxChanges
  /\ changes' = changes + 1
  /\ UNCHANGED <<file, todo, dangling, status, requests>>

SetDefault(v) ==
  /\ Changing
  /\ default' = Rule(v, 0)
  /\ UNCHANGED <<array, size, maxsize>>

SetNew(k, v) ==
  /\ Changing
  /\ \E i \in 0 .. size :
       /\ MissingAt(TextAt, size, k, i)
       /\ AddEntry(i, [text |-> k, cmd |-> v, count |-> 0])
  /\ UNCHANGED default

SetKnown(k, v) ==
  /\ Changing
  /\ \E i \in 0 .. size-1 :
       /\ FoundAt(TextAt, size, k, i)
       /\ array' = [array EXCEPT ![i].cmd = v, ![i].count = 0]
  /\ UNCHANGED <<size, maxsize, default>>

RemoveKnown(k) ==
  /\ Changing
  /\ \E i \in 0 .. size-1 : FoundAt(TextAt, size, k, i) /\ RemoveEntry(i)
  /\ UNCHANGED default

RemoveIgnored ==
  /\ Changing
  /\ UNCHANGED list
-----------------------------------------------------------------------------
(***************************************************************************)
(* tofrom_dump_stream(), and the default as the last line.  ci_map_chars() *)
(* has no word for -1: such a line is left with two fields.                *)
(***************************************************************************)
Written(cmd, line) == IF cmd = UNKNOWN THEN Short ELSE line

Dump == Append([i \in 1 .. size |-> Written(array[i-1].cmd, RuleLine(array[i-1]))],
               Written(default.cmd, DefaultLine(default)))

(***************************************************************************)
(* What may be left of a line that was torn: too little, or all but the    *)
(* end of its text, which then is another text, one that comes before it   *)
(* (a part of "DEFAULT" is a text as well).  It has no newline, so the     *)
(* loop of tofrom_read_stream() ends with it even if it is blank.          *)
(***************************************************************************)
TornFrom(l) == {[kind |-> "rule", text |-> k, cmd |-> l.cmd, count |-> l.count] :
                  k \in {t \in Text : l.kind = "default" \/ (l.kind = "rule" /\ t < l.text)}}
Torn == {Short} \cup UNION {TornFrom(Dump[i]) : i \in DOMAIN Dump}

SaveState ==
  /\ status = "up"
  /\ file' = Whole(Dump)
  /\ UNCHANGED <<list, todo, dangling, status, requests, changes>>

SaveCut ==
  /\ status = "up"
  /\ file' \in CutOff(Dump, Torn)
  /\ UNCHANGED <<list, todo, dangling, status, requests, changes>>

Gone ==
  /\ array' = Empty /\ size' = 0 /\ maxsize' = 0 /\ default' = Rule("greylist", 0)
  /\ todo' = <<>> /\ dangling' = FALSE /\ status' = "down"
  /\ UNCHANGED <<requests, changes>>

(* the last save finds the file closed to it (fopen() fails), or writes it *)
Terminate == status = "up" /\ file' \in {file, Whole(Dump)} /\ Gone
Crash     == status # "down" /\ Gone /\ UNCHANGED file
Aborts    == status = "loading" /\ dangling /\ Gone /\ UNCHANGED file

Start ==
  /\ status = "down"
  /\ status' = "loading" /\ todo' = file.lines
  /\ UNCHANGED <<list, file, dangling, requests, changes>>

Next ==
  \/ LoadDefault \/ LoadNew \/ LoadKnown \/ LoadShort \/ LoadSkipped \/ LoadDone
  \/ \E k \in Text : \/ LookupFound(k) \/ LookupDefault(k) \/ RemoveKnown(k)
                     \/ \E v \in Verdicts : SetNew(k, v) \/ SetKnown(k, v)
  \/ \E v \in Verdicts : SetDefault(v)
  \/ RemoveIgnored
  \/ SaveState \/ SaveCut \/ Terminate \/ Crash \/ Aborts \/ Start

Spec == Init /\ [][Next]_vars
-----------------------------------------------------------------------------
(***************************************************************************)
(* The rules fit into the cells allocated for them.                        *)
(***************************************************************************)
TypeOK ==
  /\ maxsize \in Nat /\ size \in 0 .. maxsize
  /\ array \in [0 .. maxsize-1 -> Entry]
  /\ default \in [cmd : Words, count : Nat]
  /\ file \in FileOf(Line) /\ todo \in Seq(Line)
  /\ dangling \in BOOLEAN
  /\ status \in {"loading", "up", "down"}
  /\ requests \in Nat /\ changes \in Nat

(***************************************************************************)
(* The used cells are in strict order of their texts, whatever was added,  *)
(* removed or found in the file: each lookup finds the rule if there is    *)
(* one, and no text has two.                                               *)
(***************************************************************************)
Sorted == StrictlySorted(TextAt, size)
-----------------------------------------------------------------------------
(***************************************************************************)
(* The array, the file and the loader implement the map of RuleMap.  While *)
(* the file is being read the rules are those that will be there at the    *)
(* end: the first line about a text counts, and the last default.          *)
(***************************************************************************)
NoRule == Rule(NONE, 0)

CellsFor(a, n, k) == {i \in 0 .. n-1 : a[i].text = k}
RuleFor(a, n, k)  == IF CellsFor(a, n, k) = {} THEN NoRule
                     ELSE LET e == a[CHOOSE i \in CellsFor(a, n, k) : TRUE] IN Rule(e.cmd, e.count)

About(lines, k) == {i \in DOMAIN lines : lines[i].kind = "rule" /\ lines[i].text = k}
Defaults(lines) == {i \in DOMAIN lines : lines[i].kind = "default"}
First(S) == CHOOSE i \in S : \A j \in S : i <= j
Last(S)  == CHOOSE i \in S : \A j \in S : i >= j

Read(lines, k) == IF About(lines, k) = {} THEN NoRule
                  ELSE LET l == lines[First(About(lines, k))] IN Rule(l.cmd, l.count)
ReadDefault(lines, d) == IF Defaults(lines) = {} THEN d
                         ELSE LET l == lines[Last(Defaults(lines))] IN Rule(l.cmd, l.count)
Recalled(r) == Rule(r.cmd, Kept(r.count))

(* what has been read holds; what has not holds for the other texts *)
Promise(a, n, lines)   == [k \in Text |-> IF RuleFor(a, n, k) # NoRule THEN RuleFor(a, n, k)
                                          ELSE Recalled(Read(lines, k))]
DefaultAfter(lines, d) == IF Defaults(lines) = {} THEN d ELSE Recalled(ReadDefault(lines, d))
Contents(lines)        == [rules   |-> [k \in Text |-> Read(lines, k)],
                           default |-> ReadDefault(lines, Rule("greylist", 0))]

Rest            == IF status = "down" THEN file.lines ELSE todo
Promised        == Promise(array, size, Rest)
PromisedDefault == DefaultAfter(Rest, default)
Saved           == Contents(file.lines)

Abstract == INSTANCE RuleMap WITH
  rules <- Promised, default <- PromisedDefault, saved <- Saved, whole <- file.whole,
  serving <- status = "up"

ImplementsRuleMap == Abstract!Spec
=============================================================================
