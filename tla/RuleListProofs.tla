--------------------------- MODULE RuleListProofs ---------------------------
(***************************************************************************)
(* A rule list stays sorted and within its cells, for any texts, any file  *)
(* and any growth of the array, and is the map RuleMap promises; and the   *)
(* search that finds the cell of a rule, on which this rests, meets its    *)
(* contract on any array.                                                  *)
(***************************************************************************)
EXTENDS RuleList, BiSearch, OrderedArrayProofs, SequenceTheorems

(***************************************************************************)
(* The used cells hold rules: what realloc() left undefined lies behind.   *)
(***************************************************************************)
UsedAreRules == \A i \in 0 .. size-1 : array[i].text \in Text /\ array[i].cmd \in Words

IInv == TypeOK /\ UsedAreRules /\ Sorted

Stored(e) == e \in Entry /\ e.text \in Text /\ e.cmd \in Words

LEMMA EntryFields ==
  ASSUME NEW e \in Entry
  PROVE  e.text \in Text \cup {NoText} /\ e.text \in Int /\ e.cmd \in Words \cup {NONE} /\ e.count \in Nat
  <1>1. Text \cup {NoText} \subseteq Int
    BY TextAssumption DEF NoText
  <1>2. e.text \in Text \cup {NoText} /\ e.cmd \in Words \cup {NONE} /\ e.count \in Nat
    BY DEF Entry
  <1> QED BY <1>1, <1>2

LEMMA JunkIsEntry == Junk \in Entry
  BY DEF Junk, Entry

LEMMA ListStays ==
  ASSUME IInv, UNCHANGED <<array, size>>, TypeOK'
  PROVE  IInv'
  BY DEF IInv, UsedAreRules, Sorted, TextAt

(***************************************************************************)
(* edomain_add_*() at the place the search reported                        *)
(***************************************************************************)
LEMMA AddKeeps ==
  ASSUME IInv, NEW e, Stored(e), NEW idx,
         MissingAt(TextAt, size, e.text, idx), AddEntry(idx, e)
  PROVE  /\ maxsize' \in Nat /\ size' \in 0 .. maxsize'
         /\ array' \in [0 .. maxsize'-1 -> Entry]
         /\ UsedAreRules' /\ Sorted'
  <1> DEFINE m == Growth
             g == Grown
             t == [i \in 0 .. m-1 |-> g[i].text]
  <1>1. /\ maxsize \in Nat /\ size \in 0 .. maxsize /\ array \in [0 .. maxsize-1 -> Entry]
        /\ size \in Nat /\ Delta \in Nat \ {0}
    BY DeltaAssumption DEF IInv, TypeOK
  <1>2. m \in Nat /\ size \in 0 .. m-1 /\ maxsize <= m
    BY <1>1 DEF Growth
  <1>3. g \in [0 .. m-1 -> Entry] /\ \A i \in 0 .. size-1 : g[i] = array[i]
    <2>1. DOMAIN array = 0 .. maxsize-1
      BY <1>1
    <2>2. g \in [0 .. m-1 -> Entry]
      BY <1>1, <2>1, JunkIsEntry DEF Grown
    <2>3. ASSUME NEW i \in 0 .. size-1 PROVE g[i] = array[i]
      <3>1. i \in 0 .. m-1 /\ i \in 0 .. maxsize-1
        BY <1>1, <1>2
      <3> QED BY <2>1, <3>1 DEF Grown
    <2> QED BY <2>2, <2>3
  <1>4. t \in [0 .. m-1 -> Int]
    BY <1>3, EntryFields
  <1>5. \A i \in 0 .. size-1 : t[i] = TextAt[i] /\ i \in 0 .. m-1 /\ i \in 0 .. maxsize-1
    <2>1. \A i \in 0 .. size-1 : i \in 0 .. m-1 /\ i \in 0 .. maxsize-1
      BY <1>1, <1>2
    <2> QED BY <1>1, <1>3, <2>1 DEF TextAt
  <1>6. idx \in 0 .. size /\ MissingAt(t, size, e.text, idx)
    <2>1. /\ idx \in 0 .. size
          /\ idx > 0 => TextAt[idx-1] < e.text
          /\ idx < size => e.text < TextAt[idx]
      BY DEF MissingAt
    <2>2. /\ idx > 0 => idx-1 \in 0 .. size-1
          /\ idx < size => idx \in 0 .. size-1
      BY <1>1, <2>1
    <2> QED BY <1>5, <2>1, <2>2 DEF MissingAt
  <1>7. StrictlySorted(t, size)
    BY <1>5 DEF IInv, Sorted, StrictlySorted
  <1>8. e.text \in Int /\ e \in Entry
    BY EntryFields DEF Stored
  <1>9. StrictlySorted(InsertAt(t, size, idx, e.text), size + 1)
    BY <1>2, <1>4, <1>6, <1>7, <1>8, InsertSorts
  <1>10. array' = InsertAt(g, size, idx, e) /\ size' = size + 1 /\ maxsize' = m
    BY DEF AddEntry
  <1>11. array' = [j \in 0 .. m-1 |-> IF j = idx THEN e
                                     ELSE IF idx < j /\ j <= size THEN g[j-1] ELSE g[j]]
    BY <1>3, <1>10 DEF InsertAt
  <1>12. ASSUME NEW j \in 0 .. m-1
         PROVE  /\ j - 1 \in 0 .. m-1 \/ j = 0
                /\ j # 0 => g[j-1] \in Entry
    <2>1. j = 0 \/ j - 1 \in 0 .. m-1
      BY <1>2
    <2> QED BY <1>3, <2>1
  <1>13. array' \in [0 .. m-1 -> Entry]
    <2>1. \A j \in 0 .. m-1 : idx < j => j # 0
      BY <1>2, <1>6
    <2> QED BY <1>3, <1>8, <1>11, <1>12, <2>1
  <1>14. size' \in 0 .. maxsize'
    BY <1>2, <1>10
  <1>15. UsedAreRules'
    <2> SUFFICES ASSUME NEW j \in 0 .. size
                 PROVE  array'[j].text \in Text /\ array'[j].cmd \in Words
      BY <1>1, <1>10 DEF UsedAreRules
    <2>1. j \in 0 .. m-1
      BY <1>2
    <2>2. CASE j = idx
      BY <1>11, <2>1, <2>2 DEF Stored
    <2>3. CASE idx < j
      <3>1. j - 1 \in 0 .. size-1 /\ array'[j] = g[j-1]
        BY <1>1, <1>2, <1>6, <1>11, <2>1, <2>3
      <3> QED BY <1>3, <3>1 DEF IInv, UsedAreRules
    <2>4. CASE j < idx
      <3>1. j \in 0 .. size-1 /\ array'[j] = g[j]
        BY <1>1, <1>2, <1>6, <1>11, <2>1, <2>4
      <3> QED BY <1>3, <3>1 DEF IInv, UsedAreRules
    <2> QED BY <1>6, <2>2, <2>3, <2>4
  <1>16. Sorted'
    <2>1. TextAt' = [j \in 0 .. m-1 |-> array'[j].text]
      BY <1>13 DEF TextAt
    <2>2. InsertAt(t, size, idx, e.text) =
            [j \in 0 .. m-1 |-> IF j = idx THEN e.text
                                ELSE IF idx < j /\ j <= size THEN t[j-1] ELSE t[j]]
      BY DEF InsertAt
    <2>3. ASSUME NEW j \in 0 .. m-1
          PROVE  array'[j].text = IF j = idx THEN e.text
                                  ELSE IF idx < j /\ j <= size THEN t[j-1] ELSE t[j]
      <3>1. idx < j => j - 1 \in 0 .. m-1
        BY <1>2, <1>6
      <3> QED BY <1>11, <3>1
    <2>4. TextAt' = InsertAt(t, size, idx, e.text)
      BY <2>1, <2>2, <2>3
    <2> QED BY <1>9, <1>10, <2>4 DEF Sorted
  <1> QED BY <1>2, <1>10, <1>13, <1>14, <1>15, <1>16

(***************************************************************************)
(* edomain_remove_*() of a rule that was found                             *)
(***************************************************************************)
LEMMA RemoveKeeps ==
  ASSUME IInv, NEW idx \in 0 .. size-1, RemoveEntry(idx)
  PROVE  /\ maxsize' \in Nat /\ size' \in 0 .. maxsize'
         /\ array' \in [0 .. maxsize'-1 -> Entry]
         /\ UsedAreRules' /\ Sorted'
  <1>1. /\ maxsize \in Nat /\ size \in 1 .. maxsize /\ array \in [0 .. maxsize-1 -> Entry]
        /\ idx \in Nat
    BY DEF IInv, TypeOK
  <1>2. size' = size - 1 /\ maxsize' = maxsize /\ array' = DeleteAt(array, size, idx)
    BY DEF RemoveEntry
  <1>3. array' = [j \in 0 .. maxsize-1 |-> IF idx <= j /\ j < size-1 THEN array[j+1] ELSE array[j]]
    BY <1>1, <1>2 DEF DeleteAt
  <1>4. array' \in [0 .. maxsize'-1 -> Entry]
    <2>1. ASSUME NEW j \in 0 .. maxsize-1, j < size-1 PROVE j + 1 \in 0 .. maxsize-1
      BY <1>1, <2>1
    <2> QED BY <1>1, <1>2, <1>3, <2>1
  <1>5. UsedAreRules'
    <2> SUFFICES ASSUME NEW j \in 0 .. size-2
                 PROVE  array'[j].text \in Text /\ array'[j].cmd \in Words
      BY <1>1, <1>2 DEF UsedAreRules
    <2>1. j \in 0 .. size-1 /\ j+1 \in 0 .. size-1 /\ j \in 0 .. maxsize-1
      BY <1>1
    <2>2. array'[j] = array[j+1] \/ array'[j] = array[j]
      BY <1>3, <2>1
    <2> QED BY <2>1, <2>2 DEF IInv, UsedAreRules
  <1>6. Sorted'
    <2>1. TextAt = [j \in 0 .. maxsize-1 |-> array[j].text] /\ TextAt \in [0 .. maxsize-1 -> Int]
      BY <1>1, EntryFields DEF TextAt
    <2>2. StrictlySorted(DeleteAt(TextAt, size, idx), size - 1)
      BY <1>1, <2>1, DeleteSorts DEF IInv, Sorted
    <2>3. DeleteAt(TextAt, size, idx) =
            [j \in 0 .. maxsize-1 |-> IF idx <= j /\ j < size-1 THEN TextAt[j+1] ELSE TextAt[j]]
      BY <2>1 DEF DeleteAt
    <2>4. TextAt' = [j \in 0 .. maxsize-1 |-> array'[j].text]
      BY <1>2, <1>4 DEF TextAt
    <2>5. ASSUME NEW j \in 0 .. maxsize-1
          PROVE  array'[j].text = IF idx <= j /\ j < size-1 THEN TextAt[j+1] ELSE TextAt[j]
      <3>1. j < size-1 => j+1 \in 0 .. maxsize-1
        BY <1>1
      <3> QED BY <1>3, <2>1, <3>1
    <2>6. TextAt' = DeleteAt(TextAt, size, idx)
      BY <2>3, <2>4, <2>5
    <2> QED BY <1>2, <2>2, <2>6 DEF Sorted
  <1>7. size' \in 0 .. maxsize'
    BY <1>1, <1>2
  <1> QED BY <1>1, <1>2, <1>4, <1>5, <1>6, <1>7

(***************************************************************************)
(* A cell that changes its command and count but not its text              *)
(***************************************************************************)
LEMMA CellKeeps ==
  ASSUME IInv, NEW idx \in 0 .. size-1, NEW e, Stored(e), e.text = array[idx].text,
         array' = [array EXCEPT ![idx] = e], UNCHANGED <<size, maxsize>>
  PROVE  array' \in [0 .. maxsize-1 -> Entry] /\ UsedAreRules' /\ Sorted'
  <1>1. /\ maxsize \in Nat /\ size \in 0 .. maxsize /\ array \in [0 .. maxsize-1 -> Entry]
        /\ idx \in 0 .. maxsize-1
    BY DEF IInv, TypeOK
  <1>2. array' \in [0 .. maxsize-1 -> Entry]
    BY <1>1 DEF Stored
  <1>3. \A j \in 0 .. maxsize-1 : array'[j] = IF j = idx THEN e ELSE array[j]
    BY <1>1
  <1>4. UsedAreRules'
    <2>1. \A j \in 0 .. size-1 : j \in 0 .. maxsize-1
      BY <1>1
    <2> QED BY <1>3, <2>1 DEF IInv, UsedAreRules, Stored
  <1>5. TextAt' = TextAt
    BY <1>1, <1>2, <1>3 DEF TextAt
  <1>6. Sorted'
    BY <1>5 DEF IInv, Sorted
  <1> QED BY <1>2, <1>4, <1>6
-----------------------------------------------------------------------------
LEMMA InitIInv == Init => IInv
  <1> SUFFICES ASSUME Init PROVE IInv
    OBVIOUS
  <1>1. maxsize \in Nat /\ size \in 0 .. maxsize /\ 0 .. size-1 = {} /\ 0 .. maxsize-1 = {}
    BY DEF Init
  <1>2. array \in [0 .. maxsize-1 -> Entry]
    BY <1>1 DEF Init, Empty
  <1>3. PICK lines \in Files : file = Whole(lines) /\ todo = lines
    BY DEF Init
  <1>4. file \in FileOf(Line) /\ todo \in Seq(Line)
    BY <1>3, FilesAssumption DEF Whole, FileOf
  <1>5. default \in [cmd : Words, count : Nat]
    BY VerdictAssumption DEF Init, Rule
  <1>6. TypeOK
    BY <1>1, <1>2, <1>4, <1>5 DEF Init, TypeOK
  <1>7. UsedAreRules /\ Sorted
    BY <1>1 DEF UsedAreRules, Sorted, StrictlySorted
  <1> QED BY <1>6, <1>7 DEF IInv

(***************************************************************************)
(* Reading the file                                                        *)
(***************************************************************************)
LEMMA LineRead ==
  ASSUME IInv, todo # <<>>
  PROVE  Head(todo) \in Line /\ Tail(todo) \in Seq(Line)
  BY HeadTailProperties DEF IInv, TypeOK

LEMMA KeptType == \A n \in Nat : Kept(n) \in Nat
  BY DEF Kept

LEMMA LoadDefaultStep ==
  ASSUME IInv, LoadDefault
  PROVE  IInv'
  <1>1. Head(todo) \in Line /\ Tail(todo) \in Seq(Line) /\ Head(todo).kind = "default"
    BY LineRead DEF LoadDefault, Reading
  <1>2. Head(todo).cmd \in Words /\ Kept(Head(todo).count) \in Nat
    BY <1>1, KeptType DEF Line
  <1>3. TypeOK'
    BY <1>1, <1>2 DEF IInv, TypeOK, LoadDefault, NextLine, Rule
  <1> QED BY <1>3, ListStays DEF LoadDefault

LEMMA LoadNewStep ==
  ASSUME IInv, LoadNew
  PROVE  IInv'
  <1> DEFINE e == [text |-> Head(todo).text, cmd |-> Head(todo).cmd, count |-> Kept(Head(todo).count)]
  <1>1. Head(todo) \in Line /\ Tail(todo) \in Seq(Line) /\ Head(todo).kind = "rule"
    BY LineRead DEF LoadNew, Reading
  <1>2. Stored(e)
    BY <1>1, KeptType DEF Stored, Entry, Line
  <1>3. PICK i \in 0 .. size : MissingAt(TextAt, size, e.text, i) /\ AddEntry(i, e)
    BY DEF LoadNew
  <1>4. /\ maxsize' \in Nat /\ size' \in 0 .. maxsize' /\ array' \in [0 .. maxsize'-1 -> Entry]
        /\ UsedAreRules' /\ Sorted'
    BY <1>2, <1>3, AddKeeps
  <1>5. TypeOK'
    BY <1>1, <1>4 DEF IInv, TypeOK, LoadNew, NextLine
  <1> QED BY <1>4, <1>5 DEF IInv

LEMMA SameListStep ==
  ASSUME IInv, LoadKnown \/ LoadShort \/ LoadSkipped \/ LoadDone
  PROVE  IInv'
  <1>1. UNCHANGED list
    BY DEF LoadKnown, LoadShort, LoadSkipped, LoadDone
  <1>2. todo' \in Seq(Line)
    BY LineRead DEF LoadKnown, LoadShort, LoadSkipped, LoadDone, NextLine, Reading, IInv, TypeOK
  <1>3. dangling' \in BOOLEAN /\ status' \in {"loading", "up", "down"}
        /\ UNCHANGED <<file, requests, changes>>
    BY DEF LoadKnown, LoadShort, LoadSkipped, LoadDone, NextLine, IInv, TypeOK
  <1>4. TypeOK'
    BY <1>1, <1>2, <1>3 DEF list, IInv, TypeOK
  <1> QED BY <1>1, <1>4, ListStays DEF list
-----------------------------------------------------------------------------
(***************************************************************************)
(* Lookups and changes                                                     *)
(***************************************************************************)
LEMMA CellEntry ==
  ASSUME IInv, NEW i \in 0 .. size-1
  PROVE  array[i] \in Entry /\ array[i].text \in Text /\ array[i].cmd \in Words
         /\ array[i].count \in Nat /\ i \in 0 .. maxsize-1
  <1>1. i \in 0 .. maxsize-1
    BY DEF IInv, TypeOK
  <1>2. array[i] \in Entry
    BY <1>1 DEF IInv, TypeOK
  <1> QED BY <1>1, <1>2, EntryFields DEF IInv, UsedAreRules

LEMMA LookupFoundStep ==
  ASSUME IInv, NEW k \in Text, LookupFound(k)
  PROVE  IInv'
  <1>1. PICK i \in 0 .. size-1 : array' = [array EXCEPT ![i].count = @ + 1]
    BY DEF LookupFound
  <1>2. /\ array[i] \in Entry /\ array[i].text \in Text /\ array[i].cmd \in Words
        /\ array[i].count \in Nat
    BY CellEntry
  <1> DEFINE e == [array[i] EXCEPT !.count = array[i].count + 1]
  <1>3. Stored(e) /\ e.text = array[i].text /\ array' = [array EXCEPT ![i] = e]
    BY <1>1, <1>2 DEF Stored, Entry
  <1>4. UNCHANGED <<size, maxsize, default, file, todo, dangling, status, changes>>
    BY DEF LookupFound
  <1>5. array' \in [0 .. maxsize-1 -> Entry] /\ UsedAreRules' /\ Sorted'
    <2> HIDE DEF e
    <2> QED BY <1>3, <1>4, CellKeeps
  <1>6. TypeOK'
    BY <1>4, <1>5 DEF IInv, TypeOK, LookupFound
  <1> QED BY <1>5, <1>6 DEF IInv

LEMMA LookupDefaultStep ==
  ASSUME IInv, NEW k \in Text, LookupDefault(k)
  PROVE  IInv'
  <1>1. default' \in [cmd : Words, count : Nat]
    BY DEF IInv, TypeOK, LookupDefault
  <1>2. TypeOK'
    BY <1>1 DEF IInv, TypeOK, LookupDefault
  <1> QED BY <1>2, ListStays DEF LookupDefault

LEMMA ChangingType ==
  ASSUME IInv, Changing
  PROVE  /\ file' \in FileOf(Line) /\ todo' \in Seq(Line) /\ dangling' \in BOOLEAN
         /\ status' \in {"loading", "up", "down"} /\ requests' \in Nat /\ changes' \in Nat
  BY DEF IInv, TypeOK, Changing

LEMMA SetDefaultStep ==
  ASSUME IInv, NEW v \in Verdicts, SetDefault(v)
  PROVE  IInv'
  <1>1. TypeOK'
    BY VerdictAssumption DEF IInv, TypeOK, SetDefault, Changing, Rule
  <1> QED BY <1>1, ListStays DEF SetDefault

LEMMA SetNewStep ==
  ASSUME IInv, NEW k \in Text, NEW v \in Verdicts, SetNew(k, v)
  PROVE  IInv'
  <1> DEFINE e == [text |-> k, cmd |-> v, count |-> 0]
  <1>1. Stored(e)
    BY VerdictAssumption DEF Stored, Entry
  <1>2. PICK i \in 0 .. size : MissingAt(TextAt, size, e.text, i) /\ AddEntry(i, e)
    BY DEF SetNew
  <1>3. /\ maxsize' \in Nat /\ size' \in 0 .. maxsize' /\ array' \in [0 .. maxsize'-1 -> Entry]
        /\ UsedAreRules' /\ Sorted'
    BY <1>1, <1>2, AddKeeps
  <1>4. Changing /\ UNCHANGED default
    BY DEF SetNew
  <1>5. TypeOK'
    BY <1>3, <1>4, ChangingType DEF IInv, TypeOK
  <1> QED BY <1>3, <1>5 DEF IInv

LEMMA SetKnownStep ==
  ASSUME IInv, NEW k \in Text, NEW v \in Verdicts, SetKnown(k, v)
  PROVE  IInv'
  <1>1. PICK i \in 0 .. size-1 : array' = [array EXCEPT ![i].cmd = v, ![i].count = 0]
    BY DEF SetKnown
  <1>2. array[i] \in Entry /\ array[i].text \in Text /\ i \in 0 .. maxsize-1
    BY CellEntry
  <1>3. array \in [0 .. maxsize-1 -> Entry]
    BY DEF IInv, TypeOK
  <1> DEFINE e == [array[i] EXCEPT !.cmd = v, !.count = 0]
  <1>4. array' = [array EXCEPT ![i] = e]
    BY <1>1, <1>2, <1>3
  <1>5. Stored(e) /\ e.text = array[i].text
    BY <1>2, VerdictAssumption DEF Stored, Entry
  <1>6. UNCHANGED <<size, maxsize, default>>
    BY DEF SetKnown
  <1>7. array' \in [0 .. maxsize-1 -> Entry] /\ UsedAreRules' /\ Sorted'
    <2> HIDE DEF e
    <2> QED BY <1>4, <1>5, <1>6, CellKeeps
  <1>8. TypeOK'
    BY <1>6, <1>7 DEF IInv, TypeOK, SetKnown, Changing
  <1> QED BY <1>7, <1>8 DEF IInv

LEMMA RemoveKnownStep ==
  ASSUME IInv, NEW k \in Text, RemoveKnown(k)
  PROVE  IInv'
  <1>1. PICK i \in 0 .. size-1 : RemoveEntry(i)
    BY DEF RemoveKnown
  <1>2. /\ maxsize' \in Nat /\ size' \in 0 .. maxsize' /\ array' \in [0 .. maxsize'-1 -> Entry]
        /\ UsedAreRules' /\ Sorted'
    BY <1>1, RemoveKeeps
  <1>3. Changing /\ UNCHANGED default
    BY DEF RemoveKnown
  <1>4. TypeOK'
    BY <1>2, <1>3, ChangingType DEF IInv, TypeOK
  <1> QED BY <1>2, <1>4 DEF IInv

LEMMA RemoveIgnoredStep ==
  ASSUME IInv, RemoveIgnored
  PROVE  IInv'
  <1>1. TypeOK'
    BY DEF IInv, TypeOK, RemoveIgnored, Changing, list
  <1> QED BY <1>1, ListStays DEF RemoveIgnored, list
-----------------------------------------------------------------------------
(***************************************************************************)
(* Saving and restarting                                                   *)
(***************************************************************************)
(* what the lines of the dump are *)
LEMMA DumpLines ==
  ASSUME IInv
  PROVE  /\ Dump \in Seq(Line) /\ Len(Dump) = size + 1 /\ DOMAIN Dump = 1 .. size+1
         /\ \A i \in 1 .. size : /\ i-1 \in 0 .. size-1
                                 /\ Dump[i] = Written(array[i-1].cmd, RuleLine(array[i-1]))
         /\ Dump[size+1] = Written(default.cmd, DefaultLine(default))
  <1> DEFINE r == [i \in 1 .. size |-> Written(array[i-1].cmd, RuleLine(array[i-1]))]
             l == Written(default.cmd, DefaultLine(default))
  <1>1. size \in Nat /\ default \in [cmd : Words, count : Nat]
    BY DEF IInv, TypeOK
  <1>2. Short \in Line
    BY DEF Short, Line
  <1>3. ASSUME NEW i \in 1 .. size
        PROVE  i-1 \in 0 .. size-1 /\ Written(array[i-1].cmd, RuleLine(array[i-1])) \in Line
    <2>1. i-1 \in 0 .. size-1
      BY <1>1
    <2>2. array[i-1] \in Entry /\ array[i-1].text \in Text /\ array[i-1].cmd \in Words
          /\ array[i-1].count \in Nat
      BY <2>1, CellEntry
    <2>3. RuleLine(array[i-1]) \in Line
      BY <2>2 DEF RuleLine, Line
    <2> QED BY <1>2, <2>1, <2>3 DEF Written
  <1>4. r \in [1 .. size -> Line]
    BY <1>3
  <1>5. r \in Seq(Line) /\ Len(r) = size
    BY <1>1, <1>4, SeqDef
  <1>6. l \in Line
    <2>1. DefaultLine(default) \in Line
      BY <1>1 DEF DefaultLine, Line
    <2> QED BY <1>2, <2>1 DEF Written
  <1>7. \A i \in 1 .. size : r[i] = Written(array[i-1].cmd, RuleLine(array[i-1]))
    OBVIOUS
  <1>8. Dump = Append(r, l)
    BY DEF Dump
  <1> HIDE DEF r, l
  <1>9. /\ Dump \in Seq(Line) /\ Len(Dump) = size + 1 /\ Dump[size+1] = l
        /\ \A i \in 1 .. size : Dump[i] = r[i]
    BY <1>5, <1>6, <1>8, AppendProperties
  <1>10. DOMAIN Dump = 1 .. size+1
    BY <1>9
  <1> QED BY <1>3, <1>7, <1>9, <1>10 DEF l

LEMMA DumpIsFile ==
  ASSUME IInv
  PROVE  Dump \in Seq(Line) /\ Whole(Dump) \in FileOf(Line)
  BY DumpLines DEF Whole, FileOf

(* a line that was torn is a line, *)
LEMMA TornIsLine ==
  ASSUME IInv, NEW l \in Torn
  PROVE  /\ l \in Line
         /\ l.kind = "rule" => \E i \in DOMAIN Dump : /\ Dump[i].kind \in {"rule", "default"}
                                                    /\ l.cmd = Dump[i].cmd /\ l.count = Dump[i].count
         /\ l.kind # "default"
  <1>1. CASE l = Short
    BY <1>1 DEF Short, Line
  <1>2. CASE \E i \in DOMAIN Dump : l \in TornFrom(Dump[i])
    <2>1. PICK i \in DOMAIN Dump : l \in TornFrom(Dump[i])
      BY <1>2
    <2>2. Dump[i] \in Line
      BY <2>1, DumpLines
    <2>3. Dump[i].kind \in {"rule", "default"}
          /\ \E k \in Text : l = [kind |-> "rule", text |-> k, cmd |-> Dump[i].cmd, count |-> Dump[i].count]
      BY <2>1 DEF TornFrom
    <2>4. l \in Line
      BY <2>2, <2>3 DEF Line
    <2> QED BY <2>1, <2>3, <2>4
  <1> QED BY <1>1, <1>2 DEF Torn

(* and what is left of the dump are lines of it, and perhaps a torn one *)
LEMMA CutDump ==
  ASSUME IInv, NEW f \in CutOff(Dump, Torn)
  PROVE  /\ f.whole = FALSE /\ f \in FileOf(Line)
         /\ \E n \in 0 .. size+1 :
              /\ Len(f.lines) = n
              /\ \A i \in 1 .. n : f.lines[i] = Dump[i] \/ (i = n /\ f.lines[i] \in Torn)
  <1>1. /\ Dump \in Seq(Line) /\ Len(Dump) = size + 1 /\ size \in Nat
    BY DumpLines DEF IInv, TypeOK
  <1>2. CASE \E n \in 0 .. Len(Dump) : f = [lines |-> SubSeq(Dump, 1, n), whole |-> FALSE]
    <2>1. PICK n \in 0 .. Len(Dump) : f = [lines |-> SubSeq(Dump, 1, n), whole |-> FALSE]
      BY <1>2
    <2>2. /\ SubSeq(Dump, 1, n) \in Seq(Line) /\ Len(SubSeq(Dump, 1, n)) = n
          /\ \A i \in 1 .. n : SubSeq(Dump, 1, n)[i] = Dump[i]
      <3> HIDE DEF Dump
      <3> QED BY <1>1
    <2> QED BY <1>1, <2>1, <2>2 DEF FileOf
  <1>3. CASE \E n \in 1 .. Len(Dump) : \E l \in Torn :
               f = [lines |-> Append(SubSeq(Dump, 1, n-1), l), whole |-> FALSE]
    <2>1. PICK n \in 1 .. Len(Dump), l \in Torn :
            f = [lines |-> Append(SubSeq(Dump, 1, n-1), l), whole |-> FALSE]
      BY <1>3
    <2> DEFINE q == SubSeq(Dump, 1, n-1)
    <2>2. q \in Seq(Line) /\ Len(q) = n-1 /\ \A i \in 1 .. n-1 : q[i] = Dump[i]
      <3> HIDE DEF Dump
      <3> QED BY <1>1
    <2>3. l \in Line
      BY TornIsLine
    <2> HIDE DEF q
    <2>4. /\ Append(q, l) \in Seq(Line) /\ Len(Append(q, l)) = n
          /\ Append(q, l)[n] = l /\ \A i \in 1 .. n-1 : Append(q, l)[i] = Dump[i]
      BY <1>1, <2>2, <2>3, AppendProperties
    <2>5. f.lines = Append(q, l) /\ f.whole = FALSE /\ f = [lines |-> Append(q, l), whole |-> FALSE]
      BY <2>1 DEF q
    <2>6. \A i \in 1 .. n : i \in 1 .. n-1 \/ i = n
      BY <1>1
    <2>7. f \in FileOf(Line)
      BY <2>4, <2>5 DEF FileOf
    <2>8. n \in 0 .. size+1
      BY <1>1
    <2>9. \A i \in 1 .. n : f.lines[i] = Dump[i] \/ (i = n /\ f.lines[i] \in Torn)
      BY <2>4, <2>5, <2>6
    <2> QED BY <2>4, <2>5, <2>7, <2>8, <2>9
  <1> QED BY <1>2, <1>3 DEF CutOff

LEMMA SaveStateStep ==
  ASSUME IInv, SaveState \/ SaveCut
  PROVE  IInv'
  <1>1. file' \in FileOf(Line)
    BY DumpIsFile, CutDump DEF SaveState, SaveCut
  <1>2. TypeOK'
    BY <1>1 DEF IInv, TypeOK, SaveState, SaveCut, list
  <1> QED BY <1>2, ListStays DEF SaveState, SaveCut, list

LEMMA GoneStep ==
  ASSUME IInv, Gone, file' \in FileOf(Line)
  PROVE  IInv'
  <1>1. /\ maxsize' \in Nat /\ size' \in 0 .. maxsize' /\ 0 .. size'-1 = {}
        /\ 0 .. maxsize'-1 = {}
    BY DEF Gone
  <1>2. array' \in [0 .. maxsize'-1 -> Entry]
    BY <1>1 DEF Gone, Empty
  <1>3. default' \in [cmd : Words, count : Nat]
    BY VerdictAssumption DEF Gone, Rule
  <1>4. TypeOK'
    BY <1>1, <1>2, <1>3, EmptySeq DEF Gone, IInv, TypeOK
  <1>5. UsedAreRules' /\ Sorted'
    BY <1>1 DEF UsedAreRules, Sorted, StrictlySorted
  <1> QED BY <1>4, <1>5 DEF IInv

LEMMA DownSteps ==
  ASSUME IInv, Terminate \/ Crash \/ Aborts
  PROVE  IInv'
  <1>1. file' \in FileOf(Line)
    BY DumpIsFile DEF Terminate, Crash, Aborts, IInv, TypeOK
  <1> QED BY <1>1, GoneStep DEF Terminate, Crash, Aborts

LEMMA StartStep ==
  ASSUME IInv, Start
  PROVE  IInv'
  <1>1. TypeOK'
    BY DEF IInv, TypeOK, FileOf, Start, list
  <1> QED BY <1>1, ListStays DEF Start, list
-----------------------------------------------------------------------------
LEMMA StepIInv == IInv /\ [Next]_vars => IInv'
  <1> SUFFICES ASSUME IInv, [Next]_vars PROVE IInv'
    OBVIOUS
  <1>1. CASE UNCHANGED vars
    <2>1. TypeOK'
      BY <1>1 DEF vars, IInv, TypeOK
    <2> QED BY <1>1, <2>1, ListStays DEF vars
  <1>2. ASSUME NEW k \in Text, LookupFound(k) \/ LookupDefault(k) \/ RemoveKnown(k) PROVE IInv'
    BY <1>2, LookupFoundStep, LookupDefaultStep, RemoveKnownStep
  <1>3. ASSUME NEW k \in Text, NEW v \in Verdicts, SetNew(k, v) \/ SetKnown(k, v) PROVE IInv'
    BY <1>3, SetNewStep, SetKnownStep
  <1>4. ASSUME NEW v \in Verdicts, SetDefault(v) PROVE IInv'
    BY <1>4, SetDefaultStep
  <1>5. ASSUME Next PROVE IInv'
    BY <1>2, <1>3, <1>4, <1>5, LoadDefaultStep, LoadNewStep, SameListStep, RemoveIgnoredStep,
       SaveStateStep, DownSteps, StartStep DEF Next
  <1> QED BY <1>1, <1>5

LEMMA Invariance == Spec => []IInv
  BY InitIInv, StepIInv, PTL DEF Spec

(***************************************************************************)
(* The rules always fit into the cells allocated for them, however many    *)
(* there are and however many cells realloc() adds at a time.              *)
(***************************************************************************)
THEOREM TypeCorrect == Spec => []TypeOK
  <1>1. IInv => TypeOK
    BY DEF IInv
  <1> QED BY <1>1, Invariance, PTL

(***************************************************************************)
(* A rule list is always in strict order of its texts.                     *)
(***************************************************************************)
THEOREM AlwaysSorted == Spec => []Sorted
  <1>1. IInv => Sorted
    BY DEF IInv
  <1> QED BY <1>1, Invariance, PTL
-----------------------------------------------------------------------------
(***************************************************************************)
(* Lines and what they say.                                                *)
(***************************************************************************)
(* the first and the last line of some kind *)
LEMMA FirstAndLast ==
  ASSUME NEW lines \in Seq(Line), NEW S \in SUBSET DOMAIN lines
  PROVE  /\ \A i \in S : (\A j \in S : i <= j) => First(S) = i
         /\ \A i \in S : (\A j \in S : i >= j) => Last(S) = i
         /\ S # {} => /\ First(S) \in S /\ \A j \in S : First(S) <= j
                      /\ Last(S) \in S /\ \A j \in S : Last(S) >= j
  <1>1. DOMAIN lines = 1 .. Len(lines) /\ Len(lines) \in Nat
    OBVIOUS
  <1>2. S \subseteq Int
    BY <1>1
  <1>3. IsFiniteSet(S)
    <2>1. IsFiniteSet(1 .. Len(lines))
      BY <1>1, FS_Interval
    <2> QED BY <1>1, <2>1, FS_Subset
  <1>4. S # {} => /\ \E x \in S : \A y \in S : x <= y
                  /\ \E x \in S : \A y \in S : x >= y
    BY <1>2, <1>3, FirstAndLastMember
  <1>5. S # {} => /\ First(S) \in S /\ \A j \in S : First(S) <= j
                  /\ Last(S) \in S /\ \A j \in S : Last(S) >= j
    BY <1>4 DEF First, Last
  <1>6. \A i \in S : (\A j \in S : i <= j) => First(S) = i
    BY <1>2, <1>5
  <1>7. \A i \in S : (\A j \in S : i >= j) => Last(S) = i
    BY <1>2, <1>5
  <1> QED BY <1>5, <1>6, <1>7

LEMMA TailLines ==
  ASSUME NEW lines \in Seq(Line), lines # <<>>
  PROVE  /\ Head(lines) \in Line /\ Head(lines) = lines[1] /\ 1 \in DOMAIN lines
         /\ Tail(lines) \in Seq(Line)
         /\ DOMAIN lines \subseteq Nat \ {0} /\ DOMAIN Tail(lines) \subseteq Nat \ {0}
         /\ \A i \in DOMAIN Tail(lines) : i+1 \in DOMAIN lines /\ Tail(lines)[i] = lines[i+1]
         /\ \A i \in DOMAIN lines \ {1} : i-1 \in DOMAIN Tail(lines) /\ Tail(lines)[i-1] = lines[i]
  <1>1. Len(lines) \in Nat \ {0} /\ DOMAIN lines = 1 .. Len(lines)
    BY EmptySeq
  <1>2. Tail(lines) \in Seq(Line) /\ Head(lines) \in Line
    BY HeadTailProperties
  <1>3. Len(Tail(lines)) = Len(lines) - 1 /\ DOMAIN Tail(lines) = 1 .. Len(lines) - 1
    BY <1>1, <1>2, HeadTailProperties
  <1>4. \A i \in 1 .. Len(lines) - 1 : Tail(lines)[i] = lines[i+1]
    BY <1>1, HeadTailProperties
  <1>5. Head(lines) = lines[1]
    BY <1>1
  <1> QED BY <1>1, <1>2, <1>3, <1>4, <1>5

(* a rule of a text is the first line about it, *)
LEMMA ReadTail ==
  ASSUME NEW lines \in Seq(Line), lines # <<>>, NEW k
  PROVE  IF Head(lines).kind = "rule" /\ Head(lines).text = k
         THEN Read(lines, k) = Rule(Head(lines).cmd, Head(lines).count)
         ELSE Read(lines, k) = Read(Tail(lines), k)
  <1> DEFINE A == About(lines, k)
             B == About(Tail(lines), k)
  <1>1. /\ Head(lines) = lines[1] /\ 1 \in DOMAIN lines /\ Tail(lines) \in Seq(Line)
        /\ DOMAIN lines \subseteq Nat \ {0} /\ DOMAIN Tail(lines) \subseteq Nat \ {0}
        /\ \A i \in DOMAIN Tail(lines) : i+1 \in DOMAIN lines /\ Tail(lines)[i] = lines[i+1]
        /\ \A i \in DOMAIN lines \ {1} : i-1 \in DOMAIN Tail(lines) /\ Tail(lines)[i-1] = lines[i]
    BY TailLines
  <1>2. A \in SUBSET DOMAIN lines /\ B \in SUBSET DOMAIN Tail(lines)
    BY DEF About
  <1>3. CASE Head(lines).kind = "rule" /\ Head(lines).text = k
    <2>1. 1 \in A
      BY <1>1, <1>3 DEF About
    <2>2. First(A) = 1
      BY <1>1, <1>2, <2>1, FirstAndLast
    <2> QED BY <1>1, <1>3, <2>1, <2>2 DEF Read
  <1>4. CASE ~ (Head(lines).kind = "rule" /\ Head(lines).text = k)
    <2>1. 1 \notin A
      BY <1>1, <1>4 DEF About
    <2>2. \A i \in B : i+1 \in A
      BY <1>1, <1>2 DEF About
    <2>3. \A i \in A : i-1 \in B
      BY <1>1, <2>1 DEF About
    <2>4. CASE B = {}
      BY <1>4, <2>3, <2>4 DEF Read
    <2>5. CASE B # {}
      <3>1. First(B) \in B /\ \A j \in B : First(B) <= j
        BY <1>1, <1>2, <2>5, FirstAndLast
      <3>2. First(B) + 1 \in A /\ \A j \in A : First(B) + 1 <= j
        BY <1>1, <1>2, <2>2, <2>3, <3>1
      <3>3. First(A) = First(B) + 1
        BY <1>2, <3>2, FirstAndLast
      <3>4. lines[First(A)] = Tail(lines)[First(B)]
        BY <1>1, <1>2, <3>1, <3>3
      <3> QED BY <1>4, <2>5, <3>2, <3>4 DEF Read
    <2> QED BY <2>4, <2>5
  <1> QED BY <1>3, <1>4

(* and the default is the last one *)
LEMMA DefaultTail ==
  ASSUME NEW lines \in Seq(Line), lines # <<>>, NEW d
  PROVE  DefaultAfter(lines, d) =
           IF Head(lines).kind = "default"
           THEN DefaultAfter(Tail(lines), Rule(Head(lines).cmd, Kept(Head(lines).count)))
           ELSE DefaultAfter(Tail(lines), d)
  <1> DEFINE A == Defaults(lines)
             B == Defaults(Tail(lines))
  <1>1. /\ Head(lines) = lines[1] /\ 1 \in DOMAIN lines /\ Tail(lines) \in Seq(Line)
        /\ DOMAIN lines \subseteq Nat \ {0} /\ DOMAIN Tail(lines) \subseteq Nat \ {0}
        /\ \A i \in DOMAIN Tail(lines) : i+1 \in DOMAIN lines /\ Tail(lines)[i] = lines[i+1]
        /\ \A i \in DOMAIN lines \ {1} : i-1 \in DOMAIN Tail(lines) /\ Tail(lines)[i-1] = lines[i]
    BY TailLines
  <1>2. A \in SUBSET DOMAIN lines /\ B \in SUBSET DOMAIN Tail(lines)
    BY DEF Defaults
  <1>3. \A i \in B : i+1 \in A
    BY <1>1, <1>2 DEF Defaults
  <1>4. \A i \in A \ {1} : i-1 \in B
    BY <1>1 DEF Defaults
  <1>5. 1 \in A <=> Head(lines).kind = "default"
    BY <1>1 DEF Defaults
  <1>6. CASE B = {}
    <2>1. CASE 1 \in A
      <3>1. Last(A) = 1 /\ A # {}
        BY <1>1, <1>2, <1>4, <1>6, <2>1, FirstAndLast
      <3>2. ReadDefault(lines, d) = Rule(lines[1].cmd, lines[1].count)
        BY <3>1 DEF ReadDefault
      <3> QED BY <1>1, <1>5, <1>6, <2>1, <3>1, <3>2 DEF DefaultAfter, Recalled, Rule
    <2>2. CASE 1 \notin A
      BY <1>4, <1>5, <1>6, <2>2 DEF DefaultAfter
    <2> QED BY <2>1, <2>2
  <1>7. CASE B # {}
    <2>1. Last(B) \in B /\ \A j \in B : Last(B) >= j
      BY <1>1, <1>2, <1>7, FirstAndLast
    <2>2. Last(B) + 1 \in A /\ \A j \in A : Last(B) + 1 >= j
      <3>1. Last(B) \in Nat \ {0} /\ \A j \in A : j \in Nat \ {0}
        BY <1>1, <1>2, <2>1
      <3>2. \A j \in A \ {1} : Last(B) >= j - 1
        BY <1>4, <2>1
      <3>3. \A j \in A : Last(B) + 1 >= j
        BY <3>1, <3>2
      <3> QED BY <1>3, <2>1, <3>3
    <2>3. Last(A) = Last(B) + 1
      BY <1>2, <2>2, FirstAndLast
    <2>4. lines[Last(A)] = Tail(lines)[Last(B)]
      BY <1>1, <1>2, <2>1, <2>3
    <2>5. \A x, y : ReadDefault(lines, x) = ReadDefault(Tail(lines), y)
      BY <1>7, <2>2, <2>4 DEF ReadDefault
    <2> QED BY <1>7, <2>2, <2>5 DEF DefaultAfter
  <1> QED BY <1>6, <1>7

LEMMA NoLines ==
  /\ \A k : Read(<<>>, k) = NoRule
  /\ \A d : DefaultAfter(<<>>, d) = d
  <1>1. DOMAIN <<>> = {}
    BY EmptySeq
  <1> QED BY <1>1 DEF Read, About, DefaultAfter, Defaults
-----------------------------------------------------------------------------
(***************************************************************************)
(* Cells and what they say.                                                *)
(***************************************************************************)
Entries(a, n)     == {a[i] : i \in 0 .. n-1}
(* one entry for a text *)
Proper(a, n) == /\ \A e \in Entries(a, n) : e.text \in Text
                /\ \A e, f \in Entries(a, n) : e.text = f.text => e = f

LEMMA SortedIsProper ==
  ASSUME NEW m \in Nat, NEW n \in 0 .. m, NEW a \in [0 .. m-1 -> Entry],
         \A i \in 0 .. n-1 : a[i].text \in Text,
         StrictlySorted([i \in DOMAIN a |-> a[i].text], n)
  PROVE  Proper(a, n)
  <1>0. \A i \in 0 .. n-1 : i \in 0 .. m-1
    OBVIOUS
  <1>1. \A i \in 0 .. n-1 : i \in 0 .. m-1 /\ a[i].text \in Int /\ a[i].text \in Text
    <2> SUFFICES ASSUME NEW i \in 0 .. n-1 PROVE i \in 0 .. m-1 /\ a[i].text \in Int /\ a[i].text \in Text
      OBVIOUS
    <2>1. a[i].text \in Text
      OBVIOUS
    <2>2. i \in 0 .. m-1
      BY <1>0
    <2>3. Text \subseteq Int
      BY TextAssumption
    <2> QED BY <2>1, <2>2, <2>3
  <1>2. \A i, j \in 0 .. n-1 : i < j => a[i].text < a[j].text
    BY <1>1 DEF StrictlySorted
  <1>3. \A i, j \in 0 .. n-1 : a[i].text = a[j].text => i = j
    <2> SUFFICES ASSUME NEW i \in 0 .. n-1, NEW j \in 0 .. n-1, a[i].text = a[j].text, i # j PROVE FALSE
      OBVIOUS
    <2>1. i < j \/ j < i
      OBVIOUS
    <2> QED BY <1>1, <1>2, <2>1
  <1> QED BY <1>1, <1>3 DEF Proper, Entries

LEMMA ListIsProper == IInv => Proper(array, size)
  <1> SUFFICES ASSUME IInv PROVE Proper(array, size)
    OBVIOUS
  <1> QED BY SortedIsProper DEF IInv, TypeOK, UsedAreRules, Sorted, TextAt

LEMMA ListIsProperNext == IInv' => Proper(array', size')
  <1> SUFFICES ASSUME IInv' PROVE Proper(array', size')
    OBVIOUS
  <1>1. maxsize' \in Nat /\ size' \in 0 .. maxsize' /\ array' \in [0 .. maxsize'-1 -> Entry]
    BY DEF IInv, TypeOK
  <1>2. \A i \in 0 .. size'-1 : array'[i].text \in Text
    BY DEF IInv, UsedAreRules
  <1>3. StrictlySorted([i \in DOMAIN array' |-> array'[i].text], size')
    BY DEF IInv, Sorted, TextAt
  <1> QED BY <1>1, <1>2, <1>3, SortedIsProper

LEMMA RuleForEntry ==
  ASSUME NEW a, NEW n, Proper(a, n)
  PROVE  /\ \A e \in Entries(a, n) : RuleFor(a, n, e.text) = Rule(e.cmd, e.count)
         /\ \A k : (\A e \in Entries(a, n) : e.text # k) => RuleFor(a, n, k) = NoRule
  <1>1. ASSUME NEW e \in Entries(a, n) PROVE RuleFor(a, n, e.text) = Rule(e.cmd, e.count)
    <2> DEFINE C == CellsFor(a, n, e.text)
    <2>1. C # {} /\ \A i \in C : a[i] = e
      BY <1>1 DEF CellsFor, Entries, Proper
    <2>2. (CHOOSE i \in C : TRUE) \in C
      BY <2>1
    <2> QED BY <2>1, <2>2 DEF RuleFor
  <1>2. ASSUME NEW k, \A e \in Entries(a, n) : e.text # k PROVE RuleFor(a, n, k) = NoRule
    <2>1. CellsFor(a, n, k) = {}
      BY <1>2 DEF CellsFor, Entries
    <2> QED BY <2>1 DEF RuleFor
  <1> QED BY <1>1, <1>2

SameBut(a, n, b, m, k) == \A e : e.text # k => (e \in Entries(a, n) <=> e \in Entries(b, m))

OthersKeep(a, n, b, m, k) == \A j : j # k => RuleFor(b, m, j) = RuleFor(a, n, j)

(* the rules of texts whose entries stay *)
LEMMA RuleForOthers ==
  ASSUME NEW a, NEW n, NEW b, NEW m, Proper(a, n), Proper(b, m), NEW k, SameBut(a, n, b, m, k)
  PROVE  OthersKeep(a, n, b, m, k)
  <1> SUFFICES ASSUME NEW j, j # k PROVE RuleFor(b, m, j) = RuleFor(a, n, j)
    BY DEF OthersKeep
  <1> USE DEF SameBut
  <1>1. CASE \E e \in Entries(a, n) : e.text = j
    <2>1. PICK e \in Entries(a, n) : e.text = j
      BY <1>1
    <2>2. e \in Entries(b, m)
      BY <2>1
    <2> QED BY <2>1, <2>2, RuleForEntry
  <1>2. CASE \A e \in Entries(a, n) : e.text # j
    <2>1. \A e \in Entries(b, m) : e.text # j
      BY <1>2
    <2> QED BY <1>2, <2>1, RuleForEntry
  <1> QED BY <1>1, <1>2

(* a stored rule is one *)
LEMMA StoredRules ==
  ASSUME IInv
  PROVE  /\ \A e \in Entries(array, size) : Stored(e) /\ Rule(e.cmd, e.count) # NoRule
         /\ \A i \in 0 .. size-1 : array[i] \in Entries(array, size)
  <1>1. \A i \in 0 .. size-1 : array[i] \in Entries(array, size)
    BY DEF Entries
  <1>2. ASSUME NEW e \in Entries(array, size) PROVE Stored(e) /\ Rule(e.cmd, e.count) # NoRule
    <2>1. PICK i \in 0 .. size-1 : e = array[i]
      BY DEF Entries
    <2>2. Stored(e)
      BY <2>1, CellEntry DEF Stored
    <2>3. e.cmd # NONE
      BY <2>2, VerdictAssumption DEF Stored
    <2> QED BY <2>2, <2>3 DEF Rule, NoRule
  <1> QED BY <1>1, <1>2

(* edomain_add_*() adds a rule, *)
LEMMA AddRules ==
  ASSUME IInv, IInv', NEW e, Stored(e), NEW idx, MissingAt(TextAt, size, e.text, idx), AddEntry(idx, e)
  PROVE  /\ RuleFor(array, size, e.text) = NoRule
         /\ RuleFor(array', size', e.text) = Rule(e.cmd, e.count)
         /\ OthersKeep(array, size, array', size', e.text)
  <1> DEFINE g == Grown
             m == Growth
  <1>1. /\ maxsize \in Nat /\ size \in 0 .. maxsize /\ array \in [0 .. maxsize-1 -> Entry]
        /\ size \in Nat /\ Delta \in Nat \ {0}
    BY DeltaAssumption DEF IInv, TypeOK
  <1>2. m \in Nat /\ size \in 0 .. m-1 /\ idx \in 0 .. size
    BY <1>1 DEF Growth, MissingAt
  <1>3. \A i \in 0 .. size-1 : i \in 0 .. m-1 /\ i \in 0 .. maxsize-1 /\ g[i] = array[i]
    BY <1>1, <1>2 DEF Grown
  <1>4. DOMAIN g = 0 .. m-1
    BY DEF Grown
  <1>5. size' = size + 1 /\ array' = [j \in 0 .. m-1 |-> IF j = idx THEN e
                                     ELSE IF idx < j /\ j <= size THEN g[j-1] ELSE g[j]]
    BY <1>4 DEF AddEntry, InsertAt
  <1> HIDE DEF g, m
  <1>6. \A x : x \in Entries(array', size') <=> x \in Entries(array, size) \/ x = e
    <2>1. ASSUME NEW j \in 0 .. size PROVE array'[j] \in Entries(array, size) \/ array'[j] = e
      <3>1. j \in 0 .. m-1
        BY <1>2
      <3>2. CASE j = idx
        BY <1>5, <3>1, <3>2
      <3>3. CASE idx < j
        <4>1. j - 1 \in 0 .. size-1 /\ array'[j] = g[j-1]
          BY <1>1, <1>2, <1>5, <3>1, <3>3
        <4> QED BY <1>3, <4>1 DEF Entries
      <3>4. CASE j < idx
        <4>1. j \in 0 .. size-1 /\ array'[j] = g[j]
          BY <1>1, <1>2, <1>5, <3>1, <3>4
        <4> QED BY <1>3, <4>1 DEF Entries
      <3> QED BY <1>2, <3>2, <3>3, <3>4
    <2>2. ASSUME NEW i \in 0 .. size-1 PROVE \E j \in 0 .. size : array'[j] = array[i]
      <3>1. CASE i < idx
        <4>1. i \in 0 .. size /\ array'[i] = g[i]
          BY <1>1, <1>2, <1>3, <1>5, <3>1
        <4> QED BY <1>3, <4>1
      <3>2. CASE i >= idx
        <4>1. i + 1 \in 0 .. size /\ i + 1 \in 0 .. m-1 /\ idx < i + 1 /\ i + 1 # idx /\ i + 1 - 1 = i
          BY <1>1, <1>2, <3>2
        <4>2. array'[i+1] = g[i]
          BY <1>5, <4>1
        <4> QED BY <1>3, <4>1, <4>2
      <3> QED BY <1>2, <3>1, <3>2
    <2>3. array'[idx] = e /\ idx \in 0 .. size
      BY <1>2, <1>5
    <2>4. 0 .. size'-1 = 0 .. size
      BY <1>1, <1>5
    <2> QED BY <2>1, <2>2, <2>3, <2>4 DEF Entries
  <1>7. \A x \in Entries(array, size) : x.text # e.text
    <2>1. \A i \in 0 .. size-1 : TextAt[i] = array[i].text /\ TextAt[i] \in Int
      BY <1>1, <1>3, CellEntry, EntryFields DEF TextAt
    <2>2. e.text \in Int
      BY EntryFields DEF Stored
    <2>3. \A i \in 0 .. size-1 : TextAt[i] # e.text
      BY <1>1, <2>1, <2>2, MissingMeansAbsent DEF IInv, Sorted
    <2> QED BY <2>1, <2>3 DEF Entries
  <1>8. Proper(array, size) /\ Proper(array', size')
    BY ListIsProper, ListIsProperNext
  <1>9. SameBut(array, size, array', size', e.text)
    BY <1>6 DEF SameBut
  <1> QED BY <1>6, <1>7, <1>8, <1>9, RuleForEntry, RuleForOthers

(* edomain_remove_*() takes one away, *)
LEMMA RemoveRules ==
  ASSUME IInv, IInv', NEW idx \in 0 .. size-1, RemoveEntry(idx), NEW t, t = array[idx].text
  PROVE  /\ RuleFor(array', size', t) = NoRule
         /\ OthersKeep(array, size, array', size', t)
  <1>1. /\ maxsize \in Nat /\ size \in 1 .. maxsize /\ array \in [0 .. maxsize-1 -> Entry]
        /\ idx \in Nat /\ size \in Nat
    BY DEF IInv, TypeOK
  <1>2. size' = size - 1 /\ array' = [j \in 0 .. maxsize-1 |-> IF idx <= j /\ j < size-1 THEN array[j+1] ELSE array[j]]
    BY <1>1 DEF RemoveEntry, DeleteAt
  <1>3. \A i \in 0 .. size-1 : i # idx => array[i].text # t
    <2>1. \A i, j \in 0 .. size-1 : i < j => array[i].text < array[j].text
      <3>1. \A i \in 0 .. size-1 : TextAt[i] = array[i].text
        BY <1>1 DEF TextAt
      <3> QED BY <3>1 DEF IInv, Sorted, StrictlySorted
    <2>2. \A i \in 0 .. size-1 : array[i].text \in Int
      BY CellEntry, EntryFields
    <2> SUFFICES ASSUME NEW i \in 0 .. size-1, i # idx PROVE array[i].text # t
      OBVIOUS
    <2>3. i < idx \/ idx < i
      BY <1>1
    <2> QED BY <2>1, <2>2, <2>3
  <1>4. \A x : x \in Entries(array', size') <=> \E i \in 0 .. size-1 : i # idx /\ x = array[i]
    <2>1. ASSUME NEW j \in 0 .. size-2 PROVE \E i \in 0 .. size-1 : i # idx /\ array'[j] = array[i]
      <3>1. j \in 0 .. maxsize-1
        BY <1>1
      <3>2. CASE idx <= j
        <4>1. j + 1 \in 0 .. size-1 /\ j + 1 # idx /\ array'[j] = array[j+1]
          BY <1>1, <1>2, <3>1, <3>2
        <4> QED BY <4>1
      <3>3. CASE j < idx
        <4>1. j \in 0 .. size-1 /\ j # idx /\ array'[j] = array[j]
          BY <1>1, <1>2, <3>1, <3>3
        <4> QED BY <4>1
      <3> QED BY <1>1, <3>2, <3>3
    <2>2. ASSUME NEW i \in 0 .. size-1, i # idx PROVE \E j \in 0 .. size-2 : array'[j] = array[i]
      <3>1. CASE i < idx
        <4>1. i \in 0 .. size-2 /\ array'[i] = array[i]
          BY <1>1, <1>2, <3>1
        <4> QED BY <4>1
      <3>2. CASE idx < i
        <4>1. i - 1 \in 0 .. size-2 /\ i - 1 \in 0 .. maxsize-1 /\ idx <= i - 1 /\ i - 1 < size-1 /\ i - 1 + 1 = i
          BY <1>1, <3>2
        <4>2. array'[i-1] = array[i]
          BY <1>2, <4>1
        <4> QED BY <4>1, <4>2
      <3> QED BY <1>1, <2>2, <3>1, <3>2
    <2>3. 0 .. size'-1 = 0 .. size-2
      BY <1>1, <1>2
    <2>4. ASSUME NEW x \in Entries(array', size') PROVE \E i \in 0 .. size-1 : i # idx /\ x = array[i]
      BY <2>1, <2>3 DEF Entries
    <2>5. ASSUME NEW i \in 0 .. size-1, i # idx PROVE array[i] \in Entries(array', size')
      <3>1. PICK j \in 0 .. size-2 : array'[j] = array[i]
        BY <2>2, <2>5
      <3> QED BY <2>3, <3>1 DEF Entries
    <2> QED BY <2>4, <2>5
  <1>5. Proper(array, size) /\ Proper(array', size')
    BY ListIsProper, ListIsProperNext
  <1>6. \A x \in Entries(array', size') : x.text # t
    BY <1>3, <1>4
  <1>7. SameBut(array, size, array', size', t)
    BY <1>4 DEF Entries, SameBut
  <1> QED BY <1>5, <1>6, <1>7, RuleForEntry, RuleForOthers

(* and a cell that is changed changes one *)
CellBecomes(idx, e, t) == /\ array' = [array EXCEPT ![idx] = e] /\ size' = size
                          /\ array[idx].text = t /\ e.text = t

LEMMA CellRules ==
  ASSUME IInv, IInv', NEW idx \in 0 .. size-1, NEW e, NEW t, CellBecomes(idx, e, t)
  PROVE  /\ RuleFor(array, size, t) = Rule(array[idx].cmd, array[idx].count)
         /\ RuleFor(array', size', t) = Rule(e.cmd, e.count)
         /\ OthersKeep(array, size, array', size', t)
  <1>1. /\ maxsize \in Nat /\ size \in 0 .. maxsize /\ array \in [0 .. maxsize-1 -> Entry]
        /\ \A i \in 0 .. size-1 : i \in 0 .. maxsize-1
    BY DEF IInv, TypeOK
  <1>2. /\ \A i \in 0 .. size-1 : array'[i] = IF i = idx THEN e ELSE array[i]
        /\ size' = size /\ array[idx].text = t /\ e.text = t
    BY <1>1 DEF CellBecomes
  <1>3. Proper(array, size) /\ Proper(array', size')
    BY ListIsProper, ListIsProperNext
  <1>4. array[idx] \in Entries(array, size) /\ e \in Entries(array', size')
    BY <1>2 DEF Entries
  <1>5. SameBut(array, size, array', size', t)
    BY <1>2 DEF Entries, SameBut
  <1>6. RuleFor(array, size, t) = Rule(array[idx].cmd, array[idx].count)
    BY <1>2, <1>3, <1>4, RuleForEntry
  <1>7. RuleFor(array', size', t) = Rule(e.cmd, e.count)
    BY <1>2, <1>3, <1>4, RuleForEntry
  <1>8. OthersKeep(array, size, array', size', t)
    BY <1>3, <1>5, RuleForOthers
  <1> QED BY <1>6, <1>7, <1>8
-----------------------------------------------------------------------------
(***************************************************************************)
(* The file that is written says what the array and the default say, as    *)
(* far as there are words for it.                                          *)
(***************************************************************************)
LEMMA DumpSays ==
  ASSUME IInv, NEW i \in DOMAIN Dump
  PROVE  /\ Dump[i].kind \in {"rule", "default", "short"}
         /\ Dump[i].kind = "rule" =>
              /\ i \in 1 .. size /\ Dump[i].text = array[i-1].text /\ Dump[i].text \in Text
              /\ Dump[i].cmd = array[i-1].cmd /\ Dump[i].cmd # UNKNOWN
              /\ Rule(Dump[i].cmd, Dump[i].count) = RuleFor(array, size, Dump[i].text)
         /\ Dump[i].kind = "default" =>
              /\ i = size + 1 /\ default.cmd # UNKNOWN /\ Rule(Dump[i].cmd, Dump[i].count) = default
  <1>1. /\ size \in Nat /\ default \in [cmd : Words, count : Nat] /\ DOMAIN Dump = 1 .. size+1
        /\ \A j \in 1 .. size : /\ j-1 \in 0 .. size-1
                                /\ Dump[j] = Written(array[j-1].cmd, RuleLine(array[j-1]))
        /\ Dump[size+1] = Written(default.cmd, DefaultLine(default))
    BY DumpLines DEF IInv, TypeOK
  <1>2. i \in 1 .. size \/ i = size + 1
    BY <1>1
  <1>3. CASE i \in 1 .. size
    <2> DEFINE e == array[i-1]
    <2>1. e \in Entries(array, size) /\ e.text \in Text
      BY <1>1, <1>3, CellEntry DEF Entries
    <2>2. RuleFor(array, size, e.text) = Rule(e.cmd, e.count)
      BY <2>1, ListIsProper, RuleForEntry
    <2>3. Dump[i] = Written(e.cmd, RuleLine(e))
      BY <1>1, <1>3
    <2> HIDE DEF e
    <2>4. CASE e.cmd = UNKNOWN
      BY <2>3, <2>4 DEF Written, Short
    <2>5. CASE e.cmd # UNKNOWN
      <3>1. Dump[i] = RuleLine(e)
        BY <2>3, <2>5 DEF Written
      <3>2. Dump[i].kind = "rule" /\ Dump[i].text = e.text /\ Dump[i].cmd = e.cmd /\ Dump[i].count = e.count
        BY <3>1 DEF RuleLine
      <3> QED BY <1>3, <2>1, <2>2, <2>5, <3>2 DEF e
    <2> QED BY <2>4, <2>5
  <1>4. CASE i = size + 1
    <2>1. CASE default.cmd = UNKNOWN
      BY <1>1, <1>4, <2>1 DEF Written, Short
    <2>2. CASE default.cmd # UNKNOWN
      <3>1. Dump[i] = DefaultLine(default)
        BY <1>1, <1>4, <2>2 DEF Written
      <3>2. Dump[i].kind = "default" /\ Dump[i].cmd = default.cmd /\ Dump[i].count = default.count
        BY <3>1 DEF DefaultLine
      <3>3. Rule(default.cmd, default.count) = default
        BY <1>1 DEF Rule
      <3> QED BY <1>4, <2>2, <3>2, <3>3
    <2> QED BY <2>1, <2>2
  <1> QED BY <1>2, <1>3, <1>4

(* n lines of the dump, the last of them perhaps torn *)
PartOfDump(lines, n) ==
  /\ lines \in Seq(Line) /\ n \in 0 .. size+1 /\ Len(lines) = n
  /\ \A i \in 1 .. n : lines[i] = Dump[i] \/ (i = n /\ lines[i] \in Torn)

Lasting(k) == Abstract!Lasting(RuleFor(array, size, k))

LEMMA PartSays ==
  ASSUME IInv, NEW lines, NEW n, PartOfDump(lines, n), NEW k
  PROVE  \/ Read(lines, k) \in {Lasting(k), NoRule}
         \/ /\ n \in DOMAIN lines /\ lines[n] \in Torn /\ lines[n].kind = "rule" /\ lines[n].text = k
            /\ Read(lines, k) = Rule(lines[n].cmd, lines[n].count)
  <1> DEFINE A == About(lines, k)
             j == First(A)
  <1>1. lines \in Seq(Line) /\ DOMAIN lines = 1 .. n /\ A \in SUBSET DOMAIN lines
    BY DEF PartOfDump, About
  <1>2. CASE A = {}
    BY <1>2 DEF Read
  <1>3. CASE A # {}
    <2>1. j \in A
      BY <1>1, <1>3, FirstAndLast
    <2>2. /\ j \in 1 .. n /\ lines[j].kind = "rule" /\ lines[j].text = k
          /\ Read(lines, k) = Rule(lines[j].cmd, lines[j].count)
      BY <1>1, <1>3, <2>1 DEF About, Read
    <2> HIDE DEF A, j
    <2>3. CASE lines[j] = Dump[j]
      <3>1. j \in DOMAIN Dump
        BY <2>2, DumpLines DEF PartOfDump, IInv, TypeOK
      <3>2. /\ Read(lines, k) = RuleFor(array, size, k)
            /\ Read(lines, k).cmd # UNKNOWN
        BY <2>2, <2>3, <3>1, DumpSays DEF Rule
      <3> QED BY <3>2 DEF Lasting, Abstract!Lasting, Abstract!UNKNOWN, UNKNOWN
    <2>4. CASE j = n /\ lines[j] \in Torn
      BY <1>1, <2>2, <2>4
    <2> QED BY <2>2, <2>3, <2>4 DEF PartOfDump
  <1> QED BY <1>2, <1>3

(* the default is the last line, and a torn line is none *)
LEMMA PartDefault ==
  ASSUME IInv, NEW lines, NEW n, PartOfDump(lines, n), lines # Dump
  PROVE  \A d : ReadDefault(lines, d) = d
  <1>1. lines \in Seq(Line) /\ DOMAIN lines = 1 .. n
    BY DEF PartOfDump
  <1>2. ASSUME NEW j \in DOMAIN lines, lines[j].kind = "default" PROVE FALSE
    <2>1. lines[j] = Dump[j]
      BY <1>1, <1>2, TornIsLine DEF PartOfDump
    <2>2. j \in DOMAIN Dump /\ size \in Nat
      BY <1>1, <1>2, DumpLines DEF PartOfDump, IInv, TypeOK
    <2>3. j = size + 1
      BY <1>2, <2>1, <2>2, DumpSays
    <2>4. n = size + 1 /\ \A i \in 1 .. n : lines[i] = Dump[i]
      BY <1>1, <1>2, <2>1, <2>2, <2>3 DEF PartOfDump
    <2>5. Len(lines) = Len(Dump) /\ Dump \in Seq(Line)
      BY <2>4, DumpLines DEF PartOfDump
    <2>6. lines = Dump
      BY <1>1, <2>4, <2>5
    <2> QED BY <2>6
  <1>3. Defaults(lines) = {}
    BY <1>2 DEF Defaults
  <1> QED BY <1>3 DEF ReadDefault

LEMMA DumpReadsBack ==
  ASSUME IInv
  PROVE  /\ \A k : Read(Dump, k) = Lasting(k)
         /\ \A d : ReadDefault(Dump, d) = IF default.cmd = UNKNOWN THEN d ELSE default
  <1>1. /\ Dump \in Seq(Line) /\ DOMAIN Dump = 1 .. size+1 /\ Len(Dump) = size + 1 /\ size \in Nat
        /\ \A i \in 1 .. size : /\ i-1 \in 0 .. size-1
                                /\ Dump[i] = Written(array[i-1].cmd, RuleLine(array[i-1]))
        /\ Dump[size+1] = Written(default.cmd, DefaultLine(default))
        /\ default \in [cmd : Words, count : Nat]
    BY DumpLines DEF IInv, TypeOK
  <1>2. ASSUME NEW k PROVE Read(Dump, k) = Lasting(k)
    <2> DEFINE A == About(Dump, k)
    <2>1. A \in SUBSET DOMAIN Dump
      BY DEF About
    <2>2. CASE A # {}
      <3> DEFINE j == First(A)
      <3>1. j \in A
        BY <1>1, <2>1, <2>2, FirstAndLast
      <3>2. /\ j \in DOMAIN Dump /\ Dump[j].kind = "rule" /\ Dump[j].text = k
            /\ Read(Dump, k) = Rule(Dump[j].cmd, Dump[j].count)
        BY <2>1, <2>2, <3>1 DEF About, Read
      <3> HIDE DEF j, A
      <3>3. Read(Dump, k) = RuleFor(array, size, k) /\ Read(Dump, k).cmd # UNKNOWN
        BY <3>2, DumpSays DEF Rule
      <3> QED BY <3>3 DEF Lasting, Abstract!Lasting, Abstract!UNKNOWN, UNKNOWN
    <2>3. CASE A = {}
      <3>1. Read(Dump, k) = NoRule
        BY <2>3 DEF Read
      <3>2. RuleFor(array, size, k) = NoRule \/ RuleFor(array, size, k).cmd = UNKNOWN
        <4>1. CASE \E i \in 0 .. size-1 : array[i].text = k
          <5>1. PICK i \in 0 .. size-1 : array[i].text = k
            BY <4>1
          <5>2. RuleFor(array, size, k) = Rule(array[i].cmd, array[i].count)
            BY <5>1, ListIsProper, RuleForEntry DEF Entries
          <5>3. i + 1 \in 1 .. size /\ i + 1 - 1 = i /\ i + 1 \in DOMAIN Dump
            BY <1>1
          <5>4. Dump[i+1] = Written(array[i].cmd, RuleLine(array[i]))
            BY <1>1, <5>3
          <5>5. Dump[i+1].kind = "rule" => Dump[i+1].text = k
            BY <5>1, <5>3, DumpSays
          <5>6. Dump[i+1].kind # "rule"
            BY <2>3, <5>3, <5>5 DEF About
          <5>7. array[i].cmd = UNKNOWN
            BY <5>4, <5>6 DEF Written, RuleLine
          <5> QED BY <5>2, <5>7 DEF Rule
        <4>2. CASE \A i \in 0 .. size-1 : array[i].text # k
          BY <4>2, ListIsProper, RuleForEntry DEF Entries
        <4> QED BY <4>1, <4>2
      <3>3. Abstract!NoRule = NoRule /\ NoRule.cmd # UNKNOWN
        BY DEF Abstract!NoRule, NoRule, Rule, NONE, Abstract!NONE, UNKNOWN
      <3> QED BY <3>1, <3>2, <3>3 DEF Lasting, Abstract!Lasting, Abstract!UNKNOWN, UNKNOWN
    <2> QED BY <2>2, <2>3
  <1>3. ASSUME NEW d PROVE ReadDefault(Dump, d) = IF default.cmd = UNKNOWN THEN d ELSE default
    <2> DEFINE A == Defaults(Dump)
    <2>1. A \in SUBSET DOMAIN Dump /\ \A j \in A : Dump[j].kind = "default"
      BY DEF Defaults
    <2>2. \A j \in A : /\ j = size + 1 /\ default.cmd # UNKNOWN
                       /\ Rule(Dump[j].cmd, Dump[j].count) = default
      BY <2>1, DumpSays
    <2>3. CASE default.cmd = UNKNOWN
      <3>1. A = {}
        BY <2>2, <2>3
      <3> QED BY <2>3, <3>1 DEF ReadDefault
    <2>4. CASE default.cmd # UNKNOWN
      <3>1. Dump[size+1].kind = "default" /\ size + 1 \in DOMAIN Dump
        BY <1>1, <2>4 DEF Written, DefaultLine
      <3>2. size + 1 \in A
        BY <3>1 DEF Defaults
      <3>3. Last(A) \in A
        BY <1>1, <2>1, <3>2, FirstAndLast
      <3>4. ReadDefault(Dump, d) = Rule(Dump[Last(A)].cmd, Dump[Last(A)].count)
        BY <3>2 DEF ReadDefault
      <3> HIDE DEF A
      <3> QED BY <2>2, <2>4, <3>3, <3>4
    <2> QED BY <2>3, <2>4
  <1> QED BY <1>2, <1>3
-----------------------------------------------------------------------------
(***************************************************************************)
(* What is promised, and what a restart makes of a file.                   *)
(***************************************************************************)
FirstDefault == Rule("greylist", 0)
ReadBack(lines) == [k \in Text |-> Recalled(Read(lines, k))]

LEMMA Promises ==
  /\ \A a, n : Promise(a, n, <<>>) = [k \in Text |-> RuleFor(a, n, k)]
  /\ \A a, lines : Promise(a, 0, lines) = ReadBack(lines)
  <1>1. Recalled(NoRule) = NoRule
    BY DEF Recalled, NoRule, Rule, Kept
  <1>2. ASSUME NEW a, NEW n PROVE Promise(a, n, <<>>) = [k \in Text |-> RuleFor(a, n, k)]
    BY <1>1, NoLines DEF Promise
  <1>3. ASSUME NEW a, NEW lines PROVE Promise(a, 0, lines) = ReadBack(lines)
    <2>1. \A k : CellsFor(a, 0, k) = {}
      BY DEF CellsFor
    <2> QED BY <2>1 DEF Promise, ReadBack, RuleFor
  <1> QED BY <1>2, <1>3

LEMMA ReadType ==
  ASSUME NEW lines \in Seq(Line)
  PROVE  /\ \A k : Read(lines, k) \in Abstract!Rule \cup {NoRule}
         /\ ReadDefault(lines, FirstDefault) \in Abstract!Rule
  <1>1. \A i \in DOMAIN lines : lines[i] \in Line
    OBVIOUS
  <1>2. ASSUME NEW k PROVE Read(lines, k) \in Abstract!Rule \cup {NoRule}
    <2> DEFINE A == About(lines, k)
    <2>1. A \in SUBSET DOMAIN lines /\ \A i \in A : lines[i].kind = "rule"
      BY DEF About
    <2>2. CASE A = {}
      BY <2>2 DEF Read
    <2>3. CASE A # {}
      <3>1. First(A) \in A
        BY <2>1, <2>3, FirstAndLast
      <3>2. lines[First(A)].cmd \in Words /\ lines[First(A)].count \in Nat
        BY <1>1, <2>1, <3>1 DEF Line
      <3> QED BY <2>3, <3>2 DEF Read, Rule, Abstract!Rule
    <2> QED BY <2>2, <2>3
  <1>3. ReadDefault(lines, FirstDefault) \in Abstract!Rule
    <2> DEFINE A == Defaults(lines)
    <2>1. A \in SUBSET DOMAIN lines /\ \A i \in A : lines[i].kind = "default"
      BY DEF Defaults
    <2>2. CASE A = {}
      BY <2>2, VerdictAssumption DEF ReadDefault, FirstDefault, Rule, Abstract!Rule
    <2>3. CASE A # {}
      <3>1. Last(A) \in A
        BY <2>1, <2>3, FirstAndLast
      <3>2. lines[Last(A)].cmd \in Words /\ lines[Last(A)].count \in Nat
        BY <1>1, <2>1, <3>1 DEF Line
      <3> QED BY <2>3, <3>2 DEF ReadDefault, Rule, Abstract!Rule
    <2> QED BY <2>2, <2>3
  <1> QED BY <1>2, <1>3

LEMMA SameRecall ==
  ASSUME NEW r \in Abstract!Rule \cup {NoRule}
  PROVE  Abstract!Recalled(r) = Recalled(r)
  <1>1. r = [cmd |-> r.cmd, count |-> r.count]
    BY DEF Abstract!Rule, NoRule, Rule
  <1> QED BY <1>1, CountsAssumption DEF Recalled, Abstract!Recalled, Kept, Rule

LEMMA ContentsRecalled ==
  ASSUME NEW lines \in Seq(Line)
  PROVE  /\ Contents(lines) \in Abstract!Table
         /\ ReadBack(lines) = [k \in Text |-> Abstract!Recalled(Contents(lines).rules[k])]
         /\ DefaultAfter(lines, FirstDefault) = Abstract!Recalled(Contents(lines).default)
  <1>1. Abstract!NoRule = NoRule
    BY DEF Abstract!NoRule, NoRule, Rule, NONE, Abstract!NONE
  <1>2. Contents(lines) \in Abstract!Table
    <2>1. [k \in Text |-> Read(lines, k)] \in [Text -> Abstract!Rule \cup {NoRule}]
      BY ReadType
    <2> QED BY <1>1, <2>1, ReadType DEF Contents, Abstract!Table, FirstDefault
  <1>3. \A k \in Text : Contents(lines).rules[k] = Read(lines, k)
    BY DEF Contents
  <1>4. Contents(lines).default = ReadDefault(lines, FirstDefault)
    BY DEF Contents, FirstDefault
  <1>5. ReadBack(lines) = [k \in Text |-> Abstract!Recalled(Contents(lines).rules[k])]
    <2>1. \A k \in Text : Recalled(Read(lines, k)) = Abstract!Recalled(Contents(lines).rules[k])
      BY <1>3, ReadType, SameRecall
    <2> QED BY <2>1 DEF ReadBack
  <1>6. DefaultAfter(lines, FirstDefault) = Recalled(ReadDefault(lines, FirstDefault))
    BY DEF DefaultAfter, ReadDefault, FirstDefault, Recalled, Rule, Kept
  <1>7. DefaultAfter(lines, FirstDefault) = Abstract!Recalled(Contents(lines).default)
    BY <1>4, <1>6, ReadType, SameRecall
  <1> QED BY <1>2, <1>5, <1>7

(***************************************************************************)
(* Between a stop and the end of the loading, what is promised is what the *)
(* file says.                                                              *)
(***************************************************************************)
Faithful ==
  /\ status = "up" => todo = <<>>
  /\ status = "down" => size = 0 /\ default = FirstDefault
  /\ status # "up" => Promised = ReadBack(file.lines) /\ PromisedDefault = DefaultAfter(file.lines, FirstDefault)

Stands == UNCHANGED <<Promised, PromisedDefault, Saved, file.whole, status = "up">>

LEMMA InitFaithful == Init => Faithful /\ Abstract!Init
  <1> SUFFICES ASSUME Init PROVE Faithful /\ Abstract!Init
    OBVIOUS
  <1>0. PICK lines \in Files : file = Whole(lines) /\ todo = lines
    BY DEF Init
  <1>1. /\ file.lines \in Seq(Line) /\ file.whole = TRUE /\ Rest = file.lines /\ size = 0
        /\ default = FirstDefault
    BY <1>0, FilesAssumption DEF Init, Whole, Rest, FirstDefault
  <1>2. Promised = ReadBack(file.lines) /\ PromisedDefault = DefaultAfter(file.lines, FirstDefault)
    BY <1>1, Promises DEF Promised, PromisedDefault
  <1>3. Faithful
    BY <1>2 DEF Init, Faithful
  <1>4. ~ (status = "up")
    BY DEF Init
  <1>5. Abstract!Init
    BY <1>1, <1>2, <1>4, ContentsRecalled DEF Abstract!Init, Saved
  <1> QED BY <1>3, <1>5
-----------------------------------------------------------------------------
(***************************************************************************)
(* Reading a line changes nothing of what is promised.                     *)
(***************************************************************************)
LEMMA LoadStands ==
  ASSUME Faithful, status = "loading", status' = "loading", UNCHANGED file,
         Promised' = Promised, PromisedDefault' = PromisedDefault
  PROVE  Faithful' /\ Stands
  <1>1. Faithful'
    BY DEF Faithful
  <1>2. (status' = "up") = (status = "up")
    OBVIOUS
  <1> QED BY <1>1, <1>2 DEF Stands, Saved

LEMMA LoadSteps ==
  ASSUME IInv, IInv', Faithful, LoadDefault \/ LoadNew \/ LoadKnown \/ LoadShort \/ LoadSkipped
  PROVE  Faithful' /\ Stands
  <1> DEFINE h == Head(todo)
  <1>1. /\ todo \in Seq(Line) /\ todo # <<>> /\ h \in Line /\ todo' = Tail(todo)
        /\ status = "loading" /\ status' = "loading" /\ UNCHANGED file
    BY LineRead DEF IInv, TypeOK, LoadDefault, LoadNew, LoadKnown, LoadShort, LoadSkipped, Reading, NextLine
  <1>2. Rest = todo /\ Rest' = Tail(todo)
    BY <1>1 DEF Rest
  <1>3. CASE LoadDefault \/ LoadShort \/ LoadSkipped
    <2>1. h.kind # "rule" /\ UNCHANGED <<array, size>>
      BY <1>3 DEF LoadDefault, LoadShort, LoadSkipped, Reading, list
    <2>2. \A k : Read(todo, k) = Read(Tail(todo), k)
      BY <1>1, <2>1, ReadTail
    <2>3. Promised' = Promised
      BY <1>2, <2>1, <2>2 DEF Promised, Promise
    <2>4. PromisedDefault' = PromisedDefault
      <3>1. CASE LoadDefault
        BY <1>1, <1>2, <3>1, DefaultTail DEF LoadDefault, Reading, PromisedDefault
      <3>2. CASE LoadShort \/ LoadSkipped
        BY <1>1, <1>2, <3>2, DefaultTail DEF LoadShort, LoadSkipped, Reading, list, PromisedDefault
      <3> QED BY <1>3, <3>1, <3>2
    <2> QED BY <1>1, <2>3, <2>4, LoadStands
  <1>4. CASE LoadNew \/ LoadKnown
    <2>1. h.kind = "rule" /\ UNCHANGED default
      BY <1>4 DEF LoadNew, LoadKnown, Reading, list
    <2>2. PromisedDefault' = PromisedDefault
      BY <1>1, <1>2, <2>1, DefaultTail DEF PromisedDefault
    <2>3. /\ Read(todo, h.text) = Rule(h.cmd, h.count)
          /\ \A k : k # h.text => Read(todo, k) = Read(Tail(todo), k)
      BY <1>1, <2>1, ReadTail
    <2>4. CASE LoadNew
      <3> DEFINE e == [text |-> h.text, cmd |-> h.cmd, count |-> Kept(h.count)]
      <3>1. Stored(e) /\ Rule(e.cmd, e.count) # NoRule /\ e.text = h.text
        BY <1>1, <2>1, KeptType, VerdictAssumption DEF Stored, Entry, Line, Rule, NoRule
      <3>2. PICK i \in 0 .. size : MissingAt(TextAt, size, e.text, i) /\ AddEntry(i, e)
        BY <2>4 DEF LoadNew
      <3>3. Rule(e.cmd, e.count) = Recalled(Rule(h.cmd, h.count))
        BY DEF Recalled, Rule
      <3> HIDE DEF e
      <3>4. /\ RuleFor(array, size, h.text) = NoRule
            /\ RuleFor(array', size', h.text) = Recalled(Rule(h.cmd, h.count))
            /\ Recalled(Rule(h.cmd, h.count)) # NoRule
            /\ OthersKeep(array, size, array', size', h.text)
        BY <3>1, <3>2, <3>3, AddRules
      <3>5. Promised' = Promised
        BY <1>2, <2>3, <3>4 DEF Promised, Promise, OthersKeep
      <3> QED BY <1>1, <2>2, <3>5, LoadStands
    <2>5. CASE LoadKnown
      <3>1. PICK i \in 0 .. size-1 : FoundAt(TextAt, size, h.text, i)
        BY <2>5 DEF LoadKnown
      <3>2. array[i].text = h.text /\ array[i] \in Entries(array, size)
        BY <3>1, CellEntry, StoredRules DEF FoundAt, TextAt, IInv, TypeOK
      <3>3. RuleFor(array, size, h.text) # NoRule
        BY <3>2, StoredRules, ListIsProper, RuleForEntry
      <3>4. UNCHANGED <<array, size>>
        BY <2>5 DEF LoadKnown, list
      <3>5. Promised' = Promised
        BY <1>2, <2>3, <3>3, <3>4 DEF Promised, Promise
      <3> QED BY <1>1, <2>2, <3>5, LoadStands
    <2> QED BY <1>4, <2>4, <2>5
  <1> QED BY <1>3, <1>4
-----------------------------------------------------------------------------
(***************************************************************************)
(* While gld serves, what is promised is what the cells say.               *)
(***************************************************************************)
Rules(a, n) == [k \in Text |-> RuleFor(a, n, k)]

LEMMA UpNow ==
  ASSUME Faithful, status = "up"
  PROVE  Promised = Rules(array, size) /\ PromisedDefault = default
  BY Promises, NoLines DEF Faithful, Rest, Promised, PromisedDefault, Rules

LEMMA UpNext ==
  ASSUME status' = "up", todo' = <<>>
  PROVE  Promised' = Rules(array', size') /\ PromisedDefault' = default' /\ Faithful'
  <1>1. Rest' = <<>>
    BY DEF Rest
  <1>2. Promised' = Rules(array', size') /\ PromisedDefault' = default'
    BY <1>1, Promises, NoLines DEF Promised, PromisedDefault, Rules
  <1> QED BY <1>2 DEF Faithful

(* one cell, or the default, has changed *)
LEMMA UpStep ==
  ASSUME Faithful, status = "up", UNCHANGED <<file, todo, status>>
  PROVE  /\ Faithful' /\ Saved' = Saved /\ file'.whole = file.whole /\ (status = "up") /\ (status' = "up")
         /\ Promised = Rules(array, size) /\ PromisedDefault = default
         /\ Promised' = Rules(array', size') /\ PromisedDefault' = default'
  <1>1. todo' = <<>>
    BY DEF Faithful
  <1> QED BY <1>1, UpNow, UpNext DEF Saved

LEMMA OneRule ==
  ASSUME NEW a, NEW n, NEW b, NEW m, NEW t \in Text, NEW r, RuleFor(b, m, t) = r,
         OthersKeep(a, n, b, m, t)
  PROVE  Rules(b, m) = [Rules(a, n) EXCEPT ![t] = r]
  BY DEF Rules, OthersKeep

LEMMA SameNames ==
  /\ Abstract!NoRule = NoRule
  /\ \A v : Abstract!New(v) = Rule(v, 0)
  /\ \A c, n : Abstract!Hit(Rule(c, n)) = Rule(c, n + 1)
  BY DEF Abstract!NoRule, NoRule, NONE, Abstract!NONE, Abstract!New, Abstract!Hit, Rule

LEMMA LookupFoundRefines ==
  ASSUME IInv, IInv', Faithful, NEW k \in Text, LookupFound(k)
  PROVE  Faithful' /\ Abstract!Ask(k)
  <1>1. PICK i \in 0 .. size-1 : FoundAt(TextAt, size, k, i) /\ array' = [array EXCEPT ![i].count = @ + 1]
    BY DEF LookupFound
  <1>2. array[i].text = k /\ array[i] \in Entry /\ array[i] \in Entries(array, size)
    BY <1>1, CellEntry, StoredRules DEF FoundAt, TextAt, IInv, TypeOK
  <1>3. status = "up" /\ UNCHANGED <<size, default, file, todo, status>>
    BY DEF LookupFound
  <1>4. /\ Faithful' /\ Saved' = Saved /\ file'.whole = file.whole /\ (status = "up") /\ (status' = "up")
        /\ Promised = Rules(array, size) /\ PromisedDefault = default
        /\ Promised' = Rules(array', size') /\ PromisedDefault' = default'
    BY <1>3, UpStep
  <1> DEFINE e == [array[i] EXCEPT !.count = array[i].count + 1]
  <1>5. /\ e.text = k /\ e.cmd = array[i].cmd /\ e.count = array[i].count + 1
        /\ CellBecomes(i, e, k)
    BY <1>1, <1>2, <1>3 DEF Entry, CellBecomes
  <1> HIDE DEF e
  <1>6. /\ RuleFor(array, size, k) = Rule(array[i].cmd, array[i].count)
        /\ RuleFor(array', size', k) = Rule(e.cmd, e.count)
        /\ OthersKeep(array, size, array', size', k)
    BY <1>2, <1>3, <1>5, CellRules
  <1>7. Rule(array[i].cmd, array[i].count) # NoRule
    BY <1>2, StoredRules
  <1>8. Promised[k] = Rule(array[i].cmd, array[i].count)
    BY <1>4, <1>6 DEF Rules
  <1>9. Promised' = [Promised EXCEPT ![k] = Rule(e.cmd, e.count)]
    BY <1>4, <1>6, OneRule
  <1>10. Rule(e.cmd, e.count) = Abstract!Hit(Promised[k])
    BY <1>5, <1>8, SameNames
  <1>11. Promised' = [Promised EXCEPT ![k] = Abstract!Hit(@)]
    BY <1>9, <1>10
  <1>12. Promised[k] # Abstract!NoRule
    BY <1>7, <1>8, SameNames
  <1>13. PromisedDefault' = PromisedDefault
    BY <1>3, <1>4
  <1> QED BY <1>4, <1>11, <1>12, <1>13 DEF Abstract!Ask

LEMMA MissingHasNoRule ==
  ASSUME IInv, NEW k \in Text, NEW i, MissingAt(TextAt, size, k, i)
  PROVE  RuleFor(array, size, k) = NoRule
  <1>1. \A j \in 0 .. size-1 : TextAt[j] = array[j].text /\ TextAt[j] \in Int
    BY CellEntry, EntryFields DEF IInv, TypeOK, TextAt
  <1>2. k \in Int /\ size \in Nat
    BY TextAssumption DEF IInv, TypeOK
  <1>3. \A j \in 0 .. size-1 : TextAt[j] # k
    BY <1>1, <1>2, MissingMeansAbsent DEF IInv, Sorted
  <1>4. \A e \in Entries(array, size) : e.text # k
    BY <1>1, <1>3 DEF Entries
  <1> QED BY <1>4, ListIsProper, RuleForEntry

LEMMA LookupDefaultRefines ==
  ASSUME IInv, Faithful, NEW k \in Text, LookupDefault(k)
  PROVE  Faithful' /\ Abstract!Ask(k)
  <1>1. PICK i \in 0 .. size : MissingAt(TextAt, size, k, i)
    BY DEF LookupDefault
  <1>2. status = "up" /\ UNCHANGED <<array, size, file, todo, status>>
    BY DEF LookupDefault
  <1>3. /\ Faithful' /\ Saved' = Saved /\ file'.whole = file.whole /\ (status = "up") /\ (status' = "up")
        /\ Promised = Rules(array, size) /\ PromisedDefault = default
        /\ Promised' = Rules(array', size') /\ PromisedDefault' = default'
    BY <1>2, UpStep
  <1>4. Promised[k] = Abstract!NoRule
    BY <1>1, <1>3, MissingHasNoRule, SameNames DEF Rules
  <1>5. Promised' = Promised
    BY <1>2, <1>3
  <1>6. PromisedDefault' = Abstract!Hit(PromisedDefault)
    BY <1>3 DEF LookupDefault, Abstract!Hit
  <1> QED BY <1>3, <1>4, <1>5, <1>6 DEF Abstract!Ask

LEMMA SetDefaultRefines ==
  ASSUME Faithful, NEW v \in Verdicts, SetDefault(v)
  PROVE  Faithful' /\ Abstract!SetDefault(v)
  <1>1. status = "up" /\ UNCHANGED <<array, size, file, todo, status>> /\ default' = Rule(v, 0)
    BY DEF SetDefault, Changing
  <1>2. /\ Faithful' /\ Saved' = Saved /\ file'.whole = file.whole /\ (status = "up") /\ (status' = "up")
        /\ Promised = Rules(array, size) /\ PromisedDefault = default
        /\ Promised' = Rules(array', size') /\ PromisedDefault' = default'
    BY <1>1, UpStep
  <1>3. Promised' = Promised /\ PromisedDefault' = Abstract!New(v)
    BY <1>1, <1>2, SameNames
  <1> QED BY <1>2, <1>3 DEF Abstract!SetDefault

LEMMA SetNewRefines ==
  ASSUME IInv, IInv', Faithful, NEW k \in Text, NEW v \in Verdicts, SetNew(k, v)
  PROVE  Faithful' /\ Abstract!Set(k, v)
  <1> DEFINE e == [text |-> k, cmd |-> v, count |-> 0]
  <1>1. Stored(e) /\ e.text = k /\ Rule(e.cmd, e.count) = Rule(v, 0)
    BY VerdictAssumption DEF Stored, Entry
  <1>2. PICK i \in 0 .. size : MissingAt(TextAt, size, e.text, i) /\ AddEntry(i, e)
    BY DEF SetNew
  <1> HIDE DEF e
  <1>3. /\ RuleFor(array', size', k) = Rule(v, 0)
        /\ OthersKeep(array, size, array', size', k)
    BY <1>1, <1>2, AddRules
  <1>4. status = "up" /\ UNCHANGED <<default, file, todo, status>>
    BY DEF SetNew, Changing
  <1>5. /\ Faithful' /\ Saved' = Saved /\ file'.whole = file.whole /\ (status = "up") /\ (status' = "up")
        /\ Promised = Rules(array, size) /\ PromisedDefault = default
        /\ Promised' = Rules(array', size') /\ PromisedDefault' = default'
    BY <1>4, UpStep
  <1>6. Promised' = [Promised EXCEPT ![k] = Abstract!New(v)]
    BY <1>3, <1>5, OneRule, SameNames
  <1>7. PromisedDefault' = PromisedDefault
    BY <1>4, <1>5
  <1> QED BY <1>5, <1>6, <1>7 DEF Abstract!Set

LEMMA SetKnownRefines ==
  ASSUME IInv, IInv', Faithful, NEW k \in Text, NEW v \in Verdicts, SetKnown(k, v)
  PROVE  Faithful' /\ Abstract!Set(k, v)
  <1>1. PICK i \in 0 .. size-1 : FoundAt(TextAt, size, k, i) /\ array' = [array EXCEPT ![i].cmd = v, ![i].count = 0]
    BY DEF SetKnown
  <1>2. array[i].text = k /\ array[i] \in Entry /\ i \in 0 .. maxsize-1 /\ array \in [0 .. maxsize-1 -> Entry]
    BY <1>1, CellEntry DEF FoundAt, TextAt, IInv, TypeOK
  <1> DEFINE e == [array[i] EXCEPT !.cmd = v, !.count = 0]
  <1>3. e.text = k /\ Rule(e.cmd, e.count) = Rule(v, 0)
    BY <1>2 DEF Entry, Rule
  <1>4. status = "up" /\ UNCHANGED <<size, default, file, todo, status>>
    BY DEF SetKnown, Changing
  <1>5. CellBecomes(i, e, k)
    BY <1>1, <1>2, <1>3, <1>4 DEF CellBecomes
  <1> HIDE DEF e
  <1>6. /\ RuleFor(array', size', k) = Rule(v, 0)
        /\ OthersKeep(array, size, array', size', k)
    BY <1>3, <1>5, CellRules
  <1>7. /\ Faithful' /\ Saved' = Saved /\ file'.whole = file.whole /\ (status = "up") /\ (status' = "up")
        /\ Promised = Rules(array, size) /\ PromisedDefault = default
        /\ Promised' = Rules(array', size') /\ PromisedDefault' = default'
    BY <1>4, UpStep
  <1>8. Promised' = [Promised EXCEPT ![k] = Abstract!New(v)]
    BY <1>6, <1>7, OneRule, SameNames
  <1>9. PromisedDefault' = PromisedDefault
    BY <1>4, <1>7
  <1> QED BY <1>7, <1>8, <1>9 DEF Abstract!Set

LEMMA RemoveRefines ==
  ASSUME IInv, IInv', Faithful, NEW k \in Text, RemoveKnown(k)
  PROVE  Faithful' /\ Abstract!Remove(k)
  <1>1. PICK i \in 0 .. size-1 : FoundAt(TextAt, size, k, i) /\ RemoveEntry(i)
    BY DEF RemoveKnown
  <1>2. k = array[i].text
    BY <1>1, CellEntry DEF FoundAt, TextAt, IInv, TypeOK
  <1>3. /\ RuleFor(array', size', k) = NoRule
        /\ OthersKeep(array, size, array', size', k)
    BY <1>1, <1>2, RemoveRules
  <1>4. status = "up" /\ UNCHANGED <<default, file, todo, status>>
    BY DEF RemoveKnown, Changing
  <1>5. /\ Faithful' /\ Saved' = Saved /\ file'.whole = file.whole /\ (status = "up") /\ (status' = "up")
        /\ Promised = Rules(array, size) /\ PromisedDefault = default
        /\ Promised' = Rules(array', size') /\ PromisedDefault' = default'
    BY <1>4, UpStep
  <1>6. Promised' = [Promised EXCEPT ![k] = Abstract!NoRule]
    BY <1>3, <1>5, OneRule, SameNames
  <1>7. PromisedDefault' = PromisedDefault
    BY <1>4, <1>5
  <1> QED BY <1>5, <1>6, <1>7 DEF Abstract!Remove

LEMMA IgnoredStands ==
  ASSUME Faithful, RemoveIgnored
  PROVE  Faithful' /\ Stands
  <1>1. status = "up" /\ UNCHANGED <<array, size, default, file, todo, status>>
    BY DEF RemoveIgnored, Changing, list
  <1>2. /\ Faithful' /\ Saved' = Saved /\ file'.whole = file.whole /\ (status = "up") /\ (status' = "up")
        /\ Promised' = Promised /\ PromisedDefault' = PromisedDefault
    BY <1>1, UpStep
  <1>3. (status' = "up") = (status = "up")
    BY <1>1
  <1> QED BY <1>2, <1>3 DEF Stands
-----------------------------------------------------------------------------
(***************************************************************************)
(* Saving, stopping and starting                                           *)
(***************************************************************************)
LEMMA DumpKeeps ==
  ASSUME IInv, Faithful, status = "up"
  PROVE  Contents(Dump) = Abstract!Snapshot /\ Whole(Dump) \in FileOf(Line)
  <1>1. Promised = Rules(array, size) /\ PromisedDefault = default
    BY UpNow
  <1>2. [k \in Text |-> Read(Dump, k)] = [k \in Text |-> Abstract!Lasting(Promised[k])]
    <2>1. \A k \in Text : Read(Dump, k) = Abstract!Lasting(Promised[k])
      BY <1>1, DumpReadsBack DEF Lasting, Rules
    <2> QED BY <2>1
  <1>3. ReadDefault(Dump, FirstDefault) =
          IF PromisedDefault.cmd = Abstract!UNKNOWN THEN Abstract!New("greylist") ELSE PromisedDefault
    BY <1>1, DumpReadsBack, SameNames DEF Abstract!UNKNOWN, UNKNOWN, FirstDefault
  <1> QED BY <1>2, <1>3, DumpIsFile DEF Contents, Abstract!Snapshot, FirstDefault

(* a torn rule carries what some rule, or the default, carried *)
LEMMA TornRule ==
  ASSUME IInv, NEW l \in Torn, l.kind = "rule"
  PROVE  Rule(l.cmd, l.count) \in {Lasting(k) : k \in Text} \cup {default}
  <1>1. PICK i \in DOMAIN Dump : /\ Dump[i].kind \in {"rule", "default"}
                                 /\ l.cmd = Dump[i].cmd /\ l.count = Dump[i].count
    BY TornIsLine
  <1>2. Rule(l.cmd, l.count) = Rule(Dump[i].cmd, Dump[i].count)
    BY <1>1
  <1>3. CASE Dump[i].kind = "default"
    BY <1>1, <1>2, <1>3, DumpSays
  <1>4. CASE Dump[i].kind = "rule"
    <2>1. /\ Dump[i].text \in Text /\ Dump[i].cmd # UNKNOWN
          /\ Rule(Dump[i].cmd, Dump[i].count) = RuleFor(array, size, Dump[i].text)
      BY <1>1, <1>4, DumpSays
    <2>2. RuleFor(array, size, Dump[i].text).cmd # UNKNOWN
      BY <2>1 DEF Rule
    <2>3. Rule(Dump[i].cmd, Dump[i].count) = Lasting(Dump[i].text)
      BY <2>1, <2>2 DEF Lasting, Abstract!Lasting, Abstract!UNKNOWN, UNKNOWN
    <2> QED BY <1>2, <2>1, <2>3
  <1> QED BY <1>1, <1>3, <1>4

(* what is read back of a save that was cut off *)
LEMMA PartKeeps ==
  ASSUME IInv, Faithful, status = "up", NEW lines, NEW n, PartOfDump(lines, n)
  PROVE  Contents(lines) \in Abstract!Remains
  <1> DEFINE t == Contents(lines)
             s == Abstract!Snapshot
  <1>1. t \in Abstract!Table
    BY ContentsRecalled DEF PartOfDump
  <1>2. CASE lines = Dump
    BY <1>1, <1>2, DumpKeeps DEF Abstract!Remains
  <1>3. CASE lines # Dump
    <2>1. /\ \A k \in Text : t.rules[k] = Read(lines, k) /\ s.rules[k] = Lasting(k)
          /\ PromisedDefault = default
      BY UpNow DEF Contents, Abstract!Snapshot, Lasting, Rules
    <2>2. t.default = Abstract!New("greylist")
      BY <1>3, PartDefault, SameNames DEF Contents, FirstDefault
    <2>3. ASSUME NEW k \in Abstract!Strange(t, s)
          PROVE  /\ k \in Text /\ k = lines[n].text
                 /\ t.rules[k] \in {s.rules[j] : j \in Text} \cup {default}
      <3>1. k \in Text /\ Read(lines, k) \notin {Lasting(k), NoRule}
        BY <2>1, SameNames DEF Abstract!Strange
      <3>2. /\ lines[n] \in Torn /\ lines[n].kind = "rule" /\ lines[n].text = k
            /\ Read(lines, k) = Rule(lines[n].cmd, lines[n].count)
        BY <3>1, PartSays
      <3>3. Read(lines, k) \in {Lasting(j) : j \in Text} \cup {default}
        BY <3>2, TornRule
      <3>4. {Lasting(j) : j \in Text} \subseteq {s.rules[j] : j \in Text}
        BY <2>1
      <3>5. t.rules[k] = Read(lines, k)
        BY <2>1, <3>1
      <3> HIDE DEF s, t
      <3> QED BY <3>1, <3>2, <3>3, <3>4, <3>5
    <2> HIDE DEF s, t
    <2>4. \A j, k \in Abstract!Strange(t, s) : j = k
      BY <2>3
    <2>5. \A k \in Abstract!Strange(t, s) : t.rules[k] \in {s.rules[j] : j \in Text} \cup {PromisedDefault}
      BY <2>1, <2>3
    <2> QED BY <1>1, <2>2, <2>4, <2>5 DEF Abstract!Remains, s, t
  <1> QED BY <1>2, <1>3

LEMMA SaveRefines ==
  ASSUME IInv, Faithful, SaveState \/ SaveCut
  PROVE  Faithful' /\ (Abstract!Save \/ Abstract!SaveCut)
  <1>1. /\ status = "up" /\ status' = "up" /\ UNCHANGED <<array, size, default, todo>>
        /\ todo' = <<>>
    BY DEF SaveState, SaveCut, list, Faithful
  <1>2. Faithful' /\ Promised' = Promised /\ PromisedDefault' = PromisedDefault
    BY <1>1, UpNow, UpNext
  <1>3. (status' = "up") = (status = "up")
    BY <1>1
  <1>4. CASE SaveState
    <2>1. file'.lines = Dump /\ file'.whole = TRUE
      BY <1>4 DEF SaveState, Whole
    <2>2. Saved' = Abstract!Snapshot
      BY <1>1, <2>1, DumpKeeps DEF Saved
    <2> QED BY <1>1, <1>2, <1>3, <2>1, <2>2 DEF Abstract!Save
  <1>5. CASE SaveCut
    <2>1. file'.whole = FALSE /\ \E n \in 0 .. size+1 : PartOfDump(file'.lines, n)
      BY <1>5, CutDump DEF SaveCut, PartOfDump, FileOf
    <2>2. Saved' \in Abstract!Remains
      BY <1>1, <2>1, PartKeeps DEF Saved
    <2> QED BY <1>1, <1>2, <1>3, <2>1, <2>2 DEF Abstract!SaveCut
  <1> QED BY <1>4, <1>5

LEMMA GoneKeeps ==
  ASSUME Gone
  PROVE  /\ status' = "down" /\ Faithful'
         /\ Promised' = ReadBack(file'.lines) /\ PromisedDefault' = DefaultAfter(file'.lines, FirstDefault)
  <1>1. status' = "down" /\ size' = 0 /\ default' = FirstDefault /\ Rest' = file'.lines
    BY DEF Gone, FirstDefault, Rest
  <1>2. Promised' = ReadBack(file'.lines) /\ PromisedDefault' = DefaultAfter(file'.lines, FirstDefault)
    BY <1>1, Promises DEF Promised, PromisedDefault
  <1> QED BY <1>1, <1>2 DEF Faithful

LEMMA StopRefines ==
  ASSUME IInv, Faithful, status = "up", Gone, file' = file \/ file' = Whole(Dump)
  PROVE  Faithful' /\ Abstract!Stop
  <1>1. /\ status' = "down" /\ Faithful'
        /\ Promised' = ReadBack(file'.lines) /\ PromisedDefault' = DefaultAfter(file'.lines, FirstDefault)
    BY GoneKeeps
  <1>2. file'.lines \in Seq(Line)
    <2>1. file' \in FileOf(Line)
      BY DumpKeeps DEF IInv, TypeOK
    <2> QED BY <2>1 DEF FileOf
  <1>3. Abstract!Recall(Saved')
    BY <1>1, <1>2, ContentsRecalled DEF Abstract!Recall, Saved
  <1>4. UNCHANGED <<Saved, file.whole>> \/ (Saved' = Abstract!Snapshot /\ file'.whole = TRUE)
    BY DumpKeeps DEF Saved, Whole
  <1>5. status = "up" /\ ~ (status' = "up")
    BY <1>1
  <1> QED BY <1>1, <1>3, <1>4, <1>5 DEF Abstract!Stop, Abstract!Recall

LEMMA DownRefines ==
  ASSUME IInv, Faithful, Terminate \/ Crash \/ Aborts
  PROVE  Faithful' /\ (Abstract!Stop \/ Stands)
  <1>1. Gone /\ (file' = file \/ file' = Whole(Dump)) /\ status \in {"up", "loading"}
    BY DEF Terminate, Crash, Aborts, IInv, TypeOK
  <1>2. CASE status = "up"
    BY <1>1, <1>2, StopRefines
  <1>3. CASE status = "loading"
    <2>1. file' = file
      BY <1>3 DEF Terminate, Crash, Aborts
    <2>2. /\ status' = "down" /\ Faithful'
          /\ Promised' = ReadBack(file'.lines) /\ PromisedDefault' = DefaultAfter(file'.lines, FirstDefault)
      BY <1>1, GoneKeeps
    <2>3. Promised' = Promised /\ PromisedDefault' = PromisedDefault
      BY <1>3, <2>1, <2>2 DEF Faithful
    <2>4. (status' = "up") = (status = "up")
      BY <1>3, <2>2
    <2> QED BY <2>1, <2>2, <2>3, <2>4 DEF Stands, Saved
  <1> QED BY <1>1, <1>2, <1>3

LEMMA StartStands ==
  ASSUME Faithful, Start
  PROVE  Faithful' /\ Stands
  <1>1. /\ status = "down" /\ status' = "loading" /\ todo' = file.lines /\ UNCHANGED <<array, size, default, file>>
    BY DEF Start, list
  <1>2. Rest' = Rest
    BY <1>1 DEF Rest
  <1>3. Promised' = Promised /\ PromisedDefault' = PromisedDefault
    BY <1>1, <1>2 DEF Promised, PromisedDefault
  <1>4. (status' = "up") = (status = "up")
    BY <1>1
  <1> QED BY <1>1, <1>3, <1>4 DEF Faithful, Stands, Saved

LEMMA LoadDoneRefines ==
  ASSUME Faithful, LoadDone
  PROVE  Faithful' /\ Abstract!Restart
  <1>1. /\ status = "loading" /\ status' = "up" /\ todo = <<>>
        /\ UNCHANGED <<array, size, default, file, todo>>
    BY DEF LoadDone, list
  <1>2. Rest' = Rest
    BY <1>1 DEF Rest
  <1>3. Promised' = Promised /\ PromisedDefault' = PromisedDefault /\ Saved' = Saved
    BY <1>1, <1>2 DEF Promised, PromisedDefault, Saved
  <1>4. Faithful'
    BY <1>1, UpNext
  <1>5. ~ (status = "up") /\ (status' = "up")
    BY <1>1
  <1> QED BY <1>1, <1>3, <1>4, <1>5 DEF Abstract!Restart
-----------------------------------------------------------------------------
LEMMA StepRefines ==
  ASSUME IInv, IInv', Faithful, [Next]_vars
  PROVE  Faithful' /\ [Abstract!Next]_(Abstract!rvars)
  <1>0. Stands => UNCHANGED Abstract!rvars
    BY DEF Stands, Abstract!rvars
  <1>1. CASE UNCHANGED vars
    <2>1. Faithful'
      BY <1>1 DEF vars, Faithful, Promised, PromisedDefault, Rest
    <2>2. Stands
      BY <1>1 DEF vars, Stands, Promised, PromisedDefault, Rest, Saved
    <2> QED BY <1>0, <2>1, <2>2
  <1>2. CASE LoadDefault \/ LoadNew \/ LoadKnown \/ LoadShort \/ LoadSkipped
    BY <1>0, <1>2, LoadSteps
  <1>3. CASE LoadDone
    BY <1>3, LoadDoneRefines DEF Abstract!Next
  <1>4. ASSUME NEW k \in Text, LookupFound(k) \/ LookupDefault(k) PROVE Faithful' /\ Abstract!Next
    BY <1>4, LookupFoundRefines, LookupDefaultRefines DEF Abstract!Next
  <1>5. ASSUME NEW k \in Text, RemoveKnown(k) PROVE Faithful' /\ Abstract!Next
    BY <1>5, RemoveRefines DEF Abstract!Next
  <1>6. ASSUME NEW k \in Text, NEW v \in Verdicts, SetNew(k, v) \/ SetKnown(k, v)
        PROVE  Faithful' /\ Abstract!Next
    BY <1>6, SetNewRefines, SetKnownRefines DEF Abstract!Next
  <1>7. ASSUME NEW v \in Verdicts, SetDefault(v) PROVE Faithful' /\ Abstract!Next
    BY <1>7, SetDefaultRefines DEF Abstract!Next
  <1>8. CASE RemoveIgnored \/ Start
    BY <1>0, <1>8, IgnoredStands, StartStands
  <1>9. CASE SaveState \/ SaveCut
    BY <1>9, SaveRefines DEF Abstract!Next
  <1>10. CASE Terminate \/ Crash \/ Aborts
    BY <1>0, <1>10, DownRefines DEF Abstract!Next
  <1> QED BY <1>1, <1>2, <1>3, <1>4, <1>5, <1>6, <1>7, <1>8, <1>9, <1>10 DEF Next

(***************************************************************************)
(* Whatever the file holds and however the array grows, shifts and is      *)
(* saved, a rule list is the map of RuleMap: one rule for a text, a        *)
(* default for the others, each counting its requests.  A restart brings   *)
(* back every rule that was saved whole, but for those whose verdict has   *)
(* no word; of a saving that was cut off, the rules before the cut.        *)
(***************************************************************************)
THEOREM Refinement == Spec => ImplementsRuleMap
  <1>1. Init => Faithful /\ Abstract!Init
    BY InitFaithful
  <1>2. IInv /\ IInv' /\ Faithful /\ [Next]_vars => Faithful' /\ [Abstract!Next]_(Abstract!rvars)
    BY StepRefines
  <1> QED BY <1>1, <1>2, Invariance, PTL DEF Spec, ImplementsRuleMap, Abstract!Spec
-----------------------------------------------------------------------------
(***************************************************************************)
(* bisearch(), for arrays of any length and any set of keys.  Its loop     *)
(* invariant: the window lies in the array, between a smaller and a larger *)
(* key.                                                                    *)
(***************************************************************************)
SearchInv == SearchTypeOK /\ WindowBounds /\ MeetsContract

LEMMA InitSearchInv == SearchInit => SearchInv
  BY MaxLenAssumption DEF SearchInit, SearchInv, SearchTypeOK, WindowBounds, MeetsContract

(* the pivot lies in the window, so reading it stays inside the array *)
LEMMA PivotInWindow ==
  ASSUME SearchTypeOK, len > 0
  PROVE  /\ half \in 0 .. len - 1
         /\ middle \in first .. first + len - 1
         /\ middle \in 0 .. nelem - 1
         /\ base[middle] \in Int
  <1>1. first \in Nat /\ len \in Nat /\ nelem \in Nat /\ MaxLen \in Nat
    BY MaxLenAssumption DEF SearchTypeOK
  <1>2. half \in 0 .. len - 1
    BY <1>1 DEF half
  <1>3. middle \in first .. first + len - 1
    BY <1>1, <1>2 DEF middle
  <1>4. first + len <= nelem /\ nelem <= MaxLen
    BY <1>1, MaxLenAssumption DEF SearchTypeOK
  <1>5. middle \in 0 .. nelem - 1 /\ middle \in 0 .. MaxLen - 1
    BY <1>1, <1>3, <1>4
  <1>6. base[middle] \in Int
    BY <1>5, KeyAssumption DEF SearchTypeOK
  <1> QED BY <1>2, <1>3, <1>5, <1>6

LEMMA StepSearchInv == SearchInv /\ [SearchNext]_searchVars => SearchInv'
  <1> SUFFICES ASSUME SearchInv, [SearchNext]_searchVars
               PROVE  SearchInv'
    OBVIOUS
  <1> USE MaxLenAssumption, KeyAssumption
  <1>t. /\ first \in Nat /\ len \in Nat /\ nelem \in Nat /\ MaxLen \in Nat
        /\ first + len <= nelem /\ nelem <= MaxLen /\ key \in Int
    BY DEF SearchInv, SearchTypeOK
  <1>1. CASE GoRight
    <2>1. middle \in first .. first + len - 1 /\ half \in 0 .. len - 1
      BY <1>1, PivotInWindow DEF GoRight, SearchInv
    <2>2. first' + len' = first + len /\ first' - 1 = middle
      BY <2>1, <1>1, <1>t DEF GoRight, middle
    <2>3. SearchTypeOK'
      BY <1>1, <2>1, <2>2, <1>t DEF GoRight, args, SearchInv, SearchTypeOK
    <2>4. WindowBounds'
      BY <1>1, <2>2 DEF GoRight, args, SearchInv, WindowBounds
    <2>5. MeetsContract'
      BY <1>1 DEF GoRight, args, MeetsContract
    <2> QED BY <2>3, <2>4, <2>5 DEF SearchInv
  <1>2. CASE GoLeft
    <2>1. middle \in first .. first + len - 1 /\ half \in 0 .. len - 1
      BY <1>2, PivotInWindow DEF GoLeft, SearchInv
    <2>2. first' + len' = middle /\ first' = first
      BY <1>2, <1>t DEF GoLeft, middle
    <2>3. SearchTypeOK'
      BY <1>2, <2>1, <2>2, <1>t DEF GoLeft, args, SearchInv, SearchTypeOK
    <2>4. WindowBounds'
      BY <1>2, <2>2 DEF GoLeft, args, SearchInv, WindowBounds
    <2>5. MeetsContract'
      BY <1>2 DEF GoLeft, args, MeetsContract
    <2> QED BY <2>3, <2>4, <2>5 DEF SearchInv
  <1>3. CASE Hit
    <2>1. middle \in 0 .. nelem - 1
      BY <1>3, PivotInWindow DEF Hit, SearchInv
    <2>2. SearchTypeOK' /\ WindowBounds'
      BY <1>3, <2>1, <1>t DEF Hit, args, SearchInv, SearchTypeOK, WindowBounds
    <2>3. MeetsContract'
      BY <1>3, <2>1 DEF Hit, args, MeetsContract, FoundAt
    <2> QED BY <2>2, <2>3 DEF SearchInv
  <1>4. CASE Miss
    <2>1. SearchTypeOK' /\ WindowBounds'
      BY <1>4, <1>t DEF Miss, args, SearchInv, SearchTypeOK, WindowBounds
    <2>2. MeetsContract'
      BY <1>4, <1>t DEF Miss, args, SearchInv, WindowBounds, MeetsContract, MissingAt
    <2> QED BY <2>1, <2>2 DEF SearchInv
  <1>5. CASE UNCHANGED searchVars
    BY <1>5 DEF searchVars, SearchInv, SearchTypeOK, WindowBounds, MeetsContract, FoundAt, MissingAt
  <1> QED BY <1>1, <1>2, <1>3, <1>4, <1>5 DEF SearchNext

(***************************************************************************)
(* Whatever array it is given, bisearch() returns either a cell that holds *)
(* the key or the cell between its neighbours (common/bisearch.c:42-71).   *)
(***************************************************************************)
THEOREM ContractHolds == SearchSpec => []MeetsContract
  <1>1. SearchInv => MeetsContract
    BY DEF SearchInv
  <1> QED BY InitSearchInv, StepSearchInv, <1>1, PTL DEF SearchSpec

(***************************************************************************)
(* On a sorted array bisearch() never misses a key that is there.          *)
(***************************************************************************)
THEOREM SearchIsExact == SearchSpec => []ExactWhenSorted
  <1>1. SearchInv => ExactWhenSorted
    <2> SUFFICES ASSUME SearchInv, StrictlySorted(base, nelem), pc = "missing"
                 PROVE  \A i \in 0 .. nelem-1 : base[i] # key
      BY DEF ExactWhenSorted
    <2>1. nelem \in Nat /\ key \in Int /\ \A j \in 0 .. nelem-1 : base[j] \in Int
      <3>1. nelem \in Nat /\ nelem <= MaxLen /\ key \in Int
        BY MaxLenAssumption, KeyAssumption DEF SearchInv, SearchTypeOK
      <3>2. base \in [0 .. MaxLen-1 -> Key]
        BY DEF SearchInv, SearchTypeOK
      <3>3. ASSUME NEW j \in 0 .. nelem-1 PROVE base[j] \in Int
        <4>1. j \in 0 .. MaxLen-1
          BY <3>1, MaxLenAssumption
        <4> QED BY <4>1, <3>2, KeyAssumption
      <3> QED BY <3>1, <3>3
    <2>2. MissingAt(base, nelem, key, result)
      BY DEF SearchInv, MeetsContract
    <2> QED BY <2>1, <2>2, MissingMeansAbsent
  <1> QED BY InitSearchInv, StepSearchInv, <1>1, PTL DEF SearchSpec

(***************************************************************************)
(* Why the loop of bisearch() ends: while it runs one of its three         *)
(* branches is taken, and each either reports or makes the window smaller. *)
(* So there are at most as many turns as cells, and one more.              *)
(***************************************************************************)
BranchTaken == pc = "loop" =>
  \/ len = 0
  \/ len > 0 /\ \/ key > base[middle]
                \/ key < base[middle]
                \/ key = base[middle]

TurnCounts == pc = "loop" => \/ len' \in Nat /\ len' < len
                             \/ pc' \in {"found", "missing"}

THEOREM EveryTurnCounts == SearchSpec => []BranchTaken /\ [][TurnCounts]_searchVars
  <1>1. SearchInv /\ [SearchNext]_searchVars => [TurnCounts]_searchVars
    <2> SUFFICES ASSUME SearchInv, SearchNext PROVE TurnCounts
      OBVIOUS
    <2>1. ASSUME len > 0 PROVE half \in 0 .. len - 1 /\ len \in Nat
      BY <2>1, MaxLenAssumption, PivotInWindow DEF SearchInv, SearchTypeOK
    <2>2. CASE GoRight
      BY <2>1, <2>2 DEF GoRight, TurnCounts
    <2>3. CASE GoLeft
      BY <2>1, <2>3 DEF GoLeft, TurnCounts
    <2>4. CASE Hit \/ Miss
      BY <2>4 DEF Hit, Miss, TurnCounts
    <2> QED BY <2>2, <2>3, <2>4 DEF SearchNext
  <1>2. SearchInv => BranchTaken
    <2> SUFFICES ASSUME SearchInv, pc = "loop" PROVE BranchTaken
      BY DEF BranchTaken
    <2>1. key \in Int /\ len \in Nat
      <3>1. first \in Nat /\ nelem \in Nat
        BY MaxLenAssumption DEF SearchInv, SearchTypeOK
      <3> QED BY <3>1, KeyAssumption DEF SearchInv, SearchTypeOK
    <2>2. len > 0 => base[middle] \in Int
      <3>1. SearchTypeOK
        BY DEF SearchInv
      <3> QED BY <3>1, PivotInWindow
    <2> DEFINE pivot == base[middle]
    <2>3. len > 0 => key > pivot \/ key < pivot \/ key = pivot
      <3>1. len > 0 => pivot \in Int
        BY <2>2
      <3> HIDE DEF pivot
      <3> QED BY <2>1, <3>1
    <2> QED BY <2>1, <2>3 DEF BranchTaken
  <1> QED BY <1>1, <1>2, InitSearchInv, StepSearchInv, PTL DEF SearchSpec
=============================================================================
