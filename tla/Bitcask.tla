------------------------------ MODULE Bitcask ------------------------------
(***************************************************************************)
(* The bitcask store (96. bitcask/db.c): an append-only log of records,    *)
(* and a hash table saved to, and loaded from, a text file.  One process   *)
(* runs at a time; it may be killed between any two system calls, and the  *)
(* next one starts from the files.                                         *)
(*                                                                         *)
(* Keys and values are short sequences of characters, so that lengths,     *)
(* positions and separators are those of the code.  The bytes of a header  *)
(* (checksum, time, lengths) are not told apart.                           *)
(***************************************************************************)
EXTENDS Integers, Sequences, FiniteSets, SequencesExt

CONSTANTS
    Keys, Values,  \* the keys and the values used
    MaxCask,       \* the largest cask number bitcask_open tries (100)
    HeaderSize,    \* bytes before the key in a record (20)
    ItemSize,      \* ITEM_SZ, the buffer for one line of text
    MaxAppends,    \* bound on the appends
    MaxSets,       \* bound on the changes of the table
    NULL

Separator == ":"
ItemEnd   == <<"\r", "\n">>

\* What the text format can hold: no separator in a key, no end of line
\* anywhere, and lines that fit the buffers of db_save and db_load.
ASSUME TextAssumption ==
    /\ ItemSize \in Nat
    /\ \A k \in Keys : Separator \notin Range(k)
    /\ \A s \in Keys \cup Values : Range(s) \cap Range(ItemEnd) = {}
    /\ \A k \in Keys, v \in Values : Len(k) + 1 + Len(v) + 2 < ItemSize

\* The bytes there can be in a cask file: a header's, and those of the keys and
\* values.
HeaderByte == "#"
CaskBytes  == {HeaderByte} \cup UNION {Range(s) : s \in Keys \cup Values}

ASSUME LogAssumption ==
    /\ MaxCask \in Nat /\ HeaderSize \in Nat
    /\ Keys \cup Values \subseteq Seq(CaskBytes)
    /\ NULL \notin Seq(CaskBytes)

VARIABLES
    cask,     \* the cask files by number, NULL where there is none
    active,   \* active_file_id
    pc,       \* "idle": no cask open; "open"; "append"; "save"
    rec,      \* the record being appended: its key and value
    written,  \* how much of it has been written
    value_pos,
    appends,
    ht,       \* the hash table, as a function on the keys it has
    text,     \* the file of db_save
    left,     \* keys db_save has still to write
    sets,
    index,    \* auxiliary: the values appended, with the positions returned
    saving,   \* auxiliary: the table the last db_save was given ...
    complete  \* ... and whether it was written to the end

logVars   == <<cask, active, rec, written, value_pos, appends, index>>
tableVars == <<ht, text, left, sets, saving, complete>>
caskVars  == <<pc, logVars, tableVars>>

Casks  == 0 .. MaxCask
Exists == {n \in Casks : cask[n] # NULL}
Empty  == [k \in {} |-> <<>>]

CaskInit ==
    /\ \E old \in SUBSET Casks :
          cask = [n \in Casks |-> IF n \in old THEN <<>> ELSE NULL]
    /\ pc = "idle" /\ active = 0 /\ rec = NULL /\ written = 0 /\ value_pos = 0
    /\ appends = 0 /\ index = {}
    /\ ht = Empty /\ text = <<>> /\ left = {} /\ sets = 0
    /\ saving = Empty /\ complete = FALSE

-----------------------------------------------------------------------------
(* The log                                                                 *)

\* bitcask_open goes down from the largest number to the first file it finds.
Newest(ns) == IF ns = {} THEN 0 ELSE CHOOSE n \in ns : \A m \in ns : m <= n

bitcask_open ==
    /\ pc = "idle"
    /\ active' = Newest(Exists)
    /\ cask' = [cask EXCEPT ![Newest(Exists)] = IF @ = NULL THEN <<>> ELSE @]
    /\ pc' = "open"
    /\ UNCHANGED <<rec, written, value_pos, appends, index, tableVars>>

Record(r) == [n \in 1 .. HeaderSize |-> HeaderByte] \o r.key \o r.value

\* The position of the value, without the four bytes of the checksum.
ValuePosShort(end, key) == end + HeaderSize - 1 + Len(key)

ValuePos(end, key) == end + HeaderSize + Len(key)

\* The position is computed from the end of the file, before the writes.
AppendStart(k, v) ==
    /\ pc = "open" /\ appends < MaxAppends
    /\ rec' = [key |-> k, value |-> v]
    /\ written' = 0
    /\ value_pos' = ValuePos(Len(cask[active]), k)
    /\ appends' = appends + 1
    /\ pc' = "append"
    /\ UNCHANGED <<cask, active, index, tableVars>>

\* write() takes some of what is left, and appends it (O_APPEND).
AppendWrite ==
    /\ pc = "append" /\ written < Len(Record(rec))
    /\ \E n \in 1 .. Len(Record(rec)) - written :
          /\ cask' = [cask EXCEPT ![active] = @ \o SubSeq(Record(rec), written + 1, written + n)]
          /\ written' = written + n
    /\ UNCHANGED <<pc, active, rec, value_pos, appends, index, tableVars>>

Return == pc' = "open" /\ rec' = NULL /\ written' = 0 /\ value_pos' = 0

\* write() fails: the record stays cut short in the file.
AppendFails ==
    /\ pc = "append" /\ written < Len(Record(rec))
    /\ Return
    /\ UNCHANGED <<cask, active, appends, index, tableVars>>

AppendDone ==
    /\ pc = "append" /\ written = Len(Record(rec))
    /\ index' = index \cup {[file |-> active, pos |-> value_pos, value |-> rec.value]}
    /\ Return
    /\ UNCHANGED <<cask, active, appends, tableVars>>

bitcask_close ==
    /\ pc = "open"
    /\ pc' = "idle"
    /\ UNCHANGED <<logVars, tableVars>>

-----------------------------------------------------------------------------
(* The hash table                                                          *)

Set(table, k, v) ==
    [x \in DOMAIN table \cup {k} |-> IF x = k THEN v ELSE table[x]]

ht_set(k, v) ==
    /\ pc = "idle" /\ sets < MaxSets
    /\ ht' = Set(ht, k, v)
    /\ sets' = sets + 1
    /\ UNCHANGED <<pc, logVars, text, left, saving, complete>>

\* One line of text, in the buffer that snprintf cuts it to.
FirstOf(s, n) == SubSeq(s, 1, Min({Len(s), n}))
ItemCut(k, v) == FirstOf(k \o <<Separator>> \o v \o ItemEnd, ItemSize - 2)
Item(k, v)    == FirstOf(k \o <<Separator>> \o v \o ItemEnd, ItemSize - 1)

\* db_save empties the file first (O_TRUNC) ...
SaveStart ==
    /\ pc = "idle"
    /\ text' = <<>>
    /\ left' = DOMAIN ht
    /\ saving' = ht /\ complete' = FALSE
    /\ pc' = "save"
    /\ UNCHANGED <<logVars, ht, sets>>

\* ... and writes the entries in the order of the buckets.
SaveItem(k) ==
    /\ pc = "save" /\ k \in left
    /\ text' = text \o Item(k, ht[k])
    /\ left' = left \ {k}
    /\ UNCHANGED <<pc, logVars, ht, sets, saving, complete>>

SaveDone ==
    /\ pc = "save" /\ left = {}
    /\ complete' = TRUE
    /\ pc' = "idle"
    /\ UNCHANGED <<logVars, ht, text, left, sets, saving>>

\* fgets: a line ends after "\n" or when the buffer is full.
ReadChar(acc, c) ==
    LET line == Append(acc.line, c)
    IN  IF c = "\n" \/ Len(line) = ItemSize - 1
        THEN [lines |-> Append(acc.lines, line), line |-> <<>>]
        ELSE [lines |-> acc.lines, line |-> line]

Reading(s) ==
    LET read[n \in 0 .. Len(s)] ==
            IF n = 0 THEN [lines |-> <<>>, line |-> <<>>] ELSE ReadChar(read[n - 1], s[n])
    IN  read

FileLines(s) ==
    LET end == Reading(s)[Len(s)]
    IN  IF end.line = <<>> THEN end.lines ELSE Append(end.lines, end.line)

\* The part of s before the first character of cs, as strcspn finds it.
Before(s, cs) == SelectInSeq(s, LAMBDA c : c \in cs)
Upto(s, n)    == IF n = 0 THEN s ELSE SubSeq(s, 1, n - 1)

\* The line split at its last separator.
LoadLineLast(table, line) ==
    LET item == Upto(line, Before(line, Range(ItemEnd)))
        sep  == SelectLastInSeq(item, LAMBDA c : c = Separator)
    IN  IF sep = 0 THEN table
        ELSE Set(table, SubSeq(item, 1, sep - 1), SubSeq(item, sep + 1, Len(item)))

\* A line without a separator is skipped; the first one ends the key.
LoadLine(table, line) ==
    LET item == Upto(line, Before(line, Range(ItemEnd)))
        sep  == Before(item, {Separator})
    IN  IF sep = 0 THEN table
        ELSE Set(table, SubSeq(item, 1, sep - 1), SubSeq(item, sep + 1, Len(item)))

\* The table after the first n lines.
Loading(table, lines) ==
    LET loaded[n \in 0 .. Len(lines)] ==
            IF n = 0 THEN table ELSE LoadLine(loaded[n - 1], lines[n])
    IN  loaded

Load(table, s) == LET lines == FileLines(s) IN Loading(table, lines)[Len(lines)]

db_load ==
    /\ pc = "idle"
    /\ ht' = Load(ht, text)
    /\ UNCHANGED <<pc, logVars, text, left, sets, saving, complete>>

-----------------------------------------------------------------------------
\* The process ends, or is killed; the next one has the files only.
Restart ==
    /\ pc' = "idle" /\ active' = 0 /\ rec' = NULL /\ written' = 0 /\ value_pos' = 0
    /\ ht' = Empty /\ left' = {}
    /\ UNCHANGED <<cask, appends, index, text, sets, saving, complete>>

CaskNext ==
    \/ bitcask_open \/ bitcask_close
    \/ \E k \in Keys, v \in Values : AppendStart(k, v) \/ ht_set(k, v)
    \/ AppendWrite \/ AppendFails \/ AppendDone
    \/ SaveStart \/ SaveDone \/ db_load
    \/ \E k \in Keys : SaveItem(k)
    \/ Restart

CaskSpec == CaskInit /\ [][CaskNext]_caskVars

-----------------------------------------------------------------------------
(* Properties                                                              *)

\* The position bitcask_append returned is, then and ever after, where the
\* value stands in the file: short writes, failed writes and crashes before or
\* after it never move it.
ValueAtPos ==
    \A e \in index :
        SubSeq(cask[e.file], e.pos + 1, e.pos + Len(e.value)) = e.value

\* What db_load brings into an empty table was in the table that db_save wrote
\* last, even if the process was killed between two of its writes (for keys and
\* values as in TextAssumption, and writes that take all they are given).
LoadInventsNothing ==
    [][ht = Empty /\ ht' # ht /\ UNCHANGED sets =>
          \A k \in DOMAIN ht' : k \in DOMAIN saving /\ ht'[k] = saving[k]]_caskVars

\* A table that was saved to the end comes back whole, whatever its values
\* hold but CR and LF (a ':' too), up to the longest line that fits the buffer:
\* what TextAssumption leaves out does not come back.
SaveLoadRoundTrip ==
    complete => Load(Empty, text) = saving
=============================================================================
