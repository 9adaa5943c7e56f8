--------------------------- MODULE TalkgroupFile ---------------------------
(***************************************************************************)
(* Loading a system's talkgroup directory (talkgroups.cc) from a talkgroup *)
(* CSV file (load_talkgroups) or a channel CSV file (load_channels), and   *)
(* the two lookups over the loaded vector.  The CSV reader hands each cell *)
(* over with its type (null, int, float, string); a cell is modelled as    *)
(* that type and an integer value.  The text of a string cell matters only *)
(* for "Enable", where it is one of a few words.  Only one system is       *)
(* loaded, so the sys_num test of the lookups always holds.                *)
(***************************************************************************)
EXTENDS Integers, Sequences, SequencesExt

CONSTANTS
  TgHeaders,   \* header rows a talkgroup file can have
  ChHeaders,   \* header rows a channel file can have
  Numbers,     \* talkgroup numbers
  MaxRows      \* most data rows in a file

\* "Enable" strings, compared with boost::iequals against "false".
TextTrue == 0
TextFalse == 1
TextFalseUpper == 2

Cell(k, v) == [kind |-> k, v |-> v]
Null == Cell("null", 0)

\* The cells each column can hold.
CellsOf(col) ==
  CASE col \in {"Decimal", "TG Number"} -> {Cell("int", n) : n \in Numbers} \cup {Null}
    [] col \in {"Mode", "Description"}   -> {Cell("str", TextTrue), Cell("int", 911), Null}
    [] col = "Priority"                  -> {Cell("int", -1), Cell("int", 2), Null}
    [] col = "Frequency"                 -> {Cell("int", 155000000), Cell("float", 155),
                                             Cell("int", 155), Null}
    [] col = "Enable"                    -> {Cell("str", TextTrue), Cell("str", TextFalse),
                                             Cell("str", TextFalseUpper), Null}
    [] OTHER                             -> {Null}

RowsOf(h) ==
  {r \in [Range(h) -> UNION {CellsOf(c) : c \in Range(h)}] : \A c \in Range(h) : r[c] \in CellsOf(c)}

Files ==
  UNION {[kind : {"talkgroups"}, headers : {h}, rows : SeqOf(RowsOf(h), MaxRows)] : h \in TgHeaders}
  \cup UNION {[kind : {"channels"}, headers : {h}, rows : SeqOf(RowsOf(h), MaxRows)] : h \in ChHeaders}

VARIABLES
  file,        \* the CSV file (history; never changes)
  named,       \* a filename was configured
  pc,          \* "header", "rows", "done", "exited" (exit(0)) or "crashed"
  i,           \* the next data row
  talkgroups   \* the Talkgroups vector: <<[number, priority, freq]>>

vars == <<file, named, pc, i, talkgroups>>

TypeOK ==
  /\ file \in Files /\ named \in BOOLEAN
  /\ pc \in {"header", "rows", "done", "exited", "crashed"}
  /\ i \in 1..MaxRows + 1
  /\ Len(talkgroups) =< MaxRows
  /\ \A k \in 1..Len(talkgroups) :
       /\ talkgroups[k].number \in Numbers
       /\ talkgroups[k].priority \in {-1, 0, 1, 2}
       /\ talkgroups[k].freq \in Nat

-----------------------------------------------------------------------------

\* reader.index_of(col) >= 0, and the cell's type tests.
Has(col) == col \in Range(file.headers)
Is(r, col, k) == Has(col) /\ r[col].kind = k

\* load_talkgroups' defined_headers
TalkgroupHeaders ==
  {"Decimal", "Mode", "Description", "Alpha Tag", "Hex", "Category", "Tag", "Priority",
   "Preferred NAC", "Comment"}

\* load_channels' defined_headers
ChannelHeaders ==
  {"TG Number", "Tone", "Frequency", "Alpha Tag", "Description", "Category", "Tag",
   "Enable", "Comment"}

FirstHeader == IF file.kind = "talkgroups" THEN "Decimal" ELSE "TG Number"

\* The header checks: the first column must be `first`, and any column
\* outside `defined` ends the program with exit(0).  An empty file has no
\* header row, and headers[0] then reads past the end of an empty vector:
\* undefined, taken as a crash or a failed comparison.
HeaderOutcome(first, defined) ==
  CASE file.headers = <<>>                                          -> {"crashed", "exited"}
    [] file.headers[1] # first \/ ~(Range(file.headers) \subseteq defined) -> {"exited"}
    [] OTHER                                                        -> {"rows"}

\* load_talkgroups opens the reader and checks its header row.
CheckTalkgroupHeaders ==
  /\ pc = "header" /\ file.kind = "talkgroups"
  /\ pc' \in HeaderOutcome("Decimal", TalkgroupHeaders)
  /\ UNCHANGED <<file, named, i, talkgroups>>

\* load_channels opens the reader and checks its header row.
CheckChannelHeaders ==
  /\ pc = "header" /\ file.kind = "channels"
  /\ pc' \in HeaderOutcome("TG Number", ChannelHeaders)
  /\ UNCHANGED <<file, named, i, talkgroups>>

\* load_talkgroups: priority starts at 1 and is taken from an integer cell.
TalkgroupPriority(r) == IF Is(r, "Priority", "int") THEN r["Priority"].v ELSE 1

\* Talkgroup's talkgroup constructor: the priority given, frequency 0.
NewTalkgroup(num, p) == [number |-> num, priority |-> p, freq |-> 0]

\* Talkgroup's channel constructor: the frequency given, priority 0.
NewChannel(num, f) == [number |-> num, priority |-> 0, freq |-> f]

\* Mutant: a Decimal column with a cell of any type is accepted.
TalkgroupRowValid_NoDecimalType(r) ==
  Has("Decimal") /\ Is(r, "Mode", "str") /\ Is(r, "Description", "str")

\* load_talkgroups' required cells: Decimal an integer, Mode and Description
\* strings (a numeric Description such as 911 is not a string).
TalkgroupRowValid(r) ==
  Is(r, "Decimal", "int") /\ Is(r, "Mode", "str") /\ Is(r, "Description", "str")

\* One row of load_talkgroups: a row without its required cells ends the
\* program with exit(0); otherwise the talkgroup is pushed with its
\* priority and frequency 0.
LoadTalkgroupRow ==
  /\ pc = "rows" /\ file.kind = "talkgroups" /\ i =< Len(file.rows)
  /\ LET r == file.rows[i]
     IN  IF TalkgroupRowValid(r)
         THEN /\ talkgroups' = Append(talkgroups, NewTalkgroup(r["Decimal"].v,
                                                               TalkgroupPriority(r)))
              /\ i' = i + 1
              /\ UNCHANGED pc
         ELSE /\ pc' = "exited"
              /\ UNCHANGED <<i, talkgroups>>
  /\ UNCHANGED <<file, named>>

\* Mutant: the frequency is converted from MHz whatever the cell's type.
ChannelFreq_AnyNumber(r) ==
  IF Is(r, "Frequency", "int") \/ Is(r, "Frequency", "float")
  THEN IF r["Frequency"].v < 1000 THEN r["Frequency"].v * 1000000 ELSE r["Frequency"].v
  ELSE 0

\* load_channels: a numeric Frequency is taken, and a float under 1000 is
\* read as MHz and converted to Hz.
ChannelFreq(r) ==
  IF Is(r, "Frequency", "int") \/ Is(r, "Frequency", "float")
  THEN IF Is(r, "Frequency", "float") /\ r["Frequency"].v < 1000
       THEN r["Frequency"].v * 1000000 ELSE r["Frequency"].v
  ELSE 0

\* load_channels: a string Enable equal to "false" in any case disables
\* the channel.
ChannelEnabled(r) == ~(Is(r, "Enable", "str") /\ r["Enable"].v \in {TextFalse, TextFalseUpper})

\* One row of load_channels: TG Number must be an integer, else exit(0); an
\* enabled channel is pushed with priority 0 and its frequency.
LoadChannelRow ==
  /\ pc = "rows" /\ file.kind = "channels" /\ i =< Len(file.rows)
  /\ LET r == file.rows[i]
     IN  IF Is(r, "TG Number", "int")
         THEN /\ talkgroups' = IF ChannelEnabled(r)
                               THEN Append(talkgroups, NewChannel(r["TG Number"].v,
                                                                   ChannelFreq(r)))
                               ELSE talkgroups
              /\ i' = i + 1
              /\ UNCHANGED pc
         ELSE /\ pc' = "exited"
              /\ UNCHANGED <<i, talkgroups>>
  /\ UNCHANGED <<file, named>>

\* The reader has no more rows: the loader returns.
EndOfFile ==
  /\ pc = "rows" /\ i > Len(file.rows)
  /\ pc' = "done"
  /\ UNCHANGED <<file, named, i, talkgroups>>

\* An empty filename returns at once with nothing loaded.
Init ==
  /\ file \in Files
  /\ named \in BOOLEAN
  /\ pc = IF named THEN "header" ELSE "done"
  /\ i = 1
  /\ talkgroups = <<>>

Next == CheckTalkgroupHeaders \/ CheckChannelHeaders \/ LoadTalkgroupRow \/ LoadChannelRow \/ EndOfFile

Spec == Init /\ [][Next]_vars

\* Talkgroups::find_talkgroup and find_talkgroup_by_freq: the index of the
\* first match, 0 for nullptr.
FindTalkgroup(n) == SelectInSeq(talkgroups, LAMBDA t : t.number = n)
FindTalkgroupByFreq(f) == SelectInSeq(talkgroups, LAMBDA t : t.freq = f)

-----------------------------------------------------------------------------
\* Reference: what a file puts in the directory, defined over the whole
\* file at once.  A file is accepted when its header row starts with the
\* number column and names only known columns and every row has the
\* required cells; the entry for number n is then the first enabled row
\* with n, with the file's priority (1 when absent, 0 for a channel) and
\* frequency (Hz; a float under 1000 is MHz).

RefRowOk(r) ==
  IF file.kind = "talkgroups"
  THEN \A c \in {"Decimal", "Mode", "Description"} :
         c \in DOMAIN r /\ r[c].kind = IF c = "Decimal" THEN "int" ELSE "str"
  ELSE "TG Number" \in DOMAIN r /\ r["TG Number"].kind = "int"

RefAccepted ==
  /\ file.headers # <<>> /\ file.headers[1] = FirstHeader
  /\ Range(file.headers) \subseteq
       IF file.kind = "talkgroups" THEN TalkgroupHeaders ELSE ChannelHeaders
  /\ \A k \in 1..Len(file.rows) : RefRowOk(file.rows[k])

RefNumber(r) == IF file.kind = "talkgroups" THEN r["Decimal"].v ELSE r["TG Number"].v

RefListed(r) ==
  file.kind = "talkgroups" \/ "Enable" \notin DOMAIN r
  \/ r["Enable"] \notin {Cell("str", TextFalse), Cell("str", TextFalseUpper)}

RefPriority(r) ==
  CASE file.kind = "channels"                                    -> 0
    [] "Priority" \in DOMAIN r /\ r["Priority"].kind = "int"     -> r["Priority"].v
    [] OTHER                                                     -> 1

RefHz(r) ==
  LET c == IF "Frequency" \in DOMAIN r THEN r["Frequency"] ELSE Null
  IN  CASE file.kind = "talkgroups"                -> 0
        [] c.kind = "float" /\ c.v < 1000          -> c.v * 1000000
        [] c.kind \in {"int", "float"}             -> c.v
        [] OTHER                                   -> 0

\* Once the loader has returned (or the program has exited), the outcome is
\* the file's: the program exits exactly on a file the reference rejects,
\* and after a load every number in the file is found by find_talkgroup
\* with the priority and frequency of its first enabled row, every
\* frequency of an enabled channel row is found by find_talkgroup_by_freq
\* as its first enabled row's, and nothing else is found.
LoadMatchesFile ==
  named /\ pc \in {"done", "exited"} =>
    /\ (pc = "done") = RefAccepted
    /\ pc = "done" =>
         LET rows == SelectSeq(file.rows, RefListed)
         IN  /\ \A n \in Numbers :
                  LET k == SelectInSeq(rows, LAMBDA r : RefNumber(r) = n)
                  IN  IF k = 0 THEN FindTalkgroup(n) = 0
                      ELSE /\ FindTalkgroup(n) # 0
                           /\ talkgroups[FindTalkgroup(n)].priority = RefPriority(rows[k])
                           /\ talkgroups[FindTalkgroup(n)].freq = RefHz(rows[k])
             /\ \A j \in 1..Len(rows) : file.kind = "channels" =>
                  LET k == SelectInSeq(rows, LAMBDA r : RefHz(r) = RefHz(rows[j]))
                  IN  /\ FindTalkgroupByFreq(RefHz(rows[j])) # 0
                      /\ talkgroups[FindTalkgroupByFreq(RefHz(rows[j]))].number
                           = RefNumber(rows[k])

=============================================================================
