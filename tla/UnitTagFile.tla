---------------------------- MODULE UnitTagFile ----------------------------
(***************************************************************************)
(* Loading the unit-tag file (unit_tags.cc) through the line reader        *)
(* safeGetline (csv_helper.cc).  A file is a sequence of characters over a *)
(* small alphabet: a digit "d", the regex delimiter "/", the field         *)
(* separator "," and the line terminators "CR" and "LF".  Each step of the *)
(* model is one turn of load_unit_tags' while loop, one safeGetline call.  *)
(***************************************************************************)
EXTENDS Integers, Sequences, SequencesExt

CONSTANT MaxLen          \* longest file checked

FieldChars  == {"d", "/"}
Terminators == {"CR", "LF"}
Alphabet    == FieldChars \cup {","} \cup Terminators

VARIABLES
  file,          \* the file's contents (history; never changes)
  opened,        \* the filename was given and the file opened
  input,         \* what the stream has not yet delivered
  lines_read,
  lines_pushed,
  unit_tags,     \* the UnitTags vector: <<[kind, body, tag]>>
  warned,        \* the "skipped N of M unit tag entries" warning was logged
  done

vars == <<file, opened, input, lines_read, lines_pushed, unit_tags, warned, done>>

TypeOK ==
  /\ file \in Seq(Alphabet) /\ Len(file) <= MaxLen
  /\ input \in Seq(Alphabet) /\ Len(input) <= Len(file)
  /\ opened \in BOOLEAN /\ warned \in BOOLEAN /\ done \in BOOLEAN
  /\ lines_read \in 0..MaxLen + 1 /\ lines_pushed \in 0..lines_read
  /\ \A i \in 1..Len(unit_tags) :
       unit_tags[i] \in [kind : {"exact", "regex"}, body : Seq(FieldChars),
                         tag : Seq(FieldChars)]

-----------------------------------------------------------------------------

\* Mutant: a CR ends the line but a following LF is left in the stream.
RECURSIVE SafeGetline_NoCRLF(_, _)
SafeGetline_NoCRLF(s, t) ==
  IF s = <<>> THEN [t |-> t, rest |-> s, eof |-> t = <<>>]
  ELSE CASE Head(s) = "LF" -> [t |-> t, rest |-> Tail(s), eof |-> FALSE]
         [] Head(s) = "CR" -> [t |-> t, rest |-> Tail(s), eof |-> FALSE]
         [] OTHER          -> SafeGetline_NoCRLF(Tail(s), Append(t, Head(s)))

\* safeGetline, reading s one character at a time into t: LF ends the line,
\* CR ends it and swallows a following LF, end of input ends it and sets
\* eofbit only when nothing was read.
RECURSIVE SafeGetline(_, _)
SafeGetline(s, t) ==
  IF s = <<>> THEN [t |-> t, rest |-> s, eof |-> t = <<>>]
  ELSE CASE Head(s) = "LF" -> [t |-> t, rest |-> Tail(s), eof |-> FALSE]
         [] Head(s) = "CR" -> [t |-> t, eof |-> FALSE,
                               rest |-> IF Tail(s) # <<>> /\ Head(Tail(s)) = "LF"
                                        THEN Tail(Tail(s)) ELSE Tail(s)]
         [] OTHER          -> SafeGetline(Tail(s), Append(t, Head(s)))

\* Mutant: the tokenizer splits at the first separator only.
Tokenize_FirstComma(line) ==
  LET i == SelectInSeq(line, LAMBDA ch : ch = ",")
  IN  IF i = 0 THEN <<line>>
      ELSE <<SubSeq(line, 1, i - 1), SubSeq(line, i + 1, Len(line))>>

\* boost::tokenizer with escaped_list_separator(",\t"): the fields between
\* separators (the alphabet has no quote, escape or tab characters).
Tokenize(line) ==
  FoldLeft(LAMBDA acc, ch : IF ch = "," THEN Append(acc, <<>>)
                            ELSE [acc EXCEPT ![Len(acc)] = Append(@, ch)],
           <<<<>>>>, line)

\* UnitTags::add: "/re/" becomes the regex re (for "/" alone substr(1,
\* npos) leaves it empty); anything else becomes ^pattern$.
Add(pattern, tag) ==
  LET n == Len(pattern)
  IN  [tag |-> tag] @@
      IF n >= 1 /\ pattern[1] = "/" /\ pattern[n] = "/"
      THEN [kind |-> "regex", body |-> IF n = 1 THEN <<>> ELSE SubSeq(pattern, 2, n - 1)]
      ELSE [kind |-> "exact", body |-> pattern]

\* Unit ids as std::to_string writes them: non-empty digit strings.
UnitIds == {<<"d">>, <<"d", "d">>}

\* Mutant: the scan keeps going and answers with the last matching entry.
FindUnitTag_LastMatch(u) ==
  LET ks == {k \in 1..Len(unit_tags) : unit_tags[k].body = u}
  IN  IF ks = {} THEN <<>> ELSE unit_tags[Max(ks)].tag

\* UnitTags::find_unit_tag: the first entry whose regex matches the unit's
\* digits answers with regex_replace(format_no_copy | format_all), else "".
\* Over this alphabet no character is a regex or format metacharacter, so
\* ^body$ and body both match exactly the string body, and the
\* replacement is the tag itself.
FindUnitTag(u) ==
  LET k == SelectInSeq(unit_tags, LAMBDA e : e.body = u)
  IN  IF k = 0 THEN <<>> ELSE unit_tags[k].tag

-----------------------------------------------------------------------------

\* load_unit_tags' early returns: an empty filename or a file that does not
\* open loads nothing.
Init ==
  /\ file \in SeqOf(Alphabet, MaxLen)
  /\ opened \in BOOLEAN
  /\ input = file
  /\ lines_read = 0 /\ lines_pushed = 0
  /\ unit_tags = <<>>
  /\ warned = FALSE
  /\ done = ~opened

\* One turn of the loop: safeGetline returned a line; a trailing CR is cut,
\* the line is counted, an empty line is skipped, a line with fewer than two
\* fields is reported malformed, and any other is added.
ReadLine ==
  /\ ~done
  /\ LET g    == SafeGetline(input, <<>>)
         line == IF g.t # <<>> /\ Last(g.t) = "CR" THEN Front(g.t) ELSE g.t
         vec  == Tokenize(line)
     IN  /\ ~g.eof
         /\ input' = g.rest
         /\ lines_read' = lines_read + 1
         /\ IF line = <<>> \/ Len(vec) < 2
            THEN UNCHANGED <<unit_tags, lines_pushed>>
            ELSE /\ unit_tags' = Append(unit_tags, Add(vec[1], vec[2]))
                 /\ lines_pushed' = lines_pushed + 1
  /\ UNCHANGED <<file, opened, warned, done>>

\* safeGetline set eofbit: the loop ends and the counts are compared.
Finish ==
  /\ ~done
  /\ SafeGetline(input, <<>>).eof
  /\ input' = <<>>
  /\ warned' = (lines_pushed # lines_read)
  /\ done' = TRUE
  /\ UNCHANGED <<file, opened, lines_read, lines_pushed, unit_tags>>

Next == ReadLine \/ Finish

Spec == Init /\ [][Next]_vars

-----------------------------------------------------------------------------
\* Reference: the lines of a text file, defined without reading it
\* character by character.  A terminator is a CR or an LF that does not
\* follow a CR; line k is what lies between terminators k-1 and k, and a
\* non-empty rest after the last terminator is a last line.

RefLines(f) ==
  LET ends == SetToSortSeq({i \in 1..Len(f) :
                              f[i] \in Terminators /\ ~(f[i] = "LF" /\ i > 1 /\ f[i-1] = "CR")},
                           <)
      n    == Len(ends)
      Seg(a, b) == SelectSeq(SubSeq(f, a, b), LAMBDA ch : ch \notin Terminators)
      rest == Seg(IF n = 0 THEN 1 ELSE ends[n] + 1, Len(f))
  IN  [k \in 1..n |-> Seg(IF k = 1 THEN 1 ELSE ends[k-1] + 1, ends[k] - 1)]
        \o (IF rest = <<>> THEN <<>> ELSE <<rest>>)

\* The lines of f with at least two fields, in order.
RefEntries(f) ==
  SelectSeq(RefLines(f), LAMBDA l : l # <<>> /\ Len(Tokenize(l)) >= 2)

\* Once load_unit_tags returns, every line of the file was counted (LF, CR
\* and CRLF endings alike, a last line without ending included, no line
\* invented) and the UnitTags vector holds exactly the well-formed lines'
\* patterns and tags, in file order.
LoadMatchesReference ==
  done /\ opened =>
    /\ lines_read = Len(RefLines(file))
    /\ unit_tags = [k \in 1..Len(RefEntries(file)) |->
                      LET v == Tokenize(RefEntries(file)[k]) IN Add(v[1], v[2])]

\* What the tag file means, read off the file itself: once loaded,
\* find_unit_tag answers a unit with the second field of the first line
\* whose first field is the unit's digits or those digits between slashes,
\* and with "" when no line names it.  Blank and one-field lines never
\* answer; a line with an empty tag still answers (with "") and shadows
\* every later line for that unit.
UnitLookupFollowsFile ==
  done /\ opened =>
    LET L == RefLines(file)
        F(k) == Tokenize(L[k])
        Names(k, u) == Len(F(k)) >= 2 /\ F(k)[1] \in {u, <<"/">> \o u \o <<"/">>}
    IN  \A u \in UnitIds :
          LET ks == {k \in 1..Len(L) : Names(k, u)}
          IN  FindUnitTag(u) = IF ks = {} THEN <<>> ELSE F(Min(ks))[2]

=============================================================================
