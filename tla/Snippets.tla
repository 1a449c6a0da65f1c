------------------------------ MODULE Snippets ------------------------------
(***************************************************************************)
(* extractSnippets of cmd/sync/markers.go: one action is one turn of its   *)
(* loop over the lines of a source file, which TLC chooses as it goes, so  *)
(* that every file up to MaxLines lines is read.                           *)
(*                                                                         *)
(* A line is its leading whitespace, the verb of its marker if it is a     *)
(* comment that begins with "snippet:", and the marker's argument.  A      *)
(* captured line is named by its position in the file.                     *)
(***************************************************************************)
EXTENDS Integers, Sequences, FiniteSets, SequencesExt

CONSTANTS
    Topics,     \* well-formed topic ids
    NoArg,      \* a marker without an argument
    BadArg,     \* an argument that is no topic id
    Indents,    \* runs of leading spaces and tabs
    MaxLines    \* the longest file (bound)

\* "code" and "blank" are lines without a marker, "typo" is any other verb; only
\* of code does the indentation matter.
Line == [verb : {"code"}, indent : Indents, arg : {NoArg}]
     \cup [verb : {"blank", "typo"}, indent : {<<>>}, arg : {NoArg}]
     \cup [verb : {"start", "end"}, indent : {<<>>}, arg : Topics \cup {NoArg, BadArg}]

\* A missing or a malformed argument is no topic; indentation is spaces and tabs.
ASSUME SnippetsAssumption ==
    /\ NoArg \notin Topics /\ BadArg \notin Topics /\ NoArg # BadArg
    /\ \A ws \in Indents : ws \in Seq({"space", "tab"})

VARIABLES
    file,    \* the lines read so far
    open,    \* the open regions, in the order they were opened
    seen,    \* the topics started so far
    out,     \* the captured snippets: topic and code, and as history where they
             \* start and end and the lines they are made of
    status   \* "scanning", "extracted", or the error

vars == <<file, open, seen, out, status>>

Init ==
    /\ file = <<>>
    /\ open = <<>>
    /\ seen = {}
    /\ out = <<>>
    /\ status = "scanning"

-----------------------------------------------------------------------------
(* parseMarker *)

Content(line) == line.verb \in {"code", "blank"}

\* A start without a topic, a topic that is not one, an unknown verb.
Malformed(line) ==
    \/ line.verb = "typo"
    \/ line.verb = "start" /\ line.arg \notin Topics
    \/ line.verb = "end" /\ line.arg = BadArg

-----------------------------------------------------------------------------
(* dedent *)

CommonPrefix(a, b) == LongestCommonPrefix({a, b})

\* lines[start:end]: from the first line that is not blank to the last one.
Trimmed(lines) ==
    LET code == {i \in DOMAIN lines : file[lines[i]].verb = "code"}
    IN  IF code = {} THEN <<>> ELSE SubSeq(lines, Min(code), Max(code))

\* Mutant: the first line's indentation is taken for all of them.
IndentOfFirst(lines) == file[lines[1]].indent

\* The loop of commonPrefix over the lines, which skips the blank ones; the first
\* line is not blank.
IndentOf(lines) ==
    LET indent[i \in 1..Len(lines)] ==
            IF i = 1 THEN file[lines[1]].indent
            ELSE IF file[lines[i]].verb = "blank" THEN indent[i - 1]
            ELSE CommonPrefix(indent[i - 1], file[lines[i]].indent)
    IN  indent[Len(lines)]

\* A line of the result: which one it is, and the whitespace it has left.
Dedent(lines) ==
    LET kept == Trimmed(lines)
        width == Len(IndentOf(kept))
        Cut(p) == IF file[p].verb = "blank" THEN <<>>
                  ELSE SubSeq(file[p].indent, width + 1, Len(file[p].indent))
    IN  IF kept = <<>> THEN <<>>
        ELSE [i \in DOMAIN kept |-> [line |-> kept[i], indent |-> Cut(kept[i])]]

-----------------------------------------------------------------------------
(* The loop *)

Read(line) == Len(file) < MaxLines /\ status = "scanning" /\ file' = Append(file, line)

Stop(error) == status' = error /\ UNCHANGED <<open, seen, out>>

\* markerNone: every open region takes the line.
Capture(line) ==
    /\ Read(line) /\ Content(line)
    /\ open' = [i \in DOMAIN open |-> [open[i] EXCEPT !.lines = Append(@, Len(file'))]]
    /\ UNCHANGED <<seen, out, status>>

\* A marker that is not well-formed ends the sync.
BadMarker(line) == Read(line) /\ Malformed(line) /\ Stop("malformed")

\* Mutant: the start marker is captured.
RegionWithMarker(topic) ==
    [topic |-> topic, start |-> Len(file) + 1, lines |-> <<Len(file) + 1>>]
Region(topic) == [topic |-> topic, start |-> Len(file) + 1, lines |-> <<>>]

\* markerStart: a topic of its own opens a region.
StartRegion(line) ==
    /\ Read(line) /\ line.verb = "start" /\ ~Malformed(line)
    /\ IF line.arg \in seen
       THEN Stop("duplicate")
       ELSE /\ open' = Append(open, Region(line.arg))
            /\ seen' = seen \cup {line.arg}
            /\ UNCHANGED <<out, status>>

\* Mutant: a bare end closes the region opened first.
ClosesFirst(line, i) ==
    IF line.arg = NoArg THEN i = 1 ELSE open[i].topic = line.arg

\* The region an end marker closes: the last one opened, or that of its topic.
Closes(line, i) ==
    IF line.arg = NoArg THEN i = Len(open)
    ELSE open[i].topic = line.arg
           /\ \A j \in DOMAIN open : open[j].topic = line.arg => j <= i

\* markerEnd: the region goes to the output, dedented.
EndRegion(line) ==
    /\ Read(line) /\ line.verb = "end" /\ ~Malformed(line)
    /\ \E i \in DOMAIN open :
        /\ Closes(line, i)
        /\ open' = RemoveAt(open, i)
        /\ out' = Append(out, [topic |-> open[i].topic, code |-> Dedent(open[i].lines),
                               lines |-> open[i].lines,
                               start |-> open[i].start, end |-> Len(file')])
    /\ UNCHANGED <<seen, status>>

\* Mutant: an end that closes nothing is skipped.
StrayEndSkipped(line) ==
    /\ Read(line) /\ line.verb = "end" /\ ~Malformed(line)
    /\ \A i \in DOMAIN open : ~Closes(line, i)
    /\ UNCHANGED <<open, seen, out, status>>

StrayEnd(line) ==
    /\ Read(line) /\ line.verb = "end" /\ ~Malformed(line)
    /\ \A i \in DOMAIN open : ~Closes(line, i)
    /\ Stop("stray end")

\* The end of the file: a region that is still open is an error.
EndOfFile ==
    /\ status = "scanning"
    /\ status' = IF open = <<>> THEN "extracted" ELSE "unclosed"
    /\ UNCHANGED <<file, open, seen, out>>

Finished == status # "scanning" /\ UNCHANGED vars

Next ==
    \/ \E line \in Line : \/ Capture(line) \/ BadMarker(line) \/ StartRegion(line)
                          \/ EndRegion(line) \/ StrayEnd(line)
    \/ EndOfFile \/ Finished

Spec == Init /\ [][Next]_vars
-----------------------------------------------------------------------------
(* What must hold *)

\* The content lines from position a to position b.
ContentBetween(a, b) == {p \in a..b : Content(file[p])}

\* "Marker lines never appear in any captured region", and no other line is lost
\* or captured twice: a snippet is made of the content lines between its own
\* markers, in file order, whatever regions nest in it, hold it or cross it.
RegionExact ==
    \A n \in DOMAIN out :
        LET s == out[n] IN
        /\ file[s.start].verb = "start" /\ file[s.start].arg = s.topic
        /\ file[s.end].verb = "end" /\ file[s.end].arg \in {s.topic, NoArg}
        /\ {s.lines[i] : i \in DOMAIN s.lines} = ContentBetween(s.start + 1, s.end - 1)
        /\ \A i, j \in DOMAIN s.lines : i < j => s.lines[i] < s.lines[j]

\* "Typos surface at sync time instead of silently dropping a region": a file is
\* extracted only if all its markers are well-formed and each of them is the
\* start or the end of one snippet of the output, topics being distinct.
NothingDropped ==
    status = "extracted" =>
        LET at(verb) == {p \in DOMAIN file : file[p].verb = verb} IN
        /\ \A p \in DOMAIN file : ~Malformed(file[p])
        /\ at("start") = {out[n].start : n \in DOMAIN out}
        /\ at("end") = {out[n].end : n \in DOMAIN out}
        /\ \A m, n \in DOMAIN out :
              m # n => /\ out[m].topic # out[n].topic
                       /\ out[m].start # out[n].start /\ out[m].end # out[n].end

\* "A bare snippet:end closes the most recently opened region": no region that
\* starts inside a snippet with a bare end outlives it.
BareEndInnermost ==
    \A n \in DOMAIN out :
        LET s == out[n] IN
        file[s.end].arg = NoArg =>
            /\ \A i \in DOMAIN open : ~(s.start < open[i].start /\ open[i].start < s.end)
            /\ \A m \in DOMAIN out :
                  ~(s.start < out[m].start /\ out[m].start < s.end /\ s.end < out[m].end)

\* "Dedented by the common leading whitespace of its non-blank lines and trimmed
\* of surrounding blank lines": one and the same whitespace is cut from every
\* code line, none that all share is left, and only outer blank lines go.
DedentFaithful ==
    \A n \in DOMAIN out :
        LET kept == out[n].code
            code == {i \in DOMAIN kept : file[kept[i].line].verb = "code"}
            all == out[n].lines
        IN
        /\ \A i \in DOMAIN all :
              file[all[i]].verb = "code" => \E k \in code : kept[k].line = all[i]
        /\ kept # <<>> => {1, Len(kept)} \subseteq code
        /\ \E m \in 0..Len(all) : \A k \in DOMAIN kept : kept[k].line = all[m + k]
        /\ code # {} => \E k \in code : \E cut \in Prefixes(file[kept[k].line].indent) :
              \A i \in code : file[kept[i].line].indent = cut \o kept[i].indent
        /\ code # {} => CommonPrefixes({kept[i].indent : i \in code}) = {<<>>}
=============================================================================
