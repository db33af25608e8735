--------------------------- MODULE ContextBudget ----------------------------
(***************************************************************************)
(* The text about a repository that is put into a prompt: the snapshot     *)
(* (build_repository_context) and the map with excerpts                    *)
(* (build_adaptive_context) of context.py. Both add one section after      *)
(* another while a budget of bytes lasts, join them with newlines, and     *)
(* keep as many characters of the result as the budget has bytes.          *)
(*                                                                         *)
(* A text is its length, in bytes and in characters. Files are as they are *)
(* when they are read: any size, UTF-8 or not, or unreadable, or gone.     *)
(***************************************************************************)
EXTENDS Integers

CONSTANTS
  MaxBytes,  \* the budget
  MapBytes,  \* the part of it that the map may take
  Heading,   \* bytes of the first lines, of a snapshot or of a map
  Label,     \* bytes of the heading of the excerpts
  Prefix,    \* bytes of the line that names a file
  Widths,    \* bytes a character may take, in the files that there are
  FileSizes, \* sizes of the files
  LineSizes, \* sizes of the lines of a map
  MaxFiles   \* bound: files considered

ASSUME ContextAssumption ==
  /\ {MaxBytes, MapBytes, Heading, Label, MaxFiles} \subseteq Nat
  /\ Prefix \in Nat /\ Widths \subseteq 1..Prefix /\ Widths # {}
  /\ FileSizes \subseteq Nat /\ LineSizes \subseteq Nat
  /\ Heading <= MapBytes /\ MapBytes + Label + 1 <= MaxBytes

VARIABLES
  builder, \* "snapshot" or "adaptive"
  stage,   \* "start", "map", "files" or "built"
  used,    \* the bytes that are counted
  bytes,   \* the bytes of the sections, joined
  chars,   \* their characters
  joins,   \* sections appended after the first lines
  cut,     \* whether a file is there in part, but for one that Dropped allows
  left     \* files not considered yet

contextVars == <<builder, stage, used, bytes, chars, joins, cut, left>>

Least(a, b) == IF a <= b THEN a ELSE b
-----------------------------------------------------------------------------
\* How many of the n bytes of a file may be in no character of UTF-8, if its characters have
\* a width.
Bad(n, width) == {bad \in 0..n : (n - bad) % width = 0}

\* What may be decoded of the first k bytes of such a file: bad bytes are ignored, wherever
\* they are, and so is a character that is not all there.
Decoded(n, bad, width, k) ==
  IF n <= k
    THEN {n - bad}
    ELSE {d \in 0..Least(k, n - bad) : d % width = 0 /\ k - d < bad + width}

\* A text whose end is cut off after k bytes.
Whole(k, width) == k - (k % width)

\* A section of `name` bytes and `body` bytes of a file, both decoded.
Appended(name, body, width) ==
  /\ used' = used + name + body
  /\ bytes' = bytes + 1 + name + body
  /\ chars' = chars + 1 + name + body \div width
  /\ joins' = joins + 1

ContextInit ==
  /\ builder = "snapshot" /\ stage = "start"
  /\ used = 0 /\ bytes = 0 /\ chars = 0 /\ joins = 0
  /\ cut = FALSE /\ left = MaxFiles

Begin ==
  /\ stage = "start"
  /\ builder' \in {"snapshot", "adaptive"}
  /\ stage' = IF builder' = "snapshot" THEN "files" ELSE "map"
  /\ used' = Heading /\ bytes' = Heading /\ chars' = Heading
  /\ UNCHANGED <<joins, cut, left>>

\* render_repository_map measures the joined text.
AddMapLine ==
  /\ stage = "map" /\ left > 0
  /\ \E n \in LineSizes, width \in Widths :
       /\ bytes + 1 + n <= MapBytes
       /\ used' = bytes + 1 + n /\ bytes' = used'
       /\ chars' = chars + 1 + (n + width - 1) \div width
  /\ left' = left - 1
  /\ UNCHANGED <<builder, stage, joins, cut>>

\* The map is complete, or its next line is too long.
EndMap ==
  /\ stage = "map"
  /\ stage' = "files" /\ left' = MaxFiles
  /\ used' = bytes + 1 + Label /\ bytes' = used' /\ chars' = chars + 1 + Label
  /\ UNCHANGED <<builder, joins, cut>>

Remaining == MaxBytes - used

\* Of a file that was read up to what remains, as many bytes were ignored as its name takes;
\* fewer than a character's are ignored of UTF-8.
Dropped(n, text) == Least(n, Remaining) - text >= Prefix

\* A snapshot ends with the first file that does not fit, of which at most what
\* remains has been read.
AddFile ==
  /\ stage = "files" /\ builder = "snapshot" /\ left > 0 /\ Remaining > 0
  /\ \E n \in FileSizes, width \in Widths :
       \E bad \in Bad(n, width) : \E body \in Decoded(n, bad, width, Remaining) :
         \/ /\ used + Prefix + body <= MaxBytes
            /\ Appended(Prefix, body, width)
            /\ cut' = (cut \/ (body < n - bad /\ ~Dropped(n, body)))
            /\ left' = left - 1
            /\ UNCHANGED stage
         \/ /\ used + Prefix + body > MaxBytes
            /\ left' = 0
            /\ UNCHANGED <<used, bytes, chars, joins, cut, stage>>
  /\ UNCHANGED builder

\* Broken variant: what does not fit is added all the same.
AddExcerptWhole ==
  /\ stage = "files" /\ builder = "adaptive" /\ left > 0 /\ Remaining > 0
  /\ \E n \in FileSizes, width \in Widths :
       \E bad \in Bad(n, width) : \E text \in Decoded(n, bad, width, Remaining) :
         /\ Appended(Prefix, text, width)
         /\ cut' = (cut \/ (text < n - bad /\ ~Dropped(n, text)))
  /\ left' = left - 1
  /\ UNCHANGED <<builder, stage>>

\* An excerpt that does not fit is cut to what remains, in bytes.
AddExcerpt ==
  /\ stage = "files" /\ builder = "adaptive" /\ left > 0 /\ Remaining > 0
  /\ \E n \in FileSizes, width \in Widths :
       \E bad \in Bad(n, width) : \E text \in Decoded(n, bad, width, Remaining) :
         LET name == Least(Prefix, Remaining)
             body == IF name + text <= Remaining THEN text ELSE Whole(Remaining - name, width)
         IN /\ Appended(name, body, width)
            /\ cut' = (cut \/ ((name < Prefix \/ body < n - bad) /\ ~Dropped(n, text)))
  /\ left' = left - 1
  /\ UNCHANGED <<builder, stage>>

\* OSError: the file is left out.
SkipFile ==
  /\ stage = "files" /\ left > 0 /\ Remaining > 0
  /\ left' = left - 1
  /\ UNCHANGED <<builder, stage, used, bytes, chars, joins, cut>>

\* What is beyond the budget is cut off, counted in characters of one or more bytes.
Build ==
  /\ stage = "files" /\ (left = 0 \/ Remaining <= 0)
  /\ LET over == IF chars > MaxBytes THEN chars - MaxBytes ELSE 0
         more == Least(bytes - chars, over)
     IN /\ chars' = chars - over
        /\ \E wide \in 0..more : bytes' = bytes - over - wide
  /\ stage' = "built"
  /\ UNCHANGED <<builder, used, joins, cut, left>>

ContextNext ==
  Begin \/ AddMapLine \/ EndMap \/ AddFile \/ AddExcerpt \/ SkipFile \/ Build

ContextSpec == ContextInit /\ [][ContextNext]_contextVars
-----------------------------------------------------------------------------
ContextTypeOK ==
  /\ builder \in {"snapshot", "adaptive"}
  /\ stage \in {"start", "map", "files", "built"}
  /\ {used, bytes, chars, joins} \subseteq Nat
  /\ cut \in BOOLEAN /\ left \in 0..MaxFiles

\* The text that is built stays within the budget in characters, and, the newlines
\* between its sections not being counted, exceeds it in bytes by no more than their
\* number, and not at all if it is ASCII. Before that last cut, a snapshot has no file in
\* part, and in the excerpts a file in part is where the budget ends: no later one has text.
\* A file that is not UTF-8 is no exception unless decoding it drops as many bytes as its
\* name line takes: such a file may be there in part, with others after it.
BudgetIsKept ==
  /\ stage = "built" =>
       /\ chars <= MaxBytes /\ bytes <= MaxBytes + joins
       /\ bytes = chars => bytes <= MaxBytes
  /\ cut => builder = "adaptive" /\ \E width \in Widths : Remaining < width
=============================================================================
