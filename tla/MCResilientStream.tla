--------------------------- MODULE MCResilientStream ---------------------------
(***************************************************************************)
(* Instances of ResilientStream for TLC.                                   *)
(***************************************************************************)
EXTENDS ResilientStream

Streams == 1..NStreams
Plain == {NStreams + 1}

\* An event with CRLF; a byte order mark and a type; an id, an event of two
\* lines, and an end inside the next one.
Texts == {
    <<"data", ":", " ", "x", "CR", "LF", "CR", "LF">>,
    BOM \o <<"event", ":", "x", "LF", "data", ":", "y", "LF", "LF">>,
    <<"id", ":", "x", "LF", "data", ":", "y", "LF", "data", "LF", "LF", "data">> }

\* Each text cut in two where it matters: behind a field's name, a mark, an end
\* of line, and between CR and LF, but not in a mark: of a mark that the first
\* read cuts in two the parser sees only a part, and leaves it in the text.
CutWires == UNION {{<<SubSeq(t, 1, k), SubSeq(t, k + 1, Len(t))>> :
                       k \in {i \in 3..(Len(t) - 1) : t[i] \in {"data", "LF", "CR", "BF"}}}
                   : t \in Texts}

\* One event that comes in one piece.
OneWire == {<<<<"data", ":", "x", "LF", "LF">>>>}

TheWires == CutWires \cup OneWire

ASSUME MarksAreWhole == MarkWhole
=============================================================================
