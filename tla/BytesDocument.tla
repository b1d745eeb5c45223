---------------------------- MODULE BytesDocument ----------------------------
(***************************************************************************)
(* The buffer operations of include/core/documents/BytesDocument.h as      *)
(* functions of the content.  Each runs under the mutex of its document.   *)
(***************************************************************************)
EXTENDS Naturals, Sequences

NUL == 0
Zero == 48

\* What std::skipws and operator>> take for whitespace.
Whitespace == {9, 10, 11, 12, 13, 32}

ClearContent(content) == <<>>

\* Add(v, v_size): the first v_size elements, all of them for 0 or for too many.
Add(content, v, v_size) ==
  content \o (IF v_size = 0 \/ v_size >= Len(v) THEN v ELSE SubSeq(v, 1, v_size))

\* Add(data_ptr, v_size).
AddData(content, data, v_size) == content \o SubSeq(data, 1, v_size)

\* Add(str) adds the character 0 as often as the text is long, and not the text.
AddText(content, str) == Add(content, [i \in DOMAIN str |-> Zero], Len(str))

\* operator=(const std::string &).
AssignText(content, str) == AddText(ClearContent(content), str)

\* An array is taken whole; an empty one leaves an empty document.
FromByteArray(content, array) == ClearContent(content) \o array

\* Add(iterFirst, iterLast) includes the element at iterLast.
AddRange(content, v, first, last) == content \o SubSeq(v, first, last)

\* Remove(idx_from, idx_to): both are tested as indices, but what is erased are
\* idx_to elements from idx_from on.
Erased(content, idx_from, idx_to) ==
  IF idx_from < Len(content) /\ idx_to < Len(content) /\ idx_from < idx_to
    THEN SubSeq(content, 1, idx_from) \o SubSeq(content, idx_from + idx_to + 1, Len(content))
    ELSE content

WordStart(buffer) ==
  CHOOSE i \in 1 .. Len(buffer) + 1 :
    /\ \A k \in 1 .. i - 1 : buffer[k] \in Whitespace
    /\ i <= Len(buffer) => buffer[i] \notin Whitespace

WordEnd(buffer) ==
  CHOOSE i \in WordStart(buffer) - 1 .. Len(buffer) :
    /\ \A k \in WordStart(buffer) .. i : buffer[k] \notin Whitespace
    /\ i < Len(buffer) => buffer[i + 1] \in Whitespace

\* The first word in the stream buffer: blanks before it are skipped.
Word(buffer) == SubSeq(buffer, WordStart(buffer), WordEnd(buffer))

\* A FromStream that reads the stream buffer to its end.
UnreadNothing(buffer) == <<>>

\* What FromStream leaves in the stream buffer: everything behind the word.
Unread(buffer) == SubSeq(buffer, WordEnd(buffer) + 1, Len(buffer))

\* ToStream writes the whole array, blanks included.
ToStream(buffer, array) == buffer \o array

\* FromStream adds as many bytes as the buffer holds: the first word, then zeros.
FromStream(content, buffer) ==
  Add(content, Word(buffer) \o [i \in 1 .. Len(buffer) - Len(Word(buffer)) |-> NUL], 0)
=============================================================================
