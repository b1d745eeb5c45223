------------------------------ MODULE Documents ------------------------------
(***************************************************************************)
(* Documents of bytes (include/core/documents: IDocument.h,                *)
(* BytesDocument.h and, as what they are, packages of DocumentPkg.h) that  *)
(* are filled, assigned to each other, and passed through one stream       *)
(* buffer.  Every operation runs under the mutex of its document; an       *)
(* assignment takes that of its left side alone, so two threads that       *)
(* assign two documents to each other are outside the model.               *)
(***************************************************************************)
EXTENDS DocumentPkg

CONSTANTS
  Packages,     \* identities of the documents
  Texts,        \* the strings and vectors the application fills them with
  MaxContent,   \* bound: bytes in a document the application adds to
  MaxSent       \* bound: bytes written into the stream buffer in all, and bytes in a
                \* document FromStream has added to

ASSUME DocumentsAssumption ==
  Texts \subseteq Seq(0 .. 255) /\ MaxContent \in Nat /\ MaxSent \in Nat

VARIABLES
  document,   \* [Packages -> [content, stuffing]]: mContent and mStuffing
  stream,     \* the bytes in the stream buffer
  sent,       \* history: the bytes ToStream has written
  received    \* history: the solid bytes FromStream has added

docVars == <<document, stream, sent, received>>

NewPackage == [content |-> <<>>, stuffing |-> mStuffing]

DocInit ==
  /\ document = [p \in Packages |-> NewPackage]
  /\ stream = <<>> /\ sent = <<>> /\ received = <<>>

\* A package is valid when both its rules are there: without them GetHeader is
\* empty and GetPackage finds nothing any more.
IsValid(p) ==
  /\ Len(document[p].stuffing) = 2
  /\ \A i \in 1 .. 2 : document[p].stuffing[i].from # <<>> /\ document[p].stuffing[i].to # <<>>

\* The bytes that are neither blanks nor the zeros FromStream fills up with.
Solid(s) ==
  LET Kept[i \in 0 .. Len(s)] ==
        IF i = 0 THEN <<>>
        ELSE IF s[i] \in Whitespace \cup {NUL} THEN Kept[i - 1]
        ELSE Kept[i - 1] \o <<s[i]>>
  IN  Kept[Len(s)]

\* An operation that leaves the stream buffer alone.
Becomes(p, content) ==
  /\ Len(content) <= MaxContent \/ Len(content) <= Len(document[p].content)
  /\ document' = [document EXCEPT ![p].content = content]
  /\ UNCHANGED <<stream, sent, received>>

\* Add, Remove, ClearContent and the assignments of something that is no package.
Compose(p) ==
  LET content == document[p].content IN
  \E v \in Texts :
    \/ \E n \in 0 .. Len(v) : Becomes(p, Add(content, v, n)) \/ Becomes(p, AddData(content, v, n))
    \/ Becomes(p, AddText(content, v))
    \/ Becomes(p, AssignText(content, v))
    \/ Becomes(p, PackageFromByteArray(content, v))

\* Where the count of Remove goes past the end, what erase does is not defined;
\* the application does not go there.
RemoveFrom(p) ==
  \E from, to \in 0 .. Len(document[p].content) :
    /\ from + to <= Len(document[p].content)
    /\ Becomes(p, Erased(document[p].content, from, to))

\* A move that takes the rules away from its source.
MovePackageTakes(p, q) ==
  /\ document' = [document EXCEPT ![p] = document[q],
                                  ![q] = [content |-> document[p].content, stuffing |-> <<>>]]
  /\ UNCHANGED <<stream, sent, received>>

\* The move assignment swaps content and rules: the source goes on with what the
\* target had.
MovePackage(p, q) ==
  /\ document' = [document EXCEPT ![p] = document[q], ![q] = document[p]]
  /\ UNCHANGED <<stream, sent, received>>

CopyPackage(p, q) ==
  /\ document' = [document EXCEPT ![p] = document[q]]
  /\ UNCHANGED <<stream, sent, received>>

\* ToStream writes the stuffed content behind what the stream buffer holds.
WriteStream(p) ==
  LET array == PackageToByteArray(document[p].content) IN
  /\ array # <<>> /\ Len(sent) + Len(array) <= MaxSent
  /\ stream' = ToStream(stream, array)
  /\ sent' = sent \o array
  /\ UNCHANGED <<document, received>>

\* FromStream takes the first word and adds as many bytes as the buffer held.
ReadStream(p) ==
  LET old == document[p].content
      new == FromStream(old, stream)
  IN  /\ stream # <<>> /\ Len(new) <= MaxSent
      /\ document' = [document EXCEPT ![p].content = new]
      /\ stream' = Unread(stream)
      /\ received' = received \o Solid(SubSeq(new, Len(old) + 1, Len(new)))
      /\ UNCHANGED sent

DocNext ==
  \/ \E p \in Packages : Compose(p) \/ RemoveFrom(p) \/ WriteStream(p) \/ ReadStream(p)
  \/ \E p, q \in Packages : p # q /\ (MovePackage(p, q) \/ CopyPackage(p, q))

DocSpec == DocInit /\ [][DocNext]_docVars

-----------------------------------------------------------------------------
(* Properties.                                                             *)

\* Between one document and another nothing but blanks is lost or repeated in the
\* stream buffer, however many writes and reads there are and in whatever order:
\* what has been read and what is still to be read is what was written.
StreamLosesNothing == received \o Solid(stream) = Solid(sent)

\* However packages are copied and moved, each can still find headers: it has its
\* two rules, and none of their parts is empty.
PackagesStayValid == \A p \in Packages : IsValid(p)
=============================================================================
