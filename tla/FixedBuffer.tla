----------------------------- MODULE FixedBuffer -----------------------------
(***************************************************************************)
(* base::FixedBuffer<Size> (src/base/fixed_buffer.hpp) and the C functions *)
(* that write into one, as operators on a record with its members.  A cell *)
(* of data_ holds a piece of text or Nul; how many bytes a piece has does  *)
(* not matter to its user, base::Log.                                      *)
(***************************************************************************)
EXTENDS Naturals, Sequences

CONSTANTS
  BufferSize,   \* Size, capacity_
  Nul           \* '\0'

ASSUME BufferSizeAssumption == BufferSize \in Nat \ {0}

NewBuffer == [data |-> [i \in 1 .. BufferSize |-> Nul], used |-> 0]

\* What writing the cells at an offset makes of data_.
Written(data, offset, cells) ==
  [i \in 1 .. BufferSize |->
     IF i - offset \in DOMAIN cells THEN cells[i - offset] ELSE data[i]]

\* Append, to a buffer that has room, as it asserts.
Appended(b, cells) ==
  [data |-> Written(b.data, b.used, cells), used |-> b.used + Len(cells)]

Update(b, used) == [b EXCEPT !.used = used]

Clear(b) == [b EXCEPT !.used = 0]

UsedCells(b) == SubSeq(b.data, 1, b.used)

\* strftime and snprintf write what fits in front of a terminator; snprintf returns
\* the length of the whole text.
Fit(text) == IF Len(text) < BufferSize THEN text ELSE SubSeq(text, 1, BufferSize - 1)
Formatted(b, text) == [b EXCEPT !.data = Written(@, 0, Append(Fit(text), Nul))]

\* std::fill_n over Data().
Zeroed(b) == [b EXCEPT !.data = NewBuffer.data]
==============================================================================
