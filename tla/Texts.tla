------------------------------- MODULE Texts -------------------------------
(***************************************************************************)
(* What a SimpleDynamicString (src/base/simple_dynamic_string.hpp) shows   *)
(* to its callers: a sequence of bytes, and what each call makes of it,    *)
(* without buffers, lengths or free space.  A view is appended as the text *)
(* that starts where it does; Trim never cuts a string and returns, and is *)
(* not among the calls.                                                    *)
(***************************************************************************)
EXTENDS Integers, SequencesExt

CONSTANTS Strings, Bytes, Nul, Inputs, CaseMaps

VARIABLE text      \* text[s]: the bytes of s

Init == text = [s \in Strings |-> <<>>]

Becomes(s, t) == text' = [text EXCEPT ![s] = t]

\* What a reader of a C string sees of t.
Visible(t) ==
  LET ends == {i \in DOMAIN t : t[i] = Nul}
  IN  IF ends = {} THEN t ELSE SubSeq(t, 1, Min(ends) - 1)

\* t without the bytes c at both ends; where nothing is left, one terminator is.
Inner(t, c) ==
  LET others == {i \in DOMAIN t : t[i] # c}
  IN  IF others = {} THEN <<Nul>> ELSE SubSeq(t, Min(others), Max(others))

Construct(s, t) == Becomes(s, t)

AppendBytes(s, t) == Becomes(s, text[s] \o t)

AppendString(s, o) == Becomes(s, text[s] \o text[o])

\* A string that is assigned to itself keeps its length only.
Assign(s, o) == Becomes(s, IF s = o THEN [i \in DOMAIN text[s] |-> Nul] ELSE text[o])

Move(s, o) == text' = [text EXCEPT ![s] = text[o], ![o] = <<>>]

Clean(s) == Becomes(s, <<>>)

KeepRange(s, start, end) == Becomes(s, SubSeq(text[s], start + 1, end))

Trim2(s, c) == Becomes(s, Inner(Visible(text[s]), c))

Recase(s, f) == Becomes(s, [i \in DOMAIN text[s] |-> f[text[s][i]]])

Next ==
  \E s \in Strings :
    \/ \E t \in Inputs : Construct(s, t) \/ AppendBytes(s, t)
    \/ \E o \in Strings : AppendString(s, o) \/ Assign(s, o) \/ Move(s, o)
    \/ Clean(s)
    \/ \E start, end \in 0 .. Len(text[s]) : KeepRange(s, start, end)
    \/ \E c \in Bytes : Trim2(s, c)
    \/ \E f \in CaseMaps : Recase(s, f)

Spec == Init /\ [][Next]_text
=============================================================================
