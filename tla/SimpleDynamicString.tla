-------------------------- MODULE SimpleDynamicString -------------------------
(***************************************************************************)
(* SimpleDynamicString (src/base/simple_dynamic_string.hpp), the string    *)
(* that holds what a RedisClient has read and what it will answer.         *)
(*                                                                         *)
(* A string is its length_, its free_ and its buffer_: the bytes that were *)
(* allocated, <<>> for a null pointer.  Byte i of the code is buffer[i+1]. *)
(* The loops that write check nothing, so each call says which bytes it    *)
(* reads and writes; one that leaves the allocation, or leaves a length_   *)
(* behind that does, goes astray, and nothing is said of what follows it.  *)
(* Allocation never fails, and Bytes has no terminator.                    *)
(***************************************************************************)
EXTENDS Integers, SequencesExt

CONSTANTS
  Strings,      \* the objects
  Bytes, Nul,
  Inputs,       \* what callers pass as C strings and memory
  Rooms,        \* what they ask MakeRoomFor for
  CaseMaps,     \* tolower and toupper
  Word,         \* 2^64: size_t and uint64_t are taken modulo it
  MaxLength     \* bound: the length of a string, and what is passed or asked for

ASSUME BytesAssumption == Nul \notin Bytes
ASSUME InputsAssumption == Inputs \subseteq Seq(Bytes) /\ \A t \in Inputs : Len(t) <= MaxLength
ASSUME RoomsAssumption == Rooms \subseteq 0 .. MaxLength
ASSUME CaseAssumption == \A f \in CaseMaps : f \in [Bytes \cup {Nul} -> Bytes \cup {Nul}] /\ f[Nul] = Nul
ASSUME WordAssumption == Word \in Nat /\ MaxLength \in Nat /\ Word > 6 * MaxLength + 4

VARIABLES
  strings,     \* strings[s]: [length, free, buffer]
  astray       \* the call that went astray, or <<"none">>

vars == <<strings, astray>>

Null == [length |-> 0, free |-> 0, buffer |-> <<>>]

Init ==
  /\ strings = [s \in Strings |-> Null]
  /\ astray = <<"none">>

Zeros(n) == [i \in 1 .. n |-> Nul]

\* length_ bytes and one to end them are in the allocation.
Readable(x) == x = Null \/ x.length < Len(x.buffer)

Content(x) == SubSeq(x.buffer, 1, x.length)

\* What Data() is to a reader of C strings; there is none in a null pointer.
CString(x) == SubSeq(x.buffer, 1, Min({i \in DOMAIN x.buffer : x.buffer[i] = Nul}) - 1)

\* A call on s with effect x, which is safe if it stays inside the allocation.
Do(call, s, safe, x) ==
  /\ astray = <<"none">>
  /\ IF safe /\ Readable(x)
     THEN strings' = [strings EXCEPT ![s] = x] /\ UNCHANGED astray
     ELSE astray' = call /\ UNCHANGED strings

-----------------------------------------------------------------------------
(* Construction, copies and moves *)

Created(t) == [length |-> Len(t), free |-> 0, buffer |-> Append(t, Nul)]

Construct(s, t) == Do(<<"Construct", s, t>>, s, TRUE, Created(t))

\* CopyFrom keeps the free_ of the original, and replaces buffer_ before it reads
\* the other's, which may be the same.
Copied(s, o) ==
  LET other == strings[o] IN
  IF other.length = 0 THEN Null
  ELSE [other EXCEPT !.buffer = Append(IF s = o THEN Zeros(other.length) ELSE Content(other), Nul)]

Assign(s, o) == Do(<<"Assign", s, o>>, s, TRUE, Copied(s, o))

\* Swap, and then the other one is emptied: both, if they are the same.
Move(s, o) ==
  /\ astray = <<"none">>
  /\ strings' = [strings EXCEPT ![s] = strings[o], ![o] = Null]
  /\ UNCHANGED astray

Clean(s) == Do(<<"Clean", s>>, s, TRUE, Null)

-----------------------------------------------------------------------------
(* Growing *)

Capacity_OfAppended(x, n) == 2 * n
Capacity(x, n) == 2 * (x.length + n)

Roomy_Uncopied(x, n) ==
  IF x.free >= n THEN x
  ELSE [length |-> x.length, free |-> Capacity(x, n) - x.length, buffer |-> Zeros(Capacity(x, n) + 1)]
Roomy(x, n) ==
  IF x.free >= n THEN x
  ELSE [length |-> x.length, free |-> Capacity(x, n) - x.length,
        buffer |-> Content(x) \o Zeros(Capacity(x, n) + 1 - x.length)]

MakeRoomFor(s, n) == Do(<<"MakeRoomFor", s, n>>, s, TRUE, Roomy(strings[s], n))

\* The bytes and the terminator are written behind the content, room or not.
HasRoom(x, n) == x.length + n < Len(x.buffer)

Appended_FreeKept(x, t) ==
  LET length == x.length + Len(t) IN
  [length |-> length, free |-> x.free,
   buffer |-> Content(x) \o t \o <<Nul>> \o SubSeq(x.buffer, length + 2, Len(x.buffer))]
Appended(x, t) ==
  LET length == x.length + Len(t) IN
  [length |-> length, free |-> x.free - Len(t),
   buffer |-> Content(x) \o t \o <<Nul>> \o SubSeq(x.buffer, length + 2, Len(x.buffer))]

AppendTo(call, s, t, safe) ==
  LET x == Roomy(strings[s], Len(t)) IN
  /\ strings[s].length + Len(t) <= MaxLength
  /\ Do(call, s, safe /\ HasRoom(x, Len(t)), Appended(x, t))

AppendBytes(s, t) == AppendTo(<<"Append", s, t>>, s, t, TRUE)

\* A view of the first n bytes of t; the length is not passed on, and strlen finds the
\* end of t, if it is ended: by the next terminator in memory.
AppendView(s, t, n, ended) == AppendTo(<<"AppendView", s, t, ended>>, s, t, ended)

\* A string that is appended to itself is read in its old buffer, which is freed
\* when it grows.
AppendString(s, o) ==
  AppendTo(<<"AppendString", s, o>>, s, Content(strings[o]),
           s = o => strings[s].free >= strings[s].length)

-----------------------------------------------------------------------------
(* Cutting *)

\* Range, with its arithmetic: start and end may be the results of a failed search.
EndOfRange_Uncut(start, end) == end
EndOfRange(start, end) == IF start = 0 THEN end ELSE IF start < end THEN end - start ELSE 0

CutOff_OfEnd(x, start, end) == (x.length - end) % Word
CutOff(x, start, end) == (x.length - end + start) % Word

Ranged(x, start, end) ==
  LET last == EndOfRange(start, end)
      kept == IF start = 0 THEN <<>> ELSE SubSeq(x.buffer, start + 1, end)
  IN  [length |-> (x.length - CutOff(x, start, end)) % Word,
       free |-> (x.free + CutOff(x, start, end)) % Word,
       buffer |-> [i \in DOMAIN x.buffer |->
                     IF i = last + 1 THEN Nul ELSE IF i <= Len(kept) THEN kept[i] ELSE x.buffer[i]]]

\* It is asserted that end is in the string, and nothing of start.
KeepRange(s, start, end) ==
  /\ end <= strings[s].length
  /\ Do(<<"Range", s, start, end>>, s, strings[s] # Null, Ranged(strings[s], start, end))

\* Both loops of Trim compare the start of the string with c, and end at a difference:
\* then nothing is cut.  Without one the index of the second, which goes down, wraps
\* around below zero, and is used.
Trim(s, c) ==
  /\ Len(c) < strings[s].length
  /\ Do(<<"Trim", s, c>>, s, ~IsPrefix(c, strings[s].buffer), strings[s])

\* Where all is to be trimmed the searches give npos and npos + 1.
Trimmed(x, c) ==
  LET others == {i \in DOMAIN CString(x) : x.buffer[i] # c} IN
  IF others = {} THEN Ranged(x, Word - 1, 0) ELSE Ranged(x, Min(others) - 1, Max(others))

Trim2(s, c) ==
  Do(<<"Trim2", s, c>>, s, strings[s] # Null, IF strings[s] = Null THEN Null ELSE Trimmed(strings[s], c))

\* ToLower and ToUpper.
Recase(s, f) ==
  LET x == strings[s] IN
  Do(<<"Recase", s>>, s, TRUE,
     [x EXCEPT !.buffer = [i \in DOMAIN @ |-> IF i <= x.length THEN f[@[i]] ELSE @[i]]])

\* Where separator is found in t, from position i on.
Found(t, separator, i) ==
  {k \in i .. Len(t) + 1 - Len(separator) : SubSeq(t, k, k + Len(separator) - 1) = separator}

\* Split; a separator is not empty.
Split(t, separator) ==
  LET after[i \in 1 .. Len(t) + 1] ==
        IF Found(t, separator, i) = {} THEN <<SubSeq(t, i, Len(t))>>
        ELSE LET k == Min(Found(t, separator, i))
             IN  <<SubSeq(t, i, k - 1)>> \o after[k + Len(separator)]
  IN  after[1]

-----------------------------------------------------------------------------
Next ==
  \E s \in Strings :
    \/ \E t \in Inputs :
         \/ Construct(s, t) \/ AppendBytes(s, t) \/ Trim(s, t)
         \/ \E n \in 0 .. Len(t), ended \in BOOLEAN : AppendView(s, t, n, ended)
    \/ \E o \in Strings : AppendString(s, o) \/ Assign(s, o) \/ Move(s, o)
    \/ Clean(s)
    \/ \E n \in Rooms : MakeRoomFor(s, n)
    \/ \E start, end \in 0 .. MaxLength : KeepRange(s, start, end)
    \/ \E c \in Bytes : Trim2(s, c)
    \/ \E f \in CaseMaps : Recase(s, f)

Spec == Init /\ [][Next]_vars

-----------------------------------------------------------------------------
(* Safety *)

Promised(x) == x = Null \/ x.length + x.free < Len(x.buffer)

\* Every buffer holds a terminator no later than behind its last byte, so that
\* readers of Data() and the searches of Trim2, Split and IndexOf, which all look for
\* one, stay in the allocation, after any calls, and also where free_ is wrong.
Terminated ==
  \A s \in Strings :
    strings[s] # Null => \E i \in 1 .. strings[s].length + 1 : strings[s].buffer[i] = Nul

\* "剩余未使用的容量" (the capacity left unused, line 86): Avail() is there to be
\* written to.  Only copies of strings with spare room, and what is moved or
\* appended in place from them, promise what they have not.
RoomPromised ==
  [][\A s \in Strings :
       ~Promised(strings'[s]) =>
         \/ ~Promised(strings[s])
         \/ \E o \in Strings : strings'[s] = strings[o] /\ ~Promised(strings[o])
         \/ \E o \in Strings : strings'[s] = Copied(s, o) /\ strings[o].free > 0]_vars

Contents == [s \in Strings |-> Content(strings[s])]

Text == INSTANCE Texts WITH text <- Contents

\* What is cut is cut exactly where it should be, also in a string that promises
\* too much; Trim2 leaves a terminator as the text if it should leave nothing.
CutsExact ==
  \A s \in Strings : LET x == strings[s] IN x # Null /\ astray = <<"none">> =>
    /\ \A end \in 0 .. x.length : \A start \in 0 .. end :
         Content(Ranged(x, start, end)) = SubSeq(Content(x), start + 1, end)
    /\ \A c \in Bytes : Readable(Trimmed(x, c)) =>
         Content(Trimmed(x, c)) = Text!Inner(Text!Visible(Content(x)), c)

\* The calls by which a caller meets undefined behaviour: those on a null pointer that
\* write a terminator or look for one, additions to a string that promises too much,
\* of a string to itself where it must grow, or of a view with no terminator behind it,
\* a Range that ends before it starts, a Trim of a string that starts with what is to
\* be trimmed, and a Trim2 of nothing but a terminator.
AstrayExplained ==
  astray # <<"none">> =>
    LET call == astray[1]
        x == strings[astray[2]]
    IN  \/ x = Null /\ call \in {"Range", "Trim2"}
        \/ x = Null /\ call \in {"Append", "AppendView"} /\ astray[3] = <<>>
        \/ x = Null /\ call = "AppendString" /\ Content(strings[astray[3]]) = <<>>
        \/ ~Promised(x) /\ call \in {"Append", "AppendView", "AppendString"}
        \/ call = "AppendString" /\ astray[3] = astray[2] /\ x.free < x.length
        \/ call = "AppendView" /\ ~astray[4]
        \/ call = "Range" /\ astray[4] < astray[3]
        \/ call = "Trim" /\ IsPrefix(astray[3], Content(x))
        \/ call = "Trim2" /\ Len(x.buffer) = 1

\* Until then each call makes of the text what it makes of a sequence, however the
\* buffers grow and are shared out; but Trim makes nothing of it, and a view is
\* appended with all that follows it up to the next terminator, where lines 154 and
\* 142 say otherwise.
ImplementsTexts == Text!Spec
=============================================================================
