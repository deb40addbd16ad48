------------------------------- MODULE ZipMap -------------------------------
(***************************************************************************)
(* ZipMap (src/base/zipmap.hpp): keys and values packed into one buffer,   *)
(* with an index of hash codes and offsets.                                *)
(*                                                                         *)
(* The buffer is the sequence of its blocks.  A block of a Set is a header *)
(* (the hash code and two lengths), the key, the value and two bytes; its  *)
(* first byte is the low byte of the hash code, and Delete clears it.  What *)
(* no Set has written is zero: a Hole, which Zip reads as blocks of two    *)
(* empty strings.  Zip also takes a block for deleted if the low byte of   *)
(* its hash code is zero (Fragile), and Find stops at no hash code of zero. *)
(*                                                                         *)
(* Find and Delete hash the key they are given; Set hashes what lies       *)
(* between the first byte of the key and the first terminator in memory,   *)
(* and stores the key itself.  The two differ for a key that holds a       *)
(* terminator, or is a view that none follows.                             *)
(*                                                                         *)
(* Resize copies as many bytes as the new buffer has, more than there are: *)
(* only the two bytes after the new block keep what it finds, and nothing  *)
(* reads them.                                                             *)
(***************************************************************************)
EXTENDS Integers, SequencesExt, Subsequences

CONSTANTS
  Keys, Values,
  Hash,        \* std::hash of a key, cut to 32 bits
  SetHashes,   \* the hash codes that Set may find for a key
  Size,        \* the length of a key or a value
  Overhead,    \* HEADER_SIZE + 2 (14), the length of a block of empty strings
  MaxIndex,    \* max_size_ (64)
  IndexStep,   \* by how much the index grows (10)
  MaxSets,     \* bound: calls of Set
  Missing,     \* std::nullopt
  NoKey        \* what a hole has for a key

ASSUME HashAssumption == Hash \in [Keys -> Nat] /\ SetHashes \in [Keys -> SUBSET Nat]
ASSUME SizeAssumption == Size \in [Keys \cup Values -> Nat] /\ Overhead \in Nat \ {0}
ASSUME IndexAssumption == MaxIndex \in Nat \ {0} /\ IndexStep \in Nat \ {0}
ASSUME NoKeyAssumption == NoKey \notin Keys

VARIABLES
  blocks,      \* buffer_
  index,       \* the first index_used_ entries of index_
  indexSize,   \* index_size_
  size,        \* size_
  waitFreed,   \* wait_freed_
  used,        \* used_
  found,       \* history: the last answer of Get
  fate,        \* "ok", or "corrupt": memory that is not the map's was written
  sets,        \* history: the calls of Set
  holed        \* history: the last Zip has left bytes that no Set has written

vars == <<blocks, index, indexSize, size, waitFreed, used, found, fate, sets, holed>>

Init ==
  /\ blocks = <<>>
  /\ index = <<>>
  /\ indexSize = 0
  /\ size = 0
  /\ waitFreed = 0
  /\ used = 0
  /\ found = Missing
  /\ fate = "ok"
  /\ sets = 0
  /\ holed = FALSE

Fragile == {hashcode \in Nat : hashcode % 256 = 0}

RequiredLength(k, v) == Size[k] + Size[v] + Overhead

\* hashcode is what Set has written, and cleared says that its low byte is zero now.
Block(k, v, hashcode) ==
  [key |-> k, value |-> v, hashcode |-> hashcode, length |-> RequiredLength(k, v),
   cleared |-> hashcode \in Fragile]
Hole(length) ==
  [key |-> NoKey, value |-> Missing, hashcode |-> 0, length |-> length, cleared |-> TRUE]

\* Where each block of s ends.
Ends(s) ==
  LET end[i \in 0 .. Len(s)] == IF i = 0 THEN 0 ELSE end[i - 1] + s[i].length
  IN  end

TotalLength(s) == Ends(s)[Len(s)]
Offset(s, i) == Ends(s)[i - 1]
BlockAt(offset) == blocks[CHOOSE i \in DOMAIN blocks : Offset(blocks, i) = offset]

NoEntry == [hashcode |-> 0, offset |-> 0]

-----------------------------------------------------------------------------
(* Set *)

\* AddIndex makes room before the index is full.
IndexSize_Late == IF Len(index) > indexSize THEN indexSize + IndexStep ELSE indexSize
IndexSize ==
  IF Len(index) + 1 < indexSize THEN indexSize
  ELSE IF indexSize + IndexStep >= MaxIndex THEN MaxIndex ELSE indexSize + IndexStep

Set(k, v, hashcode) ==
  /\ fate = "ok"
  /\ sets < MaxSets
  /\ sets' = sets + 1
  /\ Len(index) < IndexSize
  /\ indexSize' = IndexSize
  /\ index' = Append(index, [hashcode |-> hashcode, offset |-> size])
  /\ blocks' = Append(blocks, Block(k, v, hashcode))
  /\ size' = size + RequiredLength(k, v)
  /\ used' = used + 1
  /\ UNCHANGED <<waitFreed, found, fate, holed>>

\* The index has its greatest size, and the new entry is written behind it.
SetOverflows ==
  /\ fate = "ok"
  /\ sets < MaxSets
  /\ sets' = sets + 1
  /\ Len(index) >= IndexSize
  /\ fate' = "corrupt"
  /\ UNCHANGED <<blocks, index, indexSize, size, waitFreed, used, found, holed>>

-----------------------------------------------------------------------------
(* Find, Get, Delete *)

\* The entries of the index that Find stops at: it takes the first.
Matches(k) ==
  {i \in DOMAIN index : /\ used > 0
                        /\ index[i].hashcode # 0
                        /\ index[i].hashcode = Hash[k]
                        /\ BlockAt(index[i].offset).key = k}

Get(k) ==
  /\ fate = "ok"
  /\ found' = IF Matches(k) = {} THEN Missing ELSE BlockAt(index[Min(Matches(k))].offset).value
  /\ UNCHANGED <<blocks, index, indexSize, size, waitFreed, used, fate, sets, holed>>

\* DelIndex clears the entry with this hash code and this offset.
DelIndex_FirstOfHash(k, offset) ==
  LET i == Min({j \in DOMAIN index : index[j].hashcode = Hash[k]})
  IN  index' = [index EXCEPT ![i].hashcode = 0]
DelIndex(k, offset) ==
  LET i == Min({j \in DOMAIN index : index[j].hashcode = Hash[k] /\ index[j].offset = offset})
  IN  index' = [index EXCEPT ![i].hashcode = 0]

Delete(k) ==
  /\ fate = "ok"
  /\ Matches(k) # {}
  /\ LET offset == index[Min(Matches(k))].offset
     IN  /\ blocks' = [i \in DOMAIN blocks |->
                         IF Offset(blocks, i) = offset THEN [blocks[i] EXCEPT !.cleared = TRUE]
                         ELSE blocks[i]]
         /\ waitFreed' = waitFreed + BlockAt(offset).length
         /\ DelIndex(k, offset)
  /\ used' = used - 1
  /\ UNCHANGED <<indexSize, size, found, fate, sets, holed>>

-----------------------------------------------------------------------------
(* Zip *)

ZipsSomething ==
  /\ fate = "ok"
  /\ size # 0 /\ waitFreed # 0

\* All is deleted: the buffer goes, the sizes stay.  The next Set allocates as
\* much again.
ZipAll ==
  /\ ZipsSomething
  /\ size - waitFreed <= 0
  /\ blocks' = <<Hole(size)>>
  /\ holed' = TRUE
  /\ UNCHANGED <<index, indexSize, size, waitFreed, used, found, fate, sets>>

\* What is not deleted, as Zip tells it.
Kept == Only(blocks, {i \in DOMAIN blocks : ~blocks[i].cleared})

\* Steps of Overhead bytes through a hole end where the next block begins.
Aligned ==
  \A i \in DOMAIN blocks :
    blocks[i].key = NoKey /\ i < Len(blocks) => blocks[i].length % Overhead = 0

WaitFreedAfterZip_Kept == waitFreed
WaitFreedAfterZip == 0

\* The index keeps its length: the entries behind those of the blocks are zero.
ZipRest ==
  LET rest == size - waitFreed - TotalLength(Kept)
  IN  /\ ZipsSomething
      /\ size - waitFreed > 0
      /\ Aligned
      /\ blocks' = IF rest > 0 THEN Append(Kept, Hole(rest)) ELSE Kept
      /\ index' = [i \in DOMAIN index |->
                     IF i > Len(Kept) THEN NoEntry
                     ELSE [hashcode |-> Kept[i].hashcode, offset |-> Offset(Kept, i)]]
      /\ size' = size - waitFreed
      /\ waitFreed' = WaitFreedAfterZip
      /\ holed' = (rest > 0)
      /\ UNCHANGED <<indexSize, used, found, fate, sets>>

\* Behind a hole of another length, Zip reads and copies what are no blocks.
ZipMisreads ==
  /\ ZipsSomething
  /\ size - waitFreed > 0
  /\ ~Aligned
  /\ fate' = "corrupt"
  /\ UNCHANGED <<blocks, index, indexSize, size, waitFreed, used, found, sets, holed>>

-----------------------------------------------------------------------------
Next ==
  \/ \E k \in Keys, v \in Values : \E hashcode \in SetHashes[k] : Set(k, v, hashcode)
  \/ SetOverflows
  \/ \E k \in Keys : Get(k) \/ Delete(k)
  \/ ZipAll \/ ZipRest \/ ZipMisreads

Spec == Init /\ [][Next]_vars

-----------------------------------------------------------------------------
\* What Zip copies fits the buffer it has allocated (lines 130-162): the sizes of the
\* header add up over any sequence of Set, Delete and Zip.
ZipFits ==
  fate = "ok" =>
    /\ size = TotalLength(blocks)
    /\ waitFreed + TotalLength(Kept) <= size

\* Memory is corrupted only by more than max_size_ calls of Set in the life of
\* a map, whatever was deleted between them (lines 317-334), or in a map of which
\* an earlier Zip has kept nothing or lost something.
SoundUntilHoled == fate = "corrupt" => sets > MaxIndex \/ holed

\* The entries of the index that are in use, in order, are the list of bindings.
IndexedBindings ==
  LET live == Only(index, {i \in DOMAIN index : index[i].hashcode # 0})
      Binding(block) == [key |-> block.key, value |-> block.value, hashcode |-> block.hashcode]
  IN  [i \in DOMAIN live |-> Binding(BlockAt(live[i].offset))]

Abstract == INSTANCE Bindings WITH bindings <- IndexedBindings

\* Through deletions, compressions and hash codes that collide, each binding that was
\* filed under the hash code of its key is found until it is deleted, the oldest
\* first, and the others never are; Zip loses those with Fragile ones (lines 60-215).
ImplementsBindings == Abstract!Spec
=============================================================================
