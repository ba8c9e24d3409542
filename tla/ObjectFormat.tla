---------------------------- MODULE ObjectFormat ----------------------------
(***************************************************************************)
(* The format of objects (oop_t), bit by bit.                              *)
(*                                                                         *)
(* An object is known by the address of its slot 0.  In front of it are    *)
(* its behavior and a word with size, identity hash and flags; an extended *)
(* object has two more words before these: a second set of size, hash and  *)
(* flags, and its real size.                                               *)
(*                                                                         *)
(*   -16  size 4 | hash | flags      extended header                       *)
(*   -12  size                                                             *)
(*    -8  size | hash | flags        basic header                          *)
(*    -4  behavior                                                         *)
(*     0  slots                                                            *)
(*                                                                         *)
(* A word is the set of its bits that are 1.  Memory is a function from    *)
(* the addresses of words to words, and is a parameter here.               *)
(***************************************************************************)
EXTENDS Integers, FiniteSetsExt, TLC

Bit == 0 .. 31
Word == SUBSET Bit

(* Bound: addresses and sizes have this many bits. *)
NumberBits == 9
Words == [n \in 0 .. 2^NumberBits - 1 |-> {b \in 0 .. NumberBits - 1 : (n \div 2^b) % 2 = 1}]
WordOf(n) == Words[n]
NumberOf(word) == MapThenSumSet(LAMBDA b : 2^b, word \cap 0 .. NumberBits - 1)

(* The flags, in the highest byte of a header word. *)
UnseenInSpace == 24
Generation == 25
Weak == 26             \* Flag_isEphemeron: in the basic header it says that there are weak slots
InRememberedSet == 27
Bytes == 28
ZeroTerminated == 29
Extended == 31

SizeByte == 0 .. 7
IsSmallInteger(word) == 0 \in word

Slot(o, index) == o + 4 * index
Basic(o) == o - 8
ExtendedHeader(o) == o - 16
WordsBetween(first, last) == {a \in first .. last - 1 : (a - first) % 4 = 0}

-----------------------------------------------------------------------------
(* Flags. *)
Has(m, o, flag) == flag \in m[Basic(o)]
HasExt(m, o, flag) == flag \in m[ExtendedHeader(o)]
Set(m, o, flag) == [m EXCEPT ![Basic(o)] = @ \cup {flag}]
Unset(m, o, flag) == [m EXCEPT ![Basic(o)] = @ \ {flag}]
UnsetAll(m, os, flag) == [a \in {Basic(o) : o \in os} |-> m[a] \ {flag}] @@ m

IsExtended(m, o) == Has(m, o, Extended)
HasWeaks(m, o) == Has(m, o, Weak)
IsActiveEphemeron(m, o) == HasWeaks(m, o) /\ IsExtended(m, o) /\ HasExt(m, o, Weak)

HasBeenSeenInLibrary(m, o) == Has(m, o, UnseenInSpace)
HasBeenSeenInSpace(m, o) == ~HasBeenSeenInLibrary(m, o)

(* The mark, in both headers. *)
BeUnseenInSpaceFull(m, o) ==
  IF IsExtended(m, o)
  THEN [m EXCEPT ![Basic(o)] = @ \cup {UnseenInSpace}, ![ExtendedHeader(o)] = @ \cup {UnseenInSpace}]
  ELSE Set(m, o, UnseenInSpace)

-----------------------------------------------------------------------------
(* Sizes.  That of bytes with a zero at the end counts the zero; the header *)
(* of an extended object holds the size of the header.                      *)
Zero(m, o) == IF Has(m, o, Bytes) /\ Has(m, o, ZeroTerminated) THEN 1 ELSE 0
BasicSize(m, o) == NumberOf(m[Basic(o)] \cap SizeByte)
ExtendedSize(m, o) == NumberOf(m[ExtendedHeader(o) + 4])

Size(m, o) == (IF IsExtended(m, o) THEN ExtendedSize(m, o) ELSE BasicSize(m, o)) - Zero(m, o)

(* Mutant: bytes are not padded to a word. *)
SizeNotPadded(m, o) == IF Has(m, o, Bytes) THEN Size(m, o) + Zero(m, o) ELSE 4 * Size(m, o)

SizeInBytes(m, o) ==
  IF Has(m, o, Bytes) THEN 4 * ((Size(m, o) + 3 + Zero(m, o)) \div 4) ELSE 4 * Size(m, o)

HeaderSizeInBytes(m, o) == IF IsExtended(m, o) THEN 4 * BasicSize(m, o) ELSE 8

PointersSize(m, o) == IF Has(m, o, Bytes) THEN 1 ELSE 1 + Size(m, o)
StrongPointersSize(m, o) == IF Has(m, o, Bytes) \/ HasWeaks(m, o) THEN 1 ELSE 1 + Size(m, o)

(* The object whose header begins at an address.  While lists of slots      *)
(* start in basic headers a flag may be a bit of an address: what begins    *)
(* with such a word is a basic header.                                      *)
HeaderToObject(m, buffer) == IF Extended \in m[buffer] THEN buffer + 16 ELSE buffer + 8

(* Mutant: a link is read as flags. *)
HeaderSizeOfLink(m, buffer) == IF Extended \in m[buffer] THEN 16 ELSE 8

UnthreadedHeaderSizeInBytes(m, buffer) ==
  IF UnseenInSpace \in m[buffer] /\ Extended \in m[buffer] THEN 16 ELSE 8

-----------------------------------------------------------------------------
(* An address in the place of a header is rotated, so that its lowest bits, *)
(* which are 0, are where the mark is.                                      *)
RotateRight(word, c) == {(b + 32 - c) % 32 : b \in word}
RotateLeft(word, c) == {(b + c) % 32 : b \in word}
Rotate(word) == RotateRight(word, 8)
Unrotate(word) == RotateLeft(word, 8)

IsProxy(m, o) == ~Has(m, o, UnseenInSpace)
SetProxee(m, o, word) == [m EXCEPT ![Basic(o)] = Rotate(word)]
Proxee(m, o) == Unrotate(m[Basic(o)])

ThreadWithAt(m, o, slot) == SetProxee([m EXCEPT ![slot] = m[Basic(o)]], o, WordOf(slot))

(* The slots of a list, and the word at its end. *)
Thread(m, o) ==
  LET rest[word \in Word] ==
        LET next == Unrotate(word)
        IN  IF IsSmallInteger(next) THEN [slots |-> {}, bits |-> word]
            ELSE LET r == rest[m[NumberOf(next)]]
                 IN  [r EXCEPT !.slots = @ \cup {NumberOf(next)}]
  IN  rest[m[Basic(o)]]

(* Mutant: the byte is taken for the size in any case. *)
UnthreadedBasicSize(m, o) == NumberOf(Thread(m, o).bits \cap SizeByte)

UnthreadedSize(m, o) ==
  LET bits == Thread(m, o).bits
  IN  IF Extended \in bits THEN ExtendedSize(m, o) ELSE NumberOf(bits \cap SizeByte)

-----------------------------------------------------------------------------
(* Copies, made at the address buffer by GCSpace. *)

(* Mutant: the copy keeps the flag. *)
ShallowCopyRemembered(m, o, buffer) ==
  LET header == HeaderSizeInBytes(m, o)
      end == buffer + header + SizeInBytes(m, o)
  IN  [a \in WordsBetween(buffer, end) |-> m[o - header + a - buffer]] @@ m

(* Mutant: only the basic header is copied. *)
ShallowCopyBasic(m, o, buffer) ==
  LET copy == buffer + HeaderSizeInBytes(m, o)
      end == copy + SizeInBytes(m, o)
  IN  Unset([a \in WordsBetween(copy - 8, end) |-> m[o + a - copy]] @@ m, copy, InRememberedSet)

ShallowCopy(m, o, buffer) ==
  LET header == HeaderSizeInBytes(m, o)
      end == buffer + header + SizeInBytes(m, o)
      copied == [a \in WordsBetween(buffer, end) |-> m[o - header + a - buffer]] @@ m
  IN  Unset(copied, buffer + header, InRememberedSet)

(* shallowCopyGrowingTo: the copy is extended, its second header has the    *)
(* flags of the first, except that the remembered flag is cleared later.    *)
ShallowCopyGrowingTo(m, array, buffer, newSize, nil) ==
  LET copy == buffer + 16
      bits == ((m[Basic(array)] \cup {Extended}) \ SizeByte) \cup WordOf(4)
      copied == [a \in {ExtendedHeader(copy), Basic(copy)} |-> bits]
                  @@ [a \in {ExtendedHeader(copy) + 4} |-> WordOf(newSize)]
                  @@ [a \in WordsBetween(copy - 4, Slot(copy, Size(m, array))) |-> m[array + a - copy]]
                  @@ [a \in WordsBetween(Slot(copy, Size(m, array)), Slot(copy, newSize)) |-> WordOf(nil)]
                  @@ m
  IN  Unset(copied, copy, InRememberedSet)
=============================================================================
