------------------------------- MODULE Packing -------------------------------
(***************************************************************************)
(* How messages are packed: CPacker and CUnpacker                          *)
(* (engine/shared/packer.cpp) and the integers of variable length they     *)
(* are made of, CVariableInt (engine/shared/compression.cpp).              *)
(*                                                                         *)
(* A sender adds integers, strings and raw bytes to a buffer of fixed      *)
(* size; a receiver takes them out in the same order from what arrived,    *)
(* which may be cut short.                                                 *)
(*                                                                         *)
(* Abstractions.  A byte has GroupBits + 1 bits.  A string is a sequence   *)
(* of characters, each encoded in one or more bytes other than 0, and a    *)
(* sequence that is no UTF-8 is the character "bad"; sanitizing is left    *)
(* out.                                                                    *)
(***************************************************************************)
EXTENDS Integers, Sequences, Functions

CONSTANTS
  GroupBits,    \* data bits of a byte but the first (7)
  Groups,       \* bytes of an integer after the first, at most (4)
  LastBits,     \* data bits of the last of them (4)
  PackerSize,   \* PACKER_BUFFER_SIZE
  PackInts,     \* the integers that are added
  PackStrings,  \* the strings
  PackLimits,   \* the limits given to AddString, 0 for none
  PackRaws,     \* the raw data
  MaxAdds       \* bound: how many values are added

Extend == 2 ^ GroupBits             \* the extend bit, 0x80
Sign == 2 ^ (GroupBits - 1)         \* the sign bit, 0x40
DataBits == GroupBits - 1 + (Groups - 1) * GroupBits + LastBits
PackBytes == 0 .. 2 * Extend - 1

ASSUME PackingAssumption ==
  /\ GroupBits \in Nat \ {0} /\ Groups \in Nat \ {0} /\ PackerSize \in Nat /\ MaxAdds \in Nat
  /\ LastBits \in 1 .. GroupBits
  /\ PackInts \subseteq -(2 ^ DataBits) .. 2 ^ DataBits - 1
  /\ PackLimits \subseteq Nat

VARIABLES
  packAdded, \* history: what was added, [kind, val], cut as AddString cut it
  packed,   \* the bytes of the packer
  packErr,  \* m_Error of the packer
  overrun,  \* AddString wrote behind the end of the buffer
  arrived,  \* what the unpacker was given; NoMessage before
  at,       \* m_pCurrent of the unpacker, bytes read
  unpackErr,\* m_Error of the unpacker
  taken     \* history: the values taken out without an error

packVars == <<packAdded, packed, packErr, overrun, arrived, at, unpackErr, taken>>

NoMessage == <<-1>>

-----------------------------------------------------------------------------
(***************************************************************************)
(* CVariableInt.  The first byte has a sign bit; a negative number is      *)
(* stored as its complement.                                               *)
(***************************************************************************)
\* The bytes after the first, of the data left.
PackRest[rest \in Nat] ==
  IF rest = 0 THEN <<>>
  ELSE <<(rest % Extend) + (IF rest >= Extend THEN Extend ELSE 0)>> \o PackRest[rest \div Extend]

PackInt(i) ==
  LET data == IF i < 0 THEN -i - 1 ELSE i
  IN  <<(data % Sign) + (IF i < 0 THEN Sign ELSE 0) + (IF data >= Sign THEN Extend ELSE 0)>>
      \o PackRest[data \div Sign]

\* How many bytes the integer at the head of s has: none if s ends before it.
IntSizes(s) ==
  {n \in 1 .. Groups + 1 :
     /\ n <= Len(s)
     /\ \A j \in 1 .. n - 1 : s[j] >= Extend
     /\ n = Groups + 1 \/ s[n] < Extend}

\* Mutant of ByteData: the data of all bytes but the first is shifted alike.
ByteDataShifted(s, j) ==
  IF j = 1 THEN s[1] % Sign ELSE (s[j] % Extend) * Sign

\* What byte j of an integer stands for.
ByteData(s, j) ==
  IF j = 1 THEN s[1] % Sign
  ELSE (s[j] % (IF j = Groups + 1 THEN 2 ^ LastBits ELSE Extend)) * Sign * Extend ^ (j - 2)

UnpackInt(s, n) ==
  LET data == FoldFunction(+, 0, [j \in 1 .. n |-> ByteData(s, j)])
  IN  IF (s[1] \div Sign) % 2 = 1 THEN -data - 1 ELSE data

\* Compress and Decompress of a sequence of integers.
RECURSIVE IntsOf(_)
IntsOf(s) ==
  IF s = <<>> THEN <<>>
  ELSE IF IntSizes(s) = {} THEN <<"error">>
  ELSE LET n == CHOOSE k \in IntSizes(s) : TRUE
       IN  <<UnpackInt(s, n)>> \o IntsOf(SubSeq(s, n + 1, Len(s)))

-----------------------------------------------------------------------------
(***************************************************************************)
(* Strings.  The bytes of a character; what is no UTF-8 becomes U+FFFD.    *)
(***************************************************************************)
EncodeChar(c) == CASE c = "a" -> <<1>> [] c = "u" -> <<2, 3>> [] c = "bad" -> <<4, 5, 6>>

Encode[s \in Seq({"a", "u", "bad"})] ==
  IF s = <<>> THEN <<>> ELSE EncodeChar(Head(s)) \o Encode[Tail(s)]

(***************************************************************************)
(* The loop of AddString: characters go into the buffer one by one until   *)
(* the limit is reached or no space is left.                               *)
(***************************************************************************)
RECURSIVE AddChars(_, _, _)
AddChars(s, limit, buffer) ==
  LET bytes == EncodeChar(Head(s))
  IN  IF s = <<>> \/ limit = 0 \/ limit < Len(bytes)
      THEN [buffer |-> buffer, err |-> FALSE]
      ELSE IF PackerSize - Len(buffer) < Len(bytes) + 1 THEN [buffer |-> buffer, err |-> TRUE]
      ELSE AddChars(Tail(s), limit - Len(bytes), buffer \o bytes)

\* What the receiver is to get: the whole characters that fit the limit.
Cut(s, limit) ==
  LET fits == {n \in 0 .. Len(s) : Len(Encode[SubSeq(s, 1, n)]) <= limit}
  IN  SubSeq(s, 1, CHOOSE n \in fits : \A k \in fits : k <= n)

-----------------------------------------------------------------------------
PackTypeOK ==
  /\ packed \in Seq(PackBytes)
  /\ Len(packed) <= PackerSize
  /\ packErr \in BOOLEAN /\ overrun \in BOOLEAN /\ unpackErr \in BOOLEAN
  /\ arrived = NoMessage \/ arrived \in Seq(PackBytes)
  /\ at \in 0 .. PackerSize
  /\ Len(taken) <= Len(packAdded) /\ Len(packAdded) <= MaxAdds

PackInit ==
  /\ packAdded = <<>> /\ packed = <<>> /\ packErr = FALSE /\ overrun = FALSE
  /\ arrived = NoMessage /\ at = 0 /\ unpackErr = FALSE /\ taken = <<>>

Packs ==
  /\ arrived = NoMessage /\ Len(packAdded) < MaxAdds
  /\ UNCHANGED <<arrived, at, unpackErr, taken>>

AddInt(i) ==
  /\ Packs /\ ~packErr
  /\ packAdded' = Append(packAdded, [kind |-> "int", val |-> i])
  /\ IF Len(packed) + Len(PackInt(i)) <= PackerSize
     THEN packed' = packed \o PackInt(i) /\ UNCHANGED packErr
     ELSE packErr' = TRUE /\ UNCHANGED packed
  /\ UNCHANGED overrun

\* The end of the string is written even when no space is left for it: the
\* byte then falls behind the buffer.
AddString(s, limit) ==
  LET bound == IF limit = 0 THEN PackerSize ELSE limit
      result == AddChars(s, bound, packed)
  IN  /\ Packs /\ ~packErr
      /\ packAdded' = Append(packAdded, [kind |-> "string", val |-> Cut(s, bound)])
      /\ packErr' = result.err
      /\ IF Len(result.buffer) < PackerSize
         THEN packed' = Append(result.buffer, 0) /\ UNCHANGED overrun
         ELSE packed' = result.buffer /\ overrun' = TRUE

\* Raw data must leave at least one byte of the buffer free.
AddRaw(data) ==
  /\ Packs /\ ~packErr
  /\ packAdded' = Append(packAdded, [kind |-> "raw", val |-> data])
  /\ IF Len(packed) + Len(data) >= PackerSize
     THEN packErr' = TRUE /\ UNCHANGED packed
     ELSE packed' = packed \o data /\ UNCHANGED packErr
  /\ UNCHANGED overrun

\* CUnpacker::Reset with the first n bytes of the message.
Arrives(n) ==
  /\ arrived = NoMessage /\ ~overrun
  /\ arrived' = SubSeq(packed, 1, n)
  /\ UNCHANGED <<packAdded, packed, packErr, overrun, at, unpackErr, taken>>

-----------------------------------------------------------------------------
\* The next value to be taken has that kind, and the unpacker has no error.
Takes(kind) ==
  /\ arrived # NoMessage /\ ~unpackErr /\ Len(taken) < Len(packAdded)
  /\ packAdded[Len(taken) + 1].kind = kind
  /\ UNCHANGED <<packAdded, packed, packErr, overrun, arrived>>

Rest == SubSeq(arrived, at + 1, Len(arrived))

Taken(val, n) ==
  /\ taken' = Append(taken, val) /\ at' = at + n
  /\ UNCHANGED unpackErr

UnpackFails ==
  /\ unpackErr' = TRUE
  /\ UNCHANGED <<at, taken>>

GetInt ==
  /\ Takes("int")
  /\ IF IntSizes(Rest) = {} THEN UnpackFails
     ELSE \E n \in IntSizes(Rest) : Taken(UnpackInt(Rest, n), n)

GetString ==
  /\ Takes("string")
  /\ LET ends == {j \in DOMAIN Rest : Rest[j] = 0}
     IN  IF ends = {} THEN UnpackFails
         ELSE LET end == CHOOSE j \in ends : \A k \in ends : j <= k
              IN  Taken(SubSeq(Rest, 1, end - 1), end)

GetRaw ==
  /\ Takes("raw")
  /\ LET size == Len(packAdded[Len(taken) + 1].val)
     IN  IF size > Len(Rest) THEN UnpackFails ELSE Taken(SubSeq(Rest, 1, size), size)

PackNext ==
  \/ \E i \in PackInts : AddInt(i)
  \/ \E s \in PackStrings, limit \in PackLimits : AddString(s, limit)
  \/ \E data \in PackRaws : AddRaw(data)
  \/ \E n \in 0 .. Len(packed) : Arrives(n)
  \/ GetInt \/ GetString \/ GetRaw

PackSpec == PackInit /\ [][PackNext]_packVars

-----------------------------------------------------------------------------
\* What the receiver should see of value j.
Expected(j) == IF packAdded[j].kind = "string" THEN Encode[packAdded[j].val] ELSE packAdded[j].val

(***************************************************************************)
(* What was packed without an error is unpacked: every value taken out is  *)
(* the one that was added, also from a message that was cut short, which   *)
(* ends in an error; a whole message is read to its end (packer.cpp,       *)
(* compression.cpp:9-66).  Integers alone also decompress to themselves    *)
(* (compression.cpp:68-86).                                                *)
(***************************************************************************)
UnpacksWhatWasPacked ==
  packErr \/ overrun \/
    /\ \A j \in DOMAIN taken : taken[j] = Expected(j)
    /\ arrived = packed =>
         /\ ~unpackErr
         /\ Len(taken) = Len(packAdded) => at = Len(arrived)
    /\ (\A j \in DOMAIN packAdded : packAdded[j].kind = "int")
         => IntsOf(packed) = [j \in DOMAIN packAdded |-> packAdded[j].val]
=============================================================================
