------------------------------- MODULE Huffman -------------------------------
(***************************************************************************)
(* The compression of packets: CHuffman (engine/shared/huffman.cpp).       *)
(*                                                                         *)
(* Both ends build the same tree from a table of frequencies.  Compress    *)
(* writes the codes of the symbols and of an end symbol; Decompress takes  *)
(* symbols from the bits that it loads byte by byte, the first bits of a   *)
(* code through a table.                                                   *)
(*                                                                         *)
(* Abstractions.  A byte has ByteBits bits, so there are 2^ByteBits        *)
(* symbols and the end symbol.  Bits still loaded are a sequence, lowest   *)
(* bit first, followed by zeros; their number, an unsigned integer in the  *)
(* code, is below 0 here where it would wrap around.  The longest code of  *)
(* ms_aFreqTable has 15 bits, so that the 32 bits of a word, which are     *)
(* left out, always hold a code and the bits before it.                    *)
(***************************************************************************)
EXTENDS Integers, Sequences, FiniteSets

CONSTANTS
  ByteBits,     \* 8
  LutBits,      \* HUFFMAN_LUTBITS
  FillBits,     \* bytes are loaded while fewer bits are there (24)
  Frequencies,  \* ms_aFreqTable: of each symbol
  CodedSize,    \* size of the buffer that is compressed into
  PlainSize,    \* size of the buffer that is decompressed into
  MaxSymbols    \* bound: length of what is compressed

EofSymbol == 2 ^ ByteBits        \* HUFFMAN_EOF_SYMBOL
Symbols == 0 .. EofSymbol - 1

ASSUME HuffmanAssumption ==
  /\ ByteBits \in Nat \ {0} /\ LutBits \in Nat \ {0} /\ FillBits \in Nat
  /\ Frequencies \in [Symbols -> Nat \ {0}]
  /\ CodedSize \in Nat \ {0} /\ PlainSize \in Nat /\ MaxSymbols \in Nat

VARIABLES
  plain,    \* what was given to Compress
  coded,    \* what it returned: bytes
  src,      \* pSrc: bytes of coded already loaded
  bits,     \* Bits
  count,    \* Bitcount
  out,      \* what Decompress has written
  huffStage \* "idle", "too big", "decoding", "done" or "error"

huffVars == <<plain, coded, src, bits, count, out, huffStage>>

-----------------------------------------------------------------------------
(***************************************************************************)
(* ConstructTree.  The nodes left are sorted by falling frequency, those   *)
(* of one frequency as they were; the last two become leafs of a new node, *)
(* which takes the place of the last but one.                              *)
(***************************************************************************)
BubbleSort(nodes) ==
  LET Rank(i) == 1 + Cardinality({j \in DOMAIN nodes :
                        \/ nodes[j].freq > nodes[i].freq
                        \/ nodes[j].freq = nodes[i].freq /\ j < i})
  IN  [r \in DOMAIN nodes |-> nodes[CHOOSE i \in DOMAIN nodes : Rank(i) = r]]

RECURSIVE MergedNodes(_)
MergedNodes(nodes) ==
  IF Len(nodes) = 1 THEN nodes[1].tree
  ELSE LET sorted == BubbleSort(nodes)
           last == sorted[Len(nodes)]
           other == sorted[Len(nodes) - 1]
           merged == [tree |-> [sym |-> -1, leafs |-> <<last.tree, other.tree>>],
                      freq |-> last.freq + other.freq]
       IN  MergedNodes(Append(SubSeq(sorted, 1, Len(nodes) - 2), merged))

Leaf(s) == [sym |-> s, leafs |-> <<>>]

Tree == MergedNodes([i \in 1 .. EofSymbol + 1 |->
                  [tree |-> Leaf(i - 1),
                   freq |-> IF i - 1 = EofSymbol THEN 1 ELSE Frequencies[i - 1]]])

\* Setbits_r: the codes below a node, reached by those bits.
RECURSIVE CodesBelow(_, _)
CodesBelow(node, path) ==
  IF node.leafs = <<>> THEN {[sym |-> node.sym, bits |-> path]}
  ELSE CodesBelow(node.leafs[1], Append(path, 0)) \union CodesBelow(node.leafs[2], Append(path, 1))

Codes == CodesBelow(Tree, <<>>)
CodeOf == [s \in 0 .. EofSymbol |-> (CHOOSE c \in Codes : c.sym = s).bits]

\* The node that bs leads to, or the symbol met on the way; with the bits
\* used up.
RECURSIVE Walk(_, _, _)
Walk(node, bs, used) ==
  IF node.leafs = <<>> \/ bs = <<>> THEN [node |-> node, used |-> used]
  ELSE Walk(node.leafs[Head(bs) + 1], Tail(bs), used + 1)

\* The decode table of Init, by the value of its index bits.
BitStrings == [1 .. LutBits -> {0, 1}]
DecodeLut == [bs \in BitStrings |-> Walk(Tree, bs, 0)]

-----------------------------------------------------------------------------
(***************************************************************************)
(* Compress.  A full buffer is an error even if nothing more would follow; *)
(* the last byte holds what is left of the bits and is always written.     *)
(***************************************************************************)
RECURSIVE CodeBits(_)
CodeBits(symbols) ==
  IF symbols = <<>> THEN CodeOf[EofSymbol]
  ELSE CodeOf[Head(symbols)] \o CodeBits(Tail(symbols))

Padded(bs, n) == bs \o [i \in 1 .. n |-> 0]

\* Byte k of a sequence of bits.
ByteAt(bs, k) ==
  SubSeq(Padded(bs, ByteBits), (k - 1) * ByteBits + 1, k * ByteBits)

TooBig(bs) == Len(bs) \div ByteBits >= CodedSize

HuffCompress(symbols) ==
  LET bs == CodeBits(symbols)
  IN  [k \in 1 .. Len(bs) \div ByteBits + 1 |-> ByteAt(bs, k)]

-----------------------------------------------------------------------------
HuffTypeOK ==
  /\ plain \in Seq(Symbols) /\ Len(plain) <= MaxSymbols
  /\ Len(coded) <= CodedSize /\ src \in 0 .. Len(coded)
  /\ bits \in Seq({0, 1}) /\ count \in Int
  /\ out \in Seq(Symbols) /\ Len(out) <= PlainSize
  /\ huffStage \in {"idle", "too big", "decoding", "done", "error"}

HuffInit ==
  /\ plain = <<>> /\ coded = <<>> /\ src = 0 /\ bits = <<>> /\ count = 0 /\ out = <<>>
  /\ huffStage = "idle"

CompressPacket(symbols) ==
  /\ huffStage = "idle"
  /\ plain' = symbols
  /\ IF TooBig(CodeBits(symbols)) THEN huffStage' = "too big" /\ UNCHANGED coded
     ELSE coded' = HuffCompress(symbols) /\ huffStage' = "decoding"
  /\ UNCHANGED <<src, bits, count, out>>

(***************************************************************************)
(* One symbol of Decompress.  If there are not enough bits for the table   *)
(* before bytes are loaded, it is asked after; the bits behind the loaded  *)
(* ones read as zeros.                                                     *)
(***************************************************************************)
\* How many bytes are loaded: count < 0 stands for a huge number.
Loads ==
  LET Loaded(n) == count + n * ByteBits
  IN  CHOOSE n \in 0 .. Len(coded) - src :
        /\ count < 0 => n = 0
        /\ count >= 0 => /\ \A k \in 0 .. n - 1 : Loaded(k) < FillBits
                         /\ Loaded(n) >= FillBits \/ n = Len(coded) - src

RECURSIVE Bits(_, _)
Bits(from, n) == IF n = 0 THEN <<>> ELSE coded[from] \o Bits(from + 1, n - 1)

LutIndex(bs) == SubSeq(Padded(bs, LutBits), 1, LutBits)

BitsAfter(bs, n) == SubSeq(bs, n + 1, Len(bs))

\* Mutant of SymbolBits: the bits the table looked at are all taken.
AllLutBits(entry) == LutBits

\* How many bits a symbol found in the table takes.
SymbolBits(entry) == entry.used

\* The tree walked bit by bit from a node of the table, until a symbol or
\* until the number of bits gets 0.
RECURSIVE WalkOn(_, _, _)
WalkOn(node, bs, n) ==
  LET bit == IF bs = <<>> THEN 0 ELSE Head(bs)
      next == node.leafs[bit + 1]
  IN  IF next.leafs = <<>> THEN [sym |-> next.sym, bits |-> BitsAfter(bs, 1), count |-> n - 1]
      ELSE IF n - 1 = 0 THEN [sym |-> -1, bits |-> BitsAfter(bs, 1), count |-> 0]
      ELSE WalkOn(next, BitsAfter(bs, 1), n - 1)

DecodeSymbol ==
  LET n == Loads
      loaded == bits \o Bits(src + 1, n)
      entry == DecodeLut[LutIndex(IF count >= LutBits \/ count < 0 THEN bits ELSE loaded)]
      had == count + n * ByteBits
      found == IF entry.node.leafs = <<>>
               THEN [sym |-> entry.node.sym, bits |-> BitsAfter(loaded, SymbolBits(entry)),
                     count |-> had - SymbolBits(entry)]
               ELSE WalkOn(entry.node, BitsAfter(loaded, LutBits), had - LutBits)
  IN  /\ huffStage = "decoding"
      /\ src' = src + n /\ bits' = found.bits /\ count' = found.count
      /\ CASE found.sym = -1 -> huffStage' = "error" /\ UNCHANGED out
           [] found.sym = EofSymbol -> huffStage' = "done" /\ UNCHANGED out
           [] OTHER -> IF Len(out) = PlainSize THEN huffStage' = "error" /\ UNCHANGED out
                       ELSE out' = Append(out, found.sym) /\ UNCHANGED huffStage
      /\ UNCHANGED <<plain, coded>>

HuffNext ==
  \/ \E n \in 0 .. MaxSymbols : \E symbols \in [1 .. n -> Symbols] : CompressPacket(symbols)
  \/ DecodeSymbol

HuffSpec == HuffInit /\ [][HuffNext]_huffVars

(***************************************************************************)
(* A packet that was compressed decompresses to itself if there is room    *)
(* for it, and otherwise ends in an error (huffman.cpp:150-297).           *)
(***************************************************************************)
HuffmanRestores ==
  /\ huffStage = "done" => out = plain
  /\ huffStage = "error" => Len(plain) > PlainSize
=============================================================================
