--------------------------------- MODULE MkRom ----------------------------------
(***************************************************************************)
(* fpga/tools/mkrom.py: a program image (bytes, and @address tokens) as    *)
(* the power-on content of a memory, one little-endian word per line.      *)
(***************************************************************************)
EXTENDS Integers, Sequences

CONSTANTS
  WORDS, NB,       \* words of the memory, bytes of a word
  BYTES, ORIGINS,  \* the bytes and the @addresses an image may hold
  MAX_TOKENS       \* bound on the tokens of an image

VARIABLES
  rom,             \* "idle" | "read" | "written" | "exit"
  mem, addr,       \* the bytearray, and where the next byte goes
  tokens,          \* the image read so far
  words            \* the file written

romvars == <<rom, mem, addr, tokens, words>>

SIZE == WORDS * NB
Org(a)  == [k |-> "@", v |-> a]
Byte(b) == [k |-> "byte", v |-> b]

RomStart(pc) ==
  rom = pc /\ mem = [a \in 0 .. SIZE - 1 |-> 0] /\ addr = 0 /\ tokens = <<>> /\ words = <<>>

Token(t) == rom = "read" /\ Len(tokens) < MAX_TOKENS /\ tokens' = Append(tokens, t) /\ UNCHANGED words

ReadOrg(a) == Token(Org(a)) /\ addr' = a /\ UNCHANGED <<rom, mem>>

ReadByte(b) ==
  /\ Token(Byte(b))
  /\ addr < SIZE
  /\ mem' = [mem EXCEPT ![addr] = b]
  /\ addr' = addr + 1
  /\ UNCHANGED rom

Beyond(b) == Token(Byte(b)) /\ addr >= SIZE /\ rom' = "exit" /\ UNCHANGED <<mem, addr>>

LittleEndian_Mutant(bytes) ==
  LET value[n \in 0 .. NB] == IF n = 0 THEN 0 ELSE value[n - 1] * 256 + bytes[n] IN value[NB]
\* int.from_bytes(..., 'little') of nb bytes.
LittleEndian(bytes) ==
  LET value[n \in 0 .. NB] == IF n = 0 THEN 0 ELSE value[n - 1] + bytes[n] * 256^(n - 1) IN value[NB]

WriteWords ==
  /\ rom = "read" /\ rom' = "written"
  /\ words' = [i \in 1 .. WORDS |-> LittleEndian([j \in 1 .. NB |-> mem[(i - 1) * NB + j - 1]])]
  /\ UNCHANGED <<mem, addr, tokens>>

RomNext ==
  \/ \E a \in ORIGINS : ReadOrg(a)
  \/ \E b \in BYTES : ReadByte(b) \/ Beyond(b)
  \/ WriteWords

-----------------------------------------------------------------------------
\* Where the t-th token, a byte, belongs: as far behind the last @address as there are
\* bytes between them.
Place(t) ==
  LET orgs == {0} \union {s \in 1 .. t : tokens[s].k = "@"}
      last == CHOOSE s \in orgs : \A x \in orgs : x <= s
  IN  (IF last = 0 THEN 0 ELSE tokens[last].v) + t - last - 1

\* Read back as $readmemh does, byte j of word i is the last byte of the image for that
\* address, 0 if it has none; an image with a byte beyond the memory is not written.
RomIsImage ==
  rom = "written" =>
    LET isByte == {t \in DOMAIN tokens : tokens[t].k = "byte"}
        at(a)  == {t \in isByte : Place(t) = a}
    IN  /\ \A t \in isByte : Place(t) < SIZE
        /\ \A i \in 1 .. WORDS, j \in 0 .. NB - 1 :
             LET here == at((i - 1) * NB + j)
             IN  (words[i] \div 256^j) % 256 =
                   IF here = {} THEN 0 ELSE tokens[CHOOSE t \in here : \A x \in here : x <= t].v
=================================================================================
