------------------------------- MODULE Decoder -------------------------------
(***************************************************************************)
(* How a packed transaction is read (src/de.rs): a serde deserializer      *)
(* driven by the type that is wanted.  A byte is a number below 256, and   *)
(* an integer is the set of the positions of its bits, so that the widths  *)
(* are those of the code: u8 to u64, and u32 for what has a variable       *)
(* length.  The code never computes with these numbers, except that a list *)
(* carries its length.                                                     *)
(***************************************************************************)
EXTENDS Integers, Sequences, FiniteSets, SequencesExt

----------------------------------------------------------------------------
(* The types: an integer of n bytes, one of variable length, a name, a list *)
(* and a struct, whose fields come in the order they are declared in.       *)
Word(n) == [kind |-> "word", bytes |-> n]
Varuint == [kind |-> "varuint"]
Name == [kind |-> "name"]
Vec(T) == [kind |-> "vec", of |-> T]
Struct(names, types) == [kind |-> "struct", names |-> names, types |-> types]

Authorization == Struct(<<"actor", "permission">>, <<Name, Name>>)

Action ==
  Struct(<<"account", "name", "authorization", "data">>,
         <<Name, Name, Vec(Authorization), Vec(Word(1))>>)

Transaction ==
  Struct(<<"expiration", "ref_block_num", "ref_block_prefix", "max_net_usage_words",
           "max_cpu_usage_ms", "delay_sec", "ctx_free_actions", "actions">>,
         <<Word(4), Word(2), Word(4), Varuint, Word(1), Varuint, Vec(Action), Vec(Action)>>)

----------------------------------------------------------------------------
\* What reading a value from the front of the input comes to: the value and
\* the input left, or the error, or the panic of a build with overflow checks.
Ok(value, rest) == [outcome |-> "ok", value |-> value, rest |-> rest]
Eof == [outcome |-> "eof"]
Panic == [outcome |-> "panic"]

Bit(byte, b) == (byte \div 2 ^ b) % 2 = 1
BitsOf(byte) == {b \in 0 .. 7 : Bit(byte, b)}
Shift(bits, n) == {b + n : b \in bits}

RECURSIVE Number(_)
Number(bits) ==
  IF bits = {} THEN 0
  ELSE LET b == CHOOSE b \in bits : TRUE IN 2 ^ b + Number(bits \ {b})

\* The least significant byte comes first.
FromLeBytes(bytes) == UNION {Shift(BitsOf(bytes[i]), 8 * (i - 1)) : i \in DOMAIN bytes}

ParseWord(n, input) ==
  IF Len(input) < n THEN Eof
  ELSE Ok(FromLeBytes(SubSeq(input, 1, n)), SubSeq(input, n + 1, Len(input)))

(***************************************************************************)
(* parse_varuint takes seven bits of a byte, least significant first,      *)
(* until a byte has no high bit.  The fifth byte is shifted by 28, so that *)
(* three of its bits are lost.  The sixth would be shifted by 35: a build  *)
(* with overflow checks panics, and one without shifts by 35 modulo 32.    *)
(***************************************************************************)
\* A plausible mistake in the definition after it, used nowhere.
BadVaruintBits(input, k) ==  \* the shift does not grow
  UNION {BitsOf(input[i]) \ {7} : i \in 1 .. k}

VaruintBits(input, k) ==
  UNION {Shift(BitsOf(input[i]) \ {7}, (7 * (i - 1)) % 32) : i \in 1 .. k} \cap 0 .. 31

ParseVaruint(input, checked) ==
  LET last == {i \in DOMAIN input : ~Bit(input[i], 7)}
      k == CHOOSE i \in last : \A j \in last : i <= j
  IN  IF checked /\ Len(input) > 5 /\ \A i \in 1 .. 5 : i \notin last THEN Panic
      ELSE IF last = {} THEN Eof
      ELSE Ok(VaruintBits(input, k), SubSeq(input, k + 1, Len(input)))

(***************************************************************************)
(* name_to_string goes through the bits of a u64 from the highest, in      *)
(* groups of five; the thirteenth group has four.  A character is the      *)
(* number of its group: 0 for the dot, 1 to 5 for the digits, 6 to 31 for  *)
(* the letters.  Dots at the end are trimmed.                              *)
(***************************************************************************)
BadGroup(bits, g) ==  \* every group has five bits
  LET low == IF g = 13 THEN 0 ELSE 64 - 5 * g
  IN  Number(Shift(bits \cap low .. low + 4, -low))

Group(bits, g) ==
  LET low == IF g = 13 THEN 0 ELSE 64 - 5 * g
      width == IF g = 13 THEN 4 ELSE 5
  IN  Number(Shift(bits \cap low .. low + width - 1, -low))

Trimmed(name) ==
  LET kept == {i \in DOMAIN name : name[i] # 0}
  IN  SubSeq(name, 1, IF kept = {} THEN 0 ELSE CHOOSE i \in kept : \A j \in kept : j <= i)

NameToString(bits) == Trimmed([g \in 1 .. 13 |-> Group(bits, g)])

\* The length of a list, as far as it matters: every element takes a byte, so
\* that a list longer than the input runs out of input wherever it ends.
Length(bits, input) ==
  IF (bits \subseteq 0 .. 14) /\ Number(bits) <= Len(input) THEN Number(bits) ELSE Len(input) + 1

RECURSIVE Parse(_, _, _), ParseEach(_, _, _)

\* The values of the given types, one after the other: the first half of them,
\* then the rest.
ParseEach(types, input, checked) ==
  IF types = <<>> THEN Ok(<<>>, input)
  ELSE IF Len(types) = 1 THEN
    LET one == Parse(types[1], input, checked)
    IN  IF one.outcome = "ok" THEN Ok(<<one.value>>, one.rest) ELSE one
  ELSE
    LET half == Len(types) \div 2
        first == ParseEach(SubSeq(types, 1, half), input, checked)
        others == ParseEach(SubSeq(types, half + 1, Len(types)), first.rest, checked)
    IN  IF first.outcome # "ok" THEN first
        ELSE IF others.outcome # "ok" THEN others
        ELSE Ok(first.value \o others.value, others.rest)

Parse(T, input, checked) ==
  CASE T.kind = "word" -> ParseWord(T.bytes, input)
    [] T.kind = "varuint" -> ParseVaruint(input, checked)
    [] T.kind = "name" ->
         LET word == ParseWord(8, input)
         IN  IF word.outcome = "ok" THEN Ok(NameToString(word.value), word.rest) ELSE word
    [] T.kind = "vec" ->
         LET length == ParseVaruint(input, checked)
         IN  IF length.outcome # "ok" THEN length
             ELSE ParseEach([i \in 1 .. Length(length.value, length.rest) |-> T.of],
                            length.rest, checked)
    [] T.kind = "struct" ->
         LET fields == ParseEach(T.types, input, checked)
             At(name) == CHOOSE i \in DOMAIN T.names : T.names[i] = name
         IN  IF fields.outcome # "ok" THEN fields
             ELSE Ok([name \in ToSet(T.names) |-> fields.value[At(name)]], fields.rest)

\* from_bytes takes a transaction from the front; bytes may be left.
FromBytes(input, checked) == Parse(Transaction, input, checked)

----------------------------------------------------------------------------
(***************************************************************************)
(* The format, from the side of the client that packs: no code of this     *)
(* repository, but what its decoder is to invert.                          *)
(***************************************************************************)
ToLeBytes(bits, n) ==
  [i \in 1 .. n |-> Number(Shift(bits \cap 8 * (i - 1) .. 8 * i - 1, -8 * (i - 1)))]

\* As many groups of seven bits as the number needs, at least one.
EncodeVaruint(bits) ==
  LET groups == {0} \cup {b \div 7 : b \in bits}
      last == CHOOSE g \in groups : \A h \in groups : h <= g
  IN  [i \in 1 .. last + 1 |->
         Number(Shift(bits \cap 7 * (i - 1) .. 7 * i - 1, -7 * (i - 1)))
         + (IF i <= last THEN 128 ELSE 0)]

\* Character i is in the five bits below 64 - 5(i - 1), a thirteenth in the last four.
NameBits(name) ==
  UNION {IF i = 13 THEN BitsOf(name[i]) ELSE Shift(BitsOf(name[i]), 64 - 5 * i) : i \in DOMAIN name}

NumberBits(n) == {b \in 0 .. 14 : Bit(n, b)}

RECURSIVE Encode(_, _), EncodeEach(_, _)

EncodeEach(types, values) ==
  LET half == Len(types) \div 2 IN
  IF types = <<>> THEN <<>>
  ELSE IF Len(types) = 1 THEN Encode(types[1], values[1])
  ELSE EncodeEach(SubSeq(types, 1, half), SubSeq(values, 1, half))
       \o EncodeEach(SubSeq(types, half + 1, Len(types)), SubSeq(values, half + 1, Len(types)))

Encode(T, value) ==
  CASE T.kind = "word" -> ToLeBytes(value, T.bytes)
    [] T.kind = "varuint" -> EncodeVaruint(value)
    [] T.kind = "name" -> ToLeBytes(NameBits(value), 8)
    [] T.kind = "vec" ->
         EncodeVaruint(NumberBits(Len(value)))
         \o EncodeEach([i \in DOMAIN value |-> T.of], value)
    [] T.kind = "struct" ->
         EncodeEach(T.types, [i \in DOMAIN T.names |-> value[T.names[i]]])
=============================================================================
