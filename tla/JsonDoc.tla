------------------------------- MODULE JsonDoc -------------------------------
(***************************************************************************)
(* What ArduinoJson's deserializeJson leaves in a StaticJsonDocument, as a *)
(* function of the text it is given, which may end anywhere.  The sketch   *)
(* does not look at the error, so it reads what was there when the parser  *)
(* stopped.                                                                *)
(*                                                                         *)
(* A text is a sequence of pieces: a key, a digit of a number, the first   *)
(* letter of true or false, the rest of such a word, or something that     *)
(* cannot be parsed.  Quotes, colons and commas change nothing in the      *)
(* document and are left out.  No member comes twice, and values are       *)
(* numbers and flags; a flag is 0 or 1.                                    *)
(***************************************************************************)
EXTENDS Integers, Sequences

CONSTANTS
  Capacity,   \* bytes of the document, StaticJsonDocument<256>
  KeyLength,  \* the length of each key
  SlotSize    \* sizeof(VariantSlot)

ASSUME SizesAssumption ==
  /\ Capacity \in Nat /\ SlotSize \in Nat
  /\ KeyLength \in [DOMAIN KeyLength -> Nat]

Key(n)   == <<"key", n>>
Digit(d) == <<"digit", d>>
Flag(b)  == <<"flag", b>>
Rest     == <<"rest", 0>>
Other    == <<"other", 0>>

\* JsonDocument::clear, and the parser before the first character.
Start == [doc |-> <<>>, key |-> "", used |-> 0, ok |-> TRUE]

\* What a member takes: its key with a terminator, and a slot.
Need(n) == KeyLength[n] + 1 + SlotSize

\* MemoryPool::canAlloc
CanAlloc(s, bytes) == s.used + bytes <= Capacity

\* Slip: the slot is not cleared and shows what was in it before.
NewMember_Uncleared(d, n) == [m \in DOMAIN d \cup {n} |-> IF m = n THEN 1 ELSE d[m]]

\* A new member has no value yet, which reads as 0.
NewMember(d, n) == [m \in DOMAIN d \cup {n} |-> IF m = n THEN 0 ELSE d[m]]

\* The key is copied into the pool before a slot is allocated for the member:
\* when one of the two does not fit the parser stops and allocates no more.
AddMember(s, n) ==
  IF CanAlloc(s, Need(n))
  THEN [s EXCEPT !.used = @ + Need(n), !.key = n, !.doc = NewMember(@, n)]
  ELSE [s EXCEPT !.ok = FALSE]

\* A number that ends with the text is stored as far as it goes.
AddDigit(s, d) == [s EXCEPT !.doc[s.key] = 10 * @ + d]

\* The first letter decides a flag.
SetFlag(s, b) == [s EXCEPT !.doc[s.key] = b]

ParsePiece(s, p) ==
  IF ~s.ok THEN s
  ELSE CASE p[1] = "key"   -> AddMember(s, p[2])
         [] p[1] = "digit" -> AddDigit(s, p[2])
         [] p[1] = "flag"  -> SetFlag(s, p[2])
         [] p[1] = "rest"  -> s
         [] p[1] = "other" -> [s EXCEPT !.ok = FALSE]

\* The parser after each piece of the text.
Reads(text) ==
  LET read[n \in 0 .. Len(text)] ==
        IF n = 0 THEN Start ELSE ParsePiece(read[n - 1], text[n])
  IN  read

Parse(text) == Reads(text)[Len(text)].doc

\* doc[name]: a member that is missing reads as 0.
Member(d, n) == IF n \in DOMAIN d THEN d[n] ELSE 0
=============================================================================
