-------------------------------- MODULE Wire --------------------------------
(***************************************************************************)
(* The codec: how the server takes a request apart and puts a reply        *)
(* together.                                                               *)
(*                                                                         *)
(* It models GetString, GetFloat, GetBool and GetInt of request_handler,   *)
(* the layout of requests that its handlers expect, and reply.  A message  *)
(* is a sequence of bytes.  A byte has 2 * Half values, of which a char    *)
(* takes the upper half for negative: Half is 128 in the code, and smaller *)
(* where strings of that length would be out of reach.                     *)
(***************************************************************************)
EXTENDS Integers, Sequences, SequencesExt

CONSTANT Half

ASSUME WireAssumption == Half \in Nat \ {0}

Base == 2 * Half

Byte == 0..(Base - 1)

\* A byte as a char, and an int as a byte.
Signed(b) == IF b < Half THEN b ELSE b - Base

Truncated(n) == n % Base

----------------------------------------------------------------------------
(* message_type *)

SignOn == 0
Message == 1
UpdateGame == 5
UpdateSelf == 6
SavePosition == 7
LoadPosition == 8
ServerInfo == 11
LevelList == 12
PlayerList == 13

(* player_variable_type, by the kind of its value; remove_blood (24) and    *)
(* whatever is no variable have none.                                       *)

BoolVar == 0..5 \cup {18}
IntVar == 14..17
FloatVar == 6..13 \cup 19..23 \cup 25..27

PositionX == 19
PositionY == 20
PositionZ == 21

----------------------------------------------------------------------------
(* Reading.  Indices count from 1; the type of a message is at 1. *)

\* GetString; a negative length is an empty string.
StringAt(buf, i) == SubSeq(buf, i + 1, i + Signed(buf[i]))

\* Mutant of AfterString: the length byte is not stepped over.
AfterStringShort(buf, i) == i + (IF Signed(buf[i]) > 0 THEN Signed(buf[i]) ELSE 0)

\* data_index after GetString.
AfterString(buf, i) ==
    i + 1 + (IF Signed(buf[i]) > 0 THEN Signed(buf[i]) ELSE 0)

\* Mutant of FloatAt: the bytes are not turned round.
FloatAtStraight(buf, i) == <<buf[i], buf[i + 1], buf[i + 2], buf[i + 3]>>

\* GetFloat turns the four bytes round.
FloatAt(buf, i) == <<buf[i + 3], buf[i + 2], buf[i + 1], buf[i]>>

\* The value of a variable, as the bytes a reply sends for it.
ValueAt(buf, i, type) ==
    IF type \in FloatVar THEN FloatAt(buf, i)
    ELSE IF type \in IntVar THEN <<buf[i]>>
    ELSE IF type \in BoolVar THEN <<IF buf[i] = 1 THEN 1 ELSE 0>>
    ELSE <<>>

\* HandleUpdate: a variable after the other, up to the size of the read; the
\* value of the last may lie beyond it.
Reports(buf, size) ==
    LET From[i \in 2..(size + 5)] ==
            IF i > size THEN <<>>
            ELSE LET value == ValueAt(buf, i + 1, buf[i])
                 IN  <<[type |-> buf[i], value |-> value]>>
                         \o From[i + 1 + Len(value)]
    IN  From[2]

Variable == [type : Byte, value : Seq(Byte)]

\* Of a chat message the source and the text, of an update the variables.
Request ==
    [type : Byte, source : Seq(Byte), text : Seq(Byte), vars : Seq(Variable)]

\* What handle_request takes a read of size bytes for.  Of a chat message, the
\* source is read and not used.
Taken(buf, size) ==
    [type |-> buf[1],
     source |-> IF buf[1] = Message THEN StringAt(buf, 2) ELSE <<>>,
     text |-> IF buf[1] = Message THEN StringAt(buf, AfterString(buf, 2))
                                  ELSE <<>>,
     vars |-> IF buf[1] = UpdateGame THEN Reports(buf, size) ELSE <<>>]

----------------------------------------------------------------------------
(* Writing *)

\* strlen of a string's characters.
StrLen(s) ==
    CHOOSE n \in 0..Len(s) :
        /\ \A i \in 1..n : s[i] # 0
        /\ n < Len(s) => s[n + 1] = 0

\* add_to_buffers for a string: it ends at the first NUL, and its length is
\* cut to a byte.
AddString(s) == <<Truncated(StrLen(s))>> \o SubSeq(s, 1, StrLen(s))

AddBool(b) == <<IF b THEN 1 ELSE 0>>

\* Mutant of IntToByteArray: the lowest byte comes first.
IntToByteArrayReversed(n) ==
    LET n1 == n \div Base
        n2 == n1 \div Base
        n3 == n2 \div Base
    IN  <<n % Base, n1 % Base, n2 % Base, n3 % Base>>

\* intToByteArray: four bytes, the highest first.
IntToByteArray(n) ==
    LET n1 == n \div Base
        n2 == n1 \div Base
        n3 == n2 \div Base
    IN  <<n3 % Base, n2 % Base, n1 % Base, n % Base>>

\* add_size_byte
AddSizeByte(reply) == IntToByteArray(Len(reply)) \o reply

----------------------------------------------------------------------------
(* The game client: how it lays out a request, and how it reads replies off *)
(* a stream, each after its size.                                           *)

\* The values a game reports for a variable, and the requests it makes.
Values(type) ==
    IF type \in FloatVar THEN [1..4 -> Byte]
    ELSE IF type \in IntVar THEN [1..1 -> Byte]
    ELSE IF type \in BoolVar THEN {<<0>>, <<1>>}
    ELSE {<<>>}

WellFormed(r) ==
    /\ r \in Request
    /\ r.type # Message => r.source = <<>> /\ r.text = <<>>
    /\ Len(r.source) < Base /\ Len(r.text) < Base
    /\ r.type # UpdateGame => r.vars = <<>>
    /\ \A i \in DOMAIN r.vars : r.vars[i].value \in Values(r.vars[i].type)

PutString(s) == <<Truncated(Len(s))>> \o s

PutVariable(v) ==
    <<v.type>> \o (IF v.type \in FloatVar THEN Reverse(v.value) ELSE v.value)

Encode(r) ==
    <<r.type>> \o (IF r.type = Message
                   THEN PutString(r.source) \o PutString(r.text)
                   ELSE FlattenSeq([i \in DOMAIN r.vars |-> PutVariable(r.vars[i])]))

\* What the server takes a request for: a string of Half bytes or more is taken
\* for empty, and the text behind such a source is looked for within the source.
Expected(r) ==
    [r EXCEPT !.source = IF Len(@) < Half THEN @ ELSE <<>>,
              !.text = IF Len(r.source) >= Half THEN StringAt(r.source, 1)
                       ELSE IF Len(@) < Half THEN @ ELSE <<>>]

SizeAt(s, i) ==
    ((s[i] * Base + s[i + 1]) * Base + s[i + 2]) * Base + s[i + 3]

RepliesOn(s) ==
    LET From[i \in 1..(Len(s) + 1)] ==
            IF i + 3 > Len(s) THEN <<>>
            ELSE LET last == i + 3 + SizeAt(s, i)
                 IN  IF last > Len(s) THEN <<>>
                     ELSE <<SubSeq(s, i + 4, last)>> \o From[last + 1]
    IN  From[1]
=============================================================================
