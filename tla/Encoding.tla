------------------------------- MODULE Encoding -------------------------------
(***************************************************************************)
(* What a message is on the wire, and what the receiver reads from it:     *)
(* the format strings of main.c, chain.c and server.py, payload_decoder    *)
(* (communication.c), and the bytes a block is hashed over (chain.c).      *)
(*                                                                         *)
(* Numbers are sent as text between separators, hashes and keys as they    *)
(* are: their bytes may be separators, too.  A byte is its ASCII code.     *)
(* The decimals of a load calculation are left out.                        *)
(***************************************************************************)
EXTENDS Integers, Sequences, FiniteSets, SequencesExt

CONSTANTS
    Ids, Prices, Durations, Phases,    \* what the numbers in messages may be
    Readings, Loads,
    Bytes,                             \* what the bytes of hashes, keys, signatures may be
    HashSize, SignatureSize, KeySize,  \* bound: 32, 64 and 74 in the code
    UdpBuffer, TcpBuffer               \* bound: 512 and 127 bytes received at once

VARIABLES
    sent,                              \* what the senders put in one datagram or segment
    rx_buffer,
    payload                            \* what the receiver has decoded

vars == <<sent, rx_buffer, payload>>

-----------------------------------------------------------------------------
MaxInt == 2147483647
MaxShort == 32767
NUL == 0
Comma == 44
Semicolon == 59
Minus == 45
Zero == 48

Header == [pni |-> <<112, 110, 105>>, par |-> <<112, 97, 114>>,
           plc |-> <<112, 108, 99>>, atd |-> <<97, 116, 100>>,
           bcd |-> <<98, 99, 100>>, bca |-> <<98, 99, 97>>,
           bpa |-> <<98, 112, 97>>, bcb |-> <<98, 99, 98>>]

Signed == {"bcd", "atd"}                     \* end with a signature in hex

(* Numbers a message holds, and the sizes of the binary fields behind them. *)
Numbers == [pni |-> 1, par |-> 1, plc |-> 1, atd |-> 1,
            bcd |-> 3, bca |-> 2, bpa |-> 3, bcb |-> 4]
Binary == [bca |-> <<KeySize>>,
           bpa |-> <<HashSize>>,
           bcb |-> <<HashSize, SignatureSize, SignatureSize, HashSize>>]

(* A module stores its numbers in shorts; the server answers with any int. *)
(* The lowest int, which is not the negative of an int, is left out.       *)
ShortRange == -MaxShort - 1..MaxShort
ASSUME NumbersAssumption ==
    /\ Ids \cup Prices \cup Durations \cup Phases \subseteq 0..MaxShort
    /\ Readings \cup Loads \subseteq -MaxInt..MaxInt

ASSUME SizesAssumption ==
    /\ Bytes \subseteq 0..255
    /\ {HashSize, SignatureSize, KeySize, UdpBuffer, TcpBuffer} \subseteq Nat

Octets(n) == [1..n -> Bytes]
Message(h, numbers, binary) == [header |-> h, numbers |-> numbers, binary |-> binary]

Terms == {t \in Ids \X Prices \X Durations \X Ids : t[1] # t[4]}

(* An int in a short: its lower 16 bits.                                   *)
Short(i) == ((i + 32768) % 65536) - 32768

(* A module that has no id or no reading yet sends -1 in its place.  It    *)
(* makes no block without an id: the tables of ids have no such index.     *)
NoId == -1
Holders == Ids \cup {NoId}
Amperages == {Short(a) : a \in Readings} \cup {-1}

Reply ==
    {Message("pni", <<i>>, <<>>) : i \in Holders}
        \cup {Message("par", <<a>>, <<>>) : a \in Readings}
        \cup {Message("plc", <<l>>, <<>>) : l \in Loads}

Atd == {Message("atd", <<i>>, <<s>>) : i \in Holders, s \in Octets(SignatureSize)}
Bcd == {Message("bcd", t, <<s>>) :
            t \in Holders \X Prices \X Durations, s \in Octets(SignatureSize)}
Bca == {Message("bca", t, <<k>>) : t \in Holders \X Amperages, k \in Octets(KeySize)}
Bpa == {Message("bpa", t, <<h>>) :
            t \in Holders \X Phases \X Durations, h \in Octets(HashSize)}
Bcb == {Message("bcb", t, binary) :
            t \in Terms,
            binary \in Octets(HashSize) \X Octets(SignatureSize)
                         \X Octets(SignatureSize) \X Octets(HashSize)}

Datagram == Atd \cup Bcd \cup Bca \cup Bpa \cup Bcb

-----------------------------------------------------------------------------
(***************************************************************************)
(* Conversions of the C library                                            *)
(***************************************************************************)
Digits[n \in 0..MaxInt] ==
    IF n < 10 THEN <<Zero + n>> ELSE Append(Digits[n \div 10], Zero + (n % 10))

Text(n) == IF n < 0 THEN <<Minus>> \o Digits[-n] ELSE Digits[n]         \* "%i"

Digit == Zero..Zero + 9
Leading(s) ==                                          \* how many digits s begins with
    CHOOSE k \in 0..Len(s) :
        /\ \A i \in 1..k : s[i] \in Digit
        /\ k < Len(s) => s[k + 1] \notin Digit
Natural(s) ==
    LET value[k \in 0..Leading(s)] == IF k = 0 THEN 0 ELSE 10 * value[k - 1] + s[k] - Zero
    IN  value[Leading(s)]
atoi(s) == IF s # <<>> /\ Head(s) = Minus THEN -Natural(Tail(s)) ELSE Natural(s)
atof(s) == atoi(s)                                      \* without the decimals

HexDigit(d) == IF d < 10 THEN Zero + d ELSE 87 + d
HexValue(c) == IF c \in Digit THEN c - Zero ELSE c - 87
Hex(s) ==
    [i \in 1..2 * Len(s) |->
        HexDigit(IF i % 2 = 1 THEN s[(i + 1) \div 2] \div 16 ELSE s[i \div 2] % 16)]
Unhex(s) == [i \in 1..SignatureSize |-> 16 * HexValue(s[2 * i - 1]) + HexValue(s[2 * i])]

Padded(s, n) == [i \in 1..n |-> IF i <= Len(s) THEN s[i] ELSE NUL]

-----------------------------------------------------------------------------
(***************************************************************************)
(* Sending                                                                 *)
(***************************************************************************)
TextFields(m) ==
    <<Header[m.header]>>
        \o [i \in DOMAIN m.numbers |-> Text(m.numbers[i])]
        \o (IF m.header \in Signed THEN <<Hex(m.binary[1])>> ELSE <<>>)

Listed(fields) == FlattenSeq([i \in DOMAIN fields |-> Append(fields[i], Comma)])

(* "xxx,1,2," and binary fields, or "xxx,1,2;".                            *)
Encoded(m) ==
    LET text == Listed(TextFields(m))
    IN  IF m.header \in DOMAIN Binary
        THEN text \o FlattenSeq(m.binary)
        ELSE [text EXCEPT ![Len(text)] = Semicolon]

BufferSize(m) == IF m \in Reply THEN TcpBuffer ELSE UdpBuffer

(* Every message fits in the buffer it is received in.                     *)
ASSUME BufferAssumption == \A m \in Datagram \cup Reply : Len(Encoded(m)) <= BufferSize(m)

(* The bytes in place of the numbers when a block is hashed: ",3,20,60,5," *)
(* in a field whose size is computed as if it held binary integers; the    *)
(* signatures overwrite what does not fit.                                 *)
HashedSize_Faulty == 4 * 4 - 7
HashedSize == 4 * 4 - 6

HashedText(t) ==
    LET text == <<Comma>> \o Listed([i \in DOMAIN t |-> Text(t[i])])
    IN  SubSeq(Padded(text, 16), 1, HashedSize)

(* An id has one digit, a price and a duration at most two: of the text    *)
(* only the last comma may be cut off.                                     *)
ASSUME TermsAssumption ==
    \A t \in Terms :
        Len(Text(t[1])) + Len(Text(t[2])) + Len(Text(t[3])) + Len(Text(t[4])) <= 1 + 2 + 2 + 1

-----------------------------------------------------------------------------
(***************************************************************************)
(* payload_decoder                                                         *)
(***************************************************************************)
HeaderOf(b) == CHOOSE h \in DOMAIN Header : SubSeq(b, 1, 3) = Header[h]
Separators(b) == {i \in DOMAIN b : b[i] \in {Comma, Semicolon}}
commaCounter(b, i) == Cardinality(Separators(SubSeq(b, 1, i)))

(* Behind which separator the binary fields begin.                         *)
BinaryAt_Faulty == [bpa |-> 4, bcb |-> 5]                    \* no test for bca
BinaryAt == [bca |-> 3, bpa |-> 4, bcb |-> 5]

(* The loop ends at this separator.                                        *)
Stops_Faulty(b, i) ==                        \* tested before the separator is counted
    \/ HeaderOf(b) \in DOMAIN BinaryAt /\ commaCounter(b, i) = BinaryAt[HeaderOf(b)] + 1
    \/ HeaderOf(b) \notin {"bca", "bcb"} /\ b[i] = Semicolon
Stops(b, i) ==
    \/ HeaderOf(b) \in DOMAIN BinaryAt /\ commaCounter(b, i) = BinaryAt[HeaderOf(b)]
    \/ HeaderOf(b) \notin {"bca", "bcb"} /\ b[i] = Semicolon

(* The separators the loop comes to.                                       *)
Reached(b) == {i \in Separators(b) : \A j \in Separators(b) : j < i => ~Stops(b, j)}
Cut(b, k) == IF k = 0 THEN 0 ELSE CHOOSE i \in Reached(b) : commaCounter(b, i) = k

tmp_parameters(b) ==
    [k \in 1..Cardinality(Reached(b)) |-> SubSeq(b, Cut(b, k - 1) + 1, Cut(b, k) - 1)]

(* The binary fields: the bytes from i on, cut into pieces of these sizes. *)
Pieces(b, i, sizes) ==
    LET first[k \in DOMAIN sizes] == IF k = 1 THEN i ELSE first[k - 1] + sizes[k - 1]
    IN  [k \in DOMAIN sizes |-> SubSeq(b, first[k], first[k] + sizes[k] - 1)]

payload_decoder(b) ==
    LET h == HeaderOf(b)
        tmp == tmp_parameters(b)
        field(k) == IF k \in DOMAIN tmp THEN tmp[k] ELSE <<>>
        number(k) == IF h = "plc" THEN atof(field(k + 1)) ELSE Short(atoi(field(k + 1)))
    IN  Message(h,
                [k \in 1..Numbers[h] |-> number(k)],
                IF h \in DOMAIN Binary THEN Pieces(b, Cut(b, Cardinality(Reached(b))) + 1, Binary[h])
                ELSE IF h \in Signed THEN <<Unhex(field(Numbers[h] + 2))>>
                ELSE <<>>)

-----------------------------------------------------------------------------
Nothing == [header |-> "none"]

(* A UDP datagram is one message; a TCP segment may hold two answers of    *)
(* the server.                                                             *)
Init ==
    /\ sent \in {<<m>> : m \in Datagram \cup Reply} \cup (Reply \X Reply)
    /\ rx_buffer = <<>>
    /\ payload = Nothing

Receive ==
    /\ rx_buffer = <<>>
    /\ rx_buffer' = Padded(FlattenSeq([i \in DOMAIN sent |-> Encoded(sent[i])]),
                           BufferSize(sent[1]))
    /\ UNCHANGED <<sent, payload>>

Decode ==
    /\ rx_buffer # <<>>
    /\ payload = Nothing
    /\ payload' = payload_decoder(rx_buffer)
    /\ UNCHANGED <<sent, rx_buffer>>

Next == Receive \/ Decode

Spec == Init /\ [][Next]_vars

-----------------------------------------------------------------------------
(***************************************************************************)
(* Properties                                                              *)
(***************************************************************************)

(* What a number of a message is read as: as itself, where it has room.    *)
ReadAs(h, sentNumber, read) ==
    IF h = "plc" \/ sentNumber \in ShortRange
    THEN read = sentNumber
    ELSE read \in ShortRange /\ (read - sentNumber) % 65536 = 0

(* The receiver reads what was sent, whatever the bytes of keys, hashes    *)
(* and signatures are, and of two answers in one segment the first.  Of    *)
(* the numbers only a reading of the server can be too wide for the short  *)
(* it is read into: it loses all but its lower 16 bits (models.h:25-32,    *)
(* communication.c:60-144 against main.c:135-139, 167-169, 543-547,        *)
(* 662-664, chain.c:69-89 and server.py:70-94).                            *)
FirstIsRead ==
    payload # Nothing =>
        /\ payload = Message(sent[1].header, payload.numbers, sent[1].binary)
        /\ DOMAIN payload.numbers = DOMAIN sent[1].numbers
        /\ \A k \in DOMAIN payload.numbers :
              ReadAs(sent[1].header, sent[1].numbers[k], payload.numbers[k])
        /\ sent[1].header # "par" => payload.numbers = sent[1].numbers

(* The decoder never counts more fields than tmp_parameters has room for,  *)
(* although the bytes of a key or hash may be separators and it does not   *)
(* compare commaCounter with anything else (communication.c:40, 61-92).    *)
FieldsFit == rx_buffer # <<>> => Cardinality(Reached(rx_buffer)) <= 9

HashedTexts == [t \in Terms |-> HashedText(t)]

(* Blocks with other terms are never hashed over the same bytes, although  *)
(* the text of the longer ones does not fit its field (chain.c:195-210).   *)
HashedApart ==
    payload.header = "bcb" =>
        \A t \in Terms : HashedTexts[t] = HashedText(payload.numbers) => t = payload.numbers
=============================================================================
