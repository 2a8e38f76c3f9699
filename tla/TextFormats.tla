---------------------------- MODULE TextFormats ----------------------------
(***************************************************************************)
(* Texts that leave the wallet and come back: base64 (crypto/base64.ts),   *)
(* payment requests (wallet/payment-uri.ts, components/ReceiveView.tsx)    *)
(* and CSV files (utils/csv.ts).  A text is a sequence of characters; an   *)
(* address and a fixed word of a format is one of them.                    *)
(***************************************************************************)
EXTENDS Amounts

CONSTANTS
  Quarter,       \* four: a byte is Quarter ^ 4, a base64 digit Quarter ^ 3
  MaxBytes,      \* bound: bytes encoded
  UriAmounts,    \* texts that may be asked for
  CsvCells       \* cells that may be exported

-----------------------------------------------------------------------------
(* Base 64: three bytes are four digits.                                   *)

Byte == 0..(Quarter ^ 4 - 1)
B64  == 0..(Quarter ^ 3 - 1)
Pad  == Quarter ^ 3                 \* the number of "="
Malformed == <<-1>>

\* The digits of a group, and its bytes.
Group(b0, b1, b2) ==
  << b0 \div Quarter, (b0 % Quarter) * Quarter ^ 2 + b1 \div Quarter ^ 2,
     (b1 % Quarter ^ 2) * Quarter + b2 \div Quarter ^ 3, b2 % Quarter ^ 3 >>
Triplet(c0, c1, c2, c3) ==
  << c0 * Quarter + c1 \div Quarter ^ 2, (c1 % Quarter ^ 2) * Quarter ^ 2 + c2 \div Quarter,
     (c2 % Quarter) * Quarter ^ 3 + c3 >>

Base64Encode(bytes) ==
  LET At(i)    == IF i \in DOMAIN bytes THEN bytes[i] ELSE 0
      Groups   == (Len(bytes) + 2) \div 3
      Missing  == 3 * Groups - Len(bytes)
      Digits64 == FlattenSeq([g \in 1..Groups |-> Group(At(3 * g - 2), At(3 * g - 1), At(3 * g))])
  IN  [i \in 1..(4 * Groups) |-> IF i > 4 * Groups - Missing THEN Pad ELSE Digits64[i]]

\* A "=" as the third or fourth of any group is a zero; only the two last are counted.
Base64Decode(s) ==
  LET Ends(k)   == IF Len(s) >= k /\ s[Len(s) + 1 - k] = Pad THEN 1 ELSE 0
      Digit0(i) == IF s[i] = Pad THEN 0 ELSE s[i]
      Bytes     == FlattenSeq([g \in 1..(Len(s) \div 4) |->
                     Triplet(Digit0(4 * g - 3), Digit0(4 * g - 2), Digit0(4 * g - 1), Digit0(4 * g))])
  IN  IF Len(s) % 4 # 0 \/ (\E i \in DOMAIN s : s[i] = Pad /\ i % 4 \in {1, 2}) THEN Malformed
      ELSE SubSeq(Bytes, 1, Len(Bytes) - Ends(1) - Ends(2))

\* Whatever is encoded decodes to itself.
ASSUME Base64ReadsBack ==
  \A b \in UNION {[1..n -> Byte] : n \in 0..MaxBytes} : Base64Decode(Base64Encode(b)) = b

\* Not so: "rejects malformed padding" (base64.ts:45).  A "=" inside a group, or in a group
\* before the last, is read as a zero.
MalformedPaddingIsRejected ==
  \A s \in [1..4 -> B64 \cup {Pad}] : Base64Decode(s) # Malformed => Base64Encode(Base64Decode(s)) = s

-----------------------------------------------------------------------------
(* Payment requests.  encodeURIComponent leaves digits, points and signs   *)
(* as they are; a blank and what separates queries becomes one escape.     *)

Blanks   == {" "}
Plain(s) == IF \E i \in DOMAIN s : s[i] \notin Blanks
              THEN SubSeq(s, CHOOSE i \in DOMAIN s : s[i] \notin Blanks /\ ToSet(SubSeq(s, 1, i - 1)) \subseteq Blanks,
                             CHOOSE j \in DOMAIN s : s[j] \notin Blanks /\ ToSet(SubSeq(s, j + 1, Len(s))) \subseteq Blanks)
              ELSE <<>>

Escaped   == [c \in {" ", "&", "+", "?"} |-> <<"escape of", c>>]
Encode(s) == FlattenSeq([i \in DOMAIN s |-> IF s[i] \in DOMAIN Escaped THEN Escaped[s[i]] ELSE <<s[i]>>])
\* URLSearchParams reads an escape, and takes a plus for a blank.
Decode(s) ==
  FoldLeft(LAMBDA got, c : IF got # <<>> /\ Last(got) = "escape of" THEN Append(Front(got), c)
                           ELSE Append(got, IF c = "+" THEN " " ELSE c), <<>>, s)

BuildPaymentUri(addr, amount) ==
  <<"octra:", addr>> \o (IF Plain(amount) = <<>> THEN <<>> ELSE <<"?", "amount=">> \o Encode(Plain(amount)))

\* ReceiveView: the bare address when no amount is asked for.
ReceivePayload(addr, amount) == IF Plain(amount) = <<>> THEN <<addr>> ELSE BuildPaymentUri(addr, Plain(amount))

NotPayment == [addr |-> "none"]
\* parsePaymentUri.  An amount that is not one is left out.
IsPlainAmount(s) == IsDigits(WholePart(s)) /\ (HasPoint(s) => IsDigits(Fraction(s)))
ParsePaymentUri(text, valid) ==
  LET bare  == IF text # <<>> /\ Head(text) = "octra:" THEN Tail(text) ELSE text
      query == IF "?" \in ToSet(bare) THEN SubSeq(bare, SelectInSeq(bare, LAMBDA c : c = "?") + 1, Len(bare)) ELSE <<>>
      upto  == IF "?" \in ToSet(query) THEN SubSeq(query, 1, SelectInSeq(query, LAMBDA c : c = "?") - 1) ELSE query
      first == IF "&" \in ToSet(upto) THEN SubSeq(upto, 1, SelectInSeq(upto, LAMBDA c : c = "&") - 1) ELSE upto
      raw   == IF first # <<>> /\ Head(first) = "amount=" THEN Plain(Decode(Tail(first))) ELSE <<>>
  IN  IF bare = <<>> \/ Head(bare) \notin valid \/ (Len(bare) > 1 /\ bare[2] # "?") THEN NotPayment
      ELSE IF IsPlainAmount(raw) THEN [addr |-> Head(bare), amount |-> raw]
      ELSE [addr |-> Head(bare)]

\* Who scans the code gets the address, and an amount if one was asked for: the one typed, and
\* one that the Send page takes ("the same builder the in-wallet scanner parses, so the two
\* cannot drift", ReceiveView).  What is typed but not an amount is in the code and lost.
ASSUME RequestReadsBack ==
  \A amount \in UriAmounts :
    LET scanned == ParsePaymentUri(ReceivePayload("oct1", amount), {"oct1"})
    IN  /\ scanned.addr = "oct1"
        /\ "amount" \in DOMAIN scanned <=> IsPlainAmount(Plain(amount))
        /\ "amount" \in DOMAIN scanned =>
             scanned.amount = Plain(amount) /\ ParseAmountRaw(scanned.amount) # Invalid

-----------------------------------------------------------------------------
(* CSV.                                                                    *)

FormulaLead == {"=", "+", "-", "@", "tab", "cr"}
Inert(cell) == IF cell # <<>> /\ Head(cell) \in FormulaLead THEN <<"apostrophe">> \o cell ELSE cell
Doubled(s)  == FlattenSeq([i \in DOMAIN s |-> IF s[i] = "quote" THEN <<"quote", "quote">> ELSE <<s[i]>>])

EscapeCsvCell(cell) ==
  IF ToSet(Inert(cell)) \cap {"quote", ",", "cr", "lf"} # {}
  THEN <<"quote">> \o Doubled(Inert(cell)) \o <<"quote">> ELSE Inert(cell)

\* s[1] \o sep \o s[2] \o ...
JoinedBy(s, sep) == FoldLeft(LAMBDA text, part : text \o sep \o part, Head(s), Tail(s))
ToCsv(rows) ==
  JoinedBy([r \in DOMAIN rows |-> JoinedBy([c \in DOMAIN rows[r] |-> EscapeCsvCell(rows[r][c])], <<",">>)], <<"cr", "lf">>)

\* A reader by RFC 4180: outside quotes a comma ends the cell and a line end the row; inside,
\* a quote ends them unless another follows.
ReadCsv(text) ==
  LET Grow(st, c)  == [st EXCEPT !.cell = Append(@, c)]
      NextCell(st) == [st EXCEPT !.row = Append(@, st.cell), !.cell = <<>>]
      Read(st, c) ==
        IF st.in = "quotes"
          THEN IF c = "quote" THEN [st EXCEPT !.in = "maybe"] ELSE Grow(st, c)
        ELSE IF st.in = "maybe" /\ c = "quote"
          THEN [Grow(st, c) EXCEPT !.in = "quotes"]
        ELSE CASE c = "quote" -> IF st.cell = <<>> THEN [st EXCEPT !.in = "quotes"] ELSE Grow(st, c)
               [] c = ","     -> [NextCell(st) EXCEPT !.in = "open"]
               [] c = "cr"    -> st
               [] c = "lf"    -> [NextCell(st) EXCEPT !.in = "open", !.row = <<>>, !.rows = Append(@, NextCell(st).row)]
               [] OTHER       -> Grow(st, c)
      end == FoldLeft(Read, [in |-> "open", cell |-> <<>>, row |-> <<>>, rows |-> <<>>], text)
  IN  Append(end.rows, NextCell(end).row)

\* A file reads back as the cells that were exported, each inert: a comma, quote or line end in
\* a memo or a contact's note does not move the columns after it.
ASSUME CsvReadsBack ==
  \A a, b \in CsvCells :
    /\ ReadCsv(ToCsv(<<<<a, b>>>>)) = <<<<Inert(a), Inert(b)>>>>
    /\ ReadCsv(ToCsv(<<<<a>>, <<b>>>>)) = <<<<Inert(a)>>, <<Inert(b)>>>>
=============================================================================
