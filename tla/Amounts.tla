------------------------------ MODULE Amounts ------------------------------
(***************************************************************************)
(* Amounts as text and as base units (tx/builder.ts, tokens/ocs01.ts).     *)
(* A text is a sequence of characters, without the surrounding blanks that *)
(* every parser trims first; the separators between thousands are left     *)
(* out.                                                                    *)
(***************************************************************************)
EXTENDS Naturals, Integers, Sequences, FiniteSets, SequencesExt

CONSTANTS
  OctDecimals,     \* six
  MAX_U128,        \* scaled down
  MAX_DECIMALS,    \* thirty-eight
  DISPLAY_DECIMALS \* six

Digit      == {"0", "1", "2", "3", "4", "5", "6", "7", "8", "9"}
DigitValue == [d \in Digit |-> CHOOSE n \in 0..9 : d = <<"0", "1", "2", "3", "4", "5", "6", "7", "8", "9">>[n + 1]]
DigitOf(n) == CHOOSE d \in Digit : DigitValue[d] = n

IsDigits(s) == s # <<>> /\ ToSet(s) \subseteq Digit
Numeral(s)  == FoldLeft(LAMBDA n, d : 10 * n + DigitValue[d], 0, s)

DigitsFrom[n \in Nat] == IF n < 10 THEN <<DigitOf(n)>> ELSE Append(DigitsFrom[n \div 10], DigitOf(n % 10))
Digits(n) == DigitsFrom[n]

Zeros(n)       == [i \in 1..n |-> "0"]
PadStart(s, n) == IF Len(s) < n THEN Zeros(n - Len(s)) \o s ELSE s
PadEnd(s, n)   == IF Len(s) < n THEN s \o Zeros(n - Len(s)) ELSE s
DropZeros(s)   == SubSeq(s, 1, Cardinality({i \in DOMAIN s : \E j \in i..Len(s) : s[j] # "0"}))

Take(s, n)     == SubSeq(s, 1, IF n < Len(s) THEN n ELSE Len(s))

HasPoint(s) == "." \in ToSet(s)
WholePart(s) == IF HasPoint(s) THEN SubSeq(s, 1, (CHOOSE i \in DOMAIN s : s[i] = "." /\ \A j \in 1..i-1 : s[j] # ".") - 1)
               ELSE s
Fraction(s) == SubSeq(s, Len(WholePart(s)) + 2, Len(s))

-----------------------------------------------------------------------------
(* OCT                                                                     *)

Invalid == -1

\* parseAmountRaw of a text: what is beyond the sixth decimal is dropped.
ParseAmountRaw(s) ==
  IF IsDigits(WholePart(s)) /\ (HasPoint(s) => IsDigits(Fraction(s)))
    THEN Numeral(WholePart(s) \o SubSeq(PadEnd(Fraction(s), OctDecimals), 1, OctDecimals))
    ELSE Invalid

\* parseAmountRaw of a number, given in tenths of a base unit: it is rounded.
ParseAmountNumber(tenths) == IF tenths < 0 THEN Invalid ELSE (tenths + 5) \div 10

\* formatAmount: a text with a point passes through, as does what is no integer.
FormatAmount(raw) ==
  LET negative == raw # <<>> /\ raw[1] = "-"
      digits   == IF negative THEN Tail(raw) ELSE raw
      padded   == PadStart(Digits(Numeral(digits)), OctDecimals + 1)
      whole    == SubSeq(padded, 1, Len(padded) - OctDecimals)
      frac     == DropZeros(SubSeq(padded, Len(padded) - OctDecimals + 1, Len(padded)))
  IN IF raw = <<>> THEN <<"0">>
     ELSE IF HasPoint(raw) \/ ~IsDigits(digits) THEN raw
     ELSE (IF negative /\ Numeral(digits) > 0 THEN <<"-">> ELSE <<>>) \o whole
          \o (IF frac = <<>> THEN <<>> ELSE <<".">> \o frac)

-----------------------------------------------------------------------------
(* Tokens                                                                  *)

NoDecimals == -1     \* the token does not say: not the same as none

ParseU128(s)     == IF IsDigits(s) /\ Numeral(s) <= MAX_U128 THEN Numeral(s) ELSE Invalid
ParseDecimals(s) == IF IsDigits(s) /\ Numeral(s) <= MAX_DECIMALS THEN Numeral(s) ELSE NoDecimals

\* formatTokenAmount never rounds: what is not shown is cut off, or said to be dust.
FormatTokenAmount(raw, decimals) ==
  IF decimals <= 0
    THEN [display |-> Digits(raw), exact |-> Digits(raw), truncated |-> FALSE, dust |-> FALSE,
          unscaled |-> decimals = NoDecimals]
    ELSE LET padded == PadStart(Digits(raw), decimals + 1)
             whole  == SubSeq(padded, 1, Len(padded) - decimals)
             frac   == SubSeq(padded, Len(padded) - decimals + 1, Len(padded))
             shown  == DropZeros(Take(frac, DISPLAY_DECIMALS))
             With(f) == IF f = <<>> THEN whole ELSE whole \o <<".">> \o f
             dust   == Numeral(whole) = 0 /\ shown = <<>> /\ raw > 0
         IN [display   |-> IF dust THEN <<"<", "0", ".">> \o Zeros(DISPLAY_DECIMALS - 1) \o <<"1">> ELSE With(shown),
             exact     |-> With(DropZeros(frac)),
             truncated |-> dust \/ DropZeros(SubSeq(frac, DISPLAY_DECIMALS + 1, Len(frac))) # <<>>,
             dust      |-> dust, unscaled |-> FALSE]

\* formatStorageAmount: what is not a u128 has no amount.
NoAmount == [display |-> <<>>, exact |-> <<>>, truncated |-> FALSE, dust |-> FALSE, unscaled |-> FALSE]
FormatStorageAmount(s, decimals) ==
  IF ParseU128(s) = Invalid THEN NoAmount ELSE FormatTokenAmount(ParseU128(s), decimals)

\* parseAmountToRaw: of a form's text, rejected where rounding would be needed.
ParseAmountToRaw(s, decimals) ==
  LET frac == DropZeros(Fraction(s)) IN
  IF \/ decimals = NoDecimals
     \/ ToSet(WholePart(s) \o Fraction(s)) \ Digit # {} \/ WholePart(s) \o Fraction(s) = <<>>
     \/ Len(frac) > decimals
     \/ Numeral(WholePart(s) \o PadEnd(frac, decimals)) > MAX_U128
  THEN Invalid
  ELSE Numeral(WholePart(s) \o PadEnd(frac, decimals))

\* canSubmit of TokenTransferForm, for an amount that was typed.
CanSubmitAmount(s, decimals, balance) ==
  ParseAmountToRaw(s, decimals) > 0 /\ ParseAmountToRaw(s, decimals) <= balance

-----------------------------------------------------------------------------
(* What the conversions owe to each other, on a bounded range.             *)

CONSTANTS MaxRaw, TypedTexts

ASSUME AmountsAssumption ==
  /\ {OctDecimals, MAX_DECIMALS, DISPLAY_DECIMALS} \subseteq Nat \ {0} /\ {MAX_U128, MaxRaw} \subseteq Nat

\* An OCT amount that was formatted parses to itself.
ASSUME FormattedAmountParses ==
  \A raw \in 0..MaxRaw : ParseAmountRaw(FormatAmount(Digits(raw))) = raw

\* The exact form of a token amount parses to itself, so MAX sends all of it; the one that is
\* displayed stands for no more than there is, and says "0" of nothing only.
ASSUME TokenAmountsAreNotInflated ==
  \A raw \in 0..MaxRaw, decimals \in 0..MAX_DECIMALS :
    LET amount == FormatTokenAmount(raw, decimals) IN
    /\ raw <= MAX_U128 => ParseAmountToRaw(amount.exact, decimals) = raw
    /\ raw \in 1..MAX_U128 => CanSubmitAmount(amount.exact, decimals, raw)
    /\ ~amount.dust /\ raw <= MAX_U128 =>
         /\ ParseAmountToRaw(amount.display, decimals) <= raw
         /\ ParseAmountToRaw(amount.display, decimals) = raw <=> ~amount.truncated
    /\ amount.display = <<"0">> <=> raw = 0

\* Whatever the form accepts is sent as it was typed, zeros at its ends apart.
ASSUME TypedAmountIsSent ==
  \A s \in TypedTexts, decimals \in {NoDecimals} \cup 0..MAX_DECIMALS :
    ParseAmountToRaw(s, decimals) # Invalid =>
      LET exact == FormatTokenAmount(ParseAmountToRaw(s, decimals), decimals).exact IN
      /\ DropZeros(Fraction(exact)) = DropZeros(Fraction(s))
      /\ Numeral(WholePart(exact)) = Numeral(WholePart(s))
=============================================================================
