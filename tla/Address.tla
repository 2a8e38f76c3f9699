------------------------------ MODULE Address ------------------------------
(***************************************************************************)
(* Octra addresses (crypto/address.ts, crypto/base58.ts): "oct" and the    *)
(* hash of the public key in base 58, padded to a fixed length.  Bytes and *)
(* digits are numbers here; the sizes are scaled down, and as in the code  *)
(* a hash without a leading zero takes all digits or one less.             *)
(***************************************************************************)
EXTENDS Naturals, Sequences, FiniteSets, SequencesExt

CONSTANTS
  ByteBase,              \* 256
  DigitBase,             \* 58
  HashLength,            \* 32
  ADDRESS_PAYLOAD_LENGTH \* 44

\* The digits without leading zeros, and their value.
InBase(base, n) ==
  LET digits[k \in Nat] == IF k = 0 THEN <<>> ELSE Append(digits[k \div base], k % base)
  IN  digits[n]
ValueIn(base, s) == FoldLeft(LAMBDA n, d : base * n + d, 0, s)

Leading(s) == Cardinality({i \in DOMAIN s : \A j \in 1..i : s[j] = 0})
Blank(n)   == [i \in 1..n |-> 0]

\* A leading zero byte is a leading zero digit ("1"); the value 0 is written as one more.
Base58Encode(bytes) ==
  Blank(Leading(bytes)) \o (IF Leading(bytes) = Len(bytes) /\ bytes # <<>> THEN <<0>>
                            ELSE InBase(DigitBase, ValueIn(ByteBase, bytes)))

Base58Decode(digits) == Blank(Leading(digits)) \o InBase(ByteBase, ValueIn(DigitBase, digits))

\* deriveAddressFromPubkey, without the prefix.
DeriveAddressFromPubkey(hash) ==
  Blank(ADDRESS_PAYLOAD_LENGTH - Len(Base58Encode(hash))) \o Base58Encode(hash)

\* isValidAddress: every leading "1" is taken for padding.
IsValidAddress(payload) ==
  /\ Len(payload) = ADDRESS_PAYLOAD_LENGTH
  /\ Len(Base58Decode(payload)) - Leading(payload) = HashLength

\* addressToPayload
AddressToPayload(payload) == SubSeq(Base58Decode(payload), Leading(payload) + 1, Len(Base58Decode(payload)))

-----------------------------------------------------------------------------
Hashes == {h \in [1..HashLength -> 0..ByteBase - 1] : \E i \in 1..HashLength : h[i] # 0}

\* The largest number of so many digits.  A payload has room for every hash.
Largest(base, length) == [i \in 1..length |-> base - 1]

ASSUME AddressAssumption ==
  /\ {ByteBase, DigitBase} \subseteq Nat \ {0, 1}
  /\ HashLength \in Nat \ {0} /\ ADDRESS_PAYLOAD_LENGTH \in Nat
  /\ ValueIn(ByteBase, Largest(ByteBase, HashLength))
       <= ValueIn(DigitBase, Largest(DigitBase, ADDRESS_PAYLOAD_LENGTH))

\* The address of a hash without a leading zero byte is valid and gives the hash back.  The
\* address of any other hash, one of 256, is not valid: its own zero is taken for padding.
DerivedAddressIsValid ==
  \A hash \in Hashes :
    /\ IsValidAddress(DeriveAddressFromPubkey(hash)) <=> hash[1] # 0
    /\ hash[1] # 0 => AddressToPayload(DeriveAddressFromPubkey(hash)) = hash

\* Addresses of different hashes are different, of valid ones at least.
AddressesDiffer ==
  \A g, h \in {h \in Hashes : h[1] # 0} :
    DeriveAddressFromPubkey(g) = DeriveAddressFromPubkey(h) => g = h
=============================================================================
