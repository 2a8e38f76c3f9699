------------------------------ MODULE Keystore ------------------------------
(***************************************************************************)
(* What a wallet in memory is (wallet/wallet.ts, wallet/watch-only.ts),    *)
(* how its keys are derived (crypto/hd.ts), and its two ways into storage: *)
(* the serialised record that is sealed, and the file that a PIN opens     *)
(* (crypto/aes.ts).                                                        *)
(*                                                                         *)
(* Cryptography is symbolic: a seed, a key, an address is the tuple of     *)
(* what it is made from, an empty text or array the empty tuple.           *)
(***************************************************************************)
EXTENDS Integers, Sequences, FiniteSets, TLC

CONSTANTS
  KsPhrases,    \* recovery phrases, normalised
  KsSeeds,      \* seeds that may be imported
  KsPins,
  IndexRange,   \* 2^32
  KsIndexes     \* indexes of accounts that are examined

Empty == <<>>

PublicOf(seed)   == <<"public", seed>>
AddressOf(key)   == <<"oct", key>>
MasterOf(phrase) == <<"pbkdf2", phrase>>
FirstHalf(m)     == <<"first half", m>>

\* deriveHdSeed: the first half of the master itself, or of what it hashes to, with the
\* index appended in four bytes but for the first account.
DeriveHdSeed(master, index, version) ==
  IF index = 0 /\ version = 1 THEN FirstHalf(master)
  ELSE IF index = 0 /\ version = 2 THEN FirstHalf(<<"hmac", master>>)
  ELSE FirstHalf(<<"hmac", master, index % IndexRange>>)

-----------------------------------------------------------------------------
(* Wallets.  sk is a seed and a public key.                                *)

WalletOf(seed, phrase, master, index, version) ==
  [addr |-> AddressOf(PublicOf(seed)), sk |-> <<seed, PublicOf(seed)>>,
   pk |-> PublicOf(seed), pubB64 |-> PublicOf(seed), privB64 |-> seed, mnemonic |-> phrase,
   hdMaster |-> master, index |-> index, hdVersion |-> version, watchOnly |-> FALSE]

\* createWallet is the case of index 0 and version 2.
ImportFromMnemonic(phrase, index, version) ==
  WalletOf(DeriveHdSeed(MasterOf(phrase), index, version), phrase, MasterOf(phrase), index, version)

ImportFromSeed(seed) == WalletOf(seed, Empty, Empty, 0, 2)

\* The two halves of the key are taken as they are.
ImportFromSecretKey(seed, pub) ==
  [WalletOf(seed, Empty, Empty, 0, 2) EXCEPT
     !.addr = AddressOf(pub), !.sk = <<seed, pub>>, !.pk = pub, !.pubB64 = pub]

\* deriveHdAccount, of a wallet with a master.
DeriveHdAccount(parent, index) ==
  WalletOf(DeriveHdSeed(parent.hdMaster, index, parent.hdVersion), Empty, parent.hdMaster, index, parent.hdVersion)

\* A key that does not decode is kept as text and empty as a key.
MakeWatchOnly(addr, pubB64, decodes) ==
  [addr |-> addr, sk |-> Empty, pk |-> IF decodes THEN pubB64 ELSE Empty, pubB64 |-> pubB64,
   privB64 |-> Empty, mnemonic |-> Empty, hdMaster |-> Empty, index |-> -1, hdVersion |-> 2, watchOnly |-> TRUE]

AssertCanSign(w) == ~w.watchOnly /\ w.sk # Empty

\* serializeWallet and deserializeWallet.  The public key's text is not written but
\* encoded again; a record without a private seed takes the first half of its key.
Serialize(w)   == [f \in DOMAIN w \ {"pubB64"} |-> w[f]]
Deserialize(r) ==
  ("pubB64" :> r.pk) @@ [r EXCEPT !.privB64 = IF @ = Empty /\ r.sk # Empty THEN r.sk[1] ELSE @]

-----------------------------------------------------------------------------
(* The file: magic, version, rounds, salt, nonce, ciphertext.              *)

WalletFile(blob, pin, rounds, salt, nonce) ==
  [size |-> "whole", magic |-> "OCT1", version |-> "1", rounds |-> rounds, salt |-> salt, nonce |-> nonce,
   cipher |-> [key |-> <<"pbkdf2", pin, salt, rounds>>, nonce |-> nonce, plain |-> blob]]

NotOpened == [refused |-> TRUE]
WalletDecrypt(file, pin) ==
  IF \/ file.size # "whole" \/ file.magic # "OCT1" \/ file.version # "1"
     \/ file.cipher.key # <<"pbkdf2", pin, file.salt, file.rounds>> \/ file.cipher.nonce # file.nonce
  THEN NotOpened ELSE file.cipher.plain

-----------------------------------------------------------------------------
Created == {ImportFromMnemonic(p, i, v) : p \in KsPhrases, i \in KsIndexes, v \in {1, 2}}
Derived == {DeriveHdAccount(w, i) : w \in Created, i \in KsIndexes}
Pasted  == {ImportFromSeed(s) : s \in KsSeeds} \cup {ImportFromSecretKey(s, PublicOf(s)) : s \in KsSeeds}
Watched == {MakeWatchOnly(AddressOf(PublicOf(s)), PublicOf(s), d) : s \in KsSeeds, d \in BOOLEAN}
           \cup {MakeWatchOnly(AddressOf(PublicOf(s)), Empty, FALSE) : s \in KsSeeds}
Files   == {WalletFile(w, p, "600000", s, n) : w \in Pasted, p \in KsPins, s, n \in {"1", "2"}}

ASSUME KeystoreAssumption ==
  /\ IndexRange \in Nat \ {0} /\ KsIndexes \subseteq Nat /\ 0 \in KsIndexes
  /\ Empty \notin KsSeeds \cup KsPhrases

\* Two accounts of one phrase are two accounts, unless their indexes agree modulo 2^32 and
\* neither is the first; only the first depends on the version.
ASSUME AccountsAreDifferent ==
  \A p, q \in KsPhrases : \A i, j \in KsIndexes : \A u, v \in {1, 2} :
    ImportFromMnemonic(p, i, u).addr = ImportFromMnemonic(q, j, v).addr
      <=> /\ p = q
          /\ \/ i = 0 /\ j = 0 /\ u = v
             \/ i > 0 /\ j > 0 /\ i % IndexRange = j % IndexRange

\* A derived account can be had again from the phrase alone, with its own index and version.
ASSUME DerivedIsRecoverable ==
  \A w \in Created : \A i \in KsIndexes :
    DeriveHdAccount(w, i) = [ImportFromMnemonic(w.mnemonic, i, w.hdVersion) EXCEPT !.mnemonic = Empty]

\* An import has no field for the version: the account of a legacy wallet comes back from its
\* phrase unless it is the first.
ASSUME LegacyIsRecoverable ==
  \A p \in KsPhrases : \A i \in KsIndexes :
    ImportFromMnemonic(p, i, 1).addr = ImportFromMnemonic(p, i, 2).addr <=> i > 0

\* A wallet that was sealed comes back as it was, with the keys to sign or without, but for
\* the text of a watched public key that does not decode.
ASSUME RestoredAsSealed ==
  \A w \in Created \cup Derived \cup Pasted \cup Watched :
    /\ w.pubB64 = w.pk => Deserialize(Serialize(w)) = w
    /\ AssertCanSign(Deserialize(Serialize(w))) <=> AssertCanSign(w)
    /\ AssertCanSign(w) <=> w \notin Watched

\* Of a signing wallet, the address, both copies of the public key and both of the seed belong
\* together, whichever way it came.
ASSUME KeysBelongTogether ==
  \A w \in Created \cup Derived \cup Pasted :
    /\ w.pk = PublicOf(w.sk[1]) /\ w.sk[2] = w.pk /\ w.pubB64 = w.pk
    /\ w.privB64 = w.sk[1] /\ w.addr = AddressOf(w.pk)

\* Not so: of every secret key of 64 bytes.  One whose halves do not belong together is taken.
AnyKeyBelongsTogether == \A s, t \in KsSeeds : LET w == ImportFromSecretKey(s, PublicOf(t)) IN w.pk = PublicOf(w.sk[1])

\* A file opens with its PIN and no other, and with any part of it damaged or cut short with none.
ASSUME FileOpensWithItsPin ==
  \A f \in Files : \A p \in KsPins :
    /\ WalletDecrypt(f, p) = IF f.cipher.key[2] = p THEN f.cipher.plain ELSE NotOpened
    /\ \A field \in DOMAIN f \ {"cipher"} : WalletDecrypt([f EXCEPT ![field] = "damaged"], p) = NotOpened
=============================================================================
