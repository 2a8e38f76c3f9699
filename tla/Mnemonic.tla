------------------------------ MODULE Mnemonic ------------------------------
(***************************************************************************)
(* Recovery phrases (crypto/bip39.ts) and the quiz that shows they were    *)
(* written down (wallet/mnemonic-quiz.ts).  A word is its index in the     *)
(* list and entropy a sequence of bits; the sizes are scaled down, but     *)
(* three words have, as in the code, one bit of checksum.                  *)
(***************************************************************************)
EXTENDS Naturals, Sequences, FiniteSets, SequencesExt

CONSTANTS
  WordBits,     \* eleven
  WordCounts,   \* {12, 15, 18, 21, 24}
  Sha256,       \* [entropy -> the first bits of its hash]
  ByteValues,   \* 256: what a random byte may be
  QuizLengths,  \* phrases that are examined for the quiz
  QUIZ_WORDS,
  MaxDraws      \* 1000: random bytes drawn at most

Entropies == DOMAIN Sha256
NumWords  == 2 ^ WordBits
Number(bits) == FoldLeft(LAMBDA n, b : 2 * n + b, 0, bits)
BitsOf(word) == [j \in 1..WordBits |-> (word \div 2 ^ (WordBits - j)) % 2]

\* STRENGTH_TO_WORDS, and the bits of checksum of so many words.
Strength(wordCount)     == (wordCount \div 3) * (3 * WordBits - 1)
ChecksumBits(wordCount) == wordCount \div 3

\* entropyToMnemonic
EntropyToMnemonic(entropy) ==
  LET wordCount == CHOOSE n \in WordCounts : Strength(n) = Len(entropy)
      allBits   == entropy \o SubSeq(Sha256[entropy], 1, ChecksumBits(wordCount))
  IN  [i \in 1..wordCount |-> Number(SubSeq(allBits, (i - 1) * WordBits + 1, i * WordBits))]

\* validateMnemonic.  The number of a word that is not in the list is too high.
ValidateMnemonic(words) ==
  LET bits    == FlattenSeq([i \in DOMAIN words |-> BitsOf(words[i])])
      entropy == SubSeq(bits, 1, Strength(Len(words)))
  IN  /\ Len(words) \in WordCounts
      /\ \A i \in DOMAIN words : words[i] < NumWords
      /\ SubSeq(bits, Strength(Len(words)) + 1, Len(bits)) = SubSeq(Sha256[entropy], 1, ChecksumBits(Len(words)))

\* importWalletFromMnemonic without strictChecksum, which is how every form calls it.
ImportAccepts(words) == Len(words) \in WordCounts

-----------------------------------------------------------------------------
(* The quiz.  Positions count from zero.                                   *)

Least(a, b) == IF a < b THEN a ELSE b
AskedFor(n) == Least(QUIZ_WORDS, n)
Limit(n)    == ByteValues - (ByteValues % n)

\* The positions drawn by the bytes before enough are drawn, in their order.
Drawn(n, bytes) ==
  FoldLeft(LAMBDA got, b : IF b >= Limit(n) \/ Cardinality(got) = AskedFor(n) THEN got ELSE got \cup {b % n},
           {}, bytes)

\* The top-up counts up from the first word.
ToppedUp(n, got) ==
  LET Lower(k) == got \cup 0..(k - 1)
  IN  Lower(CHOOSE k \in 0..n : /\ Cardinality(Lower(k)) >= AskedFor(n)
                                /\ \A j \in 0..(k - 1) : Cardinality(Lower(j)) < AskedFor(n))

PickQuizIndexes(n, bytes) == SetToSortSeq(ToppedUp(n, Drawn(n, bytes)), <)

CheckQuizAnswers(words, indexes, answers) ==
  indexes # <<>> /\ \A slot \in DOMAIN indexes : answers[slot] = words[indexes[slot] + 1]

-----------------------------------------------------------------------------
Phrases == UNION {[1..n -> 0..NumWords] : n \in WordCounts}

ASSUME MnemonicAssumption ==
  /\ WordBits \in Nat \ {0} /\ WordCounts \subseteq Nat \ {0} /\ \A n \in WordCounts : n % 3 = 0
  /\ Entropies = UNION {[1..Strength(n) -> {0, 1}] : n \in WordCounts}
  /\ \A n \in WordCounts : \A e \in [1..Strength(n) -> {0, 1}] : Len(Sha256[e]) >= ChecksumBits(n)
  /\ ByteValues \in Nat \ {0} /\ QuizLengths \subseteq 1..ByteValues /\ QUIZ_WORDS \in Nat /\ MaxDraws \in Nat

\* The phrases that pass the validation are those that some entropy gives: the packing
\* into words loses no bit and adds none.
ASSUME ValidPhrasesAreGenerated ==
  {p \in Phrases : ValidateMnemonic(p)} = {EntropyToMnemonic(e) : e \in Entropies}

\* Different entropies give different phrases.
ASSUME PhrasesDiffer ==
  Cardinality({EntropyToMnemonic(e) : e \in Entropies}) = Cardinality(Entropies)

\* No position of the quiz is likelier than another ("Rejection sampling keeps the
\* distribution flat", mnemonic-quiz.ts).
ASSUME QuizIsFair ==
  \A n \in QuizLengths : \A i, j \in 0..(n - 1) :
    LET Draws(k) == {b \in 0..(ByteValues - 1) : Drawn(n, <<b>>) = {k}}
    IN  Cardinality(Draws(i)) = Cardinality(Draws(j))

\* Whatever bytes are drawn, the quiz asks for as many different words of the phrase
\* as it should, in order, and the phrase itself passes it.
ASSUME QuizAsksEnough ==
  \A n \in QuizLengths : \A bytes \in [1..MaxDraws -> 0..(ByteValues - 1)] :
    LET indexes == PickQuizIndexes(n, bytes)
        words   == [i \in 1..n |-> i]
    IN  /\ Len(indexes) = AskedFor(n) /\ ToSet(indexes) \subseteq 0..(n - 1)
        /\ \A s, u \in DOMAIN indexes : s < u => indexes[s] < indexes[u]
        /\ AskedFor(n) > 0 => CheckQuizAnswers(words, indexes, [s \in DOMAIN indexes |-> words[indexes[s] + 1]])

\* Not so: what an import accepts consists of words of the list ("verify all words are in
\* the wordlist", wallet.ts); it only counts them.
ImportedWordsAreListed == \A p \in Phrases : ImportAccepts(p) => \A i \in DOMAIN p : p[i] < NumWords
=============================================================================
