------------------------------ MODULE Protocol ------------------------------
(***************************************************************************)
(* The vocabulary that a dApp and the wallet share (sdk/protocol.ts), and  *)
(* what the handler makes of it.  A method's name is the sequence of its   *)
(* words and underscores; upper and lower case are not told apart.         *)
(***************************************************************************)
EXTENDS Naturals, Sequences, SequencesExt

CONSTANTS
  PROTOCOL_VERSION,
  MIN_PROTOCOL_VERSION,
  MaxWords           \* bound: the length of a name that is examined

Underscore == "_"
WalletMethod(words) == <<"wallet", Underscore>> \o words

SigningMethods == {<<"sign", "message">>, <<"sign", "typed", "data">>, <<"approve", "contract">>,
                   <<"sign", "contract">>, <<"sign", "transfer">>}
ReadMethods    == {<<"get", w>> : w \in {"accounts", "address", "balance", "network", "networks", "permissions"}}
                  \cup {<<"get", "public", "key">>, <<"get", "network", "info">>, <<"get", "chain", "id">>}
SessionMethods == {<<"connect">>, <<"disconnect">>, <<"ping">>}

METHODS == {WalletMethod(m) : m \in SigningMethods \cup ReadMethods \cup SessionMethods}

OrionMethods     == {<<"orion", Underscore>> \o m : m \in METHODS}
SupportedMethods == METHODS \cup OrionMethods

CanonicalizeMethod(m) == IF IsPrefix(<<"orion", Underscore, "wallet", Underscore>>, m) THEN SubSeq(m, 3, Len(m)) ELSE m

ProhibitedMethods ==
  { p \o v : p \in {<<>>, <<"wallet", Underscore>>},
             v \in {<<"send", "transaction">>, <<"broadcast", "transaction">>, <<"transfer">>, <<"swap">>, <<"bridge">>} }
  \cup {<<"eth", Underscore, "send", "transaction">>, <<"eth", Underscore, "send", "raw", "transaction">>}

\* The list, and whatever sounds like it: sendtransaction or broadcast anywhere; transfer, swap
\* and bridge as the last word after an underscore.
IsProhibitedMethod(m) ==
  \/ m \in ProhibitedMethods
  \/ \E i \in DOMAIN m : m[i] = "broadcast" \/ (i < Len(m) /\ m[i] = "send" /\ m[i + 1] = "transaction")
  \/ m # <<>> /\ Last(m) \in {"transfer", "swap", "bridge"} /\ (Len(m) = 1 \/ m[Len(m) - 1] = Underscore)

\* The permission that a method needs, for what is signed the name of the method.
PermissionForMethod(m) == IF SubSeq(m, 3, Len(m)) \in SigningMethods THEN SubSeq(m, 3, Len(m)) ELSE <<"unknown">>

WalletCapabilities ==
  SigningMethods \cup {<<"ping">>, <<"multi", "account">>, <<"events">>, <<"session", "restore">>, <<"custom", "networks">>}
NegotiateCapabilities(requested) == IF requested = {} THEN WalletCapabilities ELSE WalletCapabilities \cap requested

NoVersion == 0
NegotiateVersion(theirs) ==
  IF theirs < MIN_PROTOCOL_VERSION THEN NoVersion
  ELSE IF theirs < PROTOCOL_VERSION THEN theirs ELSE PROTOCOL_VERSION

\* What a locked wallet answers without a prompt.
UnlockExempt == {WalletMethod(<<"disconnect">>), WalletMethod(<<"ping">>)}

\* How dispatch answers a method, before any session is looked at.
Route(raw) ==
  LET m == CanonicalizeMethod(raw) IN
  IF IsProhibitedMethod(raw) \/ IsProhibitedMethod(m) THEN "METHOD_FORBIDDEN"
  ELSE IF m \in METHODS THEN "served" ELSE "METHOD_NOT_FOUND"

\* Replies and requests carry their kind.
Envelope(kind, body) == [v |-> PROTOCOL_VERSION, kind |-> kind, body |-> body]

-----------------------------------------------------------------------------
ASSUME ProtocolAssumption ==
  {PROTOCOL_VERSION, MIN_PROTOCOL_VERSION} \subseteq Nat \ {NoVersion} /\ MIN_PROTOCOL_VERSION <= PROTOCOL_VERSION

\* Every method of either namespace is served, and none is caught by the words that are
\* prohibited, although one of them ends in "transfer".
ASSUME SupportedIsServed == \A m \in SupportedMethods : Route(m) = "served"

\* An alias has the fate of the method it stands for: none smuggles a name past the check
\* (rpc-handler.ts "must never become a way to smuggle a prohibited method").
Words == {"orion", "wallet", Underscore, "send", "transaction", "broadcast", "transfer", "swap"}
ASSUME AliasesShareTheirFate ==
  \A n \in 0..MaxWords : \A m \in [1..n -> Words] :
    Route(<<"orion", Underscore, "wallet", Underscore>> \o m) = Route(WalletMethod(m))

\* What signs anything has a permission of its own and is advertised.
ASSUME SigningNeedsItsPermission ==
  \A m \in SigningMethods :
    /\ PermissionForMethod(WalletMethod(m)) = m /\ m \in NegotiateCapabilities({})
    /\ \A other \in METHODS \ {WalletMethod(m)} : PermissionForMethod(other) # m

\* The version agreed on is one that both sides speak.
ASSUME VersionIsShared ==
  \A theirs \in 0..PROTOCOL_VERSION + 1 :
    NegotiateVersion(theirs) # NoVersion => /\ NegotiateVersion(theirs) <= theirs
                                            /\ NegotiateVersion(theirs) \in MIN_PROTOCOL_VERSION..PROTOCOL_VERSION
=============================================================================
