------------------------------ MODULE Signing ------------------------------
(***************************************************************************)
(* What a signature covers: the canonical JSON of a transaction            *)
(* (tx/canonical-json.ts), the tagged texts of connect/typed-data.ts, and  *)
(* the way from a dApp's request over the prompt to the signed object.     *)
(* Texts are sequences of characters, a word being one character; digests  *)
(* are injective, so the text that is hashed stands for them.              *)
(***************************************************************************)
EXTENDS Amounts, Filters

CONSTANTS
  SignRequests,  \* requests that dApps send
  Signer,        \* the address of the session's wallet
  GoodAddresses, \* those that isValidAddress accepts
  HeadShown, TailShown,  \* how much of a long value the prompt shows (12 and 8)
  IntegerKeys,   \* the names that look like array indexes, in their order
  MaxSigned      \* bound: signatures

VARIABLES
  asked,       \* the request that is being served
  detail,       \* its prompt's detail
  chainNonce,  \* the nonce the node would hand out
  signatures   \* what was signed, and for which request and prompt

sign_vars == <<asked, detail, chainNonce, signatures>>

-----------------------------------------------------------------------------
(* What is asked for.  A request comes by postMessage, which carries more   *)
(* than JSON does: bigints, NaN and infinities, maps and dates.  Bound: a   *)
(* value is a scalar, or a list or an object of scalars; its numbers are    *)
(* natural and below 2^53 (beyond, encodeCallArgs refuses).                 *)

Text      == Seq(STRING)
Literals  == {"null", "true", "false"}
Leaves    == [t : Literals] \cup [t : {"string"}, s : Text] \cup [t : {"number"}, n : Nat]
Around(V) == V \cup [t : {"array"}, e : Seq(V)] \cup [t : {"object"}, kv : Seq(STRING \X V)]
JsonValues == Around(Leaves)

Strange    == [t : {"bigint"}, n : Nat] \cup [t : {"date"}, s : Text] \cup [t : {"nonfinite", "map"}, of : STRING]
SiteValues == Around(Leaves \cup Strange)

Optional(p, field, T) == field \in DOMAIN p => p[field] \in T
TextFields(p, fields) == \A f \in fields : Optional(p, f, Text)

\* The parameters by type (SignMessageParams, TypedData, ApproveContractParams,
\* SignContractParams, SignTransferParams).
ParamsTyped(kind, p) ==
  CASE kind = "signMessage" -> {"message"} \subseteq DOMAIN p /\ TextFields(p, {"message"})
    [] kind = "signTypedData" ->
         /\ {"name", "version", "primaryType", "type", "data"} \subseteq DOMAIN p
         /\ TextFields(p, {"name", "version", "primaryType", "chainId"}) /\ p.type \in Seq([name : STRING, type : STRING])
         /\ \A k \in DOMAIN p.data : p.data[k] \in SiteValues
    [] kind \in {"approveContract", "signContract"} ->
         /\ {"program", "method"} \subseteq DOMAIN p /\ TextFields(p, {"program", "method", "spender", "limit", "amount", "ou"})
         /\ Optional(p, "args", Seq(SiteValues)) /\ Optional(p, "expiry", Nat)
         /\ Optional(p, "opType", STRING)
    [] OTHER -> {"to"} \subseteq DOMAIN p /\ p.to \in STRING /\ TextFields(p, {"amount", "amountRaw", "ou", "message"})

ASSUME SigningAssumption ==
  /\ MaxSigned \in Nat /\ Signer \in STRING /\ IntegerKeys \in Seq(STRING)
  /\ \A req \in SignRequests :
       /\ req.kind \in {"signMessage", "signTypedData", "approveContract", "signContract", "signTransfer"}
       /\ ParamsTyped(req.kind, req.params)

-----------------------------------------------------------------------------
(* Canonical JSON.                                                         *)

Str(s)   == [t |-> "string", s |-> s]
Num(n)   == [t |-> "number", n |-> n]
CanonicalFloat(n) == [t |-> "float", n |-> n]
Null     == [t |-> "null"]
Arr(e)   == [t |-> "array", e |-> e]
Obj(kv)  == [t |-> "object", kv |-> kv]

\* Mutant: quotes stay as they are.
EscapeNothing(s) == <<"quote">> \o s \o <<"quote">>
EscapeString(s) ==
  LET Escape(c) == CASE c \in {"quote", "backslash"} -> <<"backslash", c>>
                     [] c = "newline"                -> <<"backslash", "n">>
                     [] c = "control"                -> <<"backslash", "u00XX">>
                     [] OTHER                        -> <<c>>
  IN <<"quote">> \o FoldLeft(LAMBDA out, c : out \o Escape(c), <<>>, s) \o <<"quote">>

FormatNumber(n) == Digits(n)
FormatFloat(n)  == Append(Digits(n), ".0")     \* of an integer; as Yojson prints it

\* Object.fromEntries: of two entries with one name the later value stays, and names that
\* look like array indexes come first.
PlainObject(kv) ==
  LET names == [i \in DOMAIN kv |-> kv[i][1]]
      once  == Filtered(names, {i \in DOMAIN kv : \A j \in 1..i-1 : names[j] # names[i]})
      first == Filtered(IntegerKeys, {i \in DOMAIN IntegerKeys : IntegerKeys[i] \in ToSet(names)})
      order == first \o Filtered(once, {i \in DOMAIN once : once[i] \notin ToSet(IntegerKeys)})
      value(k) == kv[CHOOSE i \in DOMAIN kv : names[i] = k /\ \A j \in i+1..Len(kv) : names[j] # k][2]
  IN Obj([i \in DOMAIN order |-> <<order[i], value(order[i])>>])

Joined(parts) == FoldLeft(LAMBDA out, p : IF out = <<>> THEN p ELSE out \o <<",">> \o p, <<>>, parts)

\* A value of arrays and objects, given how what is in it is written.  Object.entries finds
\* nothing in a bigint, a map or a date.
SerializeAround(v, Inner(_)) ==
  CASE v.t \in Literals -> <<v.t>>
    [] v.t = "nonfinite" -> <<"null">>
    [] v.t \in {"bigint", "map", "date"} -> <<"{">> \o <<"}">>
    [] v.t = "float"  -> FormatFloat(v.n)
    [] v.t = "number" -> FormatNumber(v.n)
    [] v.t = "string" -> EscapeString(v.s)
    [] v.t = "array"  -> <<"[">> \o Joined([i \in DOMAIN v.e |-> Inner(v.e[i])]) \o <<"]">>
    [] OTHER -> <<"{">> \o Joined([i \in DOMAIN v.kv |->
                   EscapeString(<<v.kv[i][1]>>) \o <<":">> \o Inner(v.kv[i][2])]) \o <<"}">>

\* canonicalSerialize calls itself.  Bound: arrays and objects are at most three deep, which
\* is what is signed with one list or object in each field of a message.
Deepest(v) == SerializeAround(v, LAMBDA w : <<"deeper">>)
SecondLayer(v) == SerializeAround(v, Deepest)
ThirdLayer(v) == SerializeAround(v, SecondLayer)
CanonicalSerialize(v) == SerializeAround(v, ThirdLayer)

CanonicalSerializeOrdered(kv) == CanonicalSerialize(Obj(kv))

\* canonicalJsonForTx: the fields of the node in its order, encrypted_data and message only
\* if there is any; then whatever else the object holds.
NowTs == 0
CanonicalJsonForTx(tx) ==
  CanonicalSerializeOrdered(
    << <<"from", Str(<<tx.from>>)>>, <<"to_", Str(tx.to)>>, <<"amount", Str(tx.amount)>>,
       <<"nonce", Num(tx.nonce)>>, <<"ou", Str(tx.ou)>>, <<"timestamp", CanonicalFloat(NowTs)>>,
       <<"op_type", Str(<<tx.op_type>>)>> >>
    \o (IF tx.encrypted_data = <<>> THEN <<>> ELSE << <<"encrypted_data", Str(tx.encrypted_data)>> >>)
    \o (IF tx.message = <<>> THEN <<>> ELSE << <<"message", Str(tx.message)>> >>))

\* toNodeWireTx: the same fields, with what was left out of the signed text.
WireOnly == {"signature", "public_key"}
ToNodeWireTx(tx, signature) ==
  [f \in (DOMAIN tx \ {"to"}) \cup {"to_"} \cup WireOnly |->
     CASE f = "to_" -> tx.to [] f \in WireOnly -> signature [] OTHER -> tx[f]]

\* encodeArg: a bigint is bare digits; any other argument is what JSON.stringify makes of it.
EncodedScalar(v) ==
  CASE v.t = "bigint"    -> Num(v.n)
    [] v.t = "date"      -> Str(v.s)
    [] v.t = "map"       -> Obj(<<>>)
    [] v.t = "nonfinite" -> Null
    [] OTHER             -> v
EncodeArg(v) ==
  CASE v.t = "array"  -> Arr([i \in DOMAIN v.e |-> EncodedScalar(v.e[i])])
    [] v.t = "object" -> Obj([i \in DOMAIN v.kv |-> <<v.kv[i][1], EncodedScalar(v.kv[i][2])>>])
    [] OTHER          -> EncodedScalar(v)
EncodeCallArgs(args) == CanonicalSerialize(Arr([i \in DOMAIN args |-> EncodeArg(args[i])]))

\* It throws for an argument that is not finite, JSON.stringify for a bigint in a list or an
\* object.
Encodable(v) ==
  CASE v.t = "array"  -> \A i \in DOMAIN v.e : v.e[i].t # "bigint"
    [] v.t = "object" -> \A i \in DOMAIN v.kv : v.kv[i][2].t # "bigint"
    [] OTHER          -> v.t # "nonfinite"

-----------------------------------------------------------------------------
(* The signing functions.                                                  *)

Given(params, field, default) == IF field \in DOMAIN params THEN params[field] ELSE default

MsgTag     == <<"octra-signed-message:v1", "newline">>
TypedTag   == <<"octra-typed-data:v1|">>
ApproveTag == <<"octra-contract-approval:v1|">>

Hashed(text)    == [hashed |-> TRUE, text |-> text]
Canonical(text) == [hashed |-> FALSE, text |-> text]

SignPlainMessage(p) ==
  Hashed(IF Given(p, "scheme", "domain") = "raw" THEN p.message
         ELSE MsgTag \o Digits(Len(p.message)) \o <<"newline">> \o p.message)

\* encodeTypedData: of the message only the fields that its type declares, in their order; what
\* types it declares for them is left out.
FieldNames(p) == [i \in DOMAIN p.type |-> p.type[i].name]
EncodeTypedData(p) ==
  LET names == FieldNames(p)
      domain == << <<"name", Str(p.name)>>, <<"version", Str(p.version)>> >>
                \o (IF "chainId" \in DOMAIN p THEN << <<"chainId", Str(p.chainId)>> >> ELSE <<>>)
      fields == [i \in DOMAIN names |-> <<names[i], Given(p.data, names[i], Null)>>]
  IN CanonicalSerializeOrdered(<< <<"domain", Obj(domain)>>, <<"primaryType", Str(p.primaryType)>>,
                                  <<"message", PlainObject(fields)>> >>)
SignTypedDataOctra(p) == Hashed(TypedTag \o EncodeTypedData(p))

SignContractApproval(p) ==
  Hashed(ApproveTag \o CanonicalSerializeOrdered(
    << <<"program", Str(p.program)>>, <<"method", Str(p.method)>>, <<"spender", Str(Given(p, "spender", <<>>))>>,
       <<"args", Arr(Given(p, "args", <<>>))>>, <<"limit", Str(Given(p, "limit", <<>>))>>,
       <<"expiry", Num(Given(p, "expiry", 0))>>, <<"owner", Str(<<Signer>>)>> >>))

\* recommendedOu of the operations that a dApp can have signed.
DefaultOu(opType, amount) ==
  CASE opType = "call"         -> Digits(2000)
    [] opType = "program_call" -> Digits(100000)
    [] OTHER                   -> IF amount < 1000000000 THEN Digits(10000) ELSE Digits(30000)

\* `call' has the method in encrypted_data and the arguments in message; `program_call' has
\* the whole invocation in encrypted_data.
ContractCallTx(p, nonce) ==
  LET opType == Given(p, "opType", "program_call")
      args   == EncodeCallArgs(Given(p, "args", <<>>))
  IN [from |-> Signer, to |-> p.program, amount |-> Given(p, "amount", <<"0">>), nonce |-> nonce,
      ou |-> Given(p, "ou", DefaultOu(opType, 0)), op_type |-> opType,
      encrypted_data |-> IF opType = "call" THEN p.method
                         ELSE <<"{program:">> \o EscapeString(p.program) \o <<",method:">> \o EscapeString(p.method)
                              \o <<",args:">> \o args \o <<"}">>,
      message |-> IF opType = "call" THEN args ELSE <<>>]

\* previewTransfer: what the prompt shows and the signature repeats, or why not.  An amount in
\* base units stays as it was written.
ResolveAmountRaw(p) ==
  IF "amountRaw" \in DOMAIN p THEN p.amountRaw
  ELSE IF "amount" \in DOMAIN p /\ ParseAmountRaw(p.amount) # Invalid THEN Digits(ParseAmountRaw(p.amount))
  ELSE <<>>

PreviewTransfer(p) ==
  [to |-> <<p.to>>, amountRaw |-> ResolveAmountRaw(p),
   ou |-> Given(p, "ou", DefaultOu("standard", Numeral(ResolveAmountRaw(p))))]
TransferCanBeSigned(p) ==
  /\ p.to \in GoodAddresses /\ p.to # Signer
  /\ IsDigits(ResolveAmountRaw(p)) /\ Numeral(ResolveAmountRaw(p)) > 0
  /\ LET ou == PreviewTransfer(p).ou IN IsDigits(WholePart(ou)) /\ (HasPoint(ou) => IsDigits(Fraction(ou)))

NativeTransferTx(p, preview, nonce) ==
  [from |-> Signer, to |-> preview.to, amount |-> preview.amountRaw, nonce |-> nonce,
   ou |-> preview.ou, op_type |-> "standard", encrypted_data |-> <<>>, message |-> Given(p, "message", <<>>)]

-----------------------------------------------------------------------------
(* A request and its prompt (rpc-handler.ts onSign).                       *)

NoRequest == [kind |-> "none"]
NoPrompt  == [kind |-> "none"]
NoPreview == [to |-> "none"]

SignInit == asked = NoRequest /\ detail = NoPrompt /\ chainNonce = 1 /\ signatures = <<>>

\* What is malformed is refused before there is a prompt.
CanBeSigned(req) ==
  CASE req.kind = "signTypedData" -> req.params.primaryType # <<>>
    [] req.kind \in {"approveContract", "signContract"} ->
         /\ req.params.program # <<>> /\ req.params.method # <<>>
         /\ Given(req.params, "opType", "call") \in {"call", "program_call"}
    [] req.kind = "signTransfer" -> TransferCanBeSigned(req.params)
    [] OTHER -> TRUE

\* The nonce and the preview are fixed with the prompt.
PromptOf(req, nonce) ==
  [kind |-> req.kind, nonce |-> nonce,
   preview |-> IF req.kind = "signTransfer" THEN PreviewTransfer(req.params) ELSE NoPreview]

Ask(req) ==
  /\ asked = NoRequest /\ Len(signatures) < MaxSigned
  /\ CanBeSigned(req)
  /\ asked' = req
  /\ detail' = PromptOf(req, chainNonce)
  /\ UNCHANGED <<chainNonce, signatures>>

RejectRequest ==
  /\ asked # NoRequest /\ asked' = NoRequest /\ detail' = NoPrompt
  /\ UNCHANGED <<chainNonce, signatures>>

\* Another transaction of the account, while the prompt is on the screen.
NonceMoves ==
  /\ chainNonce = 1 /\ chainNonce' = 2
  /\ UNCHANGED <<asked, detail, signatures>>

\* Mutant: the nonce is the one of the moment the user approves.
TxOfRequestAnew(req, prompt) ==
  IF req.kind = "signTransfer" THEN NativeTransferTx(req.params, prompt.preview, chainNonce)
                               ELSE ContractCallTx(req.params, prompt.nonce)
TxOfRequest(req, prompt) ==
  IF req.kind = "signTransfer" THEN NativeTransferTx(req.params, prompt.preview, prompt.nonce)
                               ELSE ContractCallTx(req.params, prompt.nonce)

IsTx(req) == req.kind \in {"signTransfer", "signContract"}

\* Its rows (ApprovalPrompt): long values by their ends, an amount in OCT or a dash.
Short(value) ==
  IF Len(value) <= HeadShown + TailShown + 1 THEN value
  ELSE SubSeq(value, 1, HeadShown) \o <<"...">> \o SubSeq(value, Len(value) - TailShown + 1, Len(value))
OctAmount(raw) == IF raw = <<>> THEN <<"-">> ELSE FormatAmount(raw)
ArgRows(args)  == IF args = <<>> THEN {<<"Arguments", "None">>}
                  ELSE {<<"Argument", i, IF args[i].t = "string" THEN args[i].s ELSE Canonical(args[i])>> : i \in DOMAIN args}

PromptRows(req, d) ==
  LET p == req.params IN
  {<<"Title", req.kind>>} \cup
  CASE req.kind = "signMessage" ->
         {<<"Message", p.message>>, <<"Untagged", Given(p, "scheme", "domain") = "raw">>}
    [] req.kind = "signTypedData" ->
         {<<"App", p.name>>, <<"Version", p.version>>, <<"Type", p.primaryType>>} \cup
         (IF "chainId" \in DOMAIN p THEN {<<"Chain", p.chainId>>} ELSE {})
         \cup {<<k, IF p.data[k].t = "string" THEN p.data[k].s ELSE Canonical(p.data[k])>> : k \in DOMAIN p.data}
    [] req.kind = "approveContract" ->
         {<<"Program", Short(p.program)>>, <<"Method", p.method>>,
          <<"Limit", IF "limit" \in DOMAIN p THEN OctAmount(p.limit) ELSE <<"No limit set by the site">> >>,
          <<"Expires", IF "expiry" \in DOMAIN p THEN ToString(p.expiry) ELSE "Never">>}
         \cup (IF Given(p, "spender", <<>>) # <<>> THEN {<<"Spender", Short(p.spender)>>} ELSE {})
         \cup ArgRows(Given(p, "args", <<>>))
    [] req.kind = "signContract" ->
         {<<"Program", Short(p.program)>>, <<"Method", p.method>>, <<"Nonce", d.nonce>>,
          <<"Sends", OctAmount(Given(p, "amount", <<"0">>))>>, <<"Fee", OctAmount(Given(p, "ou", <<>>))>>,
          <<"Operation", Given(p, "opType", "program_call")>>} \cup ArgRows(Given(p, "args", <<>>))
    [] OTHER ->
         {<<"Amount", OctAmount(d.preview.amountRaw)>>, <<"To", d.preview.to>>,
          <<"Fee", OctAmount(d.preview.ou)>>, <<"Nonce", d.nonce>>}
         \cup (IF Given(p, "message", <<>>) # <<>> THEN {<<"Memo", p.message>>} ELSE {})

SignedBytes(req, prompt) ==
  CASE req.kind = "signMessage"     -> SignPlainMessage(req.params)
    [] req.kind = "signTypedData"   -> SignTypedDataOctra(req.params)
    [] req.kind = "approveContract" -> SignContractApproval(req.params)
    [] OTHER                        -> Canonical(CanonicalJsonForTx(TxOfRequest(req, prompt)))

Signature(req, prompt) ==
  [req |-> req, detail |-> prompt, bytes |-> SignedBytes(req, prompt),
   tx |-> IF IsTx(req) THEN ToNodeWireTx(TxOfRequest(req, prompt), "sig") ELSE [op_type |-> "none"]]

\* What cannot be encoded throws when it is approved: the site gets an error.
Approve ==
  /\ asked # NoRequest
  /\ IF asked.kind = "signContract" => \A v \in ToSet(Given(asked.params, "args", <<>>)) : Encodable(v)
     THEN signatures' = Append(signatures, Signature(asked, detail)) ELSE UNCHANGED signatures
  /\ asked' = NoRequest /\ detail' = NoPrompt
  /\ UNCHANGED chainNonce

SignNext == (\E req \in SignRequests : Ask(req)) \/ RejectRequest \/ NonceMoves \/ Approve

SignSpec == SignInit /\ [][SignNext]_sign_vars

-----------------------------------------------------------------------------
SignTypeOK ==
  /\ asked \in SignRequests \cup {NoRequest} /\ chainNonce \in 1..2
  /\ Len(signatures) <= MaxSigned /\ (detail = NoPrompt <=> asked = NoRequest)

\* What was asked for, with the defaults spelled out.
Meaning(s) ==
  LET p == s.req.params IN
  CASE IsTx(s.req) -> [tx |-> [f \in DOMAIN s.tx \ WireOnly |-> s.tx[f]]]
    [] s.req.kind = "signMessage" -> [untagged |-> Given(p, "scheme", "domain") = "raw", message |-> p.message]
    [] s.req.kind = "signTypedData" ->
         [app |-> <<p.name, p.version, Given(p, "chainId", Null)>>, primaryType |-> p.primaryType,
          data |-> {<<k, Given(p.data, k, Null)>> : k \in ToSet(FieldNames(p))}]
    [] OTHER -> [program |-> p.program, method |-> p.method, args |-> Given(p, "args", <<>>),
                 grant |-> <<Given(p, "spender", <<>>), Given(p, "limit", <<>>), Given(p, "expiry", 0)>>]

Untagged(s) == s.req.kind = "signMessage" /\ Given(s.req.params, "scheme", "domain") = "raw"

\* One signature stands for one thing: both ask for the same, or one is an untagged message,
\* which can only equal what is hashed as it is, never a transaction.
StandsForOne(s, t) ==
  s.bytes = t.bytes =>
    \/ Meaning(s) = Meaning(t)
    \/ (Untagged(s) \/ Untagged(t)) /\ ~IsTx(s.req) /\ ~IsTx(t.req)

\* The values are ones that JSON carries, where canonicalSerialize writes them.
Carried(kind, p) ==
  CASE kind = "signTypedData"   -> \A k \in DOMAIN p.data : p.data[k] \in JsonValues
    [] kind = "approveContract" -> Optional(p, "args", Seq(JsonValues))
    [] OTHER                    -> TRUE

\* Of two requests with the same signed bytes both ask for the same, if JSON carries the values
\* of their typed data and of their approvals' arguments; a call's may be bigints and dates.
SignedBytesTellApart ==
  \A i, j \in DOMAIN signatures :
    Carried(signatures[i].req.kind, signatures[i].req.params) /\ Carried(signatures[j].req.kind, signatures[j].req.params)
      => StandsForOne(signatures[i], signatures[j])

\* The same of whatever a site can pass (typed-data.ts "a signature produced for one purpose can
\* never be replayed as another").  (Not so: canonicalSerialize writes every bigint, map and date
\* as an empty object and NaN as null, so an approval of [1n] is one of [1000n].)
SignedForOnePurpose ==
  \A i, j \in DOMAIN signatures : StandsForOne(signatures[i], signatures[j])

\* A transaction that was signed has the nonce that its prompt showed, also if the account's
\* moved meanwhile, and a transfer the amount, recipient and fee (typed-data.ts "The approval
\* prompt and the signature MUST agree on every field").
SignedAsShown ==
  \A s \in ToSet(signatures) :
    LET rows == PromptRows(s.req, s.detail) IN
    /\ IsTx(s.req) => <<"Nonce", s.tx.nonce>> \in rows
    /\ s.req.kind = "signTransfer" =>
         {<<"To", s.tx.to_>>, <<"Amount", OctAmount(s.tx.amount)>>, <<"Fee", OctAmount(s.tx.ou)>>} \subseteq rows

\* Two approvals for which the prompt showed the same rows signed the same.  (Not so: of typed
\* data the prompt shows the message's fields and the type's are signed; a long value is shown
\* by its ends, a fee with a point as it is; and the fee of a call is a dash where the default
\* is signed.)
ShownTellsApart ==
  \A i, j \in DOMAIN signatures :
    PromptRows(signatures[i].req, signatures[i].detail) = PromptRows(signatures[j].req, signatures[j].detail)
    => signatures[i].bytes = signatures[j].bytes
=============================================================================
