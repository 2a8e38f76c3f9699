----------------------------- MODULE WasmBridge -----------------------------
(***************************************************************************)
(* The methods of WasmPvacBridge and what they allocate in the WASM heap,  *)
(* which nothing collects: every buffer and handle is freed by hand.       *)
(*                                                                         *)
(* A method takes its buffers, then, inside `try', makes handles one after *)
(* the other; each of these calls may return null or throw, and `finally'  *)
(* frees what it names as far as it was made.  What a method returns is    *)
(* its caller's to free, as the operations of module PrivateBalance do.    *)
(* The parameters and the keys that init makes are kept in fields of the       *)
(* bridge, which nothing ever frees: an init that fails leaves what it had *)
(* stored there, and the next one stores its own over it.                  *)
(***************************************************************************)
EXTENDS Naturals, Sequences

CONSTANT MaxCalls \* bound: methods called

ASSUME WasmAssumption == MaxCalls \in Nat

VARIABLES
  heap,   \* what is allocated and neither returned to the caller nor in a field
  wasmFields, \* the fields of the bridge that have a handle: this.prm; this.pk with this.sk
  wasmLost,   \* history: the fields a handle of which was stored over
  method, \* the method that runs, or NoMethod
  step,   \* how many of its handles it has made
  calls,  \* bound: methods called so far
  inits   \* history: how many of them were init

wasm_vars == <<heap, wasmFields, wasmLost, method, step, calls, inits>>

Method(buffers, makes, frees, gives) ==
  [buffers |-> buffers, makes |-> makes, frees |-> frees, gives |-> gives]
NoMethod == Method({}, <<>>, {}, {})

\* A call that may fail and allocates nothing: it reads, compares or verifies.
ReadsOnly == "reads"

\* What init makes for the fields of the bridge.
InFields == {"prm", "keys"}

\* init: the parameters come first, and after them a seed that is too short throws; `ptrs'
\* are seedPtr, pkPtr and skPtr.
InitMethod == Method({}, <<"prm", "ptrs", "keys">>, {"ptrs"}, {})

\* serializePtr, of a ciphertext, a proof or the public key.
SerializePtr == Method({"lenPtr"}, <<"bufPtr", ReadsOnly>>, {"bufPtr", "lenPtr"}, {})

EncryptHandle      == Method({"seed"}, <<"ct">>, {"seed"}, {"ct"})
DecodeCipherHandle == Method({"data"}, <<"ct">>, {"data"}, {"ct"})
CtSubHandle        == Method({}, <<"out">>, {}, {"out"})
DecryptHandle      == Method({"outPtr"}, <<ReadsOnly>>, {"outPtr"}, {})
PedersenCommitBytes == Method({"blinding", "outPtr", "outLen"}, <<ReadsOnly>>,
                              {"blinding", "outPtr", "outLen"}, {})
MakeZeroProofBoundHandle   == Method({"blinding"}, <<"zp">>, {"blinding"}, {"zp"})
MakeBoundRangeProofHandle  == Method({"blinding"}, <<"zp">>, {"blinding"}, {"zp"})
VerifyBoundRangeCommitment == Method({"commit"}, <<ReadsOnly>>, {"commit"}, {})
PubkeyExtendsLocal == Method({}, <<"data", "legacy", ReadsOnly>>, {"data", "legacy"}, {})
TryGetBalance      == Method({}, <<"ct", ReadsOnly>>, {"ct"}, {})
EncryptBytes       == Method({}, <<"ct", ReadsOnly>>, {"ct"}, {})
DecryptBytes       == Method({}, <<ReadsOnly, "ct", ReadsOnly>>, {"ct"}, {})
MakeZeroProofBound == Method({}, <<"ct", "zp", ReadsOnly>>, {"zp", "ct"}, {})
VerifyZeroProof    == Method({}, <<"ct", "data", "zp", "commit", ReadsOnly>>,
                             {"zp", "ct", "data", "commit"}, {})
CtSub              == Method({}, <<"ha", "hb", "hout", ReadsOnly>>, {"hout", "hb", "ha"}, {})

EncryptZero        == Method({"seed"}, <<"ct", ReadsOnly>>, {"ct", "seed"}, {})

Methods == {InitMethod, SerializePtr, EncryptHandle, DecodeCipherHandle, CtSubHandle, DecryptHandle,
            PedersenCommitBytes, MakeZeroProofBoundHandle, MakeBoundRangeProofHandle,
            VerifyBoundRangeCommitment, PubkeyExtendsLocal, TryGetBalance, EncryptBytes, DecryptBytes,
            MakeZeroProofBound, VerifyZeroProof, CtSub, EncryptZero}

-----------------------------------------------------------------------------
WasmInit ==
  /\ heap = {} /\ wasmFields = {} /\ wasmLost = {}
  /\ method = NoMethod /\ step = 0 /\ calls = 0 /\ inits = 0

Call(m) ==
  /\ method = NoMethod /\ calls < MaxCalls
  /\ method' = m /\ step' = 0 /\ calls' = calls + 1
  /\ inits' = inits + (IF m = InitMethod THEN 1 ELSE 0)
  /\ heap' = heap \cup m.buffers /\ UNCHANGED <<wasmFields, wasmLost>>

MakeHandle ==
  /\ step < Len(method.makes) /\ step' = step + 1
  /\ LET made == {method.makes[step + 1]}
     IN /\ heap' = heap \cup (made \ (InFields \cup {ReadsOnly}))
        /\ wasmFields' = wasmFields \cup (made \cap InFields)
        /\ wasmLost' = wasmLost \cup (made \cap wasmFields)
  /\ UNCHANGED <<method, calls, inits>>

\* The last call has answered: the result goes to the caller.
Returns ==
  /\ method # NoMethod /\ step = Len(method.makes)
  /\ heap' = (heap \ method.frees) \ method.gives
  /\ method' = NoMethod /\ step' = 0 /\ UNCHANGED <<wasmFields, wasmLost, calls, inits>>

\* Mutant of Throws: only the buffers are freed, as without the names of the handles in `finally'.
ThrowsKeepingHandles ==
  /\ step < Len(method.makes)
  /\ heap' = heap \ method.buffers
  /\ method' = NoMethod /\ step' = 0 /\ UNCHANGED <<wasmFields, wasmLost, calls, inits>>

\* A call throws, or returns null.
Throws ==
  /\ step < Len(method.makes)
  /\ heap' = heap \ method.frees
  /\ method' = NoMethod /\ step' = 0 /\ UNCHANGED <<wasmFields, wasmLost, calls, inits>>

\* init stores what it is given before it looks whether it is null; of the keys, one may be
\* null and the other not.
StoresNull ==
  /\ step < Len(method.makes) /\ method.makes[step + 1] \in InFields
  /\ LET field == {method.makes[step + 1]}
     IN /\ \E half \in SUBSET (field \cap {"keys"}) : wasmFields' = (wasmFields \ field) \cup half
        /\ wasmLost' = wasmLost \cup (field \cap wasmFields)
  /\ heap' = heap \ method.frees
  /\ method' = NoMethod /\ step' = 0 /\ UNCHANGED <<calls, inits>>

WasmNext == (\E m \in Methods : Call(m)) \/ MakeHandle \/ Returns \/ Throws \/ StoresNull

WasmSpec == WasmInit /\ [][WasmNext]_wasm_vars

-----------------------------------------------------------------------------
\* Whatever a method allocated and does not return is free again when it is over, at
\* whichever of its calls it failed: a wallet that stays open for days refreshes its
\* encrypted balance over and over through these methods.  Only what is in a field of the
\* bridge stays, and only a further init makes the bridge forget it (wasm-bridge.ts:250,
\* 263-264): one that was initialised once, well or not, has lost nothing.
MethodsFree ==
  /\ method = NoMethod => heap = {}
  /\ wasmLost # {} => inits > 1

\* Not so: a bridge that failed to start holds nothing.  A seed that is too short, or a
\* null key, throws behind this.prm (wasm-bridge.ts:250-265).
FailedInitHoldsNothing == method = NoMethod /\ inits > 0 /\ "keys" \notin wasmFields => wasmFields = {}

WasmTypeOK ==
  /\ method \in Methods \cup {NoMethod} /\ step \in 0..Len(method.makes)
  /\ calls \in 0..MaxCalls /\ inits \in 0..calls
  /\ wasmFields \subseteq InFields /\ wasmLost \subseteq InFields
=============================================================================
