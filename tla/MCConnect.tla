----------------------------- MODULE MCConnect -----------------------------
(* Small instances of ConnectHandler.                                      *)
EXTENDS ConnectPromise

CONSTANTS x1, x2, r1, r2, r3, o1, o2, a1, a2

\* One port that first connects.
OneOrigin == [x \in Ports |-> o1]
OnePort   == [r \in Reqs |-> x1]

\* Three requests, so that two prompts of one port may wait at a time.
ConnectAskSign ==
  [r \in Reqs |-> CASE r = r1 -> {"connect"}
                    [] r = r2 -> {"readBal", "signTx"} \cup EndKinds
                    [] OTHER -> {"signMsg"}]

\* The second port is another tab of the same site, or another site.
TwoOrigins == [x \in Ports |-> IF x = x1 THEN o1 ELSE o2]
TwoPorts   == [r \in Reqs |-> IF r = r2 THEN x2 ELSE x1]
ConnectTwice ==
  [r \in Reqs |-> IF r = r3 THEN {"signMsg", "disconnect"} ELSE {"connect"}]

\* The orders the violation runs look for: connect, connect again and sign;
\* connect, sign and disconnect; two sites connect and the first one signs.
ReconnectThenSign ==
  [r \in Reqs |-> IF r = r3 THEN {"signMsg"} ELSE {"connect"}]
DisconnectWhileSigning ==
  [r \in Reqs |-> CASE r = r1 -> {"connect"} [] r = r2 -> {"signMsg"}
                    [] OTHER -> {"userDisconnect"}]

ConnectBothThenSign ==
  [r \in Reqs |-> IF r = r3 THEN {"signTx"} ELSE {"connect"}]

=============================================================================
