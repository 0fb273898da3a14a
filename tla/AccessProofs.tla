----------------------------- MODULE AccessProofs -----------------------------
(***************************************************************************)
(* Proofs about the two parts a client meets: Sessions and Gateway.        *)
(*                                                                         *)
(* Whatever devices ask for at the same time and whatever fails, a nonce   *)
(* leads to one session at most, first logins at the same time all find    *)
(* the user, and who waits for an answer is not logged out by the others.  *)
(*                                                                         *)
(* Whatever clients repeat, however attempts overlap and whatever breaks,  *)
(* no failure is reported as the client's fault after it took effect, and  *)
(* a request takes effect once.                                            *)
(***************************************************************************)
EXTENDS Sessions, Gateway, SequenceTheorems, TLAPS

-----------------------------------------------------------------------------
(***************************************************************************)
(* Sessions: nonces.                                                       *)
(***************************************************************************)

\* The steps of a login that has consumed its nonce.
Past == {"verifying", "finding", "creating", "looking_again", "issuing"}

\* Call k has consumed nonce n.
Uses(k, n) == call[k].pc \in Past /\ call[k].nonce = n

\* Token t is that of a login with nonce n.
Opens(t, n) == t \in 1 .. Len(tokens) /\ tokens[t].nonce = n

Nonce == Nat \ {None}

\* A nonce is in one place: in Redis, in the call that has consumed it, or behind a token.
NonceInv ==
    /\ \A n \in Nonce, w \in Wallet : nonces[w] = n => issued[n] = w
    /\ \A n \in Nonce, k \in Call : Uses(k, n) =>
          issued[n] = WalletFor(k) /\ \A w \in Wallet : nonces[w] # n
    /\ \A n \in Nonce, t \in Nat : Opens(t, n) =>
          issued[n] = tokens[t].wallet /\ \A w \in Wallet : nonces[w] # n
    /\ \A n \in Nonce, k, l \in Call : Uses(k, n) /\ Uses(l, n) => k = l
    /\ \A n \in Nonce, s, t \in Nat : Opens(s, n) /\ Opens(t, n) => s = t
    /\ \A n \in Nonce, k \in Call, t \in Nat : ~(Uses(k, n) /\ Opens(t, n))
    /\ \A k \in Call : call[k].pc \notin Past \cup {"consuming"} => call[k].nonce = None

-----------------------------------------------------------------------------
(***************************************************************************)
(* Types.                                                                  *)
(***************************************************************************)

LEMMA Lengths ==
    ASSUME SessionTypes
    PROVE  /\ Len(issued) \in Nat /\ Len(tokens) \in Nat
           /\ DOMAIN tokens = 1 .. Len(tokens)
           /\ \A n \in 1 .. Len(issued) : issued[n] \in Wallet
           /\ \A t \in 1 .. Len(tokens) : tokens[t] \in TokenRow
BY LenProperties, ElementOfSeq DEF SessionTypes

LEMMA Appended ==
    ASSUME NEW S, NEW s \in Seq(S), NEW e \in S
    PROVE  /\ Append(s, e) \in Seq(S) /\ Len(Append(s, e)) = Len(s) + 1
           /\ \A i \in 1 .. Len(s) : Append(s, e)[i] = s[i]
           /\ Append(s, e)[Len(s) + 1] = e
OBVIOUS

\* The row of call k becomes x.
Becomes(k, x) ==
    /\ x \in CallRow /\ (x.pc # "free" => x.device \in Device)
    /\ call' = [call EXCEPT ![k] = x]

\* Rows of tokens are revoked and otherwise stay as they are.
Revokes ==
    /\ tokens' \in Seq(TokenRow) /\ Len(tokens') = Len(tokens)
    /\ \A t \in 1 .. Len(tokens) :
          tokens'[t].wallet = tokens[t].wallet /\ tokens'[t].nonce = tokens[t].nonce

\* A row is added to the tokens by call k.
Adds(k) == tokens' = Append(tokens, Issued(k))

LEMMA CallsKeepTypes ==
    ASSUME SessionTypes, NEW k \in Call, NEW x, Becomes(k, x),
           Len(issued') = Len(issued), Len(tokens') \in Nat, Len(tokens') >= Len(tokens)
    PROVE  /\ call' \in [Call -> CallRow']
           /\ \A l \in Call : call'[l].pc # "free" => call'[l].device \in Device
<1>1. CallRow \subseteq CallRow'
  <2>1. Len(tokens) \in Nat /\ Len(issued) \in Nat
    BY Lengths
  <2>2. 0 .. Len(tokens) \subseteq 0 .. Len(tokens')
    BY <2>1
  <2>3. QED
    BY <2>2 DEF CallRow
<1>2. call \in [Call -> CallRow]
  BY DEF SessionTypes
<1>3. call' \in [Call -> CallRow]
  BY <1>2 DEF Becomes
<1>4. QED
  BY <1>1, <1>2, <1>3 DEF Becomes, SessionTypes

LEMMA Rows ==
    ASSUME SessionTypes, NEW k \in Call
    PROVE  /\ Free \in CallRow /\ Free.pc = "free" /\ Free.nonce = None
           /\ call[k] \in CallRow
           /\ \A step \in CallStep : LET x == [call[k] EXCEPT !.pc = step]
                  IN x \in CallRow /\ x.pc = step /\ x.device = call[k].device /\ x.nonce = call[k].nonce
<1>1. Len(issued) \in Nat /\ Len(tokens) \in Nat /\ call[k] \in CallRow
  BY Lengths DEF SessionTypes
<1>2. Free \in CallRow /\ Free.pc = "free" /\ Free.nonce = None
  BY <1>1 DEF Free, CallRow, None
<1>3. QED
  BY <1>1, <1>2 DEF CallRow

\* What the revoking updates and an insertion make of the tokens.
LEMMA Updates ==
    ASSUME SessionTypes, NEW k \in Call
    PROVE  /\ [tokens EXCEPT ![call[k].token].revoked = TRUE] = tokens' => Revokes
           /\ tokens' = [t \in DOMAIN tokens |->
                 IF tokens[t].wallet = WalletFor(k) THEN [tokens[t] EXCEPT !.revoked = TRUE]
                 ELSE tokens[t]] => Revokes
<1>1. tokens \in [1 .. Len(tokens) -> TokenRow] /\ Len(tokens) \in Nat /\ tokens \in Seq(TokenRow)
  BY LenProperties DEF SessionTypes
<1>2. ASSUME tokens' = [tokens EXCEPT ![call[k].token].revoked = TRUE] PROVE Revokes
  <2>1. tokens' \in [1 .. Len(tokens) -> TokenRow]
    BY <1>1, <1>2 DEF TokenRow
  <2>2. tokens' \in Seq(TokenRow) /\ Len(tokens') = Len(tokens)
    BY <1>1, <2>1
  <2>3. QED
    BY <1>1, <1>2, <2>2 DEF Revokes, TokenRow
<1>3. ASSUME tokens' = [t \in DOMAIN tokens |->
                 IF tokens[t].wallet = WalletFor(k) THEN [tokens[t] EXCEPT !.revoked = TRUE]
                 ELSE tokens[t]]
      PROVE  Revokes
  <2>1. tokens' \in [1 .. Len(tokens) -> TokenRow]
    BY <1>1, <1>3 DEF TokenRow
  <2>2. tokens' \in Seq(TokenRow) /\ Len(tokens') = Len(tokens)
    BY <1>1, <2>1
  <2>3. QED
    BY <1>1, <1>3, <2>2 DEF Revokes, TokenRow
<1>4. QED
  BY <1>2, <1>3

LEMMA SameTokens == SessionTypes /\ UNCHANGED tokens => Revokes
BY DEF SessionTypes, Revokes

-----------------------------------------------------------------------------
(***************************************************************************)
(* Steps that do not move a nonce on.                                      *)
(***************************************************************************)

\* Call k comes to use no nonce that it did not use before.
Quietly(k, x) ==
    /\ Becomes(k, x)
    /\ \/ x.nonce = None
       \/ x.pc = "consuming"
       \/ {call[k].pc, x.pc} \subseteq Past /\ x.nonce = call[k].nonce /\ x.device = call[k].device

\* What such a step leaves in the other variables.
Others ==
    /\ UNCHANGED <<issued, nonceOf>>
    /\ nonces' \in [Wallet -> 0 .. Len(issued)]
    /\ \A w \in Wallet : nonces'[w] \in {nonces[w], None}
    /\ held' \in [Device -> 0 .. Len(tokens)]
    /\ users' \subseteq Wallet /\ disturbed' \subseteq Wallet
    /\ refused' \subseteq {"nonce", "signature", "user"} /\ faults' \in Nat

LEMMA QuietUses ==
    ASSUME SessionTypes, NonceInv, NEW k \in Call, NEW x, Quietly(k, x) \/ UNCHANGED call
    PROVE  /\ \A n \in Nonce, l \in Call : Uses(l, n)' => Uses(l, n) /\ WalletFor(l)' = WalletFor(l)
           /\ \A l \in Call : call'[l].pc \notin Past \cup {"consuming"} => call'[l].nonce = None
<1>1. CASE UNCHANGED call
  BY <1>1 DEF NonceInv, Uses, WalletFor
<1>2. CASE Quietly(k, x)
  <2>1. call'[k] = x /\ \A l \in Call : l # k => call'[l] = call[l]
    BY <1>2 DEF Quietly, Becomes, SessionTypes
  <2>2. \A n \in Nonce : Uses(k, n)' => Uses(k, n) /\ x.device = call[k].device
    BY <1>2, <2>1 DEF Quietly, Uses, Nonce, Past
  <2>3. x.pc \notin Past \cup {"consuming"} => x.nonce = None
    BY <1>2 DEF Quietly
  <2>4. QED
    BY <2>1, <2>2, <2>3 DEF NonceInv, Uses, WalletFor
<1>3. QED
  BY <1>1, <1>2

LEMMA QuietStep ==
    ASSUME SessionTypes, NonceInv, NEW k \in Call, NEW x, Quietly(k, x) \/ UNCHANGED call,
           Others, Revokes
    PROVE  SessionTypes' /\ NonceInv'
<1>1. Len(tokens) \in Nat /\ DOMAIN tokens = 1 .. Len(tokens) /\ DOMAIN tokens' = 1 .. Len(tokens)
  BY Lengths, LenProperties DEF Revokes
<1>2. SessionTypes'
  <2>1. /\ call' \in [Call -> CallRow']
        /\ \A l \in Call : call'[l].pc # "free" => call'[l].device \in Device
    <3>1. CASE Quietly(k, x)
      BY <1>1, <3>1, CallsKeepTypes DEF Quietly, Others, Revokes
    <3>2. CASE UNCHANGED call
      BY <3>2 DEF SessionTypes, CallRow, Others, Revokes
    <3>3. QED
      BY <3>1, <3>2
  <2>2. \A t \in DOMAIN tokens' : tokens'[t].nonce \in 0 .. Len(issued')
    BY <1>1 DEF SessionTypes, Others, Revokes
  <2>3. QED
    BY <2>1, <2>2 DEF SessionTypes, Others, Revokes
<1>3. NonceInv'
  <2>1. \A n \in Nonce, t \in Nat : Opens(t, n)' => Opens(t, n) /\ tokens'[t].wallet = tokens[t].wallet
    BY DEF Opens, Revokes
  <2>2. issued' = issued /\ \A n \in Nonce, w \in Wallet : nonces'[w] = n => nonces[w] = n
    BY DEF Others, Nonce
  <2>3. \A n \in Nonce, l \in Call : Uses(l, n)' => Uses(l, n) /\ WalletFor(l)' = WalletFor(l)
    BY QuietUses
  <2>4. \A n \in Nonce, w \in Wallet : nonces'[w] = n => issued'[n] = w
    BY <2>2 DEF NonceInv
  <2>5. \A n \in Nonce, l \in Call : Uses(l, n)' =>
           issued'[n] = WalletFor(l)' /\ \A w \in Wallet : nonces'[w] # n
    BY <2>2, <2>3 DEF NonceInv
  <2>6. \A n \in Nonce, t \in Nat : Opens(t, n)' =>
           issued'[n] = tokens'[t].wallet /\ \A w \in Wallet : nonces'[w] # n
    BY <2>1, <2>2 DEF NonceInv
  <2>7. /\ \A n \in Nonce, l, m \in Call : Uses(l, n)' /\ Uses(m, n)' => l = m
        /\ \A n \in Nonce, s, t \in Nat : Opens(s, n)' /\ Opens(t, n)' => s = t
        /\ \A n \in Nonce, l \in Call, t \in Nat : ~(Uses(l, n)' /\ Opens(t, n)')
    BY <2>1, <2>3 DEF NonceInv
  <2>8. QED
    BY <2>4, <2>5, <2>6, <2>7, QuietUses DEF NonceInv
<1>4. QED
  BY <1>2, <1>3

\* How the actions say it.
LEMMA Quiet ==
    ASSUME SessionTypes, NonceInv, NEW k \in Call
    PROVE  /\ EndCall(k) => Quietly(k, Free)
           /\ \A step \in Past : GoOn(k, step) /\ call[k].pc \in Past =>
                 Quietly(k, [call[k] EXCEPT !.pc = step])
           /\ \A step \in CallStep : GoOn(k, step) /\ call[k].pc \in {"matching", "revoking"} =>
                 Quietly(k, [call[k] EXCEPT !.pc = step])
<1>1. /\ call[k] \in CallRow
      /\ Free \in CallRow /\ Free.pc = "free" /\ Free.nonce = None
  BY Rows
<1>2. EndCall(k) => Quietly(k, Free)
  BY <1>1 DEF EndCall, Quietly, Becomes
<1>3. ASSUME NEW step \in CallStep, GoOn(k, step),
             (call[k].pc \in Past /\ step \in Past) \/ call[k].pc \in {"matching", "revoking"}
      PROVE  Quietly(k, [call[k] EXCEPT !.pc = step])
  <2> DEFINE x == [call[k] EXCEPT !.pc = step]
  <2>1. x \in CallRow /\ x.pc = step /\ x.device = call[k].device /\ x.nonce = call[k].nonce
    BY Rows
  <2>2. call' = [call EXCEPT ![k] = x]
    BY <1>3 DEF GoOn
  <2>3. x.device \in Device
    BY <1>3, <2>1 DEF SessionTypes, Past
  <2>4. call[k].pc \in {"matching", "revoking"} => x.nonce = None
    BY <2>1 DEF NonceInv, Past
  <2> HIDE DEF x
  <2>5. Quietly(k, x)
    BY <1>3, <2>1, <2>2, <2>3, <2>4 DEF Quietly, Becomes
  <2>6. QED
    BY <2>5 DEF x
<1>4. Past \subseteq CallStep
  BY DEF Past, CallStep
<1>5. QED
  BY <1>2, <1>3, <1>4

-----------------------------------------------------------------------------
(***************************************************************************)
(* Steps that move a nonce on: from nowhere to Redis, from there to a      *)
(* call, and from the call to a token.                                     *)
(***************************************************************************)

LEMMA GenerateNonceKeeps ==
    ASSUME SessionTypes, NonceInv, NEW d \in Device, GenerateNonce(d)
    PROVE  SessionTypes' /\ NonceInv'
<1> DEFINE n == Len(issued) + 1
           v == WalletOf[d]
<1>1. Len(issued) \in Nat /\ n \in Nonce /\ v \in Wallet /\ 0 .. Len(issued) \subseteq 0 .. n
  BY Lengths, WalletAssumption DEF Nonce, None
<1>2. /\ issued' = Append(issued, v) /\ nonces' = [nonces EXCEPT ![v] = n]
      /\ nonceOf' \in {nonceOf, [nonceOf EXCEPT ![d] = n]}
      /\ UNCHANGED <<users, tokens, held, call, disturbed, refused, faults>>
  BY DEF GenerateNonce, TellNonce
<1> HIDE DEF v
<1>3. /\ issued' \in Seq(Wallet) /\ Len(issued') = n /\ issued'[n] = v
      /\ \A i \in 1 .. Len(issued) : issued'[i] = issued[i]
  BY <1>1, <1>2, Appended DEF SessionTypes
<1>4. SessionTypes'
  <2>1. nonces' \in [Wallet -> 0 .. n] /\ nonceOf' \in [Device -> 0 .. n]
    <3>1. /\ n \in 0 .. n
          /\ nonces \in [Wallet -> 0 .. Len(issued)] /\ nonceOf \in [Device -> 0 .. Len(issued)]
      BY <1>1 DEF SessionTypes
    <3> HIDE DEF n
    <3>2. nonces \in [Wallet -> 0 .. n] /\ nonceOf \in [Device -> 0 .. n]
      BY <1>1, <3>1
    <3>3. QED
      BY <1>1, <1>2, <3>1, <3>2
  <2>2. CallRow \subseteq CallRow'
    BY <1>1, <1>2, <1>3 DEF CallRow
  <2>3. call' \in [Call -> CallRow']
    BY <1>2, <2>2 DEF SessionTypes
  <2>4. \A t \in DOMAIN tokens : tokens[t].nonce \in 0 .. n
    BY <1>1 DEF SessionTypes
  <2>5. QED
    BY <1>2, <1>3, <2>1, <2>3, <2>4 DEF SessionTypes
<1>5. NonceInv'
  <2>1. \A m \in Nonce, k \in Call : Uses(k, m)' => Uses(k, m) /\ WalletFor(k)' = WalletFor(k)
    BY <1>2 DEF Uses, WalletFor
  <2>2. \A m \in Nonce, k \in Call : Uses(k, m) => m \in 1 .. Len(issued)
    BY <1>1 DEF Uses, SessionTypes, CallRow, Nonce, None
  <2>3. \A m \in Nonce, t \in Nat : Opens(t, m)' => Opens(t, m) /\ tokens'[t] = tokens[t]
    BY <1>2 DEF Opens
  <2>4. \A m \in Nonce, t \in Nat : Opens(t, m) => m \in 1 .. Len(issued)
    BY <1>1, Lengths DEF Opens, SessionTypes, Nonce, None
  <2>5. \A m \in Nonce, w \in Wallet : nonces'[w] = m =>
           (nonces[w] = m /\ m \in 1 .. Len(issued)) \/ (m = n /\ w = v)
    BY <1>1, <1>2 DEF SessionTypes, Nonce, None
  <2>6. n \notin 1 .. Len(issued)
    BY <1>1
  <2> HIDE DEF n
  <2>7. \A m \in Nonce, w \in Wallet : nonces'[w] = m => issued'[m] = w
    BY <1>3, <2>5 DEF NonceInv
  <2>8. \A m \in Nonce, k \in Call : Uses(k, m)' =>
           issued'[m] = WalletFor(k)' /\ \A w \in Wallet : nonces'[w] # m
    BY <1>3, <2>1, <2>2, <2>5, <2>6 DEF NonceInv
  <2>9. \A m \in Nonce, t \in Nat : Opens(t, m)' =>
           issued'[m] = tokens'[t].wallet /\ \A w \in Wallet : nonces'[w] # m
    BY <1>3, <2>3, <2>4, <2>5, <2>6 DEF NonceInv
  <2>10. /\ \A m \in Nonce, k, l \in Call : Uses(k, m)' /\ Uses(l, m)' => k = l
         /\ \A m \in Nonce, s, t \in Nat : Opens(s, m)' /\ Opens(t, m)' => s = t
         /\ \A m \in Nonce, k \in Call, t \in Nat : ~(Uses(k, m)' /\ Opens(t, m)')
    BY <2>1, <2>3 DEF NonceInv
  <2>11. \A k \in Call : call'[k].pc \notin Past \cup {"consuming"} => call'[k].nonce = None
    BY <1>2 DEF NonceInv
  <2>12. QED
    BY <2>7, <2>8, <2>9, <2>10, <2>11 DEF NonceInv
<1>6. QED
  BY <1>4, <1>5

LEMMA ConsumeNonceKeeps ==
    ASSUME SessionTypes, NonceInv, NEW k \in Call, ConsumeNonce(k)
    PROVE  SessionTypes' /\ NonceInv'
<1> DEFINE v == WalletFor(k)
           n == call[k].nonce
<1>1. /\ call[k].pc = "consuming" /\ nonces' = [nonces EXCEPT ![v] = None]
      /\ UNCHANGED <<issued, users, tokens, nonceOf, held, disturbed, faults>>
  BY DEF ConsumeNonce
<1>2. v \in Wallet /\ call[k] \in CallRow /\ nonces \in [Wallet -> 0 .. Len(issued)] /\ Len(issued) \in Nat
  BY <1>1, WalletAssumption, Lengths DEF SessionTypes, WalletFor
<1>3. Revokes /\ nonces' \in [Wallet -> 0 .. Len(issued)]
  BY <1>1, <1>2, SameTokens DEF None
<1>4. CASE nonces[v] # n
  <2>1. EndCall(k) /\ refused' = refused \cup {"nonce"}
    BY <1>4 DEF ConsumeNonce, Refuse
  <2>2. Others
    BY <1>1, <1>2, <1>3, <2>1 DEF Others, SessionTypes
  <2>3. QED
    BY <1>3, <2>1, <2>2, Quiet, QuietStep
<1>5. CASE nonces[v] = n
  <2> DEFINE x == [call[k] EXCEPT !.pc = "verifying"]
  <2>1. call' = [call EXCEPT ![k] = x] /\ UNCHANGED refused
    BY <1>5 DEF ConsumeNonce, GoOn
  <2>2. x \in CallRow /\ x.pc = "verifying" /\ x.device = call[k].device /\ x.nonce = n
    BY Rows DEF CallStep
  <2>3. x.device \in Device
    BY <1>1, <2>2 DEF SessionTypes
  <2> HIDE DEF x
  <2>4. SessionTypes'
    <3>1. Becomes(k, x)
      BY <2>1, <2>2, <2>3 DEF Becomes
    <3>2. /\ call' \in [Call -> CallRow']
          /\ \A l \in Call : call'[l].pc # "free" => call'[l].device \in Device
      BY <1>1, <3>1, CallsKeepTypes, Lengths
    <3>3. QED
      BY <1>1, <1>3, <2>1, <3>2 DEF SessionTypes
  <2>5. NonceInv'
    <3>1. call'[k] = x /\ \A l \in Call : l # k => call'[l] = call[l]
      BY <2>1 DEF SessionTypes
    <3>2. \A m \in Nonce, w \in Wallet : nonces'[w] = m => nonces[w] = m /\ w # v
      BY <1>1, <1>2 DEF Nonce
    <3>3. \A m \in Nonce, l \in Call : Uses(l, m)' =>
             WalletFor(l)' = WalletFor(l) /\ ((Uses(l, m) /\ l # k) \/ (l = k /\ m = n))
      <4>1. \A l \in Call : call'[l].device = call[l].device
        BY <2>2, <3>1
      <4>2. \A m \in Nonce : Uses(k, m)' => m = n
        BY <2>2, <3>1 DEF Uses
      <4>3. \A m \in Nonce, l \in Call : l # k => (Uses(l, m)' <=> Uses(l, m))
        BY <3>1 DEF Uses
      <4>4. \A l \in Call : WalletFor(l)' = WalletFor(l)
        BY <4>1 DEF WalletFor
      <4>5. SUFFICES ASSUME NEW m \in Nonce, NEW l \in Call, Uses(l, m)'
                     PROVE  (Uses(l, m) /\ l # k) \/ (l = k /\ m = n)
        BY <4>4
      <4>6. CASE l = k
        BY <4>2, <4>5, <4>6
      <4>7. CASE l # k
        BY <4>3, <4>5, <4>7
      <4>8. QED
        BY <4>6, <4>7
    <3>4. \A m \in Nonce, t \in Nat : Opens(t, m)' => Opens(t, m) /\ tokens'[t] = tokens[t]
      BY <1>1 DEF Opens
    <3>5. n \in Nonce => /\ issued[n] = v
                         /\ \A w \in Wallet : nonces[w] = n => w = v
                         /\ \A l \in Call : ~Uses(l, n)
                         /\ \A t \in Nat : ~Opens(t, n)
      BY <1>2, <1>5 DEF NonceInv
    <3> HIDE DEF n, v
    <3>6. \A m \in Nonce, w \in Wallet : nonces'[w] = m => issued'[m] = w
      BY <1>1, <3>2 DEF NonceInv
    <3>7. \A m \in Nonce, l \in Call : Uses(l, m)' =>
             issued'[m] = WalletFor(l)' /\ \A w \in Wallet : nonces'[w] # m
      <4> SUFFICES ASSUME NEW m \in Nonce, NEW l \in Call, Uses(l, m)'
                   PROVE  issued'[m] = WalletFor(l)' /\ \A w \in Wallet : nonces'[w] # m
        OBVIOUS
      <4>1. CASE Uses(l, m)
        BY <1>1, <3>2, <3>3, <4>1 DEF NonceInv
      <4>2. CASE l = k /\ m = n
        BY <1>1, <3>2, <3>3, <3>5, <4>2 DEF v
      <4>3. QED
        BY <3>3, <4>1, <4>2
    <3>8. \A m \in Nonce, t \in Nat : Opens(t, m)' =>
             issued'[m] = tokens'[t].wallet /\ \A w \in Wallet : nonces'[w] # m
      BY <1>1, <3>2, <3>4 DEF NonceInv
    <3>9. /\ \A m \in Nonce, l, j \in Call : Uses(l, m)' /\ Uses(j, m)' => l = j
          /\ \A m \in Nonce, s, t \in Nat : Opens(s, m)' /\ Opens(t, m)' => s = t
          /\ \A m \in Nonce, l \in Call, t \in Nat : ~(Uses(l, m)' /\ Opens(t, m)')
      BY <3>3, <3>4, <3>5 DEF NonceInv
    <3>10. \A l \in Call : call'[l].pc \notin Past \cup {"consuming"} => call'[l].nonce = None
      BY <2>2, <3>1 DEF NonceInv, Past
    <3>11. QED
      BY <3>6, <3>7, <3>8, <3>9, <3>10 DEF NonceInv
  <2>6. QED
    BY <2>4, <2>5
<1>6. QED
  BY <1>4, <1>5

\* The row is added, whether the answer reaches the device or not.
LEMMA AddedTokenKeeps ==
    ASSUME SessionTypes, NonceInv, NEW k \in Call, call[k].pc = "issuing", Adds(k), EndCall(k),
           UNCHANGED <<nonces, issued, users, nonceOf, refused>>,
           held' \in [Device -> 0 .. Len(tokens) + 1], disturbed' \subseteq Wallet, faults' \in Nat
    PROVE  SessionTypes' /\ NonceInv'
<1> DEFINE row == Issued(k)
           last == Len(tokens) + 1
<1>1. /\ Len(tokens) \in Nat /\ Len(issued) \in Nat /\ last \in Nat
      /\ call[k] \in CallRow /\ call[k].device \in Device
  BY Lengths DEF SessionTypes
<1>2. row \in TokenRow /\ row.nonce = call[k].nonce /\ row.wallet = WalletFor(k)
      /\ row.nonce \in 0 .. Len(issued)
  BY <1>1, WalletAssumption DEF Issued, TokenRow, WalletFor, CallRow
<1>3. tokens' = Append(tokens, row)
  BY DEF Adds
<1> HIDE DEF row
<1>4. /\ tokens' \in Seq(TokenRow) /\ Len(tokens') = last /\ tokens'[last] = row
      /\ \A t \in 1 .. Len(tokens) : tokens'[t] = tokens[t]
  BY <1>2, <1>3, Appended DEF SessionTypes
<1>5. Becomes(k, Free)
  BY Rows DEF Becomes, EndCall
<1>6. /\ call' \in [Call -> CallRow']
      /\ \A l \in Call : call'[l].pc # "free" => call'[l].device \in Device
  BY <1>1, <1>4, <1>5, CallsKeepTypes
<1>7. SessionTypes'
  <2>1. DOMAIN tokens' = 1 .. last
    BY <1>4, LenProperties
  <2>2. \A t \in DOMAIN tokens' : tokens'[t].nonce \in 0 .. Len(issued')
    <3>1. \A t \in 1 .. Len(tokens) : tokens'[t].nonce \in 0 .. Len(issued)
      BY <1>4, Lengths DEF SessionTypes
    <3>2. tokens'[last].nonce \in 0 .. Len(issued)
      BY <1>2, <1>4
    <3>3. \A t \in 1 .. last : t \in 1 .. Len(tokens) \/ t = last
      BY <1>1
    <3>4. QED
      BY <2>1, <3>1, <3>2, <3>3
  <2>3. QED
    BY <1>4, <1>6, <2>2 DEF SessionTypes
<1>8. NonceInv'
  <2>1. call'[k] = Free /\ \A l \in Call : l # k => call'[l] = call[l]
    BY <1>5 DEF Becomes, SessionTypes
  <2>2. Free.pc = "free" /\ Free.nonce = None
    BY DEF Free
  <2>3. \A m \in Nonce, l \in Call : Uses(l, m)' => Uses(l, m) /\ l # k /\ WalletFor(l)' = WalletFor(l)
    BY <2>1, <2>2 DEF Uses, WalletFor, Past
  <2>4. \A m \in Nonce, t \in Nat : Opens(t, m)' =>
           \/ Opens(t, m) /\ tokens'[t] = tokens[t]
           \/ t = last /\ Uses(k, m) /\ tokens'[t].wallet = WalletFor(k)
    BY <1>1, <1>2, <1>4 DEF Opens, Uses, Past
  <2> HIDE DEF last
  <2>5. \A m \in Nonce, w \in Wallet : nonces'[w] = m => issued'[m] = w
    BY DEF NonceInv
  <2>6. \A m \in Nonce, l \in Call : Uses(l, m)' =>
           issued'[m] = WalletFor(l)' /\ \A w \in Wallet : nonces'[w] # m
    BY <2>3 DEF NonceInv
  <2>7. \A m \in Nonce, t \in Nat : Opens(t, m)' =>
           issued'[m] = tokens'[t].wallet /\ \A w \in Wallet : nonces'[w] # m
    BY <2>4 DEF NonceInv
  <2>8. /\ \A m \in Nonce, l, j \in Call : Uses(l, m)' /\ Uses(j, m)' => l = j
        /\ \A m \in Nonce, s, t \in Nat : Opens(s, m)' /\ Opens(t, m)' => s = t
        /\ \A m \in Nonce, l \in Call, t \in Nat : ~(Uses(l, m)' /\ Opens(t, m)')
    BY <2>3, <2>4 DEF NonceInv
  <2>9. \A l \in Call : call'[l].pc \notin Past \cup {"consuming"} => call'[l].nonce = None
    BY <2>1, <2>2 DEF NonceInv
  <2>10. QED
    BY <2>5, <2>6, <2>7, <2>8, <2>9 DEF NonceInv
<1>9. QED
  BY <1>7, <1>8

-----------------------------------------------------------------------------
(***************************************************************************)
(* Every step.                                                             *)
(***************************************************************************)

LEMMA InitNonces == SessionsInit => SessionTypes /\ NonceInv
<1> SUFFICES ASSUME SessionsInit PROVE SessionTypes /\ NonceInv
  OBVIOUS
<1>1. issued = << >> /\ tokens = << >> /\ Len(issued) = 0 /\ Len(tokens) = 0 /\ None = 0
  BY DEF SessionsInit, None
<1>2. Free \in CallRow /\ Free.pc = "free" /\ Free.nonce = None
  BY <1>1 DEF Free, CallRow
<1>3. SessionTypes
  BY <1>1, <1>2 DEF SessionsInit, SessionTypes
<1>4. NonceInv
  <2>1. \A k \in Call, n \in Nonce : ~Uses(k, n) /\ call[k].nonce = None
    BY <1>2 DEF SessionsInit, Uses, Past
  <2>2. \A t \in Nat, n \in Nonce : ~Opens(t, n)
    BY <1>1 DEF Opens
  <2>3. \A w \in Wallet, n \in Nonce : nonces[w] # n
    BY DEF SessionsInit, Nonce
  <2>4. \A k \in Call : call[k].nonce = None
    BY <1>2 DEF SessionsInit
  <2>5. QED
    BY <2>1, <2>2, <2>3, <2>4 DEF NonceInv
<1>5. QED
  BY <1>3, <1>4

LEMMA NonceExpiresKeeps ==
    ASSUME SessionTypes, NonceInv, NEW v \in Wallet, NonceExpires(v)
    PROVE  SessionTypes' /\ NonceInv'
<1>1. nonces' = [nonces EXCEPT ![v] = None]
      /\ UNCHANGED <<issued, users, tokens, nonceOf, held, call, disturbed, refused, faults>>
  BY DEF NonceExpires
<1>2. Len(issued) \in Nat /\ None = 0
  BY Lengths DEF None
<1>3. Others /\ Revokes
  BY <1>1, <1>2, SameTokens DEF Others, SessionTypes
<1>4. CASE Call = {}
  BY <1>1, <1>3, <1>4 DEF SessionTypes, NonceInv, Others, Uses, Opens, CallRow, Nonce
<1>5. CASE Call # {}
  <2>1. PICK k \in Call : TRUE
    BY <1>5
  <2>2. Quietly(k, Free) \/ UNCHANGED call
    BY <1>1
  <2>3. QED
    BY <1>3, <2>2, QuietStep
<1>6. QED
  BY <1>4, <1>5

LEMMA AskKeeps ==
    ASSUME SessionTypes, NonceInv, NEW k \in Call, NEW d \in Device, Ask(k, d)
    PROVE  SessionTypes' /\ NonceInv'
<1>1. Len(issued) \in Nat /\ Len(tokens) \in Nat /\ None = 0 /\ WalletOf[d] \in Wallet
      /\ nonceOf[d] \in 0 .. Len(issued) /\ held[d] \in 0 .. Len(tokens)
  BY Lengths, WalletAssumption DEF SessionTypes, None
<1>2. Others /\ Revokes
  <2>1. disturbed' \subseteq Wallet
    BY <1>1 DEF SessionTypes, Ask, Login, SandboxLogin, Refresh, Logout, Overlap
  <2>2. UNCHANGED <<nonces, issued, users, tokens, nonceOf, held, refused, faults>>
    BY DEF Ask, Login, SandboxLogin, Refresh, Logout
  <2>3. QED
    BY <2>1, <2>2, SameTokens DEF Others, SessionTypes
<1>3. CASE Login(k, d)
  <2> DEFINE x == [Free EXCEPT !.pc = "consuming", !.kind = "login", !.device = d, !.nonce = nonceOf[d]]
  <2>1. x \in CallRow /\ x.pc = "consuming" /\ x.device = d
    <3>1. Free \in CallRow /\ Free.nonce = None /\ "consuming" \in CallStep
      BY Rows DEF CallStep
    <3>2. x \in CallRow
      BY <1>1, <3>1 DEF CallRow
    <3>3. x.pc = "consuming" /\ x.device = d
      BY <3>1 DEF CallRow
    <3>4. QED
      BY <3>2, <3>3
  <2>2. call' = [call EXCEPT ![k] = x]
    BY <1>3 DEF Login
  <2> HIDE DEF x
  <2>3. Quietly(k, x)
    BY <2>1, <2>2 DEF Quietly, Becomes
  <2>4. QED
    BY <1>2, <2>3, QuietStep
<1>4. CASE SandboxLogin(k, d)
  <2> DEFINE x == [Free EXCEPT !.pc = "finding", !.kind = "login", !.device = d]
  <2>1. x \in CallRow /\ x.nonce = None /\ x.device = d
    <3>1. Free \in CallRow /\ Free.nonce = None /\ "finding" \in CallStep
      BY Rows DEF CallStep
    <3>2. x \in CallRow
      BY <1>1, <3>1 DEF CallRow
    <3>3. x.nonce = None /\ x.device = d
      BY <3>1 DEF CallRow
    <3>4. QED
      BY <3>2, <3>3
  <2>2. call' = [call EXCEPT ![k] = x]
    BY <1>4 DEF SandboxLogin
  <2> HIDE DEF x
  <2>3. Quietly(k, x)
    BY <2>1, <2>2 DEF Quietly, Becomes
  <2>4. QED
    BY <1>2, <2>3, QuietStep
<1>5. CASE Refresh(k, d)
  <2> DEFINE x == [Free EXCEPT !.pc = "matching", !.kind = "refresh", !.device = d, !.token = held[d]]
  <2>1. x \in CallRow /\ x.nonce = None /\ x.device = d
    <3>1. Free \in CallRow /\ Free.nonce = None /\ "matching" \in CallStep
      BY Rows DEF CallStep
    <3>2. x \in CallRow
      BY <1>1, <3>1 DEF CallRow
    <3>3. x.nonce = None /\ x.device = d
      BY <3>1 DEF CallRow
    <3>4. QED
      BY <3>2, <3>3
  <2>2. call' = [call EXCEPT ![k] = x]
    BY <1>5 DEF Refresh
  <2> HIDE DEF x
  <2>3. Quietly(k, x)
    BY <2>1, <2>2 DEF Quietly, Becomes
  <2>4. QED
    BY <1>2, <2>3, QuietStep
<1>6. CASE Logout(k, d)
  <2> DEFINE x == [Free EXCEPT !.pc = "leaving", !.kind = "logout", !.device = d, !.token = held[d]]
  <2>1. x \in CallRow /\ x.nonce = None /\ x.device = d
    <3>1. Free \in CallRow /\ Free.nonce = None /\ "leaving" \in CallStep
      BY Rows DEF CallStep
    <3>2. x \in CallRow
      BY <1>1, <3>1 DEF CallRow
    <3>3. x.nonce = None /\ x.device = d
      BY <3>1 DEF CallRow
    <3>4. QED
      BY <3>2, <3>3
  <2>2. call' = [call EXCEPT ![k] = x]
    BY <1>6 DEF Logout
  <2> HIDE DEF x
  <2>3. Quietly(k, x)
    BY <2>1, <2>2 DEF Quietly, Becomes
  <2>4. QED
    BY <1>2, <2>3, QuietStep
<1>7. QED
  BY <1>3, <1>4, <1>5, <1>6 DEF Ask

\* What a call may do with its row and with the tokens, but for the two steps above.
LEMMA QuietWork ==
    ASSUME SessionTypes, NonceInv, NEW k \in Call,
           \/ VerifySignature(k) \/ FindByWalletAddress(k) \/ CreateUser(k) \/ Fallback(k)
           \/ MatchToken(k) \/ RevokeOld(k) \/ RevokeAll(k) \/ RevokeToken(k)
    PROVE  /\ Revokes /\ UNCHANGED <<nonces, issued, nonceOf, disturbed, faults>>
           /\ \/ EndCall(k)
              \/ \E step \in Past : GoOn(k, step) /\ call[k].pc \in Past
              \/ \E step \in CallStep : GoOn(k, step) /\ call[k].pc \in {"matching", "revoking"}
           /\ held' \in {held, [held EXCEPT ![call[k].device] = None]}
           /\ users' \in {users, users \cup {WalletFor(k)}}
           /\ refused' \subseteq refused \cup {"signature", "user"}
           /\ call[k].pc # "free"
<1>1. CASE VerifySignature(k) \/ FindByWalletAddress(k) \/ CreateUser(k) \/ Fallback(k)
  <2>1. UNCHANGED <<nonces, issued, tokens, nonceOf, held, disturbed, faults>>
        /\ call[k].pc \in Past /\ call[k].pc # "free"
    BY <1>1 DEF VerifySignature, FindByWalletAddress, CreateUser, Fallback, Past
  <2>2. EndCall(k) \/ \E step \in Past : GoOn(k, step)
    BY <1>1 DEF VerifySignature, FindByWalletAddress, CreateUser, Fallback, Refuse, Past
  <2>3. users' \in {users, users \cup {WalletFor(k)}} /\ refused' \subseteq refused \cup {"signature", "user"}
    BY <1>1 DEF VerifySignature, FindByWalletAddress, CreateUser, Fallback, Refuse
  <2>4. QED
    BY <2>1, <2>2, <2>3, SameTokens
<1>2. CASE MatchToken(k) \/ RevokeOld(k)
  <2>1. UNCHANGED <<nonces, issued, users, nonceOf, held, disturbed, refused, faults>>
        /\ call[k].pc \in {"matching", "revoking"} /\ call[k].pc # "free"
    BY <1>2 DEF MatchToken, RevokeOld
  <2>2. EndCall(k) \/ \E step \in CallStep : GoOn(k, step)
    BY <1>2 DEF MatchToken, RevokeOld, CallStep
  <2>3. CASE MatchToken(k)
    BY <2>1, <2>2, <2>3, SameTokens DEF MatchToken
  <2>4. CASE RevokeOld(k)
    BY <2>1, <2>2, <2>4, Updates DEF RevokeOld
  <2>5. QED
    BY <1>2, <2>3, <2>4
<1>3. CASE RevokeAll(k) \/ RevokeToken(k)
  <2>1. /\ UNCHANGED <<nonces, issued, users, nonceOf, disturbed, refused, faults>>
        /\ EndCall(k) /\ call[k].pc \in {"revoking_all", "leaving"} /\ call[k].pc # "free"
        /\ held' \in {held, [held EXCEPT ![call[k].device] = None]}
    BY <1>3 DEF RevokeAll, RevokeToken, ForgetToken
  <2>2. Revokes
    BY <1>3, Updates DEF RevokeAll, RevokeToken
  <2>3. QED
    BY <2>1, <2>2
<1>4. QED
  BY <1>1, <1>2, <1>3

LEMMA WorkKeeps ==
    ASSUME SessionTypes, NonceInv, NEW k \in Call, Work(k)
    PROVE  SessionTypes' /\ NonceInv'
<1>1. CASE ConsumeNonce(k)
  BY <1>1, ConsumeNonceKeeps
<1>2. CASE GenerateTokens(k)
  <2>1. call[k].device \in Device /\ Len(tokens) \in Nat /\ held \in [Device -> 0 .. Len(tokens)]
    BY <1>2, Lengths DEF GenerateTokens, SessionTypes
  <2>2. held' \in [Device -> 0 .. Len(tokens) + 1]
    <3>1. \A d \in Device : held[d] \in 0 .. Len(tokens) + 1
      BY <2>1
    <3>2. Len(tokens) + 1 \in 0 .. Len(tokens) + 1
      BY <2>1
    <3>3. QED
      BY <1>2, <2>1, <3>1, <3>2 DEF GenerateTokens, KeepToken
  <2>3. disturbed' \subseteq Wallet /\ faults' \in Nat
    BY <1>2 DEF GenerateTokens, SessionTypes
  <2>4. QED
    BY <1>2, <2>2, <2>3, AddedTokenKeeps DEF GenerateTokens, Adds
<1>3. CASE \/ VerifySignature(k) \/ FindByWalletAddress(k) \/ CreateUser(k) \/ Fallback(k)
           \/ MatchToken(k) \/ RevokeOld(k) \/ RevokeAll(k) \/ RevokeToken(k)
  <2>1. PICK x : Quietly(k, x)
    BY <1>3, QuietWork, Quiet
  <2>2. call[k].device \in Device /\ WalletFor(k) \in Wallet /\ Len(tokens) \in Nat /\ None = 0
    BY <1>3, QuietWork, Lengths, WalletAssumption DEF SessionTypes, WalletFor, None
  <2>3. held' \in [Device -> 0 .. Len(tokens)]
    <3>1. held' \in {held, [held EXCEPT ![call[k].device] = None]}
      BY <1>3, QuietWork
    <3>2. held \in [Device -> 0 .. Len(tokens)] /\ None \in 0 .. Len(tokens)
      BY <2>2 DEF SessionTypes
    <3>3. QED
      BY <3>1, <3>2
  <2>4. Others
    <3>1. UNCHANGED <<nonces, issued, nonceOf, disturbed, faults>>
      BY <1>3, QuietWork
    <3>2. users' \subseteq Wallet
      <4>1. users' \in {users, users \cup {WalletFor(k)}}
        BY <1>3, QuietWork
      <4>2. QED
        BY <2>2, <4>1 DEF SessionTypes
    <3>3. refused' \subseteq {"nonce", "signature", "user"}
      <4>1. refused' \subseteq refused \cup {"signature", "user"}
        BY <1>3, QuietWork
      <4>2. QED
        BY <4>1 DEF SessionTypes
    <3>4. QED
      BY <2>3, <3>1, <3>2, <3>3 DEF Others, SessionTypes
  <2>5. QED
    BY <1>3, <2>1, <2>4, QuietWork, QuietStep
<1>4. QED
  BY <1>1, <1>2, <1>3 DEF Work

LEMMA FailsKeeps ==
    ASSUME SessionTypes, NonceInv, NEW k \in Call, Fails(k)
    PROVE  SessionTypes' /\ NonceInv'
<1>1. /\ call[k].pc # "free" /\ call[k].device \in Device
      /\ UNCHANGED <<nonces, issued, nonceOf, held, refused>>
  BY DEF Fails, SessionTypes
<1>2. WalletFor(k) \in Wallet /\ faults' \in Nat /\ disturbed' \subseteq Wallet
  <2>1. WalletFor(k) \in Wallet
    BY <1>1, WalletAssumption DEF WalletFor
  <2>2. faults' = faults + 1 /\ disturbed' = disturbed \cup {WalletFor(k)}
    BY DEF Fails
  <2>3. QED
    BY <2>1, <2>2 DEF SessionTypes
<1>3. ASSUME NEW x, Quietly(k, x), Revokes, users' \in {users, users \cup {WalletFor(k)}}
      PROVE  SessionTypes' /\ NonceInv'
  <2>1. Others
    BY <1>1, <1>2, <1>3 DEF Others, SessionTypes
  <2>2. QED
    BY <1>3, <2>1, QuietStep
<1>4. CASE call[k].pc = "creating" /\ GoOn(k, "looking_again")
           /\ users' \in {users, users \cup {WalletFor(k)}} /\ UNCHANGED tokens
  <2>1. PICK x : Quietly(k, x)
    BY <1>4, Quiet DEF Past
  <2>2. QED
    BY <1>3, <1>4, <2>1, SameTokens
<1>5. CASE call[k].pc = "issuing" /\ EndCall(k) /\ tokens' = Append(tokens, Issued(k)) /\ UNCHANGED users
  <2>1. held' \in [Device -> 0 .. Len(tokens) + 1]
    <3>1. Len(tokens) \in Nat
      BY Lengths
    <3>2. 0 .. Len(tokens) \subseteq 0 .. Len(tokens) + 1
      BY <3>1
    <3>3. QED
      BY <1>1, <3>2 DEF SessionTypes
  <2>2. QED
    BY <1>1, <1>2, <1>5, <2>1, AddedTokenKeeps DEF Adds
<1>6. CASE EndCall(k) /\ Revokes /\ UNCHANGED users
  BY <1>3, <1>6, Quiet
<1>7. EndCall(k) /\ tokens' = [tokens EXCEPT ![call[k].token].revoked = TRUE] => Revokes
  BY Updates
<1>8. QED
  BY <1>4, <1>5, <1>6, <1>7, SameTokens DEF Fails

LEMMA NextKeepsNonces == SessionTypes /\ NonceInv /\ [SessionsNext]_sessionVars => SessionTypes' /\ NonceInv'
<1> SUFFICES ASSUME SessionTypes, NonceInv, [SessionsNext]_sessionVars PROVE SessionTypes' /\ NonceInv'
  OBVIOUS
<1>1. CASE UNCHANGED sessionVars
  <2>1. SessionTypes'
    BY <1>1 DEF sessionVars, SessionTypes, CallRow
  <2>2. NonceInv'
    BY <1>1 DEF sessionVars, NonceInv, Uses, Opens, WalletFor
  <2>3. QED
    BY <2>1, <2>2
<1>2. CASE SessionsNext
  BY <1>2, GenerateNonceKeeps, NonceExpiresKeeps, WorkKeeps, FailsKeeps, AskKeeps DEF SessionsNext
<1>3. QED
  BY <1>1, <1>2

\* The variables keep their types.
THEOREM SessionsTypeOK == SessionsSpec => []SessionTypes
BY InitNonces, NextKeepsNonces, PTL DEF SessionsSpec

\* A nonce opens one session at most, and for the wallet it was made for, whatever is
\* signed, sent again, interleaved or lost (NonceService.consumeNonce).
THEOREM SessionsNonceUsedOnce == SessionsSpec => []NonceUsedOnce
<1>1. SessionTypes /\ NonceInv => NonceUsedOnce
  <2> SUFFICES ASSUME SessionTypes, NonceInv, NEW s \in DOMAIN tokens, NEW t \in DOMAIN tokens
               PROVE  /\ tokens[t].nonce # None => issued[tokens[t].nonce] = tokens[t].wallet
                      /\ tokens[s].nonce = tokens[t].nonce /\ tokens[s].nonce # None => s = t
    BY DEF NonceUsedOnce
  <2>1. {s, t} \subseteq Nat /\ Opens(s, tokens[s].nonce) /\ Opens(t, tokens[t].nonce)
    BY Lengths DEF Opens
  <2>2. tokens[s].nonce \in Nat /\ tokens[t].nonce \in Nat
    BY Lengths DEF TokenRow
  <2>3. QED
    BY <2>1, <2>2 DEF NonceInv, Nonce
<1>2. QED
  BY <1>1, InitNonces, NextKeepsNonces, PTL DEF SessionsSpec

-----------------------------------------------------------------------------
(***************************************************************************)
(* First logins: a call that looks for the user again, because of a        *)
(* conflict, finds the row that it was in conflict with.                   *)
(***************************************************************************)

LoginInv ==
    /\ \A k \in Call : call[k].pc = "looking_again" => WalletFor(k) \in users \/ faults > 0
    /\ "user" \in refused => faults > 0

\* Call k does not look for the user again, or with good reason.
Looks(k, x) ==
    /\ call' = [call EXCEPT ![k] = x]
    /\ users \subseteq users' /\ (faults > 0 => faults' > 0)
    /\ \/ x.pc # "looking_again"
       \/ x.device = call[k].device /\ WalletFor(k) \in users'
       \/ faults' > 0
    /\ "user" \in refused' => "user" \in refused \/ faults' > 0

LEMMA LoginStep ==
    ASSUME SessionTypes, LoginInv, NEW k \in Call, NEW x, Looks(k, x)
    PROVE  LoginInv'
<1>1. call'[k] = x /\ \A l \in Call : l # k => call'[l] = call[l]
  BY DEF SessionTypes, Looks
<1>2. \A l \in Call : call'[l].pc = "looking_again" => WalletFor(l)' \in users' \/ faults' > 0
  <2> SUFFICES ASSUME NEW l \in Call, call'[l].pc = "looking_again"
               PROVE  WalletFor(l)' \in users' \/ faults' > 0
    OBVIOUS
  <2>1. CASE l = k
    BY <1>1, <2>1 DEF WalletFor, Looks
  <2>2. CASE l # k
    <3>1. WalletFor(l)' = WalletFor(l) /\ call[l].pc = "looking_again"
      BY <1>1, <2>2 DEF WalletFor
    <3>2. WalletFor(l) \in users \/ faults > 0
      BY <3>1 DEF LoginInv
    <3>3. QED
      BY <3>1, <3>2 DEF Looks
  <2>3. QED
    BY <2>1, <2>2
<1>3. "user" \in refused' => faults' > 0
  BY DEF LoginInv, Looks
<1>4. QED
  BY <1>2, <1>3 DEF LoginInv

LEMMA WorkKeepsLogins ==
    ASSUME SessionTypes, LoginInv, NEW k \in Call, Work(k)
    PROVE  LoginInv'
<1>1. Free.pc # "looking_again"
  BY DEF Free
<1>2. ASSUME EndCall(k) PROVE call' = [call EXCEPT ![k] = Free]
  BY <1>2 DEF EndCall
<1>3. CASE CreateUser(k)
  <2>1. users' = users \cup {WalletFor(k)} /\ UNCHANGED <<refused, faults>>
    BY <1>3 DEF CreateUser
  <2>2. PICK step \in {"looking_again", "issuing"} : GoOn(k, step)
    BY <1>3 DEF CreateUser
  <2> DEFINE y == [call[k] EXCEPT !.pc = step]
  <2>3. call' = [call EXCEPT ![k] = y]
    BY <2>2 DEF GoOn
  <2>4. y.device = call[k].device
    <3>1. call[k] \in CallRow
      BY Rows
    <3>2. QED
      BY <3>1 DEF CallRow
  <2> HIDE DEF y
  <2>5. Looks(k, y)
    BY <2>1, <2>3, <2>4 DEF Looks
  <2>6. QED
    BY <2>5, LoginStep
<1>4. CASE Fallback(k)
  <2>1. users' = users /\ faults' = faults /\ call[k].pc = "looking_again"
    BY <1>4 DEF Fallback
  <2>2. CASE WalletFor(k) \in users
    <3>1. GoOn(k, "issuing") /\ refused' = refused
      BY <1>4, <2>2 DEF Fallback
    <3> DEFINE y == [call[k] EXCEPT !.pc = "issuing"]
    <3>2. call' = [call EXCEPT ![k] = y] /\ y.pc = "issuing"
      BY <3>1, Rows DEF GoOn, CallStep
    <3> HIDE DEF y
    <3>3. Looks(k, y)
      BY <2>1, <3>1, <3>2 DEF Looks
    <3>4. QED
      BY <3>3, LoginStep
  <2>3. CASE WalletFor(k) \notin users
    <3>1. EndCall(k) /\ faults > 0
      BY <1>4, <2>1, <2>3 DEF Fallback, Refuse, LoginInv
    <3>2. Looks(k, Free)
      BY <1>1, <1>2, <2>1, <3>1 DEF Looks
    <3>3. QED
      BY <3>2, LoginStep
  <2>4. QED
    BY <2>2, <2>3
<1>5. CASE \/ ConsumeNonce(k) \/ VerifySignature(k) \/ FindByWalletAddress(k) \/ GenerateTokens(k)
           \/ MatchToken(k) \/ RevokeOld(k) \/ RevokeAll(k) \/ RevokeToken(k)
  <2>1. users' = users /\ faults' = faults
    BY <1>5 DEF ConsumeNonce, VerifySignature, FindByWalletAddress, GenerateTokens,
                MatchToken, RevokeOld, RevokeAll, RevokeToken
  <2>2. "user" \in refused' => "user" \in refused
    <3>1. CASE ConsumeNonce(k) \/ VerifySignature(k)
      <4>1. refused' \in {refused, refused \cup {"nonce"}, refused \cup {"signature"}}
        BY <3>1 DEF ConsumeNonce, VerifySignature, Refuse
      <4>2. QED
        BY <4>1
    <3>2. CASE UNCHANGED refused
      BY <3>2
    <3>3. QED
      BY <1>5, <3>1, <3>2 DEF FindByWalletAddress, GenerateTokens, MatchToken, RevokeOld, RevokeAll,
                              RevokeToken
  <2>3. EndCall(k) \/ \E step \in CallStep \ {"looking_again"} : GoOn(k, step)
    BY <1>5 DEF ConsumeNonce, VerifySignature, FindByWalletAddress, GenerateTokens,
                MatchToken, RevokeOld, RevokeAll, RevokeToken, Refuse, CallStep
  <2>4. CASE EndCall(k)
    <3>1. Looks(k, Free)
      BY <1>1, <1>2, <2>1, <2>2, <2>4 DEF Looks
    <3>2. QED
      BY <3>1, LoginStep
  <2>5. CASE \E step \in CallStep \ {"looking_again"} : GoOn(k, step)
    <3>1. PICK step \in CallStep \ {"looking_again"} : GoOn(k, step)
      BY <2>5
    <3> DEFINE y == [call[k] EXCEPT !.pc = step]
    <3>2. call' = [call EXCEPT ![k] = y] /\ y.pc = step
      BY <3>1, Rows DEF GoOn
    <3> HIDE DEF y
    <3>3. Looks(k, y)
      BY <2>1, <2>2, <3>2 DEF Looks
    <3>4. QED
      BY <3>3, LoginStep
  <2>6. QED
    BY <2>3, <2>4, <2>5
<1>6. QED
  BY <1>3, <1>4, <1>5 DEF Work

LEMMA FailsKeepsLogins ==
    ASSUME SessionTypes, LoginInv, NEW k \in Call, Fails(k)
    PROVE  LoginInv'
<1>1. faults' > 0 /\ UNCHANGED refused
  <2>1. faults' = faults + 1 /\ UNCHANGED refused
    BY DEF Fails
  <2>2. QED
    BY <2>1 DEF SessionTypes
<1>2. users \subseteq users'
  BY DEF Fails
<1>3. EndCall(k) \/ GoOn(k, "looking_again")
  BY DEF Fails
<1>4. PICK y : call' = [call EXCEPT ![k] = y]
  BY <1>3 DEF EndCall, GoOn
<1>5. Looks(k, y)
  BY <1>1, <1>2, <1>4 DEF Looks
<1>6. QED
  BY <1>5, LoginStep

LEMMA OthersKeepLogins ==
    ASSUME SessionTypes, LoginInv,
           \/ \E d \in Device : GenerateNonce(d)
           \/ \E v \in Wallet : NonceExpires(v)
           \/ \E k \in Call, d \in Device : Ask(k, d)
    PROVE  LoginInv'
<1>1. UNCHANGED <<users, refused, faults>>
  BY DEF GenerateNonce, NonceExpires, Ask, Login, SandboxLogin, Refresh, Logout
<1>2. CASE UNCHANGED call
  BY <1>1, <1>2 DEF LoginInv, WalletFor
<1>3. ASSUME NEW k \in Call, NEW d \in Device, Ask(k, d) PROVE LoginInv'
  <2>1. PICK y : call' = [call EXCEPT ![k] = y] /\ y.pc \in {"consuming", "finding", "matching", "leaving"}
    <3>1. CASE Login(k, d)
      <4> DEFINE y == [Free EXCEPT !.pc = "consuming", !.kind = "login", !.device = d, !.nonce = nonceOf[d]]
      <4>1. call' = [call EXCEPT ![k] = y] /\ y.pc = "consuming"
        BY <3>1, Rows DEF Login, CallRow
      <4>2. QED
        BY <4>1
    <3>2. CASE SandboxLogin(k, d)
      <4> DEFINE y == [Free EXCEPT !.pc = "finding", !.kind = "login", !.device = d]
      <4>1. call' = [call EXCEPT ![k] = y] /\ y.pc = "finding"
        BY <3>2, Rows DEF SandboxLogin, CallRow
      <4>2. QED
        BY <4>1
    <3>3. CASE Refresh(k, d)
      <4> DEFINE y == [Free EXCEPT !.pc = "matching", !.kind = "refresh", !.device = d, !.token = held[d]]
      <4>1. call' = [call EXCEPT ![k] = y] /\ y.pc = "matching"
        BY <3>3, Rows DEF Refresh, CallRow
      <4>2. QED
        BY <4>1
    <3>4. CASE Logout(k, d)
      <4> DEFINE y == [Free EXCEPT !.pc = "leaving", !.kind = "logout", !.device = d, !.token = held[d]]
      <4>1. call' = [call EXCEPT ![k] = y] /\ y.pc = "leaving"
        BY <3>4, Rows DEF Logout, CallRow
      <4>2. QED
        BY <4>1
    <3>5. QED
      BY <1>3, <3>1, <3>2, <3>3, <3>4 DEF Ask
  <2>2. Looks(k, y)
    BY <1>1, <2>1 DEF Looks
  <2>3. QED
    BY <2>2, LoginStep
<1>4. QED
  BY <1>2, <1>3 DEF GenerateNonce, NonceExpires

LEMMA NextKeepsLogins == SessionTypes /\ LoginInv /\ [SessionsNext]_sessionVars => LoginInv'
<1> SUFFICES ASSUME SessionTypes, LoginInv, [SessionsNext]_sessionVars PROVE LoginInv'
  OBVIOUS
<1>1. CASE UNCHANGED sessionVars
  BY <1>1 DEF sessionVars, LoginInv, WalletFor
<1>2. CASE SessionsNext
  BY <1>2, WorkKeepsLogins, FailsKeepsLogins, OthersKeepLogins DEF SessionsNext
<1>3. QED
  BY <1>1, <1>2

\* Devices that log in for the first time at the same moment all find their user; only a
\* failed INSERT refuses one of them (UsersService.findOrCreateByWalletAddress).
THEOREM SessionsFirstLoginSucceeds == SessionsSpec => []FirstLoginSucceeds
<1>1. ASSUME SessionsInit PROVE LoginInv
  <2>1. Free.pc = "free"
    BY DEF Free
  <2>2. refused = {} /\ \A k \in Call : call[k].pc = "free"
    BY <1>1, <2>1 DEF SessionsInit
  <2>3. QED
    BY <2>2 DEF LoginInv
<1>2. LoginInv => FirstLoginSucceeds
  BY DEF LoginInv, FirstLoginSucceeds
<1>3. QED
  BY <1>1, <1>2, SessionsTypeOK, NextKeepsLogins, PTL DEF SessionsSpec

-----------------------------------------------------------------------------
(***************************************************************************)
(* Sessions: who is logged out. A token belongs to one device, and what    *)
(* revokes a token that the device keeps is either a call of that device   *)
(* that is replacing it, or a call that met a revoked token, and then      *)
(* devices of that user did not wait for each other.                       *)
(***************************************************************************)

Replaces(k) == call[k].kind \in {"refresh", "logout"}

\* Device d keeps token t or has a call for it.
Has(d, t) == held[d] = t \/ \E k \in Call : call[k].device = d /\ call[k].token = t

OwnInv ==
    \A d \in Device, t \in Nat \ {None} : Has(d, t) =>
        tokens[t].wallet = WalletOf[d] /\ \A e \in Device : Has(e, t) => d = e

FirstStep == {"consuming", "verifying", "finding", "creating", "looking_again"}

\* The steps of a call for its kind, and when it has a token.
KindAt(k) ==
    /\ call[k].pc = "free" => call[k] = Free
    /\ call[k].pc \in {"matching", "revoking", "revoking_all"} => call[k].kind = "refresh"
    /\ call[k].pc = "leaving" => call[k].kind = "logout"
    /\ Replaces(k) <=> call[k].token # None
    /\ call[k].pc \in FirstStep => call[k].kind = "login"

\* Where call k stands with a token that should be good.
GoodAt(k) ==
    /\ call[k].pc = "revoking_all" => WalletFor(k) \in disturbed
    /\ WalletFor(k) \notin disturbed /\ call[k].pc \in {"matching", "revoking", "leaving"} =>
          ~tokens[call[k].token].revoked

AloneAt(k) ==
    Replaces(k) /\ WalletFor(k) \notin disturbed =>
        \A l \in Call : Replaces(l) /\ call[l].device = call[k].device => l = k

DevicesInv ==
    /\ DevicesStayLoggedIn
    /\ OwnInv
    /\ \A k \in Call : KindAt(k) /\ GoodAt(k) /\ AloneAt(k)

\* What a step of call k may do: the call goes on or is over, ...
Moves(k) ==
    /\ \A l \in Call : l # k => call'[l] = call[l]
    /\ \/ call'[k].kind = call[k].kind /\ call'[k].device = call[k].device /\ call'[k].token = call[k].token
       \/ call'[k].token = None
    /\ KindAt(k)' /\ GoodAt(k)'
    /\ disturbed \subseteq disturbed'

\* ... it revokes the token it replaces, or those of a user who is disturbed, ...
Spoils(k) ==
    /\ Len(tokens') >= Len(tokens)
    /\ \A t \in 1 .. Len(tokens) :
          /\ tokens'[t].wallet = tokens[t].wallet
          /\ tokens'[t].revoked =>
                \/ tokens[t].revoked
                \/ tokens[t].wallet \in disturbed'
                \/ t = call[k].token

\* ... it gives its device a new token or none, ...
Gives(k) ==
    \A d \in Device : held'[d] # held[d] =>
        /\ d = call[k].device
        /\ held'[d] # None =>
              /\ held'[d] = Len(tokens) + 1
              /\ tokens'[held'[d]].wallet = WalletOf[d] /\ ~tokens'[held'[d]].revoked

\* ... and when it is over, the token it was to replace is gone or good.
Leaves(k) ==
    Replaces(k) /\ call'[k].token = None =>
        \/ WalletFor(k) \in disturbed'
        \/ held'[call[k].device] # call[k].token
        \/ ~tokens'[call[k].token].revoked

LEMMA FirstStepsDiffer ==
    /\ "free" \notin FirstStep /\ "issuing" \notin FirstStep /\ "leaving" \notin FirstStep
    /\ "matching" \notin FirstStep /\ "revoking" \notin FirstStep /\ "revoking_all" \notin FirstStep
BY DEF FirstStep

LEMMA HeldRange ==
    ASSUME SessionTypes
    PROVE  /\ Len(tokens) \in Nat
           /\ \A d \in Device : held[d] \in Nat /\ (held[d] # None => held[d] \in 1 .. Len(tokens))
           /\ \A k \in Call : /\ call[k].token \in Nat
                              /\ call[k].token # None => call[k].token \in 1 .. Len(tokens)
<1>1. Len(tokens) \in Nat
  BY Lengths
<1>2. \A d \in Device : held[d] \in 0 .. Len(tokens)
  BY DEF SessionTypes
<1>3. \A k \in Call : call[k].token \in 0 .. Len(tokens)
  BY DEF SessionTypes, CallRow
<1>4. QED
  BY <1>1, <1>2, <1>3 DEF None

\* A call that replaces a token is that of a device.
LEMMA Replacers ==
    ASSUME SessionTypes, NEW k \in Call, KindAt(k), Replaces(k)
    PROVE  /\ call[k].device \in Device /\ call[k].token \in 1 .. Len(tokens)
           /\ call[k].token \in Nat \ {None}
           /\ Has(call[k].device, call[k].token)
<1>1. call[k].pc # "free" /\ call[k].token # None
  BY DEF KindAt, Replaces, Free
<1>2. call[k].device \in Device
  BY <1>1 DEF SessionTypes
<1>3. call[k].token \in 1 .. Len(tokens) /\ call[k].token \in Nat
  BY <1>1, HeldRange
<1>4. QED
  BY <1>1, <1>2, <1>3 DEF Has

LEMMA MovesKeepOwn ==
    ASSUME SessionTypes, DevicesInv, NEW k \in Call, Moves(k), Spoils(k), Gives(k)
    PROVE  OwnInv'
<1>1. /\ Len(tokens) \in Nat
      /\ \A d \in Device : held[d] \in Nat /\ (held[d] # None => held[d] \in 1 .. Len(tokens))
      /\ \A l \in Call : call[l].token # None => call[l].token \in 1 .. Len(tokens)
  BY HeldRange
<1>2. \A d \in Device, t \in Nat \ {None} : Has(d, t)' =>
         \/ Has(d, t)
         \/ held'[d] = Len(tokens) + 1 /\ t = held'[d] /\ d = call[k].device
  <2> SUFFICES ASSUME NEW d \in Device, NEW t \in Nat \ {None}, Has(d, t)', ~Has(d, t)
               PROVE  held'[d] = Len(tokens) + 1 /\ t = held'[d] /\ d = call[k].device
    OBVIOUS
  <2>1. \A l \in Call : call'[l].token = t => call'[l].device = call[l].device /\ call[l].token = t
    BY DEF Moves
  <2>2. held'[d] = t
    BY <2>1 DEF Has
  <2>3. held[d] # t
    BY DEF Has
  <2>4. QED
    BY <2>2, <2>3 DEF Gives
<1>3. \A d \in Device, t \in Nat \ {None} : Has(d, t) => t \in 1 .. Len(tokens)
  BY <1>1 DEF Has
<1>4. Len(tokens) + 1 \notin 1 .. Len(tokens)
  BY <1>1
<1>5. ASSUME NEW d \in Device, NEW t \in Nat \ {None}, Has(d, t)'
      PROVE  tokens'[t].wallet = WalletOf[d] /\ \A e \in Device : Has(e, t)' => d = e
  <2>1. CASE Has(d, t)
    <3>1. t \in 1 .. Len(tokens) /\ t # Len(tokens) + 1
      BY <1>3, <1>4, <2>1
    <3>2. tokens'[t].wallet = WalletOf[d]
      BY <2>1, <3>1 DEF DevicesInv, OwnInv, Spoils
    <3>3. QED
      BY <1>2, <2>1, <3>1, <3>2 DEF DevicesInv, OwnInv
  <2>2. CASE ~Has(d, t)
    <3>1. held'[d] = Len(tokens) + 1 /\ t = held'[d] /\ d = call[k].device
      BY <1>2, <1>5, <2>2
    <3>2. held[d] # held'[d] /\ t \notin 1 .. Len(tokens)
      BY <1>1, <1>4, <3>1 DEF None
    <3>3. tokens'[t].wallet = WalletOf[d]
      BY <1>5, <3>1, <3>2 DEF Gives
    <3>4. \A e \in Device : Has(e, t)' => e = call[k].device
      BY <1>2, <1>3, <3>2
    <3>5. QED
      BY <3>1, <3>3, <3>4
  <2>3. QED
    BY <2>1, <2>2
<1>6. QED
  BY <1>5 DEF OwnInv

LEMMA MovesKeepCalls ==
    ASSUME SessionTypes, DevicesInv, NEW k \in Call, Moves(k), Spoils(k)
    PROVE  \A l \in Call : KindAt(l)' /\ GoodAt(l)' /\ AloneAt(l)'
<1>1. \A l \in Call : l # k => call'[l] = call[l] /\ (Replaces(l)' <=> Replaces(l)) /\ WalletFor(l)' = WalletFor(l)
  BY DEF Moves, Replaces, WalletFor
<1>2. Replaces(k)' => Replaces(k) /\ call'[k].device = call[k].device /\ WalletFor(k)' = WalletFor(k)
  BY DEF Moves, Replaces, WalletFor, KindAt
<1>3. disturbed \subseteq disturbed'
  BY DEF Moves
<1>4. \A l \in Call : KindAt(l)
  BY DEF DevicesInv
<1>5. ASSUME NEW l \in Call PROVE KindAt(l)'
  BY <1>1, <1>4 DEF Moves, KindAt, Replaces
<1>6. ASSUME NEW l \in Call PROVE AloneAt(l)'
  <2>1. \A m \in Call : Replaces(m)' => Replaces(m) /\ call'[m].device = call[m].device /\ WalletFor(m)' = WalletFor(m)
    BY <1>1, <1>2
  <2>2. AloneAt(l)
    BY DEF DevicesInv
  <2>3. QED
    BY <1>3, <2>1, <2>2 DEF AloneAt
<1>7. ASSUME NEW l \in Call PROVE GoodAt(l)'
  <2>1. CASE l = k
    BY <2>1 DEF Moves
  <2>2. CASE l # k
    <3>1. GoodAt(l) /\ KindAt(l) /\ KindAt(k) /\ AloneAt(l)
      BY DEF DevicesInv
    <3>2. call'[l].pc = "revoking_all" => WalletFor(l)' \in disturbed'
      BY <1>1, <1>3, <2>2, <3>1 DEF GoodAt
    <3>3. ASSUME WalletFor(l) \notin disturbed', call[l].pc \in {"matching", "revoking", "leaving"}
          PROVE  ~tokens'[call[l].token].revoked
      <4>1. Replaces(l)
        BY <3>1, <3>3 DEF KindAt, Replaces
      <4>2. PICK t \in 1 .. Len(tokens) : t = call[l].token
        BY <3>1, <4>1, Replacers
      <4>3. PICK d \in Device : d = call[l].device
        BY <3>1, <4>1, Replacers
      <4>4. t \in Nat \ {None} /\ Has(d, t)
        BY <3>1, <4>1, <4>2, <4>3, Replacers
      <4>5. ~tokens[t].revoked
        BY <1>3, <3>1, <3>3, <4>2 DEF GoodAt
      <4>6. tokens[t].wallet \notin disturbed'
        BY <3>3, <4>3, <4>4 DEF DevicesInv, OwnInv, WalletFor
      <4>7. t # call[k].token
        <5>1. SUFFICES ASSUME t = call[k].token PROVE FALSE
          OBVIOUS
        <5>2. Replaces(k)
          BY <3>1, <4>4, <5>1 DEF KindAt
        <5>3. call[k].device \in Device /\ Has(call[k].device, t)
          BY <3>1, <5>1, <5>2, Replacers
        <5>4. call[k].device = d
          BY <4>4, <5>3 DEF DevicesInv, OwnInv
        <5>5. QED
          BY <1>3, <2>2, <3>1, <3>3, <4>1, <4>3, <5>2, <5>4 DEF AloneAt
      <4>8. ~tokens'[t].revoked
        BY <4>5, <4>6, <4>7 DEF Spoils
      <4>9. QED
        BY <4>2, <4>8
    <3>4. call'[l] = call[l] /\ WalletFor(l)' = WalletFor(l)
      BY <1>1, <2>2
    <3>5. WalletFor(l)' \notin disturbed' /\ call'[l].pc \in {"matching", "revoking", "leaving"} =>
             ~tokens'[call'[l].token].revoked
      BY <3>3, <3>4
    <3>6. QED
      BY <3>2, <3>5 DEF GoodAt
  <2>3. QED
    BY <2>1, <2>2
<1>8. QED
  BY <1>5, <1>6, <1>7

LEMMA MovesKeepDevices ==
    ASSUME SessionTypes, DevicesInv, NEW k \in Call, Moves(k), Spoils(k), Gives(k), Leaves(k)
    PROVE  DevicesInv'
<1>1. DevicesStayLoggedIn'
  <2> SUFFICES ASSUME NEW d \in Device, held'[d] # None, WalletOf[d] \notin disturbed',
                      ~(\E l \in Call : /\ call'[l].kind \in {"refresh", "logout"} /\ call'[l].device = d
                                        /\ call'[l].token = held'[d])
               PROVE  ~tokens'[held'[d]].revoked
    BY DEF DevicesStayLoggedIn, Replacing
  <2>1. CASE held'[d] # held[d]
    BY <2>1 DEF Gives
  <2>2. CASE held'[d] = held[d]
    <3>1. PICK t \in 1 .. Len(tokens) : t = held[d]
      BY <2>2, HeldRange
    <3>2. t \in Nat \ {None} /\ Has(d, t)
      BY <2>2, <3>1, HeldRange DEF Has
    <3>3. tokens[t].wallet = WalletOf[d] /\ \A e \in Device : Has(e, t) => d = e
      BY <3>2 DEF DevicesInv, OwnInv
    <3>4. SUFFICES ASSUME tokens'[t].revoked PROVE FALSE
      BY <2>2, <3>1
    <3>5. KindAt(k) /\ KindAt(k)'
      BY DEF DevicesInv, Moves
    <3>6. \A l \in Call : Replaces(l) /\ call[l].device = d /\ call[l].token = t => l = k
      BY <2>2, <3>1 DEF Moves, Replaces
    <3>7. ~(Replaces(k) /\ call[k].device = d /\ call[k].token = t)
      <4>1. SUFFICES ASSUME Replaces(k), call[k].device = d, call[k].token = t PROVE FALSE
        OBVIOUS
      <4>2. call'[k].token = None
        BY <2>2, <3>1, <4>1 DEF Moves, Replaces
      <4>3. QED
        BY <2>2, <3>1, <3>4, <4>1, <4>2 DEF Leaves, WalletFor
    <3>8. ~tokens[t].revoked
      <4>1. ~(\E l \in Replacing(d) : call[l].token = held[d])
        BY <3>1, <3>6, <3>7 DEF Replacing, Replaces
      <4>2. WalletOf[d] \notin disturbed
        BY DEF Moves
      <4>3. QED
        BY <2>2, <3>1, <4>1, <4>2 DEF DevicesInv, DevicesStayLoggedIn
    <3>9. t # call[k].token
      <4>1. SUFFICES ASSUME t = call[k].token PROVE FALSE
        OBVIOUS
      <4>2. Replaces(k)
        BY <3>2, <3>5, <4>1 DEF KindAt
      <4>3. call[k].device \in Device /\ Has(call[k].device, t)
        BY <3>5, <4>1, <4>2, Replacers
      <4>4. QED
        BY <3>3, <3>7, <4>1, <4>2, <4>3
    <3>10. QED
      BY <3>3, <3>4, <3>8, <3>9 DEF Spoils
  <2>3. QED
    BY <2>1, <2>2
<1>2. QED
  BY <1>1, MovesKeepOwn, MovesKeepCalls DEF DevicesInv

-----------------------------------------------------------------------------
(***************************************************************************)
(* The actions.                                                            *)
(***************************************************************************)

\* The row of a call after a step and after its end.
LEMMA Rowed ==
    ASSUME SessionTypes, NEW k \in Call
    PROVE  /\ \A step \in CallStep : GoOn(k, step) =>
                 /\ \A l \in Call : l # k => call'[l] = call[l]
                 /\ call'[k].pc = step /\ call'[k].kind = call[k].kind
                 /\ call'[k].device = call[k].device /\ call'[k].token = call[k].token
           /\ EndCall(k) =>
                 /\ \A l \in Call : l # k => call'[l] = call[l]
                 /\ call'[k] = Free
<1>1. call \in [Call -> CallRow]
  BY DEF SessionTypes
<1>2. call[k] \in CallRow
  BY <1>1
<1>3. ASSUME NEW step \in CallStep, GoOn(k, step)
      PROVE  /\ \A l \in Call : l # k => call'[l] = call[l]
             /\ call'[k].pc = step /\ call'[k].kind = call[k].kind
             /\ call'[k].device = call[k].device /\ call'[k].token = call[k].token
  <2>1. (\A l \in Call : l # k => call'[l] = call[l]) /\ call'[k] = [call[k] EXCEPT !.pc = step]
    BY <1>1, <1>3 DEF GoOn
  <2>2. QED
    BY <1>2, <2>1 DEF CallRow
<1>4. EndCall(k) => (\A l \in Call : l # k => call'[l] = call[l]) /\ call'[k] = Free
  BY <1>1 DEF EndCall
<1>5. QED
  BY <1>3, <1>4

LEMMA FreeRow == Free.pc = "free" /\ Free.kind = "none" /\ Free.token = None
BY DEF Free

\* A call that is over.
LEMMA Over ==
    ASSUME SessionTypes, NEW k \in Call, EndCall(k), disturbed \subseteq disturbed'
    PROVE  Moves(k) /\ call'[k].token = None
<1>1. (\A l \in Call : l # k => call'[l] = call[l]) /\ call'[k] = Free
  BY Rowed
<1>2. call'[k].token = None /\ call'[k].pc = "free" /\ call'[k].kind = "none"
  BY <1>1, FreeRow
<1>3. KindAt(k)'
  BY <1>1, <1>2, FirstStepsDiffer DEF KindAt, Replaces
<1>4. GoodAt(k)'
  BY <1>2 DEF GoodAt
<1>5. QED
  BY <1>1, <1>2, <1>3, <1>4 DEF Moves

\* A call that goes on.
LEMMA Further ==
    ASSUME SessionTypes, DevicesInv, NEW k \in Call, NEW step \in CallStep, GoOn(k, step),
           disturbed \subseteq disturbed',
           \/ call[k].kind = "login" /\ step \in FirstStep
           \/ step = "issuing"
           \/ /\ call[k].pc = "matching" /\ step = "revoking_all"
              /\ WalletFor(k) \in disturbed
           \/ /\ call[k].pc = "matching" /\ step = "revoking"
              /\ ~tokens'[call[k].token].revoked
    PROVE  Moves(k) /\ (Replaces(k) => call'[k].token # None)
<1>1. /\ \A l \in Call : l # k => call'[l] = call[l]
      /\ call'[k].pc = step /\ call'[k].kind = call[k].kind
      /\ call'[k].device = call[k].device /\ call'[k].token = call[k].token
  BY Rowed
<1>2. KindAt(k)
  BY DEF DevicesInv
<1>3. step # "free"
  BY DEF CallStep
<1>4. KindAt(k)'
  BY <1>1, <1>2, <1>3, FirstStepsDiffer DEF KindAt, Replaces
<1>5. WalletFor(k)' = WalletFor(k)
  BY <1>1 DEF WalletFor
<1>6. GoodAt(k)'
  BY <1>1, <1>5, FirstStepsDiffer DEF GoodAt
<1>7. QED
  BY <1>1, <1>2, <1>4, <1>6 DEF Moves, KindAt

LEMMA SameGives == ASSUME UNCHANGED held, NEW k \in Call PROVE Gives(k)
BY DEF Gives

LEMMA SameSpoils == ASSUME SessionTypes, UNCHANGED tokens, NEW k \in Call PROVE Spoils(k)
BY Lengths DEF Spoils

\* The token of the call is revoked, or those of its user.
LEMMA RevokingSpoils ==
    ASSUME SessionTypes, NEW k \in Call
    PROVE  /\ tokens' = [tokens EXCEPT ![call[k].token].revoked = TRUE] => Spoils(k)
           /\ /\ tokens' = [t \in DOMAIN tokens |->
                    IF tokens[t].wallet = WalletFor(k) THEN [tokens[t] EXCEPT !.revoked = TRUE]
                    ELSE tokens[t]]
              /\ WalletFor(k) \in disturbed'
              => Spoils(k)
<1>1. /\ tokens \in [1 .. Len(tokens) -> TokenRow] /\ Len(tokens) \in Nat
      /\ \A t \in 1 .. Len(tokens) : tokens[t] \in TokenRow
  BY Lengths, LenProperties DEF SessionTypes
<1>2. ASSUME tokens' = [tokens EXCEPT ![call[k].token].revoked = TRUE] PROVE Spoils(k)
  <2>1. Len(tokens') = Len(tokens)
    BY <1>2, Updates DEF Revokes
  <2>2. \A t \in 1 .. Len(tokens) : t # call[k].token => tokens'[t] = tokens[t]
    BY <1>1, <1>2
  <2>3. \A t \in 1 .. Len(tokens) : tokens'[t].wallet = tokens[t].wallet
    BY <1>2, Updates DEF Revokes
  <2>4. QED
    BY <1>1, <2>1, <2>2, <2>3 DEF Spoils
<1>3. ASSUME tokens' = [t \in DOMAIN tokens |->
                 IF tokens[t].wallet = WalletFor(k) THEN [tokens[t] EXCEPT !.revoked = TRUE]
                 ELSE tokens[t]],
             WalletFor(k) \in disturbed'
      PROVE  Spoils(k)
  <2>1. Len(tokens') = Len(tokens)
    BY <1>3, Updates DEF Revokes
  <2>2. \A t \in 1 .. Len(tokens) : tokens[t].wallet # WalletFor(k) => tokens'[t] = tokens[t]
    BY <1>1, <1>3
  <2>3. \A t \in 1 .. Len(tokens) : tokens'[t].wallet = tokens[t].wallet
    BY <1>3, Updates DEF Revokes
  <2>4. QED
    BY <1>1, <1>3, <2>1, <2>2, <2>3 DEF Spoils
<1>4. QED
  BY <1>2, <1>3

LEMMA AddingSpoils ==
    ASSUME SessionTypes, NEW k \in Call, call[k].pc = "issuing", Adds(k)
    PROVE  /\ Spoils(k)
           /\ Len(tokens') = Len(tokens) + 1
           /\ tokens'[Len(tokens) + 1].wallet = WalletFor(k) /\ ~tokens'[Len(tokens) + 1].revoked
<1>1. Issued(k) \in TokenRow
  <2>1. call[k] \in CallRow /\ call[k].device \in Device /\ Len(issued) \in Nat
    BY Lengths DEF SessionTypes
  <2>2. WalletFor(k) \in Wallet /\ call[k].nonce \in Nat
    BY <2>1, WalletAssumption DEF WalletFor, CallRow
  <2>3. QED
    BY <2>2 DEF Issued, TokenRow
<1>2. /\ tokens \in Seq(TokenRow) /\ Len(tokens) \in Nat
  BY Lengths DEF SessionTypes
<1>3. /\ Len(tokens') = Len(tokens) + 1
      /\ \A i \in 1 .. Len(tokens) : tokens'[i] = tokens[i]
      /\ tokens'[Len(tokens) + 1] = Issued(k)
  BY <1>1, <1>2, Appended DEF Adds
<1>4. QED
  BY <1>2, <1>3 DEF Spoils, Issued

\* A device starts to replace its token: if it is the only call of the device for that, the
\* token is good, since the device was logged in.
LEMMA ReplacingKeepsDevices ==
    ASSUME SessionTypes, DevicesInv, NEW k \in Call, NEW d \in Device,
           call[k].pc = "free", held[d] # None, UNCHANGED <<tokens, held>>, Overlap(d),
           \A l \in Call : l # k => call'[l] = call[l],
           call'[k].device = d, call'[k].token = held[d],
           \/ call'[k].pc = "matching" /\ call'[k].kind = "refresh"
           \/ call'[k].pc = "leaving" /\ call'[k].kind = "logout"
    PROVE  DevicesInv'
<1>1. KindAt(k) /\ call[k] = Free /\ ~Replaces(k)
  BY FreeRow DEF DevicesInv, KindAt, Replaces
<1>2. disturbed \subseteq disturbed' /\ (WalletOf[d] \notin disturbed' => Replacing(d) = {})
  BY DEF Overlap
<1>3. WalletFor(k)' = WalletOf[d] /\ Replaces(k)'
  BY DEF WalletFor, Replaces
<1>4. \A l \in Call : l # k => WalletFor(l)' = WalletFor(l) /\ (Replaces(l)' <=> Replaces(l))
  BY DEF WalletFor, Replaces
<1>5. \A e \in Device, t \in Nat \ {None} : Has(e, t)' <=> Has(e, t)
  <2>1. Free.token = None
    BY FreeRow
  <2>2. QED
    BY <1>1, <2>1 DEF Has
<1>6. OwnInv'
  BY <1>5 DEF DevicesInv, OwnInv
<1>7. DevicesStayLoggedIn'
  <2> SUFFICES ASSUME NEW e \in Device, held[e] # None, WalletOf[e] \notin disturbed',
                      ~(\E l \in Call : /\ call'[l].kind \in {"refresh", "logout"} /\ call'[l].device = e
                                        /\ call'[l].token = held[e])
               PROVE  ~tokens[held[e]].revoked
    BY DEF DevicesStayLoggedIn, Replacing
  <2>1. ~(\E l \in Replacing(e) : call[l].token = held[e])
    BY <1>1 DEF Replacing, Replaces
  <2>2. WalletOf[e] \notin disturbed
    BY <1>2
  <2>3. QED
    BY <2>1, <2>2 DEF DevicesInv, DevicesStayLoggedIn
<1>8. ASSUME NEW l \in Call PROVE KindAt(l)'
  <2>1. CASE l = k
    BY <1>3, <2>1, FirstStepsDiffer DEF KindAt
  <2>2. CASE l # k
    BY <1>4, <2>2 DEF DevicesInv, KindAt
  <2>3. QED
    BY <2>1, <2>2
<1>9. ASSUME NEW l \in Call PROVE GoodAt(l)'
  <2>1. CASE l = k
    <3>1. ASSUME WalletOf[d] \notin disturbed' PROVE ~tokens[held[d]].revoked
      BY <1>2, <3>1 DEF DevicesInv, DevicesStayLoggedIn
    <3>2. QED
      BY <1>3, <2>1, <3>1 DEF GoodAt
  <2>2. CASE l # k
    <3>1. GoodAt(l) /\ WalletFor(l)' = WalletFor(l) /\ call'[l] = call[l]
      BY <1>4, <2>2 DEF DevicesInv
    <3>2. QED
      BY <1>2, <3>1 DEF GoodAt
  <2>3. QED
    BY <2>1, <2>2
<1>10. ASSUME NEW l \in Call PROVE AloneAt(l)'
  <2>1. SUFFICES ASSUME Replaces(l)', WalletFor(l)' \notin disturbed', NEW m \in Call, Replaces(m)',
                        call'[m].device = call'[l].device
                 PROVE  m = l
    BY DEF AloneAt
  <2>2. CASE l = k \/ m = k
    <3>1. call'[l].device = d /\ call'[m].device = d /\ WalletOf[d] \notin disturbed'
      BY <2>1, <2>2 DEF WalletFor
    <3>2. \A n \in Call : ~(Replaces(n) /\ call[n].device = d)
      BY <1>2, <3>1 DEF Replacing, Replaces
    <3>3. QED
      BY <1>4, <2>1, <2>2, <3>1, <3>2
  <2>3. CASE l # k /\ m # k
    BY <1>2, <1>4, <2>1, <2>3 DEF DevicesInv, AloneAt
  <2>4. QED
    BY <2>2, <2>3
<1>11. QED
  BY <1>6, <1>7, <1>8, <1>9, <1>10 DEF DevicesInv

LEMMA AskKeepsDevices ==
    ASSUME SessionTypes, DevicesInv, NEW k \in Call, NEW d \in Device, Ask(k, d)
    PROVE  DevicesInv'
<1>1. call \in [Call -> CallRow] /\ KindAt(k)
  BY DEF SessionTypes, DevicesInv
<1>2. CASE Login(k, d) \/ SandboxLogin(k, d)
  <2>1. /\ \A l \in Call : l # k => call'[l] = call[l]
        /\ call'[k].pc \in {"consuming", "finding"} /\ call'[k].kind = "login" /\ call'[k].token = None
    BY <1>1, <1>2 DEF Login, SandboxLogin, Free
  <2>2. UNCHANGED <<tokens, held, disturbed>> /\ call[k].pc = "free"
    BY <1>2 DEF Login, SandboxLogin
  <2>3. KindAt(k)' /\ GoodAt(k)'
    BY <2>1, FirstStepsDiffer DEF KindAt, GoodAt, Replaces
  <2>4. Moves(k)
    BY <2>1, <2>2, <2>3 DEF Moves
  <2>5. ~Replaces(k)
    BY <1>1, <2>2, FreeRow DEF KindAt, Replaces
  <2>6. QED
    BY <2>2, <2>4, <2>5, MovesKeepDevices, SameGives, SameSpoils DEF Leaves
<1>3. CASE Refresh(k, d)
  <2>1. /\ \A l \in Call : l # k => call'[l] = call[l]
        /\ call'[k].pc = "matching" /\ call'[k].kind = "refresh"
        /\ call'[k].device = d /\ call'[k].token = held[d]
    BY <1>1, <1>3 DEF Refresh, Free
  <2>2. UNCHANGED <<tokens, held>> /\ Overlap(d) /\ call[k].pc = "free" /\ held[d] # None
    BY <1>3 DEF Refresh
  <2>3. QED
    BY <2>1, <2>2, ReplacingKeepsDevices
<1>4. CASE Logout(k, d)
  <2>1. /\ \A l \in Call : l # k => call'[l] = call[l]
        /\ call'[k].pc = "leaving" /\ call'[k].kind = "logout"
        /\ call'[k].device = d /\ call'[k].token = held[d]
    BY <1>1, <1>4 DEF Logout, Free
  <2>2. UNCHANGED <<tokens, held>> /\ Overlap(d) /\ call[k].pc = "free" /\ held[d] # None
    BY <1>4 DEF Logout
  <2>3. QED
    BY <2>1, <2>2, ReplacingKeepsDevices
<1>5. QED
  BY <1>2, <1>3, <1>4 DEF Ask

\* The steps of a login, up to the token.
LEMMA LoggingInKeepsDevices ==
    ASSUME SessionTypes, DevicesInv, NEW k \in Call, UNCHANGED <<tokens, held, disturbed>>,
           call[k].pc \in FirstStep,
           EndCall(k) \/ \E step \in FirstStep \cup {"issuing"} : GoOn(k, step)
    PROVE  DevicesInv'
<1>1. KindAt(k) /\ call[k].kind = "login" /\ ~Replaces(k)
  BY DEF DevicesInv, KindAt, Replaces
<1>2. Moves(k)
  <2>1. CASE EndCall(k)
    BY <2>1, Over
  <2>2. ASSUME NEW step \in FirstStep \cup {"issuing"}, GoOn(k, step) PROVE Moves(k)
    <3>1. step \in CallStep
      BY DEF FirstStep, CallStep
    <3>2. QED
      BY <1>1, <2>2, <3>1, Further
  <2>3. QED
    BY <2>1, <2>2
<1>3. QED
  BY <1>1, <1>2, MovesKeepDevices, SameGives, SameSpoils DEF Leaves

LEMMA GenerateTokensKeepsDevices ==
    ASSUME SessionTypes, DevicesInv, NEW k \in Call, GenerateTokens(k)
    PROVE  DevicesInv'
<1>1. /\ call[k].pc = "issuing" /\ Adds(k) /\ KeepToken(k) /\ EndCall(k) /\ UNCHANGED disturbed
      /\ call[k].device \in Device
  BY DEF GenerateTokens, Adds, SessionTypes
<1>2. Moves(k)
  BY <1>1, Over
<1>3. /\ Spoils(k)
      /\ tokens'[Len(tokens) + 1].wallet = WalletFor(k) /\ ~tokens'[Len(tokens) + 1].revoked
  BY <1>1, AddingSpoils
<1>4. /\ held'[call[k].device] = Len(tokens) + 1
      /\ \A d \in Device : d # call[k].device => held'[d] = held[d]
  BY <1>1 DEF KeepToken, SessionTypes
<1>5. Gives(k)
  BY <1>3, <1>4 DEF Gives, WalletFor
<1>6. Leaves(k)
  <2>1. Len(tokens) + 1 \notin 1 .. Len(tokens)
    BY Lengths
  <2>2. Replaces(k) => call[k].token \in 1 .. Len(tokens)
    BY Replacers DEF DevicesInv
  <2>3. QED
    BY <1>4, <2>1, <2>2 DEF Leaves
<1>7. QED
  BY <1>2, <1>3, <1>5, <1>6, MovesKeepDevices

\* A revoked token is met only where devices did not wait for each other.
LEMMA MatchTokenKeepsDevices ==
    ASSUME SessionTypes, DevicesInv, NEW k \in Call, MatchToken(k)
    PROVE  DevicesInv'
<1>1. /\ call[k].pc = "matching" /\ UNCHANGED <<tokens, held, disturbed>>
      /\ KindAt(k) /\ GoodAt(k)
  BY DEF MatchToken, DevicesInv
<1>2. {"revoking_all", "revoking"} \subseteq CallStep
  BY DEF CallStep
<1>3. CASE tokens[call[k].token].revoked /\ GoOn(k, "revoking_all")
  <2>1. WalletFor(k) \in disturbed
    BY <1>1, <1>3 DEF GoodAt
  <2>2. Moves(k) /\ (Replaces(k) => call'[k].token # None)
    BY <1>1, <1>2, <1>3, <2>1, Further
  <2>3. QED
    BY <1>1, <2>2, MovesKeepDevices, SameGives, SameSpoils DEF Leaves
<1>4. CASE ~tokens[call[k].token].revoked /\ EndCall(k)
  <2>1. Moves(k) /\ Leaves(k)
    BY <1>1, <1>4, Over DEF Leaves
  <2>2. QED
    BY <1>1, <2>1, MovesKeepDevices, SameGives, SameSpoils
<1>5. CASE ~tokens[call[k].token].revoked /\ GoOn(k, "revoking")
  <2>1. Moves(k) /\ (Replaces(k) => call'[k].token # None)
    BY <1>1, <1>2, <1>5, Further
  <2>2. QED
    BY <1>1, <2>1, MovesKeepDevices, SameGives, SameSpoils DEF Leaves
<1>6. QED
  BY <1>3, <1>4, <1>5 DEF MatchToken

LEMMA RevokeOldKeepsDevices ==
    ASSUME SessionTypes, DevicesInv, NEW k \in Call, RevokeOld(k)
    PROVE  DevicesInv'
<1>1. /\ call[k].pc = "revoking" /\ GoOn(k, "issuing") /\ UNCHANGED <<held, disturbed>>
      /\ tokens' = [tokens EXCEPT ![call[k].token].revoked = TRUE]
      /\ "issuing" \in CallStep
  BY DEF RevokeOld, CallStep
<1>2. Moves(k) /\ (Replaces(k) => call'[k].token # None)
  BY <1>1, Further
<1>3. QED
  BY <1>1, <1>2, MovesKeepDevices, SameGives, RevokingSpoils DEF Leaves

LEMMA RevokeAllKeepsDevices ==
    ASSUME SessionTypes, DevicesInv, NEW k \in Call, RevokeAll(k)
    PROVE  DevicesInv'
<1>1. /\ call[k].pc = "revoking_all" /\ EndCall(k) /\ UNCHANGED <<held, disturbed>>
      /\ GoodAt(k)
  BY DEF RevokeAll, DevicesInv
<1>2. WalletFor(k) \in disturbed'
  BY <1>1 DEF GoodAt
<1>3. Spoils(k)
  BY <1>2, RevokingSpoils DEF RevokeAll
<1>4. Moves(k) /\ Leaves(k)
  BY <1>1, <1>2, Over DEF Leaves
<1>5. QED
  BY <1>1, <1>3, <1>4, MovesKeepDevices, SameGives

LEMMA RevokeTokenKeepsDevices ==
    ASSUME SessionTypes, DevicesInv, NEW k \in Call, RevokeToken(k)
    PROVE  DevicesInv'
<1>1. /\ call[k].pc = "leaving" /\ EndCall(k) /\ ForgetToken(k) /\ UNCHANGED disturbed
      /\ tokens' = [tokens EXCEPT ![call[k].token].revoked = TRUE]
      /\ call[k].device \in Device
  BY DEF RevokeToken, SessionTypes
<1>2. /\ held'[call[k].device] = None
      /\ \A d \in Device : d # call[k].device => held'[d] = held[d]
  BY <1>1 DEF ForgetToken, SessionTypes
<1>3. Gives(k)
  BY <1>2 DEF Gives
<1>4. Leaves(k)
  BY <1>2 DEF Leaves, DevicesInv, KindAt
<1>5. QED
  BY <1>1, <1>3, <1>4, Over, RevokingSpoils, MovesKeepDevices

LEMMA WorkKeepsDevices ==
    ASSUME SessionTypes, DevicesInv, NEW k \in Call, Work(k)
    PROVE  DevicesInv'
<1>1. {"consuming", "verifying", "finding", "creating", "looking_again"} \subseteq FirstStep
  BY DEF FirstStep
<1>2. CASE ConsumeNonce(k)
  BY <1>1, <1>2, LoggingInKeepsDevices DEF ConsumeNonce, Refuse
<1>3. CASE VerifySignature(k)
  BY <1>1, <1>3, LoggingInKeepsDevices DEF VerifySignature, Refuse
<1>4. CASE FindByWalletAddress(k)
  <2>1. PICK step \in FirstStep \cup {"issuing"} : GoOn(k, step)
    BY <1>1, <1>4 DEF FindByWalletAddress
  <2>2. QED
    BY <1>1, <1>4, <2>1, LoggingInKeepsDevices DEF FindByWalletAddress
<1>5. CASE CreateUser(k)
  <2>1. PICK step \in FirstStep \cup {"issuing"} : GoOn(k, step)
    BY <1>1, <1>5 DEF CreateUser
  <2>2. QED
    BY <1>1, <1>5, <2>1, LoggingInKeepsDevices DEF CreateUser
<1>6. CASE Fallback(k)
  BY <1>1, <1>6, LoggingInKeepsDevices DEF Fallback, Refuse
<1>7. QED
  BY <1>2, <1>3, <1>4, <1>5, <1>6, GenerateTokensKeepsDevices, MatchTokenKeepsDevices,
     RevokeOldKeepsDevices, RevokeAllKeepsDevices, RevokeTokenKeepsDevices DEF Work

\* A call that fails makes its user one of the disturbed.
LEMMA FailsKeepsDevices ==
    ASSUME SessionTypes, DevicesInv, NEW k \in Call, Fails(k)
    PROVE  DevicesInv'
<1>1. disturbed \subseteq disturbed' /\ WalletFor(k) \in disturbed' /\ UNCHANGED held
  BY DEF Fails
<1>2. Leaves(k)
  BY <1>1 DEF Leaves
<1>3. Moves(k)
  <2>1. CASE EndCall(k)
    BY <1>1, <2>1, Over
  <2>2. CASE call[k].pc = "creating" /\ GoOn(k, "looking_again")
    <3>1. "creating" \in FirstStep /\ "looking_again" \in FirstStep /\ "looking_again" \in CallStep
      BY DEF FirstStep, CallStep
    <3>2. call[k].kind = "login"
      BY <2>2, <3>1 DEF DevicesInv, KindAt
    <3>3. QED
      BY <1>1, <2>2, <3>1, <3>2, Further
  <2>3. QED
    BY <2>1, <2>2 DEF Fails
<1>4. Spoils(k)
  <2>1. CASE UNCHANGED tokens
    BY <2>1, SameSpoils
  <2>2. CASE call[k].pc = "issuing" /\ tokens' = Append(tokens, Issued(k))
    BY <2>2, AddingSpoils DEF Adds
  <2>3. CASE tokens' = [tokens EXCEPT ![call[k].token].revoked = TRUE]
    BY <2>3, RevokingSpoils
  <2>4. QED
    BY <2>1, <2>2, <2>3 DEF Fails
<1>5. QED
  BY <1>1, <1>2, <1>3, <1>4, SameGives, MovesKeepDevices

LEMMA NextKeepsDevices ==
    SessionTypes /\ DevicesInv /\ [SessionsNext]_sessionVars => DevicesInv'
<1> SUFFICES ASSUME SessionTypes, DevicesInv, [SessionsNext]_sessionVars PROVE DevicesInv'
  OBVIOUS
<1>1. CASE UNCHANGED <<tokens, held, call, disturbed>>
  <2>1. DevicesStayLoggedIn'
    BY <1>1 DEF DevicesInv, DevicesStayLoggedIn, Replacing
  <2>2. OwnInv'
    BY <1>1 DEF DevicesInv, OwnInv, Has
  <2>3. \A k \in Call : KindAt(k)' /\ GoodAt(k)' /\ AloneAt(k)'
    BY <1>1 DEF DevicesInv, KindAt, GoodAt, AloneAt, Replaces, WalletFor
  <2>4. QED
    BY <2>1, <2>2, <2>3 DEF DevicesInv
<1>2. CASE \E d \in Device : GenerateNonce(d)
  BY <1>1, <1>2 DEF GenerateNonce
<1>3. CASE \E w \in Wallet : NonceExpires(w)
  BY <1>1, <1>3 DEF NonceExpires
<1>4. CASE \E k \in Call : Work(k) \/ Fails(k) \/ (\E d \in Device : Ask(k, d))
  BY <1>4, WorkKeepsDevices, FailsKeepsDevices, AskKeepsDevices
<1>5. CASE UNCHANGED sessionVars
  BY <1>1, <1>5 DEF sessionVars
<1>6. QED
  BY <1>2, <1>3, <1>4, <1>5 DEF SessionsNext

\* While the devices of a user wait for a refresh or a logout to end, and none fails, what
\* rotateTokens and revokeToken revoke is never the token of another device, and
\* revokeAllUserTokens is never reached.
THEOREM SessionsDevicesStayLoggedIn == SessionsSpec => []DevicesStayLoggedIn
<1>1. SessionsInit => DevicesInv
  <2> SUFFICES ASSUME SessionsInit PROVE DevicesInv
    OBVIOUS
  <2>1. /\ \A d \in Device : held[d] = None
        /\ \A k \in Call : call[k] = Free
    BY DEF SessionsInit
  <2>2. DevicesStayLoggedIn
    BY <2>1 DEF DevicesStayLoggedIn
  <2>3. OwnInv
    BY <2>1, FreeRow DEF OwnInv, Has
  <2>4. \A k \in Call : KindAt(k) /\ GoodAt(k) /\ AloneAt(k)
    BY <2>1, FreeRow, FirstStepsDiffer DEF KindAt, GoodAt, AloneAt, Replaces
  <2>5. QED
    BY <2>2, <2>3, <2>4 DEF DevicesInv
<1>2. DevicesInv => DevicesStayLoggedIn
  BY DEF DevicesInv
<1>3. QED
  BY <1>1, <1>2, SessionsTypeOK, NextKeepsDevices, PTL DEF SessionsSpec

-----------------------------------------------------------------------------
(***************************************************************************)
(* Gateway.                                                                *)
(***************************************************************************)

\* What a statement of a service throws.
Failure == [class |-> "Error", code |-> 0, named |-> FALSE]

\* An attempt has a result when it has ended, and after an effect it is not one that
\* becomes a status of the client.
ResultOfEffect ==
    \A a \in Attempt :
        /\ attempt[a].pc # "ended" => attempt[a].result = Fine
        /\ attempt[a].acted =>
              /\ attempt[a].pc \in {"placed", "ended"}
              /\ attempt[a].result \in {Fine, Failure}

\* Who is refused will do nothing any more.
RefusedHasEnded ==
    \A a \in Attempt : told[a] \in 400 .. 499 => attempt[a].pc = "ended" /\ ~attempt[a].acted

AnswersInv == TypeOK /\ ResultOfEffect /\ RefusedHasEnded

-----------------------------------------------------------------------------
(***************************************************************************)
(* Types.                                                                  *)
(***************************************************************************)

LEMMA StatusTypes ==
    /\ \A named \in BOOLEAN, code \in Nat : HttpStatus(code, named) \in Nat \ {0}
    /\ \A e \in Result : GrpcStatus(e) \in Nat
<1>1. \A i \in DOMAIN GRPC_TO_HTTP_STATUS : GRPC_TO_HTTP_STATUS[i] \in Nat \ {0}
  BY DEF GRPC_TO_HTTP_STATUS
<1> HIDE DEF GRPC_TO_HTTP_STATUS
<1>2. \A named \in BOOLEAN, code \in Nat : HttpStatus(code, named) \in Nat \ {0}
  BY <1>1 DEF HttpStatus
<1>3. \A e \in Result : GrpcStatus(e) \in Nat
  BY DEF Result, GrpcStatus, OK, INVALID_ARGUMENT, UNAUTHENTICATED, PERMISSION_DENIED, NOT_FOUND,
         ALREADY_EXISTS, RESOURCE_EXHAUSTED, INTERNAL
<1>4. QED
  BY <1>2, <1>3

\* What a call that ended well, or with an error that names nothing, is answered with.
LEMMA AnswersToEffects ==
    /\ HttpStatus(GrpcStatus(Fine), Fine.named) = 200
    /\ HttpStatus(GrpcStatus(Failure), Failure.named) = 500
<1>1. GrpcStatus(Fine) = 0 /\ GrpcStatus(Failure) = 13 /\ ~Fine.named /\ ~Failure.named
  BY DEF GrpcStatus, Fine, Failure, OK, INTERNAL
<1>2. DOMAIN GRPC_TO_HTTP_STATUS = 1 .. 17 /\ GRPC_TO_HTTP_STATUS[1] = 200 /\ GRPC_TO_HTTP_STATUS[14] = 500
  BY DEF GRPC_TO_HTTP_STATUS
<1>3. ASSUME NEW code, NEW named, code \in {0, 13}, ~named
      PROVE  HttpStatus(code, named) = GRPC_TO_HTTP_STATUS[code + 1]
  BY <1>2, <1>3 DEF HttpStatus, UNAVAILABLE
<1>4. QED
  BY <1>1, <1>2, <1>3

LEMMA Results ==
    /\ Fine \in Result
    /\ \A status \in Nat : HttpException(status) \in Result
    /\ \A code \in Nat, named \in BOOLEAN : RpcException(code, named) \in Result
    /\ \A named \in BOOLEAN : PlainError(named) \in Result
    /\ PlainError(FALSE) = Failure
BY DEF Failure, Fine, HttpException, RpcException, PlainError, Result

\* The row of an attempt has a place in the tables.
LEMMA RowsOfAttempts ==
    ASSUME TypeOK, NEW a \in Attempt
    PROVE  Target(a) \in Targets /\ Row(a) \in Status
<1>1. attempt[a].req \in Request
  BY DEF TypeOK, AttemptRow
<1>2. Target(a) \in Targets
  <2>1. CASE attempt[a].req.route = "faucet" /\ ~attempt[a].req.key
    BY <2>1 DEF Target, SentKey, Targets
  <2>2. CASE ~(attempt[a].req.route = "faucet" /\ ~attempt[a].req.key)
    <3>1. Target(a) = TargetOf(attempt[a].req)
      BY <2>2 DEF Target, SentKey, TargetOf
    <3>2. QED
      BY <1>1, <3>1 DEF Targets
  <2>3. QED
    BY <2>1, <2>2
<1>3. QED
  BY <1>2 DEF TypeOK, Row

-----------------------------------------------------------------------------
(***************************************************************************)
(* Answers. The steps of the services have a few shapes.                   *)
(***************************************************************************)

Early == {"arrived", "found", "recorded"}

\* A step in which one attempt becomes x, and nobody else is told anything.
LEMMA StepKeepsAnswers ==
    ASSUME AnswersInv, NEW a \in Attempt, NEW x \in AttemptRow,
           attempt' = [attempt EXCEPT ![a] = x],
           x.pc # "ended" => x.result = Fine,
           x.acted => x.pc \in {"placed", "ended"} /\ x.result \in {Fine, Failure},
           told' \in [Attempt -> Nat], \A b \in Attempt \ {a} : told'[b] = told[b],
           told'[a] \in 400 .. 499 => x.pc = "ended" /\ ~x.acted,
           sent' \in 0 .. MaxAttempts, rows' \in [Targets -> Status],
           finished' \subseteq Request, effects' \in [Request -> Nat],
           UNCHANGED <<expired, overwritten>>
    PROVE  AnswersInv'
<1>1. attempt'[a] = x /\ \A b \in Attempt \ {a} : attempt'[b] = attempt[b]
  BY DEF AnswersInv, TypeOK
<1>2. TypeOK'
  BY DEF AnswersInv, TypeOK
<1>3. ResultOfEffect'
  BY <1>1 DEF AnswersInv, ResultOfEffect
<1>4. RefusedHasEnded'
  BY <1>1 DEF AnswersInv, RefusedHasEnded
<1>5. QED
  BY <1>2, <1>3, <1>4 DEF AnswersInv

\* What is known of an attempt that has not come to an effect.
LEMMA EarlyAttempt ==
    ASSUME AnswersInv, NEW a \in Attempt, attempt[a].pc \in Early \cup {"placed"}
    PROVE  /\ attempt[a] \in AttemptRow /\ attempt[a].req \in Request
           /\ attempt[a].result = Fine
           /\ attempt[a].pc \in Early => ~attempt[a].acted
           /\ told[a] \notin 400 .. 499
BY DEF AnswersInv, TypeOK, AttemptRow, ResultOfEffect, RefusedHasEnded, Early

LEMMA ReplyKeepsAnswers ==
    ASSUME AnswersInv, NEW a \in Attempt, NEW e \in Result,
           attempt[a].pc \in Early, End(a, e),
           rows' \in [Targets -> Status], UNCHANGED <<sent, told, expired, effects, overwritten>>
    PROVE  AnswersInv'
<1> DEFINE x == [attempt[a] EXCEPT !.pc = "ended", !.result = e]
<1>1. attempt' = [attempt EXCEPT ![a] = x]
  BY DEF End
<1>2. finished' \subseteq Request
  BY EarlyAttempt DEF End, AnswersInv, TypeOK
<1>3. x \in AttemptRow /\ x.pc = "ended" /\ x.acted = attempt[a].acted
  <2>1. attempt[a] \in AttemptRow
    BY EarlyAttempt
  <2>2. QED
    BY <2>1 DEF AttemptRow, Step
<1>4. ~x.acted
  BY <1>3, EarlyAttempt
<1> HIDE DEF x
<1>5. QED
  BY <1>1, <1>2, <1>3, <1>4, StepKeepsAnswers, EarlyAttempt DEF AnswersInv, TypeOK

LEMMA ProceedKeepsAnswers ==
    ASSUME AnswersInv, NEW a \in Attempt, NEW step \in {"found", "recorded"},
           attempt[a].pc \in Early, Goto(a, step),
           rows' \in [Targets -> Status],
           UNCHANGED <<sent, told, expired, finished, effects, overwritten>>
    PROVE  AnswersInv'
<1> DEFINE x == [attempt[a] EXCEPT !.pc = step, !.seen = Row(a)]
<1>1. attempt' = [attempt EXCEPT ![a] = x]
  BY DEF Goto
<1>2. x \in AttemptRow /\ x.result = Fine /\ x.acted = attempt[a].acted
  <2>1. attempt[a] \in AttemptRow /\ attempt[a].result = Fine /\ Row(a) \in Status
    BY EarlyAttempt, RowsOfAttempts DEF AnswersInv
  <2>2. QED
    BY <2>1 DEF AttemptRow, Step
<1>3. ~x.acted
  BY <1>2, EarlyAttempt
<1> HIDE DEF x
<1>4. QED
  BY <1>1, <1>2, <1>3, StepKeepsAnswers, EarlyAttempt DEF AnswersInv, TypeOK

LEMMA EffectKeepsAnswers ==
    ASSUME AnswersInv, NEW a \in Attempt, attempt[a].pc \in Early, EndWithEffect(a),
           rows' \in [Targets -> Status], UNCHANGED <<sent, told, expired, overwritten>>
    PROVE  AnswersInv'
<1> DEFINE x == [attempt[a] EXCEPT !.pc = "ended", !.result = Fine, !.acted = TRUE]
<1>1. attempt' = [attempt EXCEPT ![a] = x]
  BY DEF EndWithEffect
<1>2. finished' \subseteq Request /\ effects' \in [Request -> Nat]
  BY EarlyAttempt DEF EndWithEffect, AnswersInv, TypeOK
<1>3. x \in AttemptRow /\ x.pc = "ended" /\ x.result = Fine
  <2>1. attempt[a] \in AttemptRow /\ Fine \in Result
    BY EarlyAttempt, Results
  <2>2. QED
    BY <2>1 DEF AttemptRow, Step
<1> HIDE DEF x
<1>4. QED
  BY <1>1, <1>2, <1>3, StepKeepsAnswers, EarlyAttempt DEF AnswersInv, TypeOK

-----------------------------------------------------------------------------
(***************************************************************************)
(* Every step.                                                             *)
(***************************************************************************)

LEMMA InitAnswers == Init => AnswersInv
<1> SUFFICES ASSUME Init PROVE AnswersInv
  OBVIOUS
<1>1. Unsent \in AttemptRow /\ ~Unsent.acted /\ Unsent.result = Fine
  BY RequestAssumption, Results DEF Unsent, AttemptRow, Step, Status
<1>2. TypeOK
  BY <1>1, BoundsAssumption DEF Init, TypeOK, Status, Nothing
<1>3. ResultOfEffect
  BY <1>1 DEF Init, ResultOfEffect
<1>4. RefusedHasEnded
  BY DEF Init, RefusedHasEnded, Nothing
<1>5. QED
  BY <1>2, <1>3, <1>4 DEF AnswersInv

LEMMA SendKeepsAnswers == ASSUME AnswersInv, NEW r \in Request, Send(r) PROVE AnswersInv'
<1> DEFINE a == sent + 1
<1>1. PICK refusal \in Refusals(r) :
          /\ told' = [told EXCEPT ![a] = refusal]
          /\ attempt' = [attempt EXCEPT ![a] =
                 [Unsent EXCEPT !.req = r, !.late = IsLate(r),
                                !.pc = IF refusal = Nothing THEN "arrived" ELSE "ended"]]
  BY DEF Send
<1> DEFINE x == [Unsent EXCEPT !.req = r, !.late = IsLate(r),
                               !.pc = IF refusal = Nothing THEN "arrived" ELSE "ended"]
<1>2. a \in Attempt /\ sent' = a /\ UNCHANGED <<rows, expired, finished, effects, overwritten>>
  BY DEF Send
<1>3. refusal \in {0, 400, 401} /\ refusal \in Nat
  BY DEF Refusals, Nothing
<1>4. Unsent \in AttemptRow /\ ~Unsent.acted /\ Unsent.result = Fine
  BY RequestAssumption, Results DEF Unsent, AttemptRow, Step, Status
<1>5. IsLate(r) \in BOOLEAN
  BY DEF IsLate
<1>6. x \in AttemptRow /\ x.acted = Unsent.acted /\ x.result = Fine
      /\ x.pc = IF refusal = Nothing THEN "arrived" ELSE "ended"
  BY <1>4, <1>5 DEF AttemptRow, Step
<1>7. ~x.acted
  BY <1>4, <1>6
<1>8. attempt' = [attempt EXCEPT ![a] = x]
  BY <1>1
<1>9. /\ told' \in [Attempt -> Nat] /\ \A b \in Attempt \ {a} : told'[b] = told[b]
      /\ told'[a] = refusal
  BY <1>1, <1>2, <1>3 DEF AnswersInv, TypeOK
<1>10. sent' \in 0 .. MaxAttempts
  BY <1>2, BoundsAssumption DEF Attempt
<1> HIDE DEF x, a
<1>11. refusal \in 400 .. 499 => x.pc = "ended"
  BY <1>3, <1>6 DEF Nothing
<1>12. QED
  BY <1>2, <1>6, <1>7, <1>8, <1>9, <1>10, <1>11, StepKeepsAnswers DEF AnswersInv, TypeOK

\* Steps of the gateway while it waits for attempt a.
LEMMA GatewayKeepsAnswers ==
    ASSUME AnswersInv, NEW a \in Attempt, Answer(a) \/ Deadline(a) \/ Unavailable(a)
    PROVE  AnswersInv'
<1>1. attempt[a] \in AttemptRow /\ attempt[a].result \in Result /\ attempt[a].result.named \in BOOLEAN
  BY DEF AnswersInv, TypeOK, AttemptRow, Result
<1>2. told \in [Attempt -> Nat] /\ attempt = [attempt EXCEPT ![a] = attempt[a]]
  BY DEF AnswersInv, TypeOK
<1>3. /\ attempt[a].pc # "ended" => attempt[a].result = Fine
      /\ attempt[a].acted => attempt[a].pc \in {"placed", "ended"}
                             /\ attempt[a].result \in {Fine, Failure}
  BY DEF AnswersInv, ResultOfEffect
<1>4. ASSUME NEW status \in Nat, told' = [told EXCEPT ![a] = status]
      PROVE  /\ told' \in [Attempt -> Nat] /\ \A b \in Attempt \ {a} : told'[b] = told[b]
             /\ told'[a] = status
  BY <1>2, <1>4
<1>5. CASE Answer(a)
  <2> DEFINE status == HttpStatus(GrpcStatus(attempt[a].result), attempt[a].result.named)
  <2>1. status \in Nat
    BY <1>1, StatusTypes
  <2>2. attempt[a].acted => status \in {200, 500}
    BY <1>3, AnswersToEffects
  <2>3. /\ told' = [told EXCEPT ![a] = status] /\ attempt[a].pc = "ended"
        /\ UNCHANGED <<sent, attempt, rows, expired, finished, effects, overwritten>>
    BY <1>5 DEF Answer
  <2> HIDE DEF status
  <2>4. QED
    BY <1>1, <1>2, <1>3, <1>4, <2>1, <2>2, <2>3, StepKeepsAnswers DEF AnswersInv, TypeOK
<1>6. CASE Deadline(a)
  <2>1. /\ told' = [told EXCEPT ![a] = 504]
        /\ UNCHANGED <<sent, attempt, rows, expired, finished, effects, overwritten>>
    BY <1>6 DEF Deadline, TimeoutStatus
  <2>2. QED
    BY <1>1, <1>2, <1>3, <1>4, <2>1, StepKeepsAnswers DEF AnswersInv, TypeOK
<1>7. CASE Unavailable(a)
  <2>1. HttpStatus(UNAVAILABLE, TRUE) = 503
    BY DEF HttpStatus
  <2>2. told' = [told EXCEPT ![a] = 503] /\ UNCHANGED <<sent, rows, expired, finished, effects, overwritten>>
    BY <1>7, <2>1 DEF Unavailable
  <2>3. PICK pc \in {attempt[a].pc, "ended"} :
            attempt' = [attempt EXCEPT ![a].pc = pc, ![a].hit = TRUE]
    BY <1>7 DEF Unavailable
  <2> DEFINE x == [attempt[a] EXCEPT !.pc = pc, !.hit = TRUE]
  <2>4. /\ x \in AttemptRow /\ x.pc = pc /\ x.result = attempt[a].result
        /\ x.acted = attempt[a].acted
    BY <1>1 DEF AttemptRow, Step
  <2>5. attempt' = [attempt EXCEPT ![a] = x]
    BY <2>3
  <2> HIDE DEF x
  <2>6. x.pc # "ended" => x.result = Fine
    BY <1>3, <2>4
  <2>7. x.acted => x.pc \in {"placed", "ended"} /\ x.result \in {Fine, Failure}
    BY <1>3, <2>4
  <2>8. /\ told' \in [Attempt -> Nat] /\ \A b \in Attempt \ {a} : told'[b] = told[b]
        /\ told'[a] = 503
    BY <1>2, <2>2
  <2>9. /\ sent' \in 0 .. MaxAttempts /\ rows' \in [Targets -> Status]
        /\ finished' \subseteq Request /\ effects' \in [Request -> Nat]
        /\ UNCHANGED <<expired, overwritten>>
    BY <2>2 DEF AnswersInv, TypeOK
  <2>10. told'[a] \in 400 .. 499 => x.pc = "ended" /\ ~x.acted
    BY <2>8
  <2>11. QED
    BY <2>4, <2>5, <2>6, <2>7, <2>8, <2>9, <2>10, StepKeepsAnswers
<1>8. QED
  BY <1>5, <1>6, <1>7

\* Steps of the services that are not of one of the shapes above.
LEMMA FailuresKeepAnswers ==
    ASSUME AnswersInv, NEW a \in Attempt, Throw(a) \/ PlaceOrder(a) \/ CompleteRecord(a)
    PROVE  AnswersInv'
<1>1. attempt[a] \in AttemptRow /\ attempt[a].req \in Request /\ Target(a) \in Targets
  BY RowsOfAttempts DEF AnswersInv, TypeOK, AttemptRow
<1>2. told \in [Attempt -> Nat]
  BY DEF AnswersInv, TypeOK
<1>3. Failure \in Result /\ Fine \in Result /\ PlainError(FALSE) = Failure
  BY Results DEF Failure, Result
<1>4. CASE Throw(a)
  <2> DEFINE x == [attempt[a] EXCEPT !.pc = "ended", !.result = Failure, !.hit = TRUE]
  <2>1. attempt' = [attempt EXCEPT ![a].pc = "ended", ![a].result = Failure, ![a].hit = TRUE]
        /\ UNCHANGED <<sent, told, rows, expired, finished, effects, overwritten>>
    BY <1>3, <1>4 DEF Throw
  <2>2. x \in AttemptRow /\ x.pc = "ended" /\ x.result = Failure
    BY <1>1, <1>3 DEF AttemptRow, Step
  <2>3. told[a] \notin 400 .. 499
    BY <1>4, EarlyAttempt DEF Throw, Early
  <2>4. attempt' = [attempt EXCEPT ![a] = x]
    BY <2>1
  <2> HIDE DEF x
  <2>5. QED
    BY <1>2, <2>1, <2>2, <2>3, <2>4, StepKeepsAnswers DEF AnswersInv, TypeOK
<1>5. CASE PlaceOrder(a)
  <2>1. /\ attempt[a].pc = "recorded"
        /\ effects' = [effects EXCEPT ![attempt[a].req] = @ + 1]
        /\ UNCHANGED <<sent, told, expired, finished, overwritten>>
    BY <1>5 DEF PlaceOrder, Write, At
  <2>2. told[a] \notin 400 .. 499 /\ attempt[a].result = Fine
    BY <2>1, EarlyAttempt DEF Early
  <2>3. effects' \in [Request -> Nat]
    BY <1>1, <2>1 DEF AnswersInv, TypeOK
  <2> DEFINE x == [attempt[a] EXCEPT !.pc = "placed", !.acted = TRUE]
             y == [attempt[a] EXCEPT !.pc = "ended", !.acted = TRUE, !.hit = TRUE, !.result = Failure]
  <2>4. /\ x \in AttemptRow /\ x.pc = "placed" /\ x.result = Fine
        /\ y \in AttemptRow /\ y.pc = "ended" /\ y.result = Failure
    <3>1. /\ x \in AttemptRow /\ x.pc = "placed" /\ x.result = attempt[a].result
      BY <1>1 DEF AttemptRow, Step
    <3>2. /\ y \in AttemptRow /\ y.pc = "ended" /\ y.result = Failure
      BY <1>1, <1>3 DEF AttemptRow, Step
    <3>3. QED
      BY <2>2, <3>1, <3>2
  <2>5. rows' \in [Targets -> Status]
    BY <1>5 DEF PlaceOrder, Write, AnswersInv, TypeOK, Status
  <2>6. attempt' = [attempt EXCEPT ![a] = x] \/ attempt' = [attempt EXCEPT ![a] = y]
    BY <1>3, <1>5 DEF PlaceOrder
  <2> HIDE DEF x, y
  <2>7. CASE attempt' = [attempt EXCEPT ![a] = x]
    BY <1>2, <2>1, <2>2, <2>3, <2>4, <2>5, <2>7, StepKeepsAnswers DEF AnswersInv, TypeOK
  <2>8. CASE attempt' = [attempt EXCEPT ![a] = y]
    BY <1>2, <2>1, <2>2, <2>3, <2>4, <2>5, <2>8, StepKeepsAnswers DEF AnswersInv, TypeOK
  <2>9. QED
    BY <2>6, <2>7, <2>8
<1>6. CASE CompleteRecord(a)
  <2> DEFINE x == [attempt[a] EXCEPT !.pc = "ended", !.result = Fine]
  <2>1. /\ attempt[a].pc = "placed" /\ Write(a, "COMPLETED") /\ End(a, Fine)
        /\ UNCHANGED <<sent, told, expired, effects, overwritten>>
    BY <1>6 DEF CompleteRecord, Write, At
  <2>2. told[a] \notin 400 .. 499
    BY <2>1, EarlyAttempt
  <2>3. attempt' = [attempt EXCEPT ![a] = x]
    BY <2>1 DEF End
  <2>4. finished' \subseteq Request
    BY <1>1, <2>1 DEF End, AnswersInv, TypeOK
  <2>5. rows' \in [Targets -> Status]
    BY <2>1 DEF Write, AnswersInv, TypeOK, Status
  <2>6. x \in AttemptRow /\ x.pc = "ended" /\ x.result = Fine
    BY <1>1, <1>3 DEF AttemptRow, Step
  <2> HIDE DEF x
  <2>7. QED
    BY <1>2, <2>1, <2>2, <2>3, <2>4, <2>5, <2>6, StepKeepsAnswers DEF AnswersInv, TypeOK
<1>7. QED
  BY <1>4, <1>5, <1>6

\* A status of HTTP, thrown as a code of gRPC.
Refused(code) == RpcException(code, FALSE)

LEMMA ServicesKeepAnswers ==
    ASSUME AnswersInv, NEW a \in Attempt,
           \/ CreateOrder(a) \/ CancelOrder(a) \/ GetOrder(a)
           \/ RequestWithdrawal(a) \/ GetWithdrawal(a) \/ DepositSandboxFunds(a)
           \/ RegisterMaster(a) \/ CreateSubscription(a) \/ CancelSubscription(a)
    PROVE  AnswersInv'
<1>0. Fine \in Result /\ \A code \in Nat : Refused(code) \in Result
  BY DEF Refused, RpcException, Fine, Result
<1>1. rows \in [Targets -> Status]
  BY DEF AnswersInv, TypeOK
<1>2. ASSUME NEW e \in Result, attempt[a].pc \in Early, Reply(a, e) PROVE AnswersInv'
  BY <1>1, <1>2, ReplyKeepsAnswers DEF Reply
<1>3. ASSUME NEW step \in {"found", "recorded"}, attempt[a].pc \in Early, Proceed(a, step)
      PROVE  AnswersInv'
  BY <1>1, <1>3, ProceedKeepsAnswers DEF Proceed
<1>4. ASSUME NEW status \in Status, Write(a, status)
      PROVE  rows' \in [Targets -> Status] /\ UNCHANGED <<expired, overwritten>>
  BY <1>1, <1>4 DEF Write
<1>5. ASSUME NEW status \in Status, attempt[a].pc \in Early, Write(a, status), EndWithEffect(a),
             UNCHANGED <<sent, told>>
      PROVE  AnswersInv'
  BY <1>4, <1>5, EffectKeepsAnswers
<1>6. CASE CreateOrder(a)
  <2>1. CASE RefuseOrder(a)
    <3>1. attempt[a].pc \in Early /\ Reply(a, Refused(400))
      BY <2>1 DEF RefuseOrder, At, Early, Refused
    <3>2. QED
      BY <1>0, <1>2, <3>1
  <2>2. CASE FindRecord(a)
    <3>1. attempt[a].pc \in Early
      BY <2>2 DEF FindRecord, At, Early
    <3>2. Reply(a, Fine) \/ Reply(a, Refused(409)) \/ Proceed(a, "found")
      BY <2>2 DEF FindRecord, Refused
    <3>3. QED
      BY <1>0, <1>2, <1>3, <3>1, <3>2
  <2>3. CASE CreateRecord(a)
    <3>1. attempt[a].pc \in Early
      BY <2>3 DEF CreateRecord, At, Early
    <3>2. CASE Reply(a, PlainError(FALSE))
      BY <1>2, <3>1, <3>2, Results
    <3>3. CASE Write(a, "IN_PROGRESS") /\ Goto(a, "recorded") /\ UNCHANGED <<sent, told, finished, effects>>
      BY <1>4, <3>1, <3>3, ProceedKeepsAnswers DEF Status
    <3>4. QED
      BY <2>3, <3>2, <3>3 DEF CreateRecord
  <2>4. CASE LockRefused(a)
    <3>1. PICK named \in BOOLEAN : End(a, RpcException(402, named))
      BY <2>4 DEF LockRefused
    <3>2. rows' \in [Targets -> Status] /\ UNCHANGED <<expired, overwritten>>
      BY <1>4, <2>4 DEF LockRefused, Status
    <3>3. RpcException(402, named) \in Result
      BY Results
    <3>4. QED
      BY <2>4, <3>1, <3>2, <3>3, ReplyKeepsAnswers DEF LockRefused, At, Early
  <2>5. CASE PlaceOrder(a) \/ CompleteRecord(a)
    BY <2>5, FailuresKeepAnswers
  <2>6. QED
    BY <1>6, <2>1, <2>2, <2>3, <2>4, <2>5 DEF CreateOrder
<1>7. CASE CancelOrder(a)
  <2>1. CASE FindOrder(a)
    <3>1. attempt[a].pc \in Early
      BY <2>1 DEF FindOrder, At, Early
    <3>2. Reply(a, Refused(404)) \/ Reply(a, Refused(400)) \/ Proceed(a, "found")
      BY <2>1 DEF FindOrder, Refused
    <3>3. QED
      BY <1>0, <1>2, <1>3, <3>1, <3>2
  <2>2. CASE CancelRow(a)
    <3>1. attempt[a].pc \in Early
      BY <2>2 DEF CancelRow, At, Early
    <3>2. CASE Row(a) \in {"OPEN", "PARTIALLY_FILLED"}
      BY <1>5, <2>2, <3>1, <3>2 DEF CancelRow, Status
    <3>3. CASE Row(a) \notin {"OPEN", "PARTIALLY_FILLED"}
      <4>1. Reply(a, Refused(400))
        BY <2>2, <3>3 DEF CancelRow, Refused
      <4>2. QED
        BY <1>0, <1>2, <3>1, <4>1
    <3>4. QED
      BY <3>2, <3>3
  <2>3. QED
    BY <1>7, <2>1, <2>2 DEF CancelOrder
<1>8. CASE GetOrder(a)
  <2>1. Reply(a, Fine) \/ Reply(a, Refused(404))
    BY <1>8 DEF GetOrder, Refused
  <2>2. QED
    BY <1>0, <1>2, <1>8, <2>1 DEF GetOrder, At, Early
<1>9. CASE RequestWithdrawal(a)
  <2>1. CASE RefuseWithdrawal(a)
    BY <1>2, <2>1, Results DEF RefuseWithdrawal, At, Early
  <2>2. CASE FindWithdrawal(a)
    BY <1>2, <1>3, <2>2, Results DEF FindWithdrawal, At, Early
  <2>3. CASE LockFunds(a)
    BY <1>2, <1>3, <2>3, Results DEF LockFunds, At, Early
  <2>4. CASE InsertWithdrawal(a)
    BY <1>2, <1>5, <2>4, Results DEF InsertWithdrawal, At, Early, Status
  <2>5. QED
    BY <1>9, <2>1, <2>2, <2>3, <2>4 DEF RequestWithdrawal
<1>10. CASE GetWithdrawal(a)
  <2>1. PICK e \in {Fine, HttpException(404)} : Reply(a, e)
    BY <1>10 DEF GetWithdrawal
  <2>2. QED
    BY <1>2, <1>10, <2>1, Results DEF GetWithdrawal, At, Early
<1>11. CASE DepositSandboxFunds(a)
  <2>1. CASE RefuseDeposit(a)
    BY <1>2, <2>1, Results DEF RefuseDeposit, At, Early
  <2>2. CASE PostDeposit(a)
    BY <1>2, <1>5, <2>2, Results DEF PostDeposit, At, Early, Status
  <2>3. QED
    BY <1>11, <2>1, <2>2 DEF DepositSandboxFunds
<1>12. CASE RegisterMaster(a)
  BY <1>2, <1>3, <1>5, <1>12, Results DEF RegisterMaster, At, Early, Status
<1>13. CASE CreateSubscription(a)
  <2>1. CASE CheckSubscription(a)
    BY <1>2, <1>3, <2>1, Results DEF CheckSubscription, At, Early
  <2>2. CASE ActivateSubscription(a)
    BY <1>2, <1>5, <2>2, Results DEF ActivateSubscription, At, Early, Status
  <2>3. QED
    BY <1>13, <2>1, <2>2 DEF CreateSubscription
<1>14. CASE CancelSubscription(a)
  BY <1>2, <1>3, <1>5, <1>14, Results DEF CancelSubscription, At, Early, Status
<1>15. QED
  BY <1>6, <1>7, <1>8, <1>9, <1>10, <1>11, <1>12, <1>13, <1>14

\* Rows that expire, and are overwritten by a match.
LEMMA TimeKeepsAnswers ==
    ASSUME AnswersInv, NEW t \in Targets, Expire(t) \/ UpdateExecution(t)
    PROVE  AnswersInv'
<1>1. UNCHANGED <<sent, attempt, told, finished, effects>>
  BY DEF Expire, UpdateExecution
<1>2. rows' \in [Targets -> Status] /\ expired' \subseteq Targets /\ overwritten' \in [Targets -> Nat]
  <2>1. CASE Expire(t)
    BY <2>1 DEF Expire, AnswersInv, TypeOK
  <2>2. CASE UpdateExecution(t)
    <3>1. PICK status \in {"PARTIALLY_FILLED", "FILLED"} : rows' = [rows EXCEPT ![t] = status]
      BY <2>2 DEF UpdateExecution
    <3>2. rows' \in [Targets -> Status]
      BY <3>1 DEF AnswersInv, TypeOK, Status
    <3>3. QED
      BY <2>2, <3>2 DEF UpdateExecution, AnswersInv, TypeOK
  <2>3. QED
    BY <2>1, <2>2
<1>3. QED
  BY <1>1, <1>2 DEF AnswersInv, TypeOK, ResultOfEffect, RefusedHasEnded

LEMMA NextKeepsAnswers == AnswersInv /\ [Next]_vars => AnswersInv'
<1> SUFFICES ASSUME AnswersInv, [Next]_vars PROVE AnswersInv'
  OBVIOUS
<1>1. CASE UNCHANGED vars
  BY <1>1 DEF vars, AnswersInv, TypeOK, ResultOfEffect, RefusedHasEnded
<1>2. CASE \E r \in Request : Send(r)
  BY <1>2, SendKeepsAnswers
<1>3. ASSUME NEW a \in Attempt, Answer(a) \/ Deadline(a) \/ Unavailable(a) PROVE AnswersInv'
  BY <1>3, GatewayKeepsAnswers
<1>4. ASSUME NEW a \in Attempt, Throw(a) PROVE AnswersInv'
  BY <1>4, FailuresKeepAnswers
<1>5. CASE \E t \in Targets : Expire(t) \/ UpdateExecution(t)
  BY <1>5, TimeKeepsAnswers
<1>6. QED
  BY <1>1, <1>2, <1>3, <1>4, <1>5, ServicesKeepAnswers DEF Next

\* The variables keep their types.
THEOREM GatewayTypeOK == Spec => []TypeOK
<1>1. AnswersInv => TypeOK
  BY DEF AnswersInv
<1>2. QED
  BY <1>1, InitAnswers, NextKeepsAnswers, PTL DEF Spec

\* No failure is reported as the client's fault: an attempt that is answered with a status
\* of 4xx has had no effect and will have none, whatever the deadline and the connection
\* did (HttpExceptionFilter, the exception filters of the services).
THEOREM GatewayRefusedHasNoEffect == Spec => []RefusedHasNoEffect
<1>1. AnswersInv => RefusedHasNoEffect
  BY DEF AnswersInv, RefusedHasEnded, RefusedHasNoEffect
<1>2. QED
  BY <1>1, InitAnswers, NextKeepsAnswers, PTL DEF Spec

-----------------------------------------------------------------------------
(***************************************************************************)
(* Effects. What keeps a request from taking effect again is a row that is *)
(* not deleted. The row of a cancellation may be overwritten.              *)
(***************************************************************************)

Once == {r \in Request : /\ r.route \notin {"cancel", "subscribe", "unsubscribe"}
                         /\ r.route = "faucet" => r.key}

\* There is no row of r.
Fresh(r) == rows[TargetOf(r)] = "NONE"

\* a has created the record of the order r and is to place it.
Places(a, r) == At(a, "order", "recorded") /\ attempt[a].req = r

EffectsInv ==
    /\ \A r \in Once : effects[r] <= 1 /\ (effects[r] > 0 => ~Fresh(r))
    /\ \A r \in Request, a \in Attempt : Places(a, r) => effects[r] = 0 /\ ~Fresh(r)
    /\ \A r \in Request, a, b \in Attempt : Places(a, r) /\ Places(b, r) => a = b

\* An order was cancelled as often as that has been overwritten, and once more if its row
\* says so.
CancelsInv ==
    \A r \in Request : r.route = "cancel" =>
        effects[r] <= overwritten[TargetOf(r)] + (IF rows[TargetOf(r)] = "CANCELLED" THEN 1 ELSE 0)

RowsGrow == \A t \in Targets : rows'[t] = "NONE" => rows[t] = "NONE"

Written == Status \ {"NONE"}

LEMMA WritesGrow ==
    ASSUME TypeOK, NEW a \in Attempt, NEW status \in Written, Write(a, status)
    PROVE  RowsGrow /\ rows'[Target(a)] = status
<1>1. Target(a) \in Targets
  BY RowsOfAttempts
<1>2. QED
  BY <1>1 DEF TypeOK, Write, RowsGrow, Written

LEMMA TargetsOfRequests ==
    /\ \A r \in Request : TargetOf(r) \in Targets
    /\ \A a \in Attempt : attempt[a].req \in Once => Target(a) = TargetOf(attempt[a].req)
BY DEF TargetOf, Targets, Target, SentKey, Once

LEMMA FreshNoMore ==
    ASSUME RowsGrow, NEW r \in Request
    PROVE  Fresh(r)' => Fresh(r)
BY TargetsOfRequests DEF RowsGrow, Fresh, TargetOf

\* A step without an effect.
LEMMA NoEffectKeepsEffects ==
    ASSUME TypeOK, EffectsInv, RowsGrow, UNCHANGED effects,
           \A r \in Request, b \in Attempt : Places(b, r)' => Places(b, r)
    PROVE  EffectsInv'
<1>1. \A r \in Request : Fresh(r)' => Fresh(r)
  BY FreshNoMore
<1>2. \A r \in Once : effects'[r] <= 1 /\ (effects'[r] > 0 => ~Fresh(r)')
  BY <1>1 DEF EffectsInv, Once
<1>3. \A r \in Request, a \in Attempt : Places(a, r)' => effects'[r] = 0 /\ ~Fresh(r)'
  BY <1>1 DEF EffectsInv
<1>4. \A r \in Request, a, b \in Attempt : Places(a, r)' /\ Places(b, r)' => a = b
  BY DEF EffectsInv
<1>5. QED
  BY <1>2, <1>3, <1>4 DEF EffectsInv, Once

\* A step that is an effect of q.
LEMMA TakesEffect ==
    ASSUME TypeOK, EffectsInv, RowsGrow, NEW q \in Request,
           effects' = [effects EXCEPT ![q] = @ + 1],
           q \in Once => effects[q] = 0 /\ ~Fresh(q)',
           \A r \in Request, b \in Attempt : Places(b, r)' => Places(b, r) /\ r # q
    PROVE  EffectsInv'
<1>1. \A r \in Request : Fresh(r)' => Fresh(r)
  BY FreshNoMore
<1>2. effects \in [Request -> Nat]
  BY DEF TypeOK
<1>3. \A r \in Once : effects'[r] <= 1 /\ (effects'[r] > 0 => ~Fresh(r)')
  <2> SUFFICES ASSUME NEW r \in Once PROVE effects'[r] <= 1 /\ (effects'[r] > 0 => ~Fresh(r)')
    OBVIOUS
  <2>1. CASE r = q
    <3>1. effects'[q] = 1 /\ ~Fresh(q)'
      BY <1>2, <2>1
    <3>2. QED
      BY <2>1, <3>1 DEF Fresh
  <2>2. CASE r # q
    BY <1>1, <1>2, <2>2 DEF EffectsInv, Once
  <2>3. QED
    BY <2>1, <2>2
<1>4. \A r \in Request, a \in Attempt : Places(a, r)' => effects'[r] = 0 /\ ~Fresh(r)'
  BY <1>1, <1>2 DEF EffectsInv
<1>5. \A r \in Request, a, b \in Attempt : Places(a, r)' /\ Places(b, r)' => a = b
  BY DEF EffectsInv
<1>6. QED
  BY <1>3, <1>4, <1>5 DEF EffectsInv, Once

\* The record of every attempt, after a step of attempt a.
LEMMA PlacesAfterEnd ==
    ASSUME TypeOK, NEW a \in Attempt, NEW pc \in Step \ {"recorded"}, attempt'[a].pc = pc,
           \A b \in Attempt : b # a => attempt'[b] = attempt[b]
    PROVE  \A r \in Request, b \in Attempt : Places(b, r)' => Places(b, r) /\ b # a
BY DEF Places, At

LEMMA EndsElsewhere ==
    ASSUME TypeOK, NEW a \in Attempt, NEW result, End(a, result) \/ EndWithEffect(a)
    PROVE  attempt'[a].pc = "ended" /\ \A b \in Attempt : b # a => attempt'[b] = attempt[b]
BY DEF TypeOK, AttemptRow, End, EndWithEffect

LEMMA SameRows == UNCHANGED rows => RowsGrow
BY DEF RowsGrow

LEMMA ReplyKeepsEffects ==
    ASSUME TypeOK, EffectsInv, NEW a \in Attempt, NEW result, Reply(a, result)
    PROVE  EffectsInv'
<1>1. attempt'[a].pc = "ended" /\ \A b \in Attempt : b # a => attempt'[b] = attempt[b]
  BY EndsElsewhere DEF Reply
<1>2. \A r \in Request, b \in Attempt : Places(b, r)' => Places(b, r)
  BY <1>1, PlacesAfterEnd DEF Step
<1>3. RowsGrow /\ UNCHANGED effects
  BY SameRows DEF Reply
<1>4. QED
  BY <1>2, <1>3, NoEffectKeepsEffects

\* A withdrawal is "recorded" as soon as its funds are locked; an order is not.
LEMMA ProceedKeepsEffects ==
    ASSUME TypeOK, EffectsInv, NEW a \in Attempt, NEW pc \in {"found", "recorded"}, Proceed(a, pc),
           pc = "found" \/ attempt[a].req.route # "order"
    PROVE  EffectsInv'
<1>1. /\ attempt'[a].pc = pc /\ attempt'[a].req = attempt[a].req
      /\ \A b \in Attempt : b # a => attempt'[b] = attempt[b]
  BY DEF TypeOK, AttemptRow, Proceed, Goto
<1>2. \A r \in Request, b \in Attempt : Places(b, r)' => Places(b, r)
  BY <1>1 DEF Places, At
<1>3. RowsGrow /\ UNCHANGED effects
  BY SameRows DEF Proceed
<1>4. QED
  BY <1>2, <1>3, NoEffectKeepsEffects

\* A write that is the effect of a's request.
LEMMA EffectKeepsEffects ==
    ASSUME TypeOK, EffectsInv, NEW a \in Attempt, NEW status \in Written,
           Write(a, status), EndWithEffect(a), attempt[a].req.route # "order",
           attempt[a].req \in Once => Row(a) = "NONE"
    PROVE  EffectsInv'
<1> DEFINE q == attempt[a].req
<1>1. q \in Request
  BY DEF TypeOK, AttemptRow
<1>2. PICK p \in Request : p = q
  BY <1>1
<1>3. RowsGrow /\ rows'[Target(a)] = status
  BY WritesGrow
<1>4. p \in Once => Target(a) = TargetOf(p)
  BY <1>2, TargetsOfRequests
<1>5. p \in Once => effects[p] = 0 /\ ~Fresh(p)'
  <2>1. p \in Once => Fresh(p)
    BY <1>2, <1>4 DEF Row, Fresh
  <2>2. effects[p] \in Nat
    BY DEF TypeOK
  <2>3. p \in Once => effects[p] = 0
    BY <2>1, <2>2 DEF EffectsInv
  <2>4. p \in Once => rows'[TargetOf(p)] = status
    BY <1>3, <1>4
  <2>5. QED
    BY <2>3, <2>4 DEF Fresh, Written, TargetOf
<1>6. attempt'[a].pc = "ended" /\ \A b \in Attempt : b # a => attempt'[b] = attempt[b]
  BY EndsElsewhere
<1>7. \A r \in Request, b \in Attempt : Places(b, r)' => Places(b, r)
  BY <1>6, PlacesAfterEnd DEF Step
<1>8. \A r \in Request, b \in Attempt : Places(b, r) => r.route = "order"
  BY DEF Places, At
<1>9. effects' = [effects EXCEPT ![p] = @ + 1] /\ p.route # "order"
  BY <1>2 DEF EndWithEffect
<1>10. \A r \in Request, b \in Attempt : Places(b, r)' => Places(b, r) /\ r # p
  BY <1>7, <1>8, <1>9
<1>11. QED
  BY <1>3, <1>5, <1>9, <1>10, TakesEffect

-----------------------------------------------------------------------------
(***************************************************************************)
(* The steps of an order.                                                  *)
(***************************************************************************)

LEMMA CreateRecordKeepsEffects ==
    ASSUME TypeOK, EffectsInv, NEW a \in Attempt, CreateRecord(a)
    PROVE  EffectsInv'
<1>1. CASE Reply(a, PlainError(FALSE))
  BY <1>1, ReplyKeepsEffects
<1>2. CASE Row(a) = "NONE" /\ Write(a, "IN_PROGRESS") /\ Goto(a, "recorded") /\ UNCHANGED effects
  <2>1. attempt[a].req \in Request
    BY DEF TypeOK, AttemptRow
  <2>2. PICK q \in Request : q = attempt[a].req
    BY <2>1
  <2>3. q \in Once /\ q.route = "order"
    BY <2>2 DEF Once, CreateRecord, At
  <2>4. Target(a) = TargetOf(q)
    BY <2>2, <2>3, TargetsOfRequests
  <2>5. Fresh(q)
    BY <1>2, <2>3, <2>4 DEF Row, Fresh
  <2>6. effects[q] = 0 /\ \A b \in Attempt : ~Places(b, q)
    <3>1. effects[q] \in Nat
      BY DEF TypeOK
    <3>2. QED
      BY <2>3, <2>5, <3>1 DEF EffectsInv
  <2>7. RowsGrow /\ rows'[Target(a)] = "IN_PROGRESS"
    BY <1>2, WritesGrow DEF Written, Status
  <2>8. ~Fresh(q)'
    BY <2>3, <2>4, <2>7 DEF Fresh, TargetOf
  <2>9. \A r \in Request : Fresh(r)' => Fresh(r)
    BY <2>7, FreshNoMore
  <2>10. /\ attempt'[a].req = q
         /\ \A b \in Attempt : b # a => attempt'[b] = attempt[b]
    BY <1>2, <2>2 DEF TypeOK, AttemptRow, Goto
  <2>11. \A r \in Request, b \in Attempt : Places(b, r)' => (b = a /\ r = q) \/ (b # a /\ Places(b, r))
    BY <2>10 DEF Places, At
  <2>12. \A r \in Once : effects'[r] <= 1 /\ (effects'[r] > 0 => ~Fresh(r)')
    BY <1>2, <2>9 DEF EffectsInv, Once
  <2>13. \A r \in Request, b \in Attempt : Places(b, r)' => effects'[r] = 0 /\ ~Fresh(r)'
    <3> SUFFICES ASSUME NEW r \in Request, NEW b \in Attempt, Places(b, r)'
                 PROVE  effects'[r] = 0 /\ ~Fresh(r)'
      OBVIOUS
    <3>1. CASE b = a /\ r = q
      BY <1>2, <2>6, <2>8, <3>1 DEF Fresh
    <3>2. CASE Places(b, r)
      BY <1>2, <2>9, <3>2 DEF EffectsInv
    <3>3. QED
      BY <2>11, <3>1, <3>2
  <2>14. \A r \in Request, b, c \in Attempt : Places(b, r)' /\ Places(c, r)' => b = c
    BY <2>6, <2>11 DEF EffectsInv
  <2>15. QED
    BY <2>12, <2>13, <2>14 DEF EffectsInv, Once
<1>3. QED
  BY <1>1, <1>2 DEF CreateRecord

LEMMA LockRefusedKeepsEffects ==
    ASSUME TypeOK, EffectsInv, NEW a \in Attempt, LockRefused(a) \/ CompleteRecord(a)
    PROVE  EffectsInv'
<1>1. PICK status \in Written : Write(a, status)
  BY DEF LockRefused, CompleteRecord, Written, Status
<1>2. RowsGrow
  BY <1>1, WritesGrow
<1>3. PICK result : End(a, result)
  BY DEF LockRefused, CompleteRecord
<1>4. attempt'[a].pc = "ended" /\ \A b \in Attempt : b # a => attempt'[b] = attempt[b]
  BY <1>3, EndsElsewhere
<1>5. \A r \in Request, b \in Attempt : Places(b, r)' => Places(b, r)
  BY <1>4, PlacesAfterEnd DEF Step
<1>6. UNCHANGED effects
  BY DEF LockRefused, CompleteRecord
<1>7. QED
  BY <1>2, <1>5, <1>6, NoEffectKeepsEffects

LEMMA PlaceOrderKeepsEffects ==
    ASSUME TypeOK, EffectsInv, NEW a \in Attempt, PlaceOrder(a)
    PROVE  EffectsInv'
<1>1. attempt[a].req \in Request
  BY DEF TypeOK, AttemptRow
<1>2. PICK q \in Request : q = attempt[a].req
  BY <1>1
<1>3. Places(a, q)
  BY <1>2 DEF Places, PlaceOrder
<1>4. RowsGrow
  <2>1. CASE UNCHANGED rows
    BY <2>1, SameRows
  <2>2. CASE Write(a, "FAILED")
    BY <2>2, WritesGrow DEF Written, Status
  <2>3. QED
    BY <2>1, <2>2 DEF PlaceOrder
<1>5. attempt'[a].pc \in Step \ {"recorded"} /\ \A b \in Attempt : b # a => attempt'[b] = attempt[b]
  <2> DEFINE x == [attempt[a] EXCEPT !.pc = "placed", !.acted = TRUE]
             y == [attempt[a] EXCEPT !.pc = "ended", !.acted = TRUE, !.hit = TRUE, !.result = Failure]
  <2>1. attempt \in [Attempt -> AttemptRow] /\ attempt[a] \in AttemptRow
    BY DEF TypeOK
  <2>2. attempt' = [attempt EXCEPT ![a] = x] \/ attempt' = [attempt EXCEPT ![a] = y]
    BY Results DEF PlaceOrder
  <2>3. x.pc = "placed" /\ y.pc = "ended"
    BY <2>1 DEF AttemptRow
  <2> HIDE DEF x, y
  <2>4. QED
    BY <2>1, <2>2, <2>3 DEF Step
<1>6. \A r \in Request, b \in Attempt : Places(b, r)' => Places(b, r) /\ b # a
  BY <1>5 DEF Places, At
<1>7. \A r \in Request, b \in Attempt : Places(b, r)' => Places(b, r) /\ r # q
  BY <1>3, <1>6 DEF EffectsInv
<1>8. effects[q] = 0 /\ ~Fresh(q)
  BY <1>3 DEF EffectsInv
<1>9. ~Fresh(q)'
  BY <1>4, <1>8, FreshNoMore
<1>10. effects' = [effects EXCEPT ![q] = @ + 1]
  BY <1>2 DEF PlaceOrder
<1>11. QED
  BY <1>4, <1>7, <1>8, <1>9, <1>10, TakesEffect

-----------------------------------------------------------------------------
(***************************************************************************)
(* The other steps.                                                        *)
(***************************************************************************)

LEMMA InitEffects == Init => EffectsInv
BY DEF Init, EffectsInv, Once, Places, At, Unsent

LEMMA SendKeepsEffects ==
    ASSUME TypeOK, EffectsInv, NEW r \in Request, Send(r) PROVE EffectsInv'
<1> DEFINE a == sent + 1
           x(refusal) == [Unsent EXCEPT !.req = r, !.late = IsLate(r),
                                        !.pc = IF refusal = Nothing THEN "arrived" ELSE "ended"]
<1>1. PICK refusal \in Refusals(r) : attempt' = [attempt EXCEPT ![a] = x(refusal)]
  BY DEF Send
<1>2. a \in Attempt /\ RowsGrow /\ UNCHANGED effects
  BY SameRows DEF Send
<1>3. x(refusal).pc \in {"arrived", "ended"}
  BY DEF Unsent
<1> HIDE DEF a, x
<1>4. attempt'[a].pc \in Step \ {"recorded"} /\ \A b \in Attempt : b # a => attempt'[b] = attempt[b]
  BY <1>1, <1>2, <1>3 DEF TypeOK, Step
<1>5. \A q \in Request, b \in Attempt : Places(b, q)' => Places(b, q)
  BY <1>2, <1>4 DEF Places, At
<1>6. QED
  BY <1>2, <1>5, NoEffectKeepsEffects

LEMMA GatewayKeepsEffects ==
    ASSUME TypeOK, EffectsInv, NEW a \in Attempt,
           Answer(a) \/ Deadline(a) \/ Unavailable(a) \/ Throw(a)
    PROVE  EffectsInv'
<1>1. RowsGrow /\ UNCHANGED effects
  BY SameRows DEF Answer, Deadline, Unavailable, Throw
<1>2. attempt \in [Attempt -> AttemptRow] /\ attempt[a] \in AttemptRow
  BY DEF TypeOK
<1>3. \A r \in Request, b \in Attempt : Places(b, r)' => Places(b, r)
  <2>1. CASE UNCHANGED attempt
    BY <2>1 DEF Places, At
  <2>2. CASE Unavailable(a)
    <3>1. PICK pc \in {attempt[a].pc, "ended"} :
              attempt' = [attempt EXCEPT ![a] = [attempt[a] EXCEPT !.pc = pc, !.hit = TRUE]]
      BY <2>2 DEF Unavailable
    <3> DEFINE x == [attempt[a] EXCEPT !.pc = pc, !.hit = TRUE]
    <3>2. x.pc = pc /\ x.req = attempt[a].req
      BY <1>2 DEF AttemptRow
    <3>3. attempt' = [attempt EXCEPT ![a] = x]
      BY <3>1
    <3> HIDE DEF x
    <3>4. QED
      BY <1>2, <3>2, <3>3 DEF Places, At
  <2>3. CASE Throw(a)
    <3> DEFINE x == [attempt[a] EXCEPT !.pc = "ended", !.result = Failure, !.hit = TRUE]
    <3>1. attempt' = [attempt EXCEPT ![a] = x]
      BY <2>3, Results DEF Throw
    <3>2. x.pc = "ended"
      BY <1>2 DEF AttemptRow
    <3> HIDE DEF x
    <3>3. QED
      BY <1>2, <3>1, <3>2 DEF Places, At
  <2>4. QED
    BY <2>1, <2>2, <2>3 DEF Answer, Deadline
<1>4. QED
  BY <1>1, <1>3, NoEffectKeepsEffects

LEMMA ServicesKeepEffects ==
    ASSUME TypeOK, EffectsInv, NEW a \in Attempt,
           \/ CreateOrder(a) \/ CancelOrder(a) \/ GetOrder(a)
           \/ RequestWithdrawal(a) \/ GetWithdrawal(a) \/ DepositSandboxFunds(a)
           \/ RegisterMaster(a) \/ CreateSubscription(a) \/ CancelSubscription(a)
    PROVE  EffectsInv'
<1>1. ASSUME NEW e, Reply(a, e) PROVE EffectsInv'
  BY <1>1, ReplyKeepsEffects
<1>2. ASSUME Proceed(a, "found") PROVE EffectsInv'
  BY <1>2, ProceedKeepsEffects
<1>3. ASSUME NEW status \in Written, Write(a, status), EndWithEffect(a),
             attempt[a].req.route # "order",
             attempt[a].req \in Once => Row(a) = "NONE"
      PROVE  EffectsInv'
  BY <1>3, EffectKeepsEffects
<1>4. CASE CreateOrder(a)
  <2>1. CASE RefuseOrder(a)
    <3>1. Reply(a, Refused(400))
      BY <2>1 DEF RefuseOrder, Refused
    <3>2. QED
      BY <1>1, <3>1
  <2>2. CASE FindRecord(a)
    <3>1. Reply(a, Fine) \/ Reply(a, Refused(409)) \/ Proceed(a, "found")
      BY <2>2 DEF FindRecord, Refused
    <3>2. QED
      BY <1>1, <1>2, <3>1
  <2>3. QED
    BY <1>4, <2>1, <2>2, CreateRecordKeepsEffects, LockRefusedKeepsEffects, PlaceOrderKeepsEffects
       DEF CreateOrder
<1>5. CASE CancelOrder(a)
  <2>1. CASE FindOrder(a)
    <3>1. Reply(a, Refused(404)) \/ Reply(a, Refused(400)) \/ Proceed(a, "found")
      BY <2>1 DEF FindOrder, Refused
    <3>2. QED
      BY <1>1, <1>2, <3>1
  <2>2. CASE CancelRow(a)
    <3>1. CASE Row(a) \in {"OPEN", "PARTIALLY_FILLED"}
      BY <1>3, <2>2, <3>1 DEF CancelRow, At, Once, Written, Status
    <3>2. CASE Row(a) \notin {"OPEN", "PARTIALLY_FILLED"}
      <4>1. Reply(a, Refused(400))
        BY <2>2, <3>2 DEF CancelRow, Refused
      <4>2. QED
        BY <1>1, <4>1
    <3>3. QED
      BY <3>1, <3>2
  <2>3. QED
    BY <1>5, <2>1, <2>2 DEF CancelOrder
<1>6. CASE GetOrder(a)
  <2>1. Reply(a, Fine) \/ Reply(a, Refused(404))
    BY <1>6 DEF GetOrder, Refused
  <2>2. QED
    BY <1>1, <2>1
<1>7. CASE RequestWithdrawal(a)
  <2>1. CASE RefuseWithdrawal(a) \/ FindWithdrawal(a)
    BY <1>1, <1>2, <2>1 DEF RefuseWithdrawal, FindWithdrawal
  <2>2. CASE LockFunds(a)
    <3>1. CASE Proceed(a, "recorded")
      BY <2>2, <3>1, ProceedKeepsEffects DEF LockFunds, At
    <3>2. QED
      BY <1>1, <2>2, <3>1 DEF LockFunds
  <2>3. CASE InsertWithdrawal(a)
    <3>1. CASE Row(a) = "NONE"
      BY <1>3, <2>3, <3>1 DEF InsertWithdrawal, At, Written, Status
    <3>2. QED
      BY <1>1, <2>3, <3>1 DEF InsertWithdrawal
  <2>4. QED
    BY <1>7, <2>1, <2>2, <2>3 DEF RequestWithdrawal
<1>8. CASE GetWithdrawal(a)
  BY <1>1, <1>8 DEF GetWithdrawal
<1>9. CASE DepositSandboxFunds(a)
  <2>1. CASE Row(a) = "NONE" /\ At(a, "faucet", "arrived") /\ Write(a, "POSTED") /\ EndWithEffect(a)
    BY <1>3, <2>1 DEF At, Written, Status
  <2>2. QED
    BY <1>1, <1>9, <2>1 DEF DepositSandboxFunds, RefuseDeposit, PostDeposit
<1>10. CASE RegisterMaster(a)
  <2>1. CASE Row(a) = "NONE" /\ At(a, "register", "found") /\ Write(a, "ACTIVE") /\ EndWithEffect(a)
    BY <1>3, <2>1 DEF At, Written, Status
  <2>2. QED
    BY <1>1, <1>2, <1>10, <2>1 DEF RegisterMaster
<1>11. CASE CreateSubscription(a)
  <2>1. CASE At(a, "subscribe", "found") /\ Write(a, "ACTIVE") /\ EndWithEffect(a)
    BY <1>3, <2>1 DEF At, Written, Status, Once
  <2>2. QED
    BY <1>1, <1>2, <1>11, <2>1 DEF CreateSubscription, CheckSubscription, ActivateSubscription
<1>12. CASE CancelSubscription(a)
  <2>1. CASE At(a, "unsubscribe", "found") /\ Write(a, "TERMINATED") /\ EndWithEffect(a)
    BY <1>3, <2>1 DEF At, Written, Status, Once
  <2>2. QED
    BY <1>1, <1>2, <1>12, <2>1 DEF CancelSubscription
<1>13. QED
  BY <1>4, <1>5, <1>6, <1>7, <1>8, <1>9, <1>10, <1>11, <1>12

LEMMA TimeKeepsEffects ==
    ASSUME TypeOK, EffectsInv, NEW t \in Targets, Expire(t) \/ UpdateExecution(t)
    PROVE  EffectsInv'
<1>1. RowsGrow
  BY DEF Expire, UpdateExecution, RowsGrow, TypeOK
<1>2. UNCHANGED <<effects, attempt>>
  BY DEF Expire, UpdateExecution
<1>3. \A r \in Request, b \in Attempt : Places(b, r)' => Places(b, r)
  BY <1>2 DEF Places, At
<1>4. QED
  BY <1>1, <1>2, <1>3, NoEffectKeepsEffects

LEMMA NextKeepsEffects == TypeOK /\ EffectsInv /\ [Next]_vars => EffectsInv'
<1> SUFFICES ASSUME TypeOK, EffectsInv, [Next]_vars PROVE EffectsInv'
  OBVIOUS
<1>1. CASE UNCHANGED vars
  <2>1. UNCHANGED <<rows, effects, attempt>>
    BY <1>1 DEF vars
  <2>2. \A r \in Request, b \in Attempt : Places(b, r)' => Places(b, r)
    BY <2>1 DEF Places, At
  <2>3. QED
    BY <2>1, <2>2, SameRows, NoEffectKeepsEffects
<1>2. CASE \E r \in Request : Send(r)
  BY <1>2, SendKeepsEffects
<1>3. ASSUME NEW a \in Attempt, Answer(a) \/ Deadline(a) \/ Unavailable(a) \/ Throw(a) PROVE EffectsInv'
  BY <1>3, GatewayKeepsEffects
<1>4. CASE \E t \in Targets : Expire(t) \/ UpdateExecution(t)
  BY <1>4, TimeKeepsEffects
<1>5. QED
  BY <1>1, <1>2, <1>3, <1>4, ServicesKeepEffects DEF Next

-----------------------------------------------------------------------------
(***************************************************************************)
(* Cancellations.                                                          *)
(***************************************************************************)

\* Whatever is no cancellation writes to another table.
Uncancelled ==
    /\ \A r \in Request : r.route = "cancel" =>
           effects'[r] = effects[r] /\ rows'[TargetOf(r)] = rows[TargetOf(r)]
    /\ UNCHANGED overwritten

LEMMA UncancelledKeepsCancels ==
    ASSUME CancelsInv, Uncancelled
    PROVE  CancelsInv'
BY DEF CancelsInv, Uncancelled, TargetOf

LEMMA CancelsApart ==
    ASSUME NEW r \in Request, NEW a \in Attempt, r.route = "cancel",
           attempt[a].req \in Request, attempt[a].req.route # "cancel"
    PROVE  Target(a) # TargetOf(r)
<1>1. attempt[a].req.route \in Route
  BY RequestAssumption
<1>2. Table("cancel") = "orders" /\ \A route \in Route \ {"cancel"} : Table(route) # "orders"
  BY DEF Table, Route
<1>3. QED
  BY <1>1, <1>2 DEF Target, TargetOf

LEMMA OthersKeepCancels ==
    ASSUME TypeOK, CancelsInv, NEW a \in Attempt, attempt[a].req.route # "cancel",
           UNCHANGED rows \/ (\E status : Write(a, status)), UNCHANGED overwritten,
           UNCHANGED effects \/ effects' = [effects EXCEPT ![attempt[a].req] = @ + 1]
    PROVE  CancelsInv'
<1>1. attempt[a].req \in Request
  BY DEF TypeOK, AttemptRow
<1>2. ASSUME NEW r \in Request, r.route = "cancel"
      PROVE  effects'[r] = effects[r] /\ rows'[TargetOf(r)] = rows[TargetOf(r)]
  <2>1. Target(a) # TargetOf(r) /\ TargetOf(r) \in Targets
    BY <1>1, <1>2, CancelsApart, TargetsOfRequests
  <2>2. rows'[TargetOf(r)] = rows[TargetOf(r)]
    BY <2>1 DEF Write, TypeOK
  <2>3. effects'[r] = effects[r]
    BY <1>2 DEF TypeOK
  <2>4. QED
    BY <2>2, <2>3
<1>3. QED
  BY <1>2, UncancelledKeepsCancels DEF Uncancelled

LEMMA CancelOrderKeepsCancels ==
    ASSUME TypeOK, CancelsInv, NEW a \in Attempt, CancelOrder(a)
    PROVE  CancelsInv'
<1>1. CASE UNCHANGED <<rows, effects, overwritten>>
  BY <1>1, UncancelledKeepsCancels DEF Uncancelled
<1>2. CASE /\ At(a, "cancel", "found") /\ Row(a) \in {"OPEN", "PARTIALLY_FILLED"}
           /\ Write(a, "CANCELLED") /\ EndWithEffect(a)
  <2>1. PICK q \in Request : q = attempt[a].req
    BY DEF TypeOK, AttemptRow
  <2>2. q.route = "cancel" /\ Target(a) = TargetOf(q)
    BY <1>2, <2>1 DEF At, Target, TargetOf, SentKey
  <2>3. /\ effects' = [effects EXCEPT ![q] = @ + 1] /\ UNCHANGED overwritten
        /\ rows' = [rows EXCEPT ![TargetOf(q)] = "CANCELLED"]
    BY <1>2, <2>1, <2>2 DEF EndWithEffect, Write
  <2>4. rows[TargetOf(q)] # "CANCELLED"
    BY <1>2, <2>2 DEF Row
  <2>5. ASSUME NEW r \in Request, r.route = "cancel"
        PROVE  effects'[r] <= overwritten'[TargetOf(r)]
                              + (IF rows'[TargetOf(r)] = "CANCELLED" THEN 1 ELSE 0)
    <3>1. /\ TargetOf(r) \in Targets /\ TargetOf(q) \in Targets
          /\ overwritten[TargetOf(r)] \in Nat /\ effects[r] \in Nat
      BY TargetsOfRequests DEF TypeOK
    <3>2. effects[r] <= overwritten[TargetOf(r)] + (IF rows[TargetOf(r)] = "CANCELLED" THEN 1 ELSE 0)
      BY <2>5 DEF CancelsInv
    <3>3. CASE r = q
      <4>1. effects'[r] = effects[r] + 1 /\ rows'[TargetOf(r)] = "CANCELLED"
        BY <2>3, <3>1, <3>3 DEF TypeOK
      <4>2. QED
        BY <2>3, <2>4, <3>1, <3>2, <3>3, <4>1
    <3>4. CASE r # q
      <4>1. effects'[r] = effects[r]
        BY <2>3, <3>4 DEF TypeOK
      <4>2. rows[TargetOf(r)] = "CANCELLED" => rows'[TargetOf(r)] = "CANCELLED"
        BY <2>3, <3>1 DEF TypeOK
      <4>3. QED
        BY <2>3, <3>1, <3>2, <4>1, <4>2
    <3>5. QED
      BY <3>3, <3>4
  <2>6. QED
    BY <2>5 DEF CancelsInv, TargetOf
<1>3. QED
  BY <1>1, <1>2 DEF CancelOrder, FindOrder, CancelRow, Reply, Proceed

\* A match that overwrites CANCELLED is counted.
LEMMA UpdateExecutionKeepsCancels ==
    ASSUME TypeOK, CancelsInv, NEW t \in Targets, UpdateExecution(t)
    PROVE  CancelsInv'
<1>1. PICK status \in {"PARTIALLY_FILLED", "FILLED"} : rows' = [rows EXCEPT ![t] = status]
  BY DEF UpdateExecution
<1>2. overwritten' = [overwritten EXCEPT ![t] = IF rows[t] = "CANCELLED" THEN @ + 1 ELSE @]
      /\ UNCHANGED effects
  BY DEF UpdateExecution
<1>3. ASSUME NEW r \in Request, r.route = "cancel"
      PROVE  effects'[r] <= overwritten'[TargetOf(r)]
                            + (IF rows'[TargetOf(r)] = "CANCELLED" THEN 1 ELSE 0)
  <2>1. /\ TargetOf(r) \in Targets
        /\ overwritten[TargetOf(r)] \in Nat /\ effects[r] \in Nat
    BY TargetsOfRequests DEF TypeOK
  <2>2. effects[r] <= overwritten[TargetOf(r)] + (IF rows[TargetOf(r)] = "CANCELLED" THEN 1 ELSE 0)
    BY <1>3 DEF CancelsInv
  <2>3. CASE TargetOf(r) = t
    <3>1. overwritten'[t] = (IF rows[t] = "CANCELLED" THEN overwritten[t] + 1 ELSE overwritten[t])
      BY <1>2 DEF TypeOK
    <3>2. QED
      BY <1>2, <2>1, <2>2, <2>3, <3>1
  <2>4. CASE TargetOf(r) # t
    <3>1. overwritten'[TargetOf(r)] = overwritten[TargetOf(r)] /\ rows'[TargetOf(r)] = rows[TargetOf(r)]
      BY <1>1, <1>2, <2>1, <2>4 DEF TypeOK
    <3>2. QED
      BY <1>2, <2>1, <2>2, <3>1
  <2>5. QED
    BY <2>3, <2>4
<1>4. QED
  BY <1>3 DEF CancelsInv, TargetOf

LEMMA ServicesKeepCancels ==
    ASSUME TypeOK, CancelsInv, NEW a \in Attempt,
           \/ CreateOrder(a) \/ GetOrder(a)
           \/ RequestWithdrawal(a) \/ GetWithdrawal(a) \/ DepositSandboxFunds(a)
           \/ RegisterMaster(a) \/ CreateSubscription(a) \/ CancelSubscription(a)
    PROVE  CancelsInv'
<1> DEFINE Kept == /\ attempt[a].req.route # "cancel"
                   /\ UNCHANGED rows \/ (\E status : Write(a, status))
                   /\ UNCHANGED overwritten
                   /\ UNCHANGED effects \/ effects' = [effects EXCEPT ![attempt[a].req] = @ + 1]
<1>1. CASE CreateOrder(a)
  <2>1. Kept
    BY <1>1 DEF CreateOrder, RefuseOrder, FindRecord, CreateRecord, LockRefused, PlaceOrder, CompleteRecord,
                At, Reply, Proceed, Write
  <2>2. QED
    BY <2>1, OthersKeepCancels
<1>2. CASE GetOrder(a) \/ GetWithdrawal(a) \/ RequestWithdrawal(a)
  <2>1. Kept
    BY <1>2 DEF GetOrder, GetWithdrawal, RequestWithdrawal, RefuseWithdrawal, FindWithdrawal, LockFunds,
                InsertWithdrawal, At, Reply, Proceed, Write, EndWithEffect
  <2>2. QED
    BY <2>1, OthersKeepCancels
<1>3. CASE DepositSandboxFunds(a) \/ RegisterMaster(a)
  <2>1. Kept
    BY <1>3 DEF DepositSandboxFunds, RefuseDeposit, PostDeposit, RegisterMaster, At, Reply, Proceed, Write,
                EndWithEffect
  <2>2. QED
    BY <2>1, OthersKeepCancels
<1>4. CASE CreateSubscription(a) \/ CancelSubscription(a)
  <2>1. Kept
    BY <1>4 DEF CreateSubscription, CheckSubscription, ActivateSubscription, CancelSubscription, At, Reply,
                Proceed, Write, EndWithEffect
  <2>2. QED
    BY <2>1, OthersKeepCancels
<1>5. QED
  BY <1>1, <1>2, <1>3, <1>4

LEMMA NextKeepsCancels == TypeOK /\ CancelsInv /\ [Next]_vars => CancelsInv'
<1> SUFFICES ASSUME TypeOK, CancelsInv, [Next]_vars PROVE CancelsInv'
  OBVIOUS
<1>1. CASE UNCHANGED <<rows, effects, overwritten>>
  BY <1>1, UncancelledKeepsCancels DEF Uncancelled
<1>2. CASE \E t \in Targets : UpdateExecution(t)
  BY <1>2, UpdateExecutionKeepsCancels
<1>3. CASE \E a \in Attempt : CancelOrder(a)
  BY <1>3, CancelOrderKeepsCancels
<1>4. CASE \E a \in Attempt :
          \/ CreateOrder(a) \/ GetOrder(a)
          \/ RequestWithdrawal(a) \/ GetWithdrawal(a) \/ DepositSandboxFunds(a)
          \/ RegisterMaster(a) \/ CreateSubscription(a) \/ CancelSubscription(a)
  BY <1>4, ServicesKeepCancels
<1>5. QED
  BY <1>1, <1>2, <1>3, <1>4 DEF Next, vars, Send, Expire, Answer, Deadline, Unavailable, Throw

LEMMA InitCancels == Init => CancelsInv
<1> SUFFICES ASSUME Init, NEW r \in Request, r.route = "cancel"
             PROVE  effects[r] <= overwritten[TargetOf(r)]
                                  + (IF rows[TargetOf(r)] = "CANCELLED" THEN 1 ELSE 0)
  BY DEF CancelsInv
<1>1. effects[r] = 0 /\ overwritten[TargetOf(r)] = 0
  BY TargetsOfRequests DEF Init
<1>2. QED
  BY <1>1

\* A request with a key and a registration take effect once at most, and a cancellation once
\* more for every match that overwrote it, however often and however closely together they
\* are repeated, and whatever fails in between (idempotency records that outlive their
\* expiry, unique keys, conditional updates, and updateExecution that has no condition).
THEOREM GatewayOncePerRequest == Spec => []OncePerRequest
<1>1. ASSUME TypeOK, EffectsInv, CancelsInv PROVE OncePerRequest
  <2> SUFFICES ASSUME NEW r \in Request
               PROVE  CASE r.route \in {"subscribe", "unsubscribe"} -> TRUE
                        [] r.route = "faucet" /\ ~r.key -> TRUE
                        [] r.route = "cancel" -> effects[r] <= 1 + overwritten[TargetOf(r)]
                        [] OTHER -> effects[r] <= 1
    BY DEF OncePerRequest
  <2>1. r \in Once => effects[r] <= 1
    BY <1>1 DEF EffectsInv
  <2>2. r.route = "cancel" => effects[r] <= 1 + overwritten[TargetOf(r)]
    <3>1. effects[r] \in Nat /\ overwritten[TargetOf(r)] \in Nat
      BY <1>1, TargetsOfRequests DEF TypeOK
    <3>2. QED
      BY <1>1, <3>1 DEF CancelsInv
  <2>3. QED
    BY <2>1, <2>2, RequestAssumption DEF Once
<1>2. TypeOK /\ EffectsInv /\ CancelsInv => OncePerRequest
  BY <1>1
<1>3. QED
  BY <1>2, GatewayTypeOK, InitEffects, NextKeepsEffects, InitCancels, NextKeepsCancels, PTL DEF Spec
-----------------------------------------------------------------------------
(***************************************************************************)
(* Repetitions. What was finished is found again: a record that is         *)
(* completed stays so, as only its creator writes to it, and no row goes   *)
(* away.                                                                   *)
(***************************************************************************)

\* The order r is placed, or another one of its key.
Ordered(k) == \E r \in Request : r.route = "order" /\ r.target = k /\ effects[r] > 0

\* a has created the record of an order and is to complete it.
Recording(a) == attempt[a].req.route = "order" /\ attempt[a].pc \in {"recorded", "placed"}

IsCompleted(r) == r.route = "order" /\ rows[TargetOf(r)] = "COMPLETED"

RecordsInv ==
    /\ \A a \in Attempt : Recording(a) => Row(a) = "IN_PROGRESS"
    /\ \A a, b \in Attempt : Recording(a) /\ Recording(b) /\ Target(a) = Target(b) => a = b
    /\ \A a \in Attempt : At(a, "order", "placed") => effects[attempt[a].req] > 0
    /\ \A r \in Request : IsCompleted(r) => Ordered(r.target)

\* A call of r would find that r is done, or what r asks for.
Found(r) ==
    /\ Accepts(r) /\ r.valid
    /\ r.route = "order" => rows[TargetOf(r)] = "COMPLETED"
    /\ r.route \in {"order", "readOrder"} => Ordered(r.target)
    /\ r.route \in {"withdraw", "readWithdrawal", "register", "unsubscribe"} \/ (r.route = "faucet" /\ r.key)
           => rows[TargetOf(r)] # "NONE"

\* The call of a has passed the gateway, and the checks of the service.
CalledAt(a) ==
    /\ attempt[a].pc \in Early \cup {"placed"} => Accepts(attempt[a].req)
    /\ attempt[a].pc \in {"found", "recorded", "placed"} => attempt[a].req.valid

\* a repeats what is finished, and nothing breaks or has expired.
Repeats(a) ==
    /\ attempt[a].late /\ ~attempt[a].hit /\ attempt[a].req.token
    /\ attempt[a].req.route \notin {"cancel", "subscribe"}
    /\ attempt[a].req.route = "faucet" => attempt[a].req.key
    /\ attempt[a].req.route = "order" => Target(a) \notin expired

\* A subscription that is cancelled may be active again, and is cancelled again.
LateAt(a) ==
    Repeats(a) =>
        /\ Found(attempt[a].req)
        /\ \/ attempt[a].pc = "arrived"
           \/ attempt[a].pc = "found" /\ attempt[a].req.route = "unsubscribe"
           \/ attempt[a].pc = "ended" /\ attempt[a].result = Fine
        /\ told[a] \in {Nothing, Success, TimeoutStatus}

AckInv ==
    /\ RecordsInv
    /\ \A a \in Attempt : CalledAt(a)
    /\ \A r \in finished : Found(r)
    /\ \A a \in Attempt : LateAt(a)

LEMMA OwnTarget ==
    ASSUME NEW a \in Attempt, attempt[a].req.route = "faucet" => attempt[a].req.key
    PROVE  Target(a) = TargetOf(attempt[a].req)
BY DEF Target, TargetOf, SentKey

LEMMA Tables ==
    /\ Table("order") = "idempotency_records"
    /\ \A route \in Route \ {"order", "readOrder"} : Table(route) # "idempotency_records"
    /\ Table("withdraw") = Table("readWithdrawal")
BY DEF Table, Route

\* What has expired has done so for good.
LEMMA RepeatedBefore ==
    ASSUME NEW a \in Attempt, expired \subseteq expired', attempt'[a].req = attempt[a].req,
           attempt'[a].late = attempt[a].late, attempt[a].hit => attempt'[a].hit
    PROVE  Repeats(a)' => Repeats(a)
<1>1. Target(a)' = Target(a)
  BY DEF Target
<1>2. QED
  BY <1>1 DEF Repeats

\* What has taken effect has done so for good, and a record that is completed is.
Lasts ==
    /\ \A r \in Request : effects[r] > 0 => effects'[r] > 0
    /\ \A r \in Request : IsCompleted(r) => IsCompleted(r)'

LEMMA FoundLasts ==
    ASSUME TypeOK, RowsGrow, Lasts, NEW r \in Request, Found(r)
    PROVE  Found(r)'
<1>1. Ordered(r.target) => Ordered(r.target)'
  BY DEF Lasts, Ordered
<1>2. TargetOf(r) \in Targets
  BY TargetsOfRequests
<1>3. r.route = "order" => rows'[TargetOf(r)] = "COMPLETED"
  BY DEF Lasts, IsCompleted, Found, TargetOf
<1>4. rows'[TargetOf(r)] = "NONE" => rows[TargetOf(r)] = "NONE"
  BY <1>2 DEF RowsGrow
<1>5. QED
  BY <1>1, <1>3, <1>4 DEF Found, TargetOf

\* A step of attempt a.
LEMMA StepKeepsAck ==
    ASSUME TypeOK, AckInv, NEW a \in Attempt,
           \A b \in Attempt : b # a => attempt'[b] = attempt[b] /\ told'[b] = told[b],
           expired \subseteq expired', RowsGrow, Lasts, RecordsInv', CalledAt(a)',
           \A r \in finished' : r \in finished \/ Found(r)',
           LateAt(a)'
    PROVE  AckInv'
<1>1. ASSUME NEW b \in Attempt PROVE CalledAt(b)'
  <2>1. CASE b = a
    BY <2>1
  <2>2. CASE b # a
    BY <2>2 DEF AckInv, CalledAt
  <2>3. QED
    BY <2>1, <2>2
<1>2. ASSUME NEW b \in Attempt PROVE LateAt(b)'
  <2>1. CASE b = a
    BY <2>1
  <2>2. CASE b # a
    <3>1. attempt'[b] = attempt[b] /\ told'[b] = told[b] /\ LateAt(b)
      BY <2>2 DEF AckInv
    <3>2. attempt[b].req \in Request
      BY DEF TypeOK, AttemptRow
    <3>3. PICK q \in Request : q = attempt[b].req
      BY <3>2
    <3>4. Found(q) => Found(q)'
      BY FoundLasts
    <3>5. Repeats(b)' => Repeats(b)
      BY <3>1, RepeatedBefore
    <3>6. ASSUME Repeats(b) PROVE Found(attempt[b].req)'
      <4>1. Found(q)
        BY <3>1, <3>3, <3>6 DEF LateAt
      <4>2. Found(q)' /\ attempt'[b].req = q
        BY <3>1, <3>3, <3>4, <4>1
      <4>3. QED
        BY <4>2
    <3>7. QED
      BY <3>1, <3>5, <3>6 DEF LateAt
  <2>3. QED
    BY <2>1, <2>2
<1>3. ASSUME NEW r \in finished' PROVE Found(r)'
  BY FoundLasts DEF AckInv, TypeOK
<1>4. QED
  BY <1>1, <1>2, <1>3 DEF AckInv

\* A step that writes to no record of an order.
LEMMA RecordsStay ==
    ASSUME TypeOK, RecordsInv,
           \A t \in Targets : t[1] = "idempotency_records" => rows'[t] = rows[t],
           \A r \in Request : effects[r] > 0 => effects'[r] > 0,
           \A b \in Attempt : Recording(b)' => Recording(b) /\ attempt'[b].req = attempt[b].req,
           \A b \in Attempt : At(b, "order", "placed")' => At(b, "order", "placed") \/ effects'[attempt'[b].req] > 0
    PROVE  RecordsInv' /\ Lasts
<1>1. ASSUME NEW r \in Request PROVE IsCompleted(r) <=> IsCompleted(r)'
  <2>1. CASE r.route = "order"
    <3>1. TargetOf(r) \in Targets /\ TargetOf(r)[1] = "idempotency_records"
      BY <2>1, TargetsOfRequests, Tables DEF TargetOf
    <3>2. rows'[TargetOf(r)] = rows[TargetOf(r)]
      BY <3>1
    <3>3. QED
      BY <3>2 DEF IsCompleted, TargetOf
  <2>2. QED
    BY <2>1 DEF IsCompleted
<1>2. ASSUME NEW k, Ordered(k) PROVE Ordered(k)'
  BY <1>2 DEF Ordered
<1>3. ASSUME NEW b \in Attempt, Recording(b)'
      PROVE  Row(b)' = "IN_PROGRESS" /\ Target(b)' = Target(b)
  <2>1. Target(b)' = Target(b) /\ Recording(b)
    BY <1>3 DEF Target
  <2>2. Target(b) \in Targets /\ Target(b)[1] = "idempotency_records"
    BY <2>1, RowsOfAttempts, Tables DEF Target, Recording
  <2>3. rows'[Target(b)] = rows[Target(b)] /\ rows[Target(b)] = "IN_PROGRESS"
    BY <2>1, <2>2 DEF RecordsInv, Row
  <2>4. QED
    BY <2>1, <2>3 DEF Row
<1>4. ASSUME NEW b \in Attempt, At(b, "order", "placed")' PROVE effects'[attempt'[b].req] > 0
  <2>1. attempt'[b].req = attempt[b].req /\ attempt[b].req \in Request
    BY <1>4 DEF At, Recording, TypeOK, AttemptRow
  <2>2. QED
    BY <1>4, <2>1 DEF RecordsInv
<1>5. \A b, c \in Attempt : Recording(b)' /\ Recording(c)' /\ Target(b)' = Target(c)' => b = c
  BY <1>3 DEF RecordsInv
<1>6. \A r \in Request : IsCompleted(r)' => Ordered(r.target)'
  BY <1>1, <1>2 DEF RecordsInv
<1>7. Lasts
  BY <1>1 DEF Lasts
<1>8. QED
  BY <1>3, <1>4, <1>5, <1>6, <1>7 DEF RecordsInv

\* The call of a ends, and no row is written.
LEMMA ReplyKeepsAck ==
    ASSUME TypeOK, AckInv, NEW a \in Attempt, NEW result, Reply(a, result),
           result = Fine => Found(attempt[a].req),
           Repeats(a) => result = Fine
    PROVE  AckInv'
<1>1. /\ attempt'[a].pc = "ended" /\ attempt'[a].result = result
      /\ attempt'[a].req = attempt[a].req
      /\ attempt'[a].late = attempt[a].late /\ attempt'[a].hit = attempt[a].hit
  BY DEF TypeOK, AttemptRow, Reply, End
<1>2. \A b \in Attempt : b # a => attempt'[b] = attempt[b]
  BY DEF TypeOK, Reply, End
<1>3. UNCHANGED <<told, rows, expired, effects>>
  BY DEF Reply
<1>4. RecordsInv' /\ Lasts
  <2>1. \A b \in Attempt : Recording(b)' => Recording(b) /\ attempt'[b].req = attempt[b].req
    BY <1>1, <1>2 DEF Recording
  <2>2. \A b \in Attempt : At(b, "order", "placed")' => At(b, "order", "placed")
    BY <1>1, <1>2 DEF At
  <2>3. QED
    BY <1>3, <2>1, <2>2, RecordsStay DEF AckInv
<1>5. \A r \in Request : Found(r)' <=> Found(r)
  BY <1>3 DEF Found, Ordered
<1>6. attempt[a].req \in Request
  BY DEF TypeOK, AttemptRow
<1>7. PICK q \in Request : q = attempt[a].req
  BY <1>6
<1>8. \A r \in finished' : r \in finished \/ Found(r)'
  <2>1. \A r \in finished' : r \in finished \/ (r = q /\ result = Fine)
    BY <1>7 DEF Reply, End
  <2>2. result = Fine => Found(q)'
    BY <1>5, <1>7
  <2>3. QED
    BY <2>1, <2>2
<1>9. CalledAt(a)'
  BY <1>1 DEF CalledAt, Early
<1>10. LateAt(a)'
  <2> SUFFICES ASSUME Repeats(a)'
               PROVE  /\ Found(attempt[a].req)'
                      /\ attempt'[a].pc = "ended" /\ attempt'[a].result = Fine
                      /\ told'[a] \in {Nothing, Success, TimeoutStatus}
    BY DEF LateAt
  <2>1. Repeats(a)
    BY <1>1, <1>3, RepeatedBefore
  <2>2. Found(q) /\ result = Fine /\ told[a] \in {Nothing, Success, TimeoutStatus}
    BY <1>7, <2>1 DEF AckInv, LateAt
  <2>3. Found(q)' /\ attempt'[a].req = q
    BY <1>1, <1>5, <1>7, <2>2
  <2>4. Found(attempt[a].req)'
    BY <2>3
  <2>5. QED
    BY <1>1, <1>3, <2>2, <2>4
<1>11. QED
  BY <1>2, <1>3, <1>4, <1>8, <1>9, <1>10, SameRows, StepKeepsAck

\* The service goes on to its next statement.
LEMMA ProceedKeepsAck ==
    ASSUME TypeOK, AckInv, NEW a \in Attempt, NEW pc \in {"found", "recorded"}, Proceed(a, pc),
           attempt[a].pc \in {"arrived", "found"}, attempt[a].req.valid,
           pc = "found" \/ attempt[a].req.route # "order",
           Repeats(a) => pc = "found" /\ attempt[a].req.route = "unsubscribe"
    PROVE  AckInv'
<1>1. /\ attempt'[a].pc = pc /\ attempt'[a].req = attempt[a].req
      /\ attempt'[a].late = attempt[a].late /\ attempt'[a].hit = attempt[a].hit
  BY DEF TypeOK, AttemptRow, Proceed, Goto
<1>2. \A b \in Attempt : b # a => attempt'[b] = attempt[b]
  BY DEF TypeOK, Proceed, Goto
<1>3. UNCHANGED <<told, rows, expired, effects, finished>>
  BY DEF Proceed
<1>4. RecordsInv' /\ Lasts
  <2>1. \A b \in Attempt : Recording(b)' => Recording(b) /\ attempt'[b].req = attempt[b].req
    BY <1>1, <1>2 DEF Recording
  <2>2. \A b \in Attempt : At(b, "order", "placed")' => At(b, "order", "placed")
    BY <1>1, <1>2 DEF At
  <2>3. QED
    BY <1>3, <2>1, <2>2, RecordsStay DEF AckInv
<1>5. \A r \in Request : Found(r)' <=> Found(r)
  BY <1>3 DEF Found, Ordered
<1>6. attempt[a].req \in Request
  BY DEF TypeOK, AttemptRow
<1>7. PICK q \in Request : q = attempt[a].req
  BY <1>6
<1>8. CalledAt(a)'
  <2>1. Accepts(q) /\ q.valid /\ attempt'[a].req = q
    BY <1>1, <1>7 DEF AckInv, CalledAt, Early
  <2>2. Accepts(attempt[a].req)'
    <3>1. Accepts(q)'
      BY <2>1 DEF Accepts, OrdersAccepts, OrdersReads, TransfersAccepts, TransfersReads,
                  CopyTradingAccepts, SandboxAccepts
    <3>2. QED
      BY <2>1, <3>1
  <2>3. QED
    BY <2>1, <2>2 DEF CalledAt
<1>9. LateAt(a)'
  <2> SUFFICES ASSUME Repeats(a)'
               PROVE  /\ Found(attempt[a].req)'
                      /\ attempt'[a].pc = "found" /\ attempt'[a].req.route = "unsubscribe"
                      /\ told'[a] \in {Nothing, Success, TimeoutStatus}
    BY DEF LateAt
  <2>1. Repeats(a)
    BY <1>1, <1>3, RepeatedBefore
  <2>2. Found(q) /\ told[a] \in {Nothing, Success, TimeoutStatus}
    BY <1>7, <2>1 DEF AckInv, LateAt
  <2>3. Found(q)' /\ attempt'[a].req = q
    BY <1>1, <1>5, <1>7, <2>2
  <2>4. Found(attempt[a].req)'
    BY <2>3
  <2>5. QED
    BY <1>1, <1>3, <2>1, <2>2, <2>4
<1>10. QED
  BY <1>2, <1>3, <1>4, <1>8, <1>9, SameRows, StepKeepsAck

\* A write that is the effect of a's request, but not of an order.
LEMMA EffectKeepsAck ==
    ASSUME TypeOK, AckInv, NEW a \in Attempt, NEW status \in Written,
           Write(a, status), EndWithEffect(a), UNCHANGED told,
           attempt[a].pc \in Early, attempt[a].req.valid,
           attempt[a].req.route \notin {"order", "readOrder"}
    PROVE  AckInv'
<1>1. /\ attempt'[a].pc = "ended" /\ attempt'[a].result = Fine
      /\ attempt'[a].req = attempt[a].req
      /\ attempt'[a].late = attempt[a].late /\ attempt'[a].hit = attempt[a].hit
  BY DEF TypeOK, AttemptRow, EndWithEffect
<1>2. \A b \in Attempt : b # a => attempt'[b] = attempt[b]
  BY DEF TypeOK, EndWithEffect
<1>3. attempt[a].req \in Request
  BY DEF TypeOK, AttemptRow
<1>4. PICK q \in Request : q = attempt[a].req
  BY <1>3
<1>5. RowsGrow /\ rows'[Target(a)] = status /\ status # "NONE" /\ UNCHANGED expired
  BY WritesGrow DEF Written, Write
<1>6. \A r \in Request : effects[r] > 0 => effects'[r] > 0
  <2>1. effects \in [Request -> Nat] /\ effects' = [effects EXCEPT ![q] = @ + 1]
    BY <1>4 DEF TypeOK, EndWithEffect
  <2>2. QED
    BY <2>1
<1>7. RecordsInv' /\ Lasts
  <2>1. \A b \in Attempt : Recording(b)' => Recording(b) /\ attempt'[b].req = attempt[b].req
    BY <1>1, <1>2 DEF Recording
  <2>2. \A b \in Attempt : At(b, "order", "placed")' => At(b, "order", "placed")
    BY <1>1, <1>2 DEF At
  <2>3. Target(a)[1] # "idempotency_records"
    BY <1>4, RequestAssumption, Tables DEF Target
  <2>4. \A t \in Targets : t # Target(a) => rows'[t] = rows[t]
    BY DEF TypeOK, Write
  <2>5. \A t \in Targets : t[1] = "idempotency_records" => rows'[t] = rows[t]
    BY <2>3, <2>4
  <2>6. QED
    BY <1>6, <2>1, <2>2, <2>5, RecordsStay DEF AckInv
<1>8. Found(q)'
  <2>1. Accepts(q) /\ q.valid /\ q.route \notin {"order", "readOrder"}
    BY <1>4 DEF AckInv, CalledAt
  <2>2. (q.route = "faucet" => q.key) => rows'[TargetOf(q)] # "NONE"
    BY <1>4, <1>5, OwnTarget
  <2>3. QED
    BY <2>1, <2>2 DEF Found, TargetOf, Accepts, OrdersAccepts, OrdersReads, TransfersAccepts,
                      TransfersReads, CopyTradingAccepts, SandboxAccepts
<1>9. \A r \in finished' : r \in finished \/ Found(r)'
  <2>1. finished' = finished \cup {q}
    BY <1>4 DEF EndWithEffect
  <2>2. QED
    BY <1>8, <2>1
<1>10. CalledAt(a)'
  BY <1>1 DEF CalledAt, Early
<1>11. LateAt(a)'
  <2>1. Found(attempt[a].req)'
    BY <1>1, <1>4, <1>8
  <2>2. Repeats(a)' => Repeats(a)
    BY <1>1, <1>5, RepeatedBefore
  <2>3. Repeats(a) => told[a] \in {Nothing, Success, TimeoutStatus}
    BY DEF AckInv, LateAt
  <2>4. QED
    BY <1>1, <2>1, <2>2, <2>3 DEF LateAt
<1>12. QED
  BY <1>2, <1>5, <1>7, <1>9, <1>10, <1>11, StepKeepsAck

-----------------------------------------------------------------------------
(***************************************************************************)
(* The steps of an order.                                                  *)
(***************************************************************************)

\* a writes to the record of its order, which nobody else is to complete.
LEMMA RecordWritten ==
    ASSUME TypeOK, RecordsInv, NEW a \in Attempt, NEW status \in Written, Write(a, status),
           attempt[a].req.route = "order", Row(a) \in {"NONE", "IN_PROGRESS"},
           \A b \in Attempt : b # a => attempt'[b] = attempt[b],
           attempt'[a].req = attempt[a].req,
           \A b \in Attempt : b # a /\ Recording(b) => Target(b) # Target(a),
           Recording(a)' => status = "IN_PROGRESS",
           ~At(a, "order", "placed")',
           \A r \in Request : effects[r] > 0 => effects'[r] > 0,
           status = "COMPLETED" => effects'[attempt[a].req] > 0
    PROVE  RecordsInv' /\ Lasts /\ RowsGrow
<1>1. Target(a) \in Targets /\ rows'[Target(a)] = status /\ RowsGrow
  BY RowsOfAttempts, WritesGrow
<1>2. \A t \in Targets : t # Target(a) => rows'[t] = rows[t]
  BY DEF TypeOK, Write
<1>3. PICK q \in Request : q = attempt[a].req
  BY DEF TypeOK, AttemptRow
<1>4. Target(a) = TargetOf(q) /\ q.route = "order"
  BY <1>3, OwnTarget
<1>5. ASSUME NEW r \in Request, IsCompleted(r) PROVE IsCompleted(r)'
  <2>1. TargetOf(r) \in Targets /\ TargetOf(r) # Target(a)
    BY <1>5, TargetsOfRequests DEF IsCompleted, Row
  <2>2. QED
    BY <1>2, <1>5, <2>1 DEF IsCompleted, TargetOf
<1>6. ASSUME NEW k, Ordered(k) PROVE Ordered(k)'
  BY <1>6 DEF Ordered
<1>7. ASSUME NEW r \in Request, IsCompleted(r)' PROVE Ordered(r.target)'
  <2>1. r.route = "order" /\ rows'[TargetOf(r)] = "COMPLETED" /\ TargetOf(r) \in Targets
    BY <1>7, TargetsOfRequests DEF IsCompleted, TargetOf
  <2>2. CASE TargetOf(r) # Target(a)
    <3>1. IsCompleted(r)
      BY <1>2, <2>1, <2>2 DEF IsCompleted
    <3>2. Ordered(r.target)
      BY <3>1 DEF RecordsInv
    <3>3. QED
      BY <1>6, <3>2
  <2>3. CASE TargetOf(r) = Target(a)
    <3>1. q.target = r.target
      BY <1>4, <2>3 DEF TargetOf
    <3>2. effects'[q] > 0
      BY <1>1, <1>3, <2>1, <2>3
    <3>3. QED
      BY <1>4, <3>1, <3>2 DEF Ordered
  <2>4. QED
    BY <2>2, <2>3
<1>8. ASSUME NEW b \in Attempt, b # a, Recording(b)'
      PROVE  Recording(b) /\ Target(b)' = Target(b) /\ Target(b) # Target(a) /\ Row(b)' = "IN_PROGRESS"
  <2>1. Recording(b) /\ Target(b)' = Target(b)
    BY <1>8 DEF Recording, Target
  <2>2. Target(b) # Target(a) /\ Target(b) \in Targets
    BY <1>8, <2>1, RowsOfAttempts
  <2>3. rows'[Target(b)] = rows[Target(b)] /\ rows[Target(b)] = "IN_PROGRESS"
    BY <1>2, <2>1, <2>2 DEF RecordsInv, Row
  <2>4. QED
    BY <2>1, <2>2, <2>3 DEF Row
<1>9. Target(a)' = Target(a)
  BY DEF Target
<1>10. \A b \in Attempt : Recording(b)' => Row(b)' = "IN_PROGRESS"
  <2>1. Recording(a)' => Row(a)' = "IN_PROGRESS"
    BY <1>1, <1>9 DEF Row
  <2>2. QED
    BY <1>8, <2>1
<1>11. \A b, c \in Attempt : Recording(b)' /\ Recording(c)' /\ Target(b)' = Target(c)' => b = c
  BY <1>8, <1>9 DEF RecordsInv
<1>12. ASSUME NEW b \in Attempt, At(b, "order", "placed")' PROVE effects'[attempt'[b].req] > 0
  <2>1. b # a
    BY <1>12
  <2>2. At(b, "order", "placed") /\ attempt'[b] = attempt[b]
    BY <1>12, <2>1 DEF At
  <2>3. attempt[b].req \in Request
    BY DEF TypeOK, AttemptRow
  <2>4. QED
    BY <2>2, <2>3 DEF RecordsInv
<1>13. RecordsInv'
  BY <1>7, <1>10, <1>11, <1>12 DEF RecordsInv
<1>14. QED
  BY <1>1, <1>5, <1>13 DEF Lasts

\* Who creates or completes a record repeats nothing that is finished.
LEMMA OrdersAreNew ==
    ASSUME AckInv, NEW a \in Attempt, attempt[a].req.route = "order",
           attempt[a].pc \in {"found", "recorded", "placed"}
    PROVE  ~Repeats(a)
BY DEF AckInv, LateAt

LEMMA NotLate ==
    ASSUME NEW a \in Attempt, ~Repeats(a), UNCHANGED expired, attempt'[a].req = attempt[a].req,
           attempt'[a].late = attempt[a].late, attempt[a].hit => attempt'[a].hit
    PROVE  LateAt(a)'
BY RepeatedBefore DEF LateAt

LEMMA CreateRecordKeepsAck ==
    ASSUME TypeOK, AckInv, NEW a \in Attempt, CreateRecord(a)
    PROVE  AckInv'
<1>1. attempt[a].req.route = "order" /\ attempt[a].pc = "found"
  BY DEF CreateRecord, At
<1>2. ~Repeats(a)
  BY <1>1, OrdersAreNew
<1>3. CASE Reply(a, PlainError(FALSE))
  <2>1. PlainError(FALSE) # Fine
    BY DEF PlainError, Fine
  <2>2. QED
    BY <1>2, <1>3, <2>1, ReplyKeepsAck
<1>4. CASE Row(a) = "NONE" /\ Write(a, "IN_PROGRESS") /\ Goto(a, "recorded")
           /\ UNCHANGED <<sent, told, finished, effects>>
  <2>1. /\ attempt'[a].pc = "recorded" /\ attempt'[a].req = attempt[a].req
        /\ attempt'[a].late = attempt[a].late /\ attempt'[a].hit = attempt[a].hit
    BY <1>4 DEF TypeOK, AttemptRow, Goto
  <2>2. UNCHANGED expired /\ \A b \in Attempt : b # a => attempt'[b] = attempt[b]
    BY <1>4 DEF TypeOK, Goto, Write
  <2>3. \A b \in Attempt : b # a /\ Recording(b) => Target(b) # Target(a)
    BY <1>4 DEF AckInv, RecordsInv, Row
  <2>4. ~At(a, "order", "placed")'
    BY <2>1 DEF At
  <2>5. RecordsInv' /\ Lasts /\ RowsGrow
    BY <1>1, <1>4, <2>1, <2>2, <2>3, <2>4, RecordWritten DEF AckInv, Written, Status
  <2>6. CalledAt(a)'
    BY <1>1, <2>1 DEF AckInv, CalledAt, Early, Accepts, OrdersAccepts, OrdersReads, TransfersAccepts,
                      TransfersReads, CopyTradingAccepts, SandboxAccepts
  <2>7. LateAt(a)'
    BY <1>2, <2>1, <2>2, NotLate
  <2>8. QED
    BY <1>4, <2>2, <2>5, <2>6, <2>7, StepKeepsAck
<1>5. QED
  BY <1>3, <1>4 DEF CreateRecord

LEMMA LockRefusedKeepsAck ==
    ASSUME TypeOK, AckInv, NEW a \in Attempt, LockRefused(a)
    PROVE  AckInv'
<1>1. attempt[a].req.route = "order" /\ attempt[a].pc = "recorded" /\ Recording(a)
  BY DEF LockRefused, At, Recording
<1>2. ~Repeats(a)
  BY <1>1, OrdersAreNew
<1>3. PICK named \in BOOLEAN : End(a, RpcException(402, named))
  BY DEF LockRefused
<1>4. Write(a, "FAILED") /\ UNCHANGED <<told, expired, effects>>
  BY DEF LockRefused, Write
<1>5. /\ attempt'[a].pc = "ended" /\ attempt'[a].req = attempt[a].req
      /\ attempt'[a].late = attempt[a].late /\ attempt'[a].hit = attempt[a].hit
  BY <1>3 DEF TypeOK, AttemptRow, End
<1>6. \A b \in Attempt : b # a => attempt'[b] = attempt[b]
  BY <1>3 DEF TypeOK, End
<1>7. finished' = finished
  <2>1. RpcException(402, named) # Fine
    BY DEF RpcException, Fine
  <2>2. QED
    BY <1>3, <2>1 DEF End
<1>8. Row(a) = "IN_PROGRESS" /\ \A b \in Attempt : b # a /\ Recording(b) => Target(b) # Target(a)
  BY <1>1 DEF AckInv, RecordsInv
<1>9. ~At(a, "order", "placed")' /\ ~Recording(a)'
  BY <1>5 DEF At, Recording
<1>10. RecordsInv' /\ Lasts /\ RowsGrow
  BY <1>1, <1>4, <1>5, <1>6, <1>8, <1>9, RecordWritten DEF AckInv, Written, Status
<1>11. CalledAt(a)'
  BY <1>5 DEF CalledAt, Early
<1>12. LateAt(a)'
  BY <1>2, <1>4, <1>5, NotLate
<1>13. QED
  BY <1>4, <1>6, <1>7, <1>10, <1>11, <1>12, StepKeepsAck

LEMMA CompleteRecordKeepsAck ==
    ASSUME TypeOK, AckInv, NEW a \in Attempt, CompleteRecord(a)
    PROVE  AckInv'
<1>1. attempt[a].req.route = "order" /\ attempt[a].pc = "placed" /\ Recording(a) /\ At(a, "order", "placed")
  BY DEF CompleteRecord, At, Recording
<1>2. ~Repeats(a)
  BY <1>1, OrdersAreNew
<1>3. Write(a, "COMPLETED") /\ End(a, Fine) /\ UNCHANGED <<told, expired, effects>>
  BY DEF CompleteRecord, Write
<1>4. /\ attempt'[a].pc = "ended" /\ attempt'[a].req = attempt[a].req
      /\ attempt'[a].late = attempt[a].late /\ attempt'[a].hit = attempt[a].hit
  BY <1>3 DEF TypeOK, AttemptRow, End
<1>5. \A b \in Attempt : b # a => attempt'[b] = attempt[b]
  BY <1>3 DEF TypeOK, End
<1>6. PICK q \in Request : q = attempt[a].req
  BY DEF TypeOK, AttemptRow
<1>7. effects[q] > 0 /\ effects'[q] > 0
  BY <1>1, <1>3, <1>6 DEF AckInv, RecordsInv
<1>8. Row(a) = "IN_PROGRESS" /\ \A b \in Attempt : b # a /\ Recording(b) => Target(b) # Target(a)
  BY <1>1 DEF AckInv, RecordsInv
<1>9. ~At(a, "order", "placed")' /\ ~Recording(a)'
  BY <1>4 DEF At, Recording
<1>10. RecordsInv' /\ Lasts /\ RowsGrow
  BY <1>1, <1>3, <1>4, <1>5, <1>6, <1>7, <1>8, <1>9, RecordWritten DEF AckInv, Written, Status
<1>11. Found(q)'
  <2>1. Accepts(q) /\ q.valid /\ q.route = "order"
    BY <1>1, <1>6 DEF AckInv, CalledAt
  <2>2. rows'[TargetOf(q)] = "COMPLETED"
    BY <1>1, <1>3, <1>6, OwnTarget, WritesGrow DEF Written, Status
  <2>3. Ordered(q.target)'
    BY <1>7, <2>1 DEF Ordered
  <2>4. QED
    BY <2>1, <2>2, <2>3 DEF Found, TargetOf, Accepts, OrdersAccepts, OrdersReads, TransfersAccepts,
                            TransfersReads, CopyTradingAccepts, SandboxAccepts
<1>12. \A r \in finished' : r \in finished \/ Found(r)'
  <2>1. finished' = finished \cup {q}
    BY <1>3, <1>6 DEF End
  <2>2. QED
    BY <1>11, <2>1
<1>13. CalledAt(a)'
  BY <1>4 DEF CalledAt, Early
<1>14. LateAt(a)'
  BY <1>2, <1>3, <1>4, NotLate
<1>15. QED
  BY <1>3, <1>5, <1>10, <1>12, <1>13, <1>14, StepKeepsAck

LEMMA PlaceOrderKeepsAck ==
    ASSUME TypeOK, AckInv, NEW a \in Attempt, PlaceOrder(a)
    PROVE  AckInv'
<1>1. attempt[a].req.route = "order" /\ attempt[a].pc = "recorded" /\ Recording(a)
  BY DEF PlaceOrder, At, Recording
<1>2. ~Repeats(a)
  BY <1>1, OrdersAreNew
<1>3. PICK q \in Request : q = attempt[a].req
  BY DEF TypeOK, AttemptRow
<1>4. effects' = [effects EXCEPT ![q] = @ + 1] /\ UNCHANGED <<told, expired, finished>>
  BY <1>3 DEF PlaceOrder, Write
<1>5. effects'[q] > 0 /\ \A r \in Request : effects[r] > 0 => effects'[r] > 0
  BY <1>4 DEF TypeOK
<1>6. /\ attempt'[a].req = attempt[a].req /\ attempt'[a].late = attempt[a].late
      /\ attempt[a].hit => attempt'[a].hit
      /\ \/ attempt'[a].pc = "placed" /\ UNCHANGED rows
         \/ attempt'[a].pc = "ended" /\ Write(a, "FAILED")
      /\ \A b \in Attempt : b # a => attempt'[b] = attempt[b]
  <2> DEFINE x == [attempt[a] EXCEPT !.pc = "placed", !.acted = TRUE]
             y == [attempt[a] EXCEPT !.pc = "ended", !.acted = TRUE, !.hit = TRUE, !.result = Failure]
  <2>1. attempt \in [Attempt -> AttemptRow] /\ attempt[a] \in AttemptRow
    BY DEF TypeOK
  <2>2. \/ attempt' = [attempt EXCEPT ![a] = x] /\ UNCHANGED rows
        \/ attempt' = [attempt EXCEPT ![a] = y] /\ Write(a, "FAILED")
    BY Results DEF PlaceOrder
  <2>3. /\ x.pc = "placed" /\ x.req = attempt[a].req /\ x.late = attempt[a].late /\ x.hit = attempt[a].hit
        /\ y.pc = "ended" /\ y.req = attempt[a].req /\ y.late = attempt[a].late /\ y.hit
    BY <2>1 DEF AttemptRow
  <2> HIDE DEF x, y
  <2>4. QED
    BY <2>1, <2>2, <2>3
<1>7. Row(a) = "IN_PROGRESS" /\ \A b \in Attempt : b # a /\ Recording(b) => Target(b) # Target(a)
  BY <1>1 DEF AckInv, RecordsInv
<1>8. RecordsInv' /\ Lasts /\ RowsGrow
  <2>1. CASE attempt'[a].pc = "placed" /\ UNCHANGED rows
    <3>1. \A b \in Attempt : Recording(b)' => Recording(b) /\ attempt'[b].req = attempt[b].req
      BY <1>1, <1>6 DEF Recording
    <3>2. \A b \in Attempt : At(b, "order", "placed")' => At(b, "order", "placed") \/ effects'[attempt'[b].req] > 0
      BY <1>3, <1>5, <1>6 DEF At
    <3>3. QED
      BY <1>5, <2>1, <3>1, <3>2, RecordsStay, SameRows DEF AckInv
  <2>2. CASE attempt'[a].pc = "ended" /\ Write(a, "FAILED")
    <3>1. ~At(a, "order", "placed")' /\ ~Recording(a)'
      BY <2>2 DEF At, Recording
    <3>2. QED
      BY <1>1, <1>5, <1>6, <1>7, <2>2, <3>1, RecordWritten DEF AckInv, Written, Status
  <2>3. QED
    BY <1>6, <2>1, <2>2
<1>9. CalledAt(a)'
  <2>1. Accepts(q) /\ q.valid
    BY <1>1, <1>3 DEF AckInv, CalledAt, Early
  <2>2. Accepts(q)' /\ attempt'[a].req = q
    BY <1>3, <1>6, <2>1 DEF Accepts, OrdersAccepts, OrdersReads, TransfersAccepts,
                            TransfersReads, CopyTradingAccepts, SandboxAccepts
  <2>3. Accepts(attempt[a].req)'
    BY <2>2
  <2>4. QED
    BY <2>1, <2>2, <2>3 DEF CalledAt
<1>10. LateAt(a)'
  BY <1>2, <1>4, <1>6, NotLate
<1>11. QED
  BY <1>4, <1>6, <1>8, <1>9, <1>10, StepKeepsAck

-----------------------------------------------------------------------------
(***************************************************************************)
(* The other steps.                                                        *)
(***************************************************************************)

LEMMA Errors ==
    /\ \A code, named : RpcException(code, named) # Fine
    /\ \A status : HttpException(status) # Fine
    /\ \A named : PlainError(named) # Fine
    /\ \A code : Refused(code) # Fine
BY DEF RpcException, HttpException, PlainError, Refused, Fine

\* Whose body no service looks at.
LEMMA BodyIsValid ==
    ASSUME TypeOK, NEW a \in Attempt, attempt[a].req.route \notin {"order", "withdraw", "faucet"}
    PROVE  attempt[a].req.valid
BY RequestAssumption DEF TypeOK, AttemptRow

\* Calls whose service looks whether there is a row.
LooksForRow(a) == attempt[a].req.route \in {"withdraw", "readWithdrawal", "register", "unsubscribe", "faucet"}

LEMMA RowIsFound ==
    ASSUME TypeOK, AckInv, NEW a \in Attempt, LooksForRow(a), attempt[a].pc \in Early,
           attempt[a].req.valid, Row(a) # "NONE"
    PROVE  Found(attempt[a].req)
<1>1. Accepts(attempt[a].req)
  BY DEF AckInv, CalledAt
<1>2. (attempt[a].req.route = "faucet" => attempt[a].req.key) => rows[TargetOf(attempt[a].req)] # "NONE"
  BY OwnTarget DEF Row
<1>3. QED
  BY <1>1, <1>2 DEF Found, LooksForRow

LEMMA LateFindsRow ==
    ASSUME TypeOK, AckInv, NEW a \in Attempt, LooksForRow(a), Repeats(a)
    PROVE  Row(a) # "NONE" /\ attempt[a].req.valid
<1>1. Found(attempt[a].req)
  BY DEF AckInv, LateAt
<1>2. Target(a) = TargetOf(attempt[a].req)
  BY OwnTarget DEF Repeats
<1>3. QED
  BY <1>1, <1>2 DEF Found, LooksForRow, Repeats, Row

LEMMA InitAck == Init => AckInv
<1> SUFFICES ASSUME Init PROVE AckInv
  OBVIOUS
<1>1. \A a \in Attempt : attempt[a] = Unsent
  BY DEF Init
<1>2. Unsent.pc = "unsent" /\ ~Unsent.late
  BY DEF Unsent
<1>3. \A a \in Attempt : ~Recording(a) /\ ~At(a, "order", "placed") /\ CalledAt(a) /\ LateAt(a)
  BY <1>1, <1>2 DEF Recording, At, CalledAt, LateAt, Repeats, Early
<1>4. \A r \in Request : ~IsCompleted(r)
  <2>1. \A t \in Targets : rows[t] # "COMPLETED"
    BY DEF Init
  <2>2. QED
    BY <2>1, TargetsOfRequests DEF IsCompleted
<1>5. finished = {}
  BY DEF Init
<1>6. QED
  BY <1>3, <1>4, <1>5 DEF AckInv, RecordsInv

\* What a late request asks for is found.
LEMMA LateIsFound ==
    ASSUME TypeOK, AckInv, NEW r \in Request, IsLate(r), r.route \notin {"cancel", "subscribe"}
    PROVE  Found(r)
<1>1. PICK q \in finished : \/ q = r
                            \/ q.target = r.target
                               /\ <<q.route, r.route>> \in {<<"order", "readOrder">>, <<"withdraw", "readWithdrawal">>}
  BY DEF IsLate
<1>2. Found(q)
  BY DEF AckInv
<1>3. CASE q.target = r.target /\ q.route = "order" /\ r.route = "readOrder"
  <2>1. Ordered(r.target)
    BY <1>2, <1>3 DEF Found
  <2>2. r.valid /\ Accepts(r)
    BY <1>3, RequestAssumption DEF Accepts, OrdersReads
  <2>3. QED
    BY <1>3, <2>1, <2>2 DEF Found
<1>4. CASE q.target = r.target /\ q.route = "withdraw" /\ r.route = "readWithdrawal"
  <2>1. TargetOf(r) = TargetOf(q)
    BY <1>4, Tables DEF TargetOf
  <2>2. rows[TargetOf(r)] # "NONE"
    BY <1>2, <1>4, <2>1 DEF Found
  <2>3. r.valid /\ Accepts(r)
    BY <1>4, RequestAssumption DEF Accepts, TransfersReads
  <2>4. QED
    BY <1>4, <2>2, <2>3 DEF Found
<1>5. QED
  BY <1>1, <1>2, <1>3, <1>4

LEMMA SendKeepsAck ==
    ASSUME TypeOK, AckInv, NEW r \in Request, Send(r) PROVE AckInv'
<1> DEFINE c == sent + 1
<1>1. PICK refusal \in Refusals(r) :
          /\ told' = [told EXCEPT ![c] = refusal]
          /\ attempt' = [attempt EXCEPT ![c] =
                 [Unsent EXCEPT !.req = r, !.late = IsLate(r),
                                !.pc = IF refusal = Nothing THEN "arrived" ELSE "ended"]]
  BY Zenon DEF Send
<1>2. PICK a \in Attempt : a = sent + 1
  BY DEF Send
<1> DEFINE x == [Unsent EXCEPT !.req = r, !.late = IsLate(r),
                               !.pc = IF refusal = Nothing THEN "arrived" ELSE "ended"]
<1>3. /\ UNCHANGED <<rows, expired, finished, effects, overwritten>>
      /\ x.req = r /\ x.late = IsLate(r) /\ x.pc = IF refusal = Nothing THEN "arrived" ELSE "ended"
  BY DEF Send, Unsent
<1>4. attempt' = [attempt EXCEPT ![a] = x] /\ told' = [told EXCEPT ![a] = refusal]
  BY <1>1, <1>2
<1> HIDE DEF x
<1>5. /\ attempt'[a] = x /\ told'[a] = refusal
      /\ \A b \in Attempt : b # a => attempt'[b] = attempt[b] /\ told'[b] = told[b]
  BY <1>4 DEF TypeOK
<1>6. attempt'[a].req = r /\ attempt'[a].late = IsLate(r) /\ attempt'[a].pc \in {"arrived", "ended"}
      /\ (attempt'[a].pc = "arrived" <=> refusal = Nothing)
  BY <1>3, <1>5
<1>7. RecordsInv' /\ Lasts
  <2>1. \A b \in Attempt : Recording(b)' => Recording(b) /\ attempt'[b].req = attempt[b].req
    BY <1>5, <1>6 DEF Recording
  <2>2. \A b \in Attempt : At(b, "order", "placed")' => At(b, "order", "placed")
    BY <1>5, <1>6 DEF At
  <2>3. QED
    BY <1>3, <2>1, <2>2, RecordsStay DEF AckInv
<1>8. CalledAt(a)'
  <2>1. refusal = Nothing => Accepts(r)
    BY DEF Refusals, Nothing
  <2>2. Accepts(r) => Accepts(r)'
    BY DEF Accepts, OrdersAccepts, OrdersReads, TransfersAccepts,
           TransfersReads, CopyTradingAccepts, SandboxAccepts
  <2>3. refusal = Nothing => Accepts(attempt[a].req)'
    BY <1>6, <2>1, <2>2
  <2>4. QED
    BY <1>6, <2>3 DEF CalledAt, Early
<1>9. LateAt(a)'
  <2> SUFFICES ASSUME Repeats(a)'
               PROVE  Found(attempt[a].req)' /\ attempt'[a].pc = "arrived" /\ told'[a] = Nothing
    BY DEF LateAt
  <2>1. r.token /\ IsLate(r) /\ r.route \notin {"cancel", "subscribe"}
    BY <1>6 DEF Repeats
  <2>2. Found(r)
    BY <2>1, LateIsFound
  <2>3. refusal = Nothing
    BY <2>1, <2>2 DEF Found, Refusals
  <2>4. Found(r)'
    BY <1>3, <1>7, <2>2, FoundLasts, SameRows
  <2>5. Found(attempt[a].req)'
    BY <1>6, <2>4
  <2>6. QED
    BY <1>5, <1>6, <2>3, <2>5
<1>10. QED
  BY <1>3, <1>5, <1>7, <1>8, <1>9, SameRows, StepKeepsAck

\* Steps of the gateway, and a statement that throws.
LEMMA GatewayKeepsAck ==
    ASSUME TypeOK, AckInv, NEW a \in Attempt,
           Answer(a) \/ Deadline(a) \/ Unavailable(a) \/ Throw(a)
    PROVE  AckInv'
<1>1. UNCHANGED <<rows, expired, effects, finished>>
  BY DEF Answer, Deadline, Unavailable, Throw
<1>2. attempt \in [Attempt -> AttemptRow] /\ attempt[a] \in AttemptRow /\ told \in [Attempt -> Nat]
  BY DEF TypeOK
<1>3. /\ attempt'[a].req = attempt[a].req /\ attempt'[a].late = attempt[a].late
      /\ attempt'[a].pc \in {attempt[a].pc, "ended"}
      /\ \/ attempt'[a].hit /\ told' \in [Attempt -> Nat]
         \/ attempt' = attempt /\ (Answer(a) \/ Deadline(a))
      /\ \A b \in Attempt : b # a => attempt'[b] = attempt[b] /\ told'[b] = told[b]
  <2>1. CASE Answer(a) \/ Deadline(a)
    BY <1>2, <2>1 DEF Answer, Deadline
  <2>2. CASE Unavailable(a)
    <3>1. PICK pc \in {attempt[a].pc, "ended"} :
              attempt' = [attempt EXCEPT ![a] = [attempt[a] EXCEPT !.pc = pc, !.hit = TRUE]]
      BY <2>2 DEF Unavailable
    <3> DEFINE x == [attempt[a] EXCEPT !.pc = pc, !.hit = TRUE]
    <3>2. x.pc = pc /\ x.req = attempt[a].req /\ x.late = attempt[a].late /\ x.hit
      BY <1>2 DEF AttemptRow
    <3>3. attempt' = [attempt EXCEPT ![a] = x]
      BY <3>1
    <3> HIDE DEF x
    <3>4. told' = [told EXCEPT ![a] = HttpStatus(UNAVAILABLE, TRUE)]
      BY <2>2 DEF Unavailable
    <3>5. HttpStatus(UNAVAILABLE, TRUE) \in Nat
      BY StatusTypes DEF UNAVAILABLE
    <3>6. QED
      BY <1>2, <3>2, <3>3, <3>4, <3>5
  <2>3. CASE Throw(a)
    <3> DEFINE x == [attempt[a] EXCEPT !.pc = "ended", !.result = Failure, !.hit = TRUE]
    <3>1. attempt' = [attempt EXCEPT ![a] = x] /\ told' = told
      BY <2>3, Results DEF Throw
    <3>2. x.pc = "ended" /\ x.req = attempt[a].req /\ x.late = attempt[a].late /\ x.hit
      BY <1>2 DEF AttemptRow
    <3> HIDE DEF x
    <3>3. QED
      BY <1>2, <3>1, <3>2
  <2>4. QED
    BY <2>1, <2>2, <2>3
<1>4. PICK q \in Request : q = attempt[a].req
  BY <1>2 DEF AttemptRow
<1>5. RecordsInv' /\ Lasts
  <2>1. \A b \in Attempt : Recording(b)' => Recording(b) /\ attempt'[b].req = attempt[b].req
    BY <1>3 DEF Recording
  <2>2. \A b \in Attempt : At(b, "order", "placed")' => At(b, "order", "placed")
    BY <1>3 DEF At
  <2>3. QED
    BY <1>1, <2>1, <2>2, RecordsStay DEF AckInv
<1>6. CalledAt(a)'
  <2>1. CalledAt(a)
    BY DEF AckInv
  <2>2. Accepts(q) => Accepts(q)'
    BY DEF Accepts, OrdersAccepts, OrdersReads, TransfersAccepts,
           TransfersReads, CopyTradingAccepts, SandboxAccepts
  <2>3. Accepts(attempt[a].req) => Accepts(attempt[a].req)'
    BY <1>3, <1>4, <2>2
  <2>4. QED
    BY <1>3, <2>1, <2>3 DEF CalledAt, Early
<1>7. LateAt(a)'
  <2>1. CASE attempt'[a].hit
    BY <2>1 DEF LateAt, Repeats
  <2>2. CASE attempt' = attempt /\ (Answer(a) \/ Deadline(a))
    <3> SUFFICES ASSUME Repeats(a)'
                 PROVE  /\ Found(attempt[a].req)'
                        /\ \/ attempt'[a].pc = "arrived"
                           \/ attempt'[a].pc = "found" /\ attempt'[a].req.route = "unsubscribe"
                           \/ attempt'[a].pc = "ended" /\ attempt'[a].result = Fine
                        /\ told'[a] \in {Nothing, Success, TimeoutStatus}
      BY DEF LateAt
    <3>1. Repeats(a)
      BY <1>1, <2>2, RepeatedBefore
    <3>2. /\ Found(q)
          /\ \/ attempt[a].pc = "arrived"
             \/ attempt[a].pc = "found" /\ attempt[a].req.route = "unsubscribe"
             \/ attempt[a].pc = "ended" /\ attempt[a].result = Fine
      BY <1>4, <3>1 DEF AckInv, LateAt
    <3>3. Found(q)'
      BY <1>1, <1>5, <3>2, FoundLasts, SameRows
    <3>4. Found(attempt[a].req)'
      BY <1>3, <1>4, <3>3
    <3>5. told'[a] \in {Success, TimeoutStatus}
      <4>1. CASE Deadline(a)
        BY <1>2, <4>1 DEF Deadline
      <4>2. CASE Answer(a)
        <5>1. attempt[a].result = Fine
          BY <3>2, <4>2 DEF Answer
        <5>2. told' = [told EXCEPT ![a] = HttpStatus(GrpcStatus(attempt[a].result), attempt[a].result.named)]
          BY <4>2 DEF Answer
        <5>3. told' = [told EXCEPT ![a] = 200]
          BY <5>1, <5>2, AnswersToEffects
        <5>4. QED
          BY <1>2, <5>3 DEF Success
      <4>3. QED
        BY <2>2, <4>1, <4>2
    <3>6. QED
      BY <2>2, <3>2, <3>4, <3>5
  <2>3. QED
    BY <1>3, <2>1, <2>2
<1>8. QED
  BY <1>1, <1>3, <1>5, <1>6, <1>7, SameRows, StepKeepsAck

LEMMA OrdersKeepAck ==
    ASSUME TypeOK, AckInv, NEW a \in Attempt, CreateOrder(a)
    PROVE  AckInv'
<1>1. CASE RefuseOrder(a)
  <2>1. Reply(a, Refused(400)) /\ ~attempt[a].req.valid
    BY <1>1 DEF RefuseOrder, Refused
  <2>2. ~Repeats(a)
    BY <2>1 DEF AckInv, LateAt, Found
  <2>3. QED
    BY <2>1, <2>2, Errors, ReplyKeepsAck
<1>2. CASE FindRecord(a)
  <2>1. attempt[a].req.route = "order" /\ attempt[a].pc = "arrived" /\ attempt[a].req.valid
    BY <1>2 DEF FindRecord, At
  <2>2. PICK q \in Request : q = attempt[a].req
    BY DEF TypeOK, AttemptRow
  <2>3. Row(a) = rows[TargetOf(q)] /\ q.route = "order" /\ q.valid /\ Accepts(q)
    BY <2>1, <2>2, OwnTarget DEF Row, AckInv, CalledAt, Early
  <2>4. Repeats(a) => Row(a) = "COMPLETED" /\ Target(a) \notin expired
    BY <2>2, <2>3 DEF AckInv, LateAt, Found, Repeats
  <2>5. CASE Row(a) = "COMPLETED" /\ Target(a) \notin expired
    <3>1. Ordered(q.target)
      BY <2>3, <2>5 DEF AckInv, RecordsInv, IsCompleted
    <3>2. Found(q)
      BY <2>3, <2>5, <3>1 DEF Found
    <3>3. Reply(a, Fine)
      BY <1>2, <2>5 DEF FindRecord
    <3>4. QED
      BY <2>2, <3>2, <3>3, ReplyKeepsAck
  <2>6. CASE ~(Row(a) = "COMPLETED" /\ Target(a) \notin expired)
    <3>1. Reply(a, Refused(409)) \/ Proceed(a, "found")
      BY <1>2, <2>6 DEF FindRecord, Refused
    <3>2. CASE Reply(a, Refused(409))
      BY <2>4, <2>6, <3>2, Errors, ReplyKeepsAck
    <3>3. CASE Proceed(a, "found")
      BY <2>1, <2>4, <2>6, <3>3, ProceedKeepsAck
    <3>4. QED
      BY <3>1, <3>2, <3>3
  <2>7. QED
    BY <2>5, <2>6
<1>3. QED
  BY <1>1, <1>2, CreateRecordKeepsAck, LockRefusedKeepsAck, PlaceOrderKeepsAck, CompleteRecordKeepsAck
     DEF CreateOrder

LEMMA ServicesKeepAck ==
    ASSUME TypeOK, AckInv, NEW a \in Attempt,
           \/ CreateOrder(a) \/ CancelOrder(a) \/ GetOrder(a)
           \/ RequestWithdrawal(a) \/ GetWithdrawal(a) \/ DepositSandboxFunds(a)
           \/ RegisterMaster(a) \/ CreateSubscription(a) \/ CancelSubscription(a)
    PROVE  AckInv'
<1> DEFINE r == attempt[a].req
<1>1. ASSUME NEW e, Reply(a, e), e # Fine, ~Repeats(a) PROVE AckInv'
  BY <1>1, ReplyKeepsAck
<1>2. ASSUME Reply(a, Fine), Found(attempt[a].req) PROVE AckInv'
  BY <1>2, ReplyKeepsAck
<1>3. ASSUME Proceed(a, "found"), attempt[a].pc = "arrived", r.valid,
             Repeats(a) => r.route = "unsubscribe"
      PROVE  AckInv'
  BY <1>3, ProceedKeepsAck
<1>4. ASSUME NEW status \in Written, Write(a, status), EndWithEffect(a), UNCHANGED told,
             attempt[a].pc \in Early, r.valid, r.route \notin {"order", "readOrder"}
      PROVE  AckInv'
  BY <1>4, EffectKeepsAck
<1>5. r.route \notin {"order", "withdraw", "faucet"} => r.valid
  BY BodyIsValid
<1>6. LooksForRow(a) /\ Repeats(a) => Row(a) # "NONE" /\ r.valid
  BY LateFindsRow
<1>7. LooksForRow(a) /\ attempt[a].pc \in Early /\ r.valid /\ Row(a) # "NONE" => Found(attempt[a].req)
  BY RowIsFound
<1>8. CASE CreateOrder(a)
  BY <1>8, OrdersKeepAck
<1>9. CASE CancelOrder(a)
  <2>1. r.route = "cancel" /\ attempt[a].pc \in Early /\ r.valid
    BY <1>5, <1>9 DEF CancelOrder, FindOrder, CancelRow, At, Early
  <2>2. ~Repeats(a)
    BY <2>1 DEF Repeats
  <2>3. CASE FindOrder(a)
    <3>1. Reply(a, Refused(404)) \/ Reply(a, Refused(400)) \/ Proceed(a, "found")
      BY <2>3 DEF FindOrder, Refused
    <3>2. attempt[a].pc = "arrived"
      BY <2>3 DEF FindOrder, At
    <3>3. QED
      BY <1>1, <1>3, <2>1, <2>2, <3>1, <3>2, Errors
  <2>4. CASE CancelRow(a)
    <3>1. CASE Row(a) \in {"OPEN", "PARTIALLY_FILLED"}
      BY <1>4, <2>1, <2>4, <3>1 DEF CancelRow, Written, Status
    <3>2. CASE Row(a) \notin {"OPEN", "PARTIALLY_FILLED"}
      <4>1. Reply(a, Refused(400))
        BY <2>4, <3>2 DEF CancelRow, Refused
      <4>2. QED
        BY <1>1, <2>2, <4>1, Errors
    <3>3. QED
      BY <3>1, <3>2
  <2>5. QED
    BY <1>9, <2>3, <2>4 DEF CancelOrder
<1>10. CASE GetOrder(a)
  <2>1. r.route = "readOrder" /\ attempt[a].pc \in Early /\ r.valid
    BY <1>5, <1>10 DEF GetOrder, At, Early
  <2>2. CASE Ordered(r.target)
    <3>1. Reply(a, Fine)
      BY <1>10, <2>2 DEF GetOrder, Ordered
    <3>2. Found(attempt[a].req)
      BY <2>1, <2>2 DEF Found, Accepts, OrdersReads
    <3>3. QED
      BY <1>2, <3>1, <3>2
  <2>3. CASE ~Ordered(r.target)
    <3>1. Reply(a, Refused(404))
      BY <1>10, <2>3 DEF GetOrder, Ordered, Refused
    <3>2. ~Repeats(a)
      BY <2>1, <2>3 DEF AckInv, LateAt, Found
    <3>3. QED
      BY <1>1, <3>1, <3>2, Errors
  <2>4. QED
    BY <2>2, <2>3
<1>11. CASE RequestWithdrawal(a)
  <2>0. LooksForRow(a) /\ r.route = "withdraw" /\ attempt[a].pc \in Early
    BY <1>11 DEF RequestWithdrawal, RefuseWithdrawal, FindWithdrawal, LockFunds, InsertWithdrawal,
                 LooksForRow, At, Early
  <2>1. CASE RefuseWithdrawal(a)
    BY <1>1, <1>6, <2>0, <2>1, Errors DEF RefuseWithdrawal
  <2>2. CASE FindWithdrawal(a)
    <3>1. attempt[a].pc = "arrived" /\ r.valid
      BY <2>2 DEF FindWithdrawal, At
    <3>2. CASE Row(a) # "NONE"
      <4>1. Reply(a, Fine)
        BY <2>2, <3>2 DEF FindWithdrawal
      <4>2. QED
        BY <1>2, <1>7, <2>0, <3>1, <3>2, <4>1
    <3>3. CASE Row(a) = "NONE"
      <4>1. Proceed(a, "found")
        BY <2>2, <3>3 DEF FindWithdrawal
      <4>2. QED
        BY <1>3, <1>6, <2>0, <3>1, <3>3, <4>1
    <3>4. QED
      BY <3>2, <3>3
  <2>3. CASE LockFunds(a) \/ InsertWithdrawal(a)
    <3>1. attempt[a].pc \in {"found", "recorded"} /\ r.valid
      BY <2>3 DEF LockFunds, InsertWithdrawal, At, AckInv, CalledAt
    <3>2. ~Repeats(a)
      BY <2>0, <3>1 DEF AckInv, LateAt
    <3>3. CASE Proceed(a, "recorded") /\ attempt[a].pc = "found"
      BY <2>0, <3>1, <3>2, <3>3, ProceedKeepsAck
    <3>4. CASE Write(a, "PENDING") /\ EndWithEffect(a) /\ UNCHANGED told
      BY <1>4, <2>0, <3>1, <3>4 DEF Written, Status
    <3>5. CASE \E named \in BOOLEAN : Reply(a, PlainError(named))
      BY <1>1, <3>2, <3>5, Errors
    <3>6. QED
      BY <2>3, <3>3, <3>4, <3>5 DEF LockFunds, InsertWithdrawal, At
  <2>4. QED
    BY <1>11, <2>1, <2>2, <2>3 DEF RequestWithdrawal
<1>12. CASE GetWithdrawal(a)
  <2>1. LooksForRow(a) /\ attempt[a].pc \in Early /\ r.valid
    BY <1>5, <1>12 DEF GetWithdrawal, LooksForRow, At, Early
  <2>2. CASE Row(a) # "NONE"
    <3>1. Reply(a, Fine)
      BY <1>12, <2>2 DEF GetWithdrawal
    <3>2. QED
      BY <1>2, <1>7, <2>1, <2>2, <3>1
  <2>3. CASE Row(a) = "NONE"
    <3>1. Reply(a, HttpException(404))
      BY <1>12, <2>3 DEF GetWithdrawal
    <3>2. QED
      BY <1>1, <1>6, <2>1, <2>3, <3>1, Errors
  <2>4. QED
    BY <2>2, <2>3
<1>13. CASE DepositSandboxFunds(a)
  <2>1. LooksForRow(a) /\ r.route = "faucet" /\ attempt[a].pc \in Early
    BY <1>13 DEF DepositSandboxFunds, RefuseDeposit, PostDeposit, LooksForRow, At, Early
  <2>2. CASE RefuseDeposit(a)
    BY <1>1, <1>6, <2>1, <2>2, Errors DEF RefuseDeposit
  <2>3. CASE PostDeposit(a)
    <3>1. r.valid
      BY <2>3 DEF PostDeposit
    <3>2. CASE Row(a) # "NONE" /\ Reply(a, Fine)
      BY <1>2, <1>7, <2>1, <3>1, <3>2
    <3>3. CASE Write(a, "POSTED") /\ EndWithEffect(a) /\ UNCHANGED told
      BY <1>4, <2>1, <3>1, <3>3 DEF Written, Status
    <3>4. QED
      BY <2>3, <3>2, <3>3 DEF PostDeposit
  <2>4. QED
    BY <1>13, <2>2, <2>3 DEF DepositSandboxFunds
<1>14. CASE RegisterMaster(a)
  <2>1. LooksForRow(a) /\ r.route = "register" /\ attempt[a].pc \in Early /\ r.valid
    BY <1>5, <1>14 DEF RegisterMaster, LooksForRow, At, Early
  <2>2. CASE Reply(a, Fine) /\ Row(a) # "NONE"
    BY <1>2, <1>7, <2>1, <2>2
  <2>3. CASE Proceed(a, "found") /\ Row(a) = "NONE" /\ attempt[a].pc = "arrived"
    BY <1>3, <1>6, <2>1, <2>3
  <2>4. CASE Write(a, "ACTIVE") /\ EndWithEffect(a) /\ UNCHANGED told
    BY <1>4, <2>1, <2>4 DEF Written, Status
  <2>5. CASE Reply(a, PlainError(FALSE)) /\ attempt[a].pc = "found"
    <3>1. ~Repeats(a)
      BY <2>1, <2>5 DEF AckInv, LateAt
    <3>2. QED
      BY <1>1, <2>5, <3>1, Errors
  <2>6. QED
    BY <1>14, <2>2, <2>3, <2>4, <2>5 DEF RegisterMaster, At
<1>15. CASE CreateSubscription(a)
  <2>1. r.route = "subscribe" /\ attempt[a].pc \in Early /\ r.valid
    BY <1>5, <1>15 DEF CreateSubscription, CheckSubscription, ActivateSubscription, At, Early
  <2>2. ~Repeats(a)
    BY <2>1 DEF Repeats
  <2>3. CASE \E status \in {400, 404, 409} : Reply(a, HttpException(status))
    BY <1>1, <2>2, <2>3, Errors
  <2>4. CASE Proceed(a, "found") /\ attempt[a].pc = "arrived"
    BY <1>3, <2>1, <2>2, <2>4
  <2>5. CASE Write(a, "ACTIVE") /\ EndWithEffect(a) /\ UNCHANGED told
    BY <1>4, <2>1, <2>5 DEF Written, Status
  <2>6. CASE Reply(a, PlainError(FALSE))
    BY <1>1, <2>2, <2>6, Errors
  <2>7. CASE CheckSubscription(a)
    BY <2>3, <2>4, <2>7 DEF CheckSubscription, At
  <2>8. CASE ActivateSubscription(a)
    BY <2>5, <2>6, <2>8 DEF ActivateSubscription
  <2>9. QED
    BY <1>15, <2>7, <2>8 DEF CreateSubscription
<1>16. CASE CancelSubscription(a)
  <2>1. LooksForRow(a) /\ r.route = "unsubscribe" /\ attempt[a].pc \in Early /\ r.valid
    BY <1>5, <1>16 DEF CancelSubscription, LooksForRow, At, Early
  <2>2. CASE Reply(a, Fine) /\ Row(a) # "NONE"
    BY <1>2, <1>7, <2>1, <2>2
  <2>3. CASE Reply(a, HttpException(404)) /\ Row(a) = "NONE"
    BY <1>1, <1>6, <2>1, <2>3, Errors
  <2>4. CASE Proceed(a, "found") /\ attempt[a].pc = "arrived"
    BY <1>3, <2>1, <2>4
  <2>5. CASE Write(a, "TERMINATED") /\ EndWithEffect(a) /\ UNCHANGED told
    BY <1>4, <2>1, <2>5 DEF Written, Status
  <2>6. QED
    BY <1>16, <2>2, <2>3, <2>4, <2>5 DEF CancelSubscription, At
<1>17. QED
  BY <1>8, <1>9, <1>10, <1>11, <1>12, <1>13, <1>14, <1>15, <1>16

\* Steps in which no attempt does anything: time passes, and orders are matched.
LEMMA TimeKeepsAck ==
    ASSUME TypeOK, AckInv, UNCHANGED <<attempt, told, finished, effects>>, expired \subseteq expired',
           RowsGrow, \A t \in Targets : t[1] = "idempotency_records" => rows'[t] = rows[t]
    PROVE  AckInv'
<1>1. RecordsInv' /\ Lasts
  <2>1. \A b \in Attempt : Recording(b)' => Recording(b) /\ attempt'[b].req = attempt[b].req
    BY DEF Recording
  <2>2. \A b \in Attempt : At(b, "order", "placed")' => At(b, "order", "placed")
    BY DEF At
  <2>3. QED
    BY <2>1, <2>2, RecordsStay DEF AckInv
<1>2. \A a \in Attempt : CalledAt(a)'
  BY DEF AckInv, CalledAt
<1>3. \A r \in Request : Found(r) => Found(r)'
  BY <1>1, FoundLasts
<1>4. ASSUME NEW a \in Attempt PROVE LateAt(a)'
  <2>1. PICK q \in Request : q = attempt[a].req
    BY DEF TypeOK, AttemptRow
  <2>2. LateAt(a) /\ (Repeats(a)' => Repeats(a))
    BY RepeatedBefore DEF AckInv
  <2>3. Found(attempt[a].req) => Found(attempt[a].req)'
    <3>1. Found(q) => Found(q)'
      BY <1>3
    <3>2. QED
      BY <2>1, <3>1
  <2>4. QED
    BY <2>2, <2>3 DEF LateAt
<1>5. \A r \in finished' : Found(r)'
  BY <1>3 DEF AckInv, TypeOK
<1>6. QED
  BY <1>1, <1>2, <1>4, <1>5 DEF AckInv

LEMMA NextKeepsAck == TypeOK /\ AckInv /\ [Next]_vars => AckInv'
<1> SUFFICES ASSUME TypeOK, AckInv, [Next]_vars PROVE AckInv'
  OBVIOUS
<1>1. CASE UNCHANGED vars
  BY <1>1, SameRows, TimeKeepsAck DEF vars
<1>2. CASE \E r \in Request : Send(r)
  BY <1>2, SendKeepsAck
<1>3. ASSUME NEW a \in Attempt, Answer(a) \/ Deadline(a) \/ Unavailable(a) \/ Throw(a) PROVE AckInv'
  BY <1>3, GatewayKeepsAck
<1>4. ASSUME NEW t \in Targets, Expire(t) PROVE AckInv'
  BY <1>4, SameRows, TimeKeepsAck DEF Expire
<1>5. ASSUME NEW t \in Targets, UpdateExecution(t) PROVE AckInv'
  <2>1. RowsGrow /\ \A u \in Targets : u[1] = "idempotency_records" => rows'[u] = rows[u]
    BY <1>5 DEF UpdateExecution, RowsGrow, TypeOK
  <2>2. QED
    BY <1>5, <2>1, TimeKeepsAck DEF UpdateExecution
<1>6. QED
  BY <1>1, <1>2, <1>3, <1>4, <1>5, ServicesKeepAck DEF Next

\* A request that is repeated when it has been finished is acknowledged, and what it made
\* is found, whatever else is under way, unless the record of the order has expired (the look-ups at the start of createOrder,
\* requestWithdrawal, registerMaster, cancelSubscription, and of the reading routes).
THEOREM GatewayRepeatedIsAcknowledged == Spec => []RepeatedIsAcknowledged
<1>1. AckInv => RepeatedIsAcknowledged
  BY DEF AckInv, LateAt, Repeats, RepeatedIsAcknowledged
<1>2. QED
  BY <1>1, GatewayTypeOK, InitAck, NextKeepsAck, PTL DEF Spec
=============================================================================
