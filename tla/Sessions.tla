------------------------------- MODULE Sessions -------------------------------
(***************************************************************************)
(* Sessions in the identity service. A device asks for a nonce, which is   *)
(* kept in Redis as the nonce of its wallet; it signs a message with it,   *)
(* and verifySiwe consumes the nonce, checks the signature, finds or       *)
(* creates the user, and issues a refresh token. refreshTokens reads the   *)
(* token, revokes it, and issues another; a token that is revoked already  *)
(* makes it revoke all of the user. logout revokes the token.              *)
(*                                                                         *)
(* A device keeps the last token it was given, in a cookie that the        *)
(* gateway sets and clears with its answers. It may make a call again      *)
(* while one is in progress, as a browser with several tabs, and answers   *)
(* may be lost. Access tokens are not stored and are left out.             *)
(***************************************************************************)
EXTENDS Integers, Sequences, FiniteSets

CONSTANTS
    Wallet,
    Device, WalletOf,  \* the devices and whose they are
    Call,              \* calls that may be in progress at a time
    MaxNonces, MaxTokens, MaxFailures

None == 0

ASSUME WalletAssumption == WalletOf \in [Device -> Wallet]
ASSUME SessionBounds == {MaxNonces, MaxTokens, MaxFailures} \subseteq Nat

VARIABLES
    nonces,     \* nonces[w]: the nonce in Redis, or None
    issued,     \* issued[n]: for which wallet nonce n was made
    users,      \* the wallets with a row in the table users
    tokens,     \* the table refresh_tokens, by id
    nonceOf,    \* nonceOf[d]: the nonce device d was told, or None
    held,       \* held[d]: the refresh token it keeps, or None
    call,       \* call[k]: how far a call has come
    disturbed,  \* the wallets one of whose devices refreshed or logged out while it was
                \*   waiting for either, or had a call fail (history)
    refused,    \* the reasons for which logins were refused (history)
    faults

sessionVars == <<nonces, issued, users, tokens, nonceOf, held, call, disturbed, refused, faults>>

Free == [pc |-> "free", kind |-> "none", device |-> None, nonce |-> None, token |-> None]

SessionsInit ==
    /\ nonces = [w \in Wallet |-> None]
    /\ issued = << >>
    /\ users = {}
    /\ tokens = << >>
    /\ nonceOf = [d \in Device |-> None] /\ held = [d \in Device |-> None]
    /\ call = [k \in Call |-> Free]
    /\ disturbed = {} /\ refused = {}
    /\ faults = 0

WalletFor(k) == WalletOf[call[k].device]

CallStep == {"consuming", "verifying", "finding", "creating", "looking_again", "issuing",
         "matching", "revoking", "revoking_all", "leaving"}

GoOn(k, step) == call' = [call EXCEPT ![k].pc = step]
EndCall(k) == call' = [call EXCEPT ![k] = Free]

\* A row of refresh_tokens, whose hash is its place, with the nonce of its login (history).
TokenRow == [wallet : Wallet, revoked : BOOLEAN, nonce : Nat]

\* A login is refused for a reason.
Refuse(k, reason) == EndCall(k) /\ refused' = refused \cup {reason}

-----------------------------------------------------------------------------
(***************************************************************************)
(* Nonces.                                                                 *)
(***************************************************************************)

\* The answer reaches the device, or is lost.
TellNonce(d, n) == nonceOf' \in {nonceOf, [nonceOf EXCEPT ![d] = n]}

\* getNonce replaces the nonce of the wallet.
GenerateNonce(d) ==
    LET n == Len(issued) + 1
    IN  /\ n <= MaxNonces
        /\ issued' = Append(issued, WalletOf[d])
        /\ nonces' = [nonces EXCEPT ![WalletOf[d]] = n]
        /\ TellNonce(d, n)
        /\ UNCHANGED <<users, tokens, held, call, disturbed, refused, faults>>

\* 300 s have passed.
NonceExpires(w) ==
    /\ nonces[w] # None
    /\ nonces' = [nonces EXCEPT ![w] = None]
    /\ UNCHANGED <<issued, users, tokens, nonceOf, held, call, disturbed, refused, faults>>

-----------------------------------------------------------------------------
(***************************************************************************)
(* verifySiwe.                                                             *)
(***************************************************************************)

\* A device sends its message; the expiry in it has not passed.
Login(k, d) ==
    /\ call[k].pc = "free" /\ nonceOf[d] # None
    /\ call' = [call EXCEPT ![k] = [Free EXCEPT !.pc = "consuming", !.kind = "login",
                                       !.device = d, !.nonce = nonceOf[d]]]
    /\ UNCHANGED <<nonces, issued, users, tokens, nonceOf, held, disturbed, refused, faults>>

\* Mutant: GET.
GetNonce(k) ==
    /\ call[k].pc = "consuming"
    /\ IF nonces[WalletFor(k)] = call[k].nonce
       THEN GoOn(k, "verifying") /\ UNCHANGED refused
       ELSE Refuse(k, "nonce")
    /\ UNCHANGED <<nonces, issued, users, tokens, nonceOf, held, disturbed, faults>>

\* GETDEL takes the nonce of the wallet, be it the one of the message or another.
ConsumeNonce(k) ==
    LET w == WalletFor(k)
    IN  /\ call[k].pc = "consuming"
        /\ nonces' = [nonces EXCEPT ![w] = None]
        /\ IF nonces[w] = call[k].nonce
           THEN GoOn(k, "verifying") /\ UNCHANGED refused
           ELSE Refuse(k, "nonce")
        /\ UNCHANGED <<issued, users, tokens, nonceOf, held, disturbed, faults>>

\* The signature may be that of another wallet.
VerifySignature(k) ==
    /\ call[k].pc = "verifying"
    /\ \/ GoOn(k, "finding") /\ UNCHANGED refused
       \/ Refuse(k, "signature")
    /\ UNCHANGED <<nonces, issued, users, tokens, nonceOf, held, disturbed, faults>>

\* sandboxLogin needs no nonce.
SandboxLogin(k, d) ==
    /\ call[k].pc = "free"
    /\ call' = [call EXCEPT ![k] = [Free EXCEPT !.pc = "finding", !.kind = "login", !.device = d]]
    /\ UNCHANGED <<nonces, issued, users, tokens, nonceOf, held, disturbed, refused, faults>>

FindByWalletAddress(k) ==
    /\ call[k].pc = "finding"
    /\ GoOn(k, IF WalletFor(k) \in users THEN "issuing" ELSE "creating")
    /\ UNCHANGED <<nonces, issued, users, tokens, nonceOf, held, disturbed, refused, faults>>

\* Mutant: the conflict is not caught.
CreateOrRefuse(k) ==
    /\ call[k].pc = "creating"
    /\ users' = users \cup {WalletFor(k)}
    /\ IF WalletFor(k) \in users THEN Refuse(k, "user") ELSE GoOn(k, "issuing") /\ UNCHANGED refused
    /\ UNCHANGED <<nonces, issued, tokens, nonceOf, held, disturbed, faults>>

\* The INSERT is refused by the unique index if there is a row.
CreateUser(k) ==
    /\ call[k].pc = "creating"
    /\ users' = users \cup {WalletFor(k)}
    /\ GoOn(k, IF WalletFor(k) \in users THEN "looking_again" ELSE "issuing")
    /\ UNCHANGED <<nonces, issued, tokens, nonceOf, held, disturbed, refused, faults>>

\* After any error of the INSERT.
Fallback(k) ==
    /\ call[k].pc = "looking_again"
    /\ IF WalletFor(k) \in users
       THEN GoOn(k, "issuing") /\ UNCHANGED refused
       ELSE Refuse(k, "user")
    /\ UNCHANGED <<nonces, issued, users, tokens, nonceOf, held, disturbed, faults>>

-----------------------------------------------------------------------------
(***************************************************************************)
(* Tokens.                                                                 *)
(***************************************************************************)

\* A token for the wallet of call k, with the nonce of the login (history).
Issued(k) == [wallet |-> WalletFor(k), revoked |-> FALSE, nonce |-> call[k].nonce]

\* The answer to a login or a refresh sets the cookie.
KeepToken(k) == held' = [held EXCEPT ![call[k].device] = Len(tokens) + 1]

\* generateTokens inserts the token, and the device is given it.
GenerateTokens(k) ==
    /\ call[k].pc = "issuing" /\ Len(tokens) < MaxTokens
    /\ tokens' = Append(tokens, Issued(k))
    /\ KeepToken(k)
    /\ EndCall(k)
    /\ UNCHANGED <<nonces, issued, users, nonceOf, disturbed, refused, faults>>

Replacing(d) == {k \in Call : call[k].kind \in {"refresh", "logout"} /\ call[k].device = d}

\* Whether d does this while it waits for a refresh or a logout (history).
Overlap(d) == disturbed' = IF Replacing(d) = {} THEN disturbed ELSE disturbed \cup {WalletOf[d]}

\* A device wants its token replaced, which the gateway refuses if there is none.
Refresh(k, d) ==
    /\ call[k].pc = "free" /\ held[d] # None
    /\ call' = [call EXCEPT ![k] = [Free EXCEPT !.pc = "matching", !.kind = "refresh",
                                       !.device = d, !.token = held[d]]]
    /\ Overlap(d)
    /\ UNCHANGED <<nonces, issued, users, tokens, nonceOf, held, refused, faults>>

\* rotateTokens reads the row of the token, which may have expired.
MatchToken(k) ==
    LET t == tokens[call[k].token]
    IN  /\ call[k].pc = "matching"
        /\ \/ t.revoked /\ GoOn(k, "revoking_all")
           \/ ~t.revoked /\ EndCall(k)
           \/ ~t.revoked /\ GoOn(k, "revoking")
        /\ UNCHANGED <<nonces, issued, users, tokens, nonceOf, held, disturbed, refused, faults>>

\* The old token is revoked, and the user, whom nobody deletes, is read.
RevokeOld(k) ==
    /\ call[k].pc = "revoking"
    /\ tokens' = [tokens EXCEPT ![call[k].token].revoked = TRUE]
    /\ GoOn(k, "issuing")
    /\ UNCHANGED <<nonces, issued, users, nonceOf, held, disturbed, refused, faults>>

\* revokeAllUserTokens.
RevokeAll(k) ==
    /\ call[k].pc = "revoking_all"
    /\ tokens' = [t \in DOMAIN tokens |->
           IF tokens[t].wallet = WalletFor(k) THEN [tokens[t] EXCEPT !.revoked = TRUE]
           ELSE tokens[t]]
    /\ EndCall(k)
    /\ UNCHANGED <<nonces, issued, users, nonceOf, held, disturbed, refused, faults>>

\* A device asks to revoke its token; without one the gateway makes no call.
Logout(k, d) ==
    /\ call[k].pc = "free" /\ held[d] # None
    /\ call' = [call EXCEPT ![k] = [Free EXCEPT !.pc = "leaving", !.kind = "logout",
                                       !.device = d, !.token = held[d]]]
    /\ Overlap(d)
    /\ UNCHANGED <<nonces, issued, users, tokens, nonceOf, held, refused, faults>>

\* The answer to a logout clears the cookie.
ForgetToken(k) == held' = [held EXCEPT ![call[k].device] = None]

\* Mutant: the UPDATE is for the user.
RevokeTokens(k) ==
    /\ call[k].pc = "leaving"
    /\ tokens' = [t \in DOMAIN tokens |->
           IF tokens[t].wallet = WalletFor(k) THEN [tokens[t] EXCEPT !.revoked = TRUE]
           ELSE tokens[t]]
    /\ ForgetToken(k)
    /\ EndCall(k)
    /\ UNCHANGED <<nonces, issued, users, nonceOf, disturbed, refused, faults>>

\* The row of the token is found, since no row is deleted, and updated.
RevokeToken(k) ==
    /\ call[k].pc = "leaving"
    /\ tokens' = [tokens EXCEPT ![call[k].token].revoked = TRUE]
    /\ ForgetToken(k)
    /\ EndCall(k)
    /\ UNCHANGED <<nonces, issued, users, nonceOf, disturbed, refused, faults>>

-----------------------------------------------------------------------------
(***************************************************************************)
(* Failures. A statement throws, whether it took effect or not, or the     *)
(* instance stops or its answer is lost: the call is over, except for the  *)
(* INSERT of a user, whose error is caught.                                *)
(***************************************************************************)

Fails(k) ==
    /\ call[k].pc # "free"
    /\ faults < MaxFailures /\ faults' = faults + 1
    /\ disturbed' = disturbed \cup {WalletFor(k)}
    /\ \/ call[k].pc = "creating" /\ GoOn(k, "looking_again")
             /\ users' \in {users, users \cup {WalletFor(k)}} /\ UNCHANGED tokens
       \/ call[k].pc = "issuing" /\ Len(tokens) < MaxTokens /\ EndCall(k)
             /\ tokens' \in {tokens, Append(tokens, Issued(k))} /\ UNCHANGED users
       \/ call[k].pc \in {"revoking", "leaving"} /\ EndCall(k)
             /\ tokens' \in {tokens, [tokens EXCEPT ![call[k].token].revoked = TRUE]}
             /\ UNCHANGED users
       \/ call[k].pc # "creating" /\ EndCall(k) /\ UNCHANGED <<users, tokens>>
    /\ UNCHANGED <<nonces, issued, nonceOf, held, refused>>

Work(k) ==
    \/ ConsumeNonce(k) \/ VerifySignature(k)
    \/ FindByWalletAddress(k) \/ CreateUser(k) \/ Fallback(k) \/ GenerateTokens(k)
    \/ MatchToken(k) \/ RevokeOld(k) \/ RevokeAll(k) \/ RevokeToken(k)

Ask(k, d) == Login(k, d) \/ SandboxLogin(k, d) \/ Refresh(k, d) \/ Logout(k, d)

SessionsNext ==
    \/ \E d \in Device : GenerateNonce(d)
    \/ \E w \in Wallet : NonceExpires(w)
    \/ \E k \in Call : Work(k) \/ Fails(k) \/ (\E d \in Device : Ask(k, d))

SessionsSpec == SessionsInit /\ [][SessionsNext]_sessionVars

-----------------------------------------------------------------------------

CallRow == [pc : CallStep \cup {"free"}, kind : {"none", "login", "refresh", "logout"},
            device : Device \cup {None}, nonce : 0 .. Len(issued), token : 0 .. Len(tokens)]

\* The tables, the devices and the calls have the values they can have, and refer to
\* nonces and tokens there are.
SessionTypes ==
    /\ issued \in Seq(Wallet) /\ tokens \in Seq(TokenRow) /\ users \subseteq Wallet
    /\ nonces \in [Wallet -> 0 .. Len(issued)] /\ nonceOf \in [Device -> 0 .. Len(issued)]
    /\ held \in [Device -> 0 .. Len(tokens)]
    /\ call \in [Call -> CallRow]
    /\ \A k \in Call : call[k].pc # "free" => call[k].device \in Device
    /\ \A t \in DOMAIN tokens : tokens[t].nonce \in 0 .. Len(issued)
    /\ disturbed \subseteq Wallet /\ refused \subseteq {"nonce", "signature", "user"}
    /\ faults \in Nat

\* A nonce leads to one session at most, whoever sends the message how often
\* ("single-use nonce storage", README.md; consumeNonce's GETDEL).
NonceUsedOnce ==
    \A s, t \in DOMAIN tokens :
        /\ tokens[t].nonce # None => issued[tokens[t].nonce] = tokens[t].wallet
        /\ tokens[s].nonce = tokens[t].nonce /\ tokens[s].nonce # None => s = t

\* A user whose devices wait for a refresh or a logout to end, and none fails, stays logged
\* in on all of them: a token a device keeps and is not just replacing or revoking is not
\* revoked, whatever the other devices do (rotateTokens revokes everything when it meets a revoked token).
DevicesStayLoggedIn ==
    \A d \in Device :
        held[d] # None /\ WalletOf[d] \notin disturbed
           /\ ~(\E k \in Replacing(d) : call[k].token = held[d])
        => ~tokens[held[d]].revoked

\* First logins at the same time all find the user (findOrCreateByWalletAddress).
FirstLoginSucceeds == "user" \in refused => faults > 0
=============================================================================
