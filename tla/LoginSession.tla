---------------------------- MODULE LoginSession ----------------------------
(***************************************************************************)
(* Login with a one-time password, and the life of a session: POST         *)
(* /auth/login, /auth/login/verify-otp, /auth/refresh and /auth/logout     *)
(* over the login_otps and refresh_tokens tables.                          *)
(*                                                                         *)
(* Each request is one or two database transactions, each a read of what   *)
(* is committed followed by one commit; requests run concurrently and any  *)
(* commit of another may fall in between.  Updates name the row's id only. *)
(* A process can die, and a response can be lost, at any point.            *)
(*                                                                         *)
(* Accounts are approved by Registration; no code changes is_active, it is *)
(* switched by hand in the database (models/user.py:43).                   *)
(***************************************************************************)
EXTENDS Integers, FiniteSets

CONSTANTS
    Users,
    OtpIds,      \* bound: the one-time passwords that can be issued
    TokenIds,    \* bound: the refresh tokens that can be issued
    Requests,    \* requests that can be in progress at once
    OtpEnabled,  \* settings.LOGIN_OTP_ENABLED
    MaxFaults    \* bound on killed requests, lost codes and lost responses

None == "none"

ASSUME ConstantsAssumption ==
    /\ None \notin Users \cup OtpIds \cup TokenIds
    /\ IsFiniteSet(Requests)
    /\ OtpEnabled \in BOOLEAN
    /\ MaxFaults \in Nat

VARIABLES
    account,    \* users: "pending", "active" (approved) or "suspended"
    otp,        \* login_otps
    token,      \* refresh_tokens
    req,        \* requests in progress
    outbox,     \* background tasks: one-time passwords still to be sent
    mailbox,    \* one-time passwords the user has been told
    wallet,     \* refresh tokens a client has received
    redeemed,   \* history: how many requests consumed the password
    ended,      \* history: tokens a logout revoked
    contested,  \* history: rows a request read while another was using them
    faults

vars == <<account, otp, token, req, outbox, mailbox, wallet, redeemed, ended,
          contested, faults>>

NoOtp == [owner |-> None, used |-> FALSE, expired |-> FALSE]

OtpRow == [owner : Users \cup {None}, used : BOOLEAN, expired : BOOLEAN]

\* parent and code are history: the token this one was rotated from, and the
\* one-time password its login consumed.
NoToken == [owner |-> None, revoked |-> FALSE, expired |-> FALSE,
            replacedBy |-> None, parent |-> None, code |-> None]

TokenRow == [owner : Users \cup {None}, revoked : BOOLEAN, expired : BOOLEAN,
             replacedBy : TokenIds \cup {None}, parent : TokenIds \cup {None},
             code : OtpIds \cup {None}]

Idle == [pc |-> "idle"]

\* login: the password was right; a one-time password will be inserted.
Sending(u) == [pc |-> "send otp", user |-> u]

\* verify-otp: o matched and will be marked used.
Redeeming(u, o) == [pc |-> "redeem", user |-> u, otp |-> o]

\* _issue_tokens for a login that consumed o, or None.
Issuing(u, o) == [pc |-> "issue", user |-> u, otp |-> o]

\* refresh: t was valid and will be rotated.
Rotating(t) == [pc |-> "rotate", token |-> t]

\* logout: t was not revoked and will be.
Ending(t) == [pc |-> "end", token |-> t]

\* The response carries the new token t.
Replying(t) == [pc |-> "reply", token |-> t]

RequestState ==
    [pc : {"idle"}]
      \cup [pc : {"send otp"}, user : Users]
      \cup [pc : {"redeem"}, user : Users, otp : OtpIds]
      \cup [pc : {"issue"}, user : Users, otp : OtpIds \cup {None}]
      \cup [pc : {"rotate", "end", "reply"}, token : TokenIds]

FreshOtps == {o \in OtpIds : otp[o].owner = None}

FreshTokens == {t \in TokenIds : token[t].owner = None}

\* Variant: verify-otp looks at the expiry only.
ValidOtpUntilExpired(row) == row.owner # None /\ ~row.expired

\* What verify-otp accepts.  login_otps.revoked is never set by any code.
ValidOtp(row) == row.owner # None /\ ~row.used /\ ~row.expired

\* What refresh accepts.
LiveToken(row) == row.owner # None /\ ~row.revoked /\ ~row.expired

\* The row a request has read and will update.
Using(r) ==
    CASE r.pc = "redeem" -> {r.otp}
      [] r.pc \in {"rotate", "end"} -> {r.token}
      [] OTHER -> {}

\* A request reads the row x.
Contest(x) ==
    contested' = IF \E q \in Requests : x \in Using(req[q])
                   THEN contested \cup {x} ELSE contested

\* Bounds: a request that will insert a row starts only if an id is left.
OtpLeft ==
    Cardinality({q \in Requests : req[q].pc = "send otp"})
      < Cardinality(FreshOtps)

TokenLeft ==
    Cardinality({q \in Requests : req[q].pc \in {"redeem", "issue", "rotate"}})
      < Cardinality(FreshTokens)

Init ==
    /\ account = [u \in Users |-> "pending"]
    /\ otp = [o \in OtpIds |-> NoOtp]
    /\ token = [t \in TokenIds |-> NoToken]
    /\ req = [q \in Requests |-> Idle]
    /\ outbox = {}
    /\ mailbox = {}
    /\ wallet = {}
    /\ redeemed = [o \in OtpIds |-> 0]
    /\ ended = {}
    /\ contested = {}
    /\ faults = 0

-----------------------------------------------------------------------------
(* Accounts.                                                               *)

Approve(u) ==
    /\ account[u] = "pending"
    /\ account' = [account EXCEPT ![u] = "active"]
    /\ UNCHANGED <<otp, token, req, outbox, mailbox, wallet, redeemed, ended,
                   contested, faults>>

Suspend(u) ==
    /\ account[u] = "active"
    /\ account' = [account EXCEPT ![u] = "suspended"]
    /\ UNCHANGED <<otp, token, req, outbox, mailbox, wallet, redeemed, ended,
                   contested, faults>>

-----------------------------------------------------------------------------
(* POST /auth/login with the right password.  A pending or suspended       *)
(* account is answered 403.                                                *)

Login(q, u) ==
    /\ req[q] = Idle
    /\ account[u] = "active"
    /\ IF OtpEnabled THEN OtpLeft ELSE TokenLeft
    /\ req' = [req EXCEPT ![q] = IF OtpEnabled THEN Sending(u)
                                               ELSE Issuing(u, None)]
    /\ UNCHANGED <<account, otp, token, outbox, mailbox, wallet, redeemed,
                   ended, contested, faults>>

\* Earlier one-time passwords of the user stay valid.
SendOtp(q, o) ==
    /\ req[q].pc = "send otp"
    /\ o \in FreshOtps
    /\ otp' = [otp EXCEPT ![o] = [NoOtp EXCEPT !.owner = req[q].user]]
    /\ outbox' = outbox \cup {o}
    /\ req' = [req EXCEPT ![q] = Idle]
    /\ UNCHANGED <<account, token, mailbox, wallet, redeemed, ended,
                   contested, faults>>

-----------------------------------------------------------------------------
(* The background task tells the user, or fails on both channels.          *)

Deliver(o) ==
    /\ o \in outbox
    /\ outbox' = outbox \ {o}
    /\ mailbox' = mailbox \cup {o}
    /\ UNCHANGED <<account, otp, token, req, wallet, redeemed, ended,
                   contested, faults>>

DeliveryFails(o) ==
    /\ o \in outbox
    /\ faults < MaxFaults
    /\ faults' = faults + 1
    /\ outbox' = outbox \ {o}
    /\ UNCHANGED <<account, otp, token, req, mailbox, wallet, redeemed, ended,
                   contested>>

-----------------------------------------------------------------------------
(* POST /auth/login/verify-otp.  It looks the user up by email and does    *)
(* not look at the account's state.                                        *)

RedeemRead(q, o) ==
    /\ req[q] = Idle
    /\ o \in mailbox
    /\ ValidOtp(otp[o])
    /\ TokenLeft
    /\ req' = [req EXCEPT ![q] = Redeeming(otp[o].owner, o)]
    /\ Contest(o)
    /\ UNCHANGED <<account, otp, token, outbox, mailbox, wallet, redeemed,
                   ended, faults>>

\* Variant: the handler forgets to mark the password.
RedeemUnmarked(q) ==
    /\ req[q].pc = "redeem"
    /\ redeemed' = [redeemed EXCEPT ![req[q].otp] = @ + 1]
    /\ req' = [req EXCEPT ![q] = Issuing(req[q].user, req[q].otp)]
    /\ UNCHANGED <<account, otp, token, outbox, mailbox, wallet, ended,
                   contested, faults>>

RedeemCommit(q) ==
    /\ req[q].pc = "redeem"
    /\ LET o == req[q].otp
       IN  /\ otp' = [otp EXCEPT ![o].used = TRUE]
           /\ redeemed' = [redeemed EXCEPT ![o] = @ + 1]
           /\ req' = [req EXCEPT ![q] = Issuing(req[q].user, o)]
    /\ UNCHANGED <<account, token, outbox, mailbox, wallet, ended, contested,
                   faults>>

\* _issue_tokens, a transaction of its own.
IssueTokens(q, t) ==
    /\ req[q].pc = "issue"
    /\ t \in FreshTokens
    /\ token' = [token EXCEPT ![t] = [NoToken EXCEPT !.owner = req[q].user,
                                                     !.code = req[q].otp]]
    /\ req' = [req EXCEPT ![q] = Replying(t)]
    /\ UNCHANGED <<account, otp, outbox, mailbox, wallet, redeemed, ended,
                   contested, faults>>

-----------------------------------------------------------------------------
(* POST /auth/refresh.                                                     *)

\* Variant: the token's row is not checked, only its signature.
RefreshReadUnchecked(q, t) ==
    /\ req[q] = Idle
    /\ t \in wallet
    /\ account[token[t].owner] = "active"
    /\ TokenLeft
    /\ req' = [req EXCEPT ![q] = Rotating(t)]
    /\ Contest(t)
    /\ UNCHANGED <<account, otp, token, outbox, mailbox, wallet, redeemed,
                   ended, faults>>

RefreshRead(q, t) ==
    /\ req[q] = Idle
    /\ t \in wallet
    /\ LiveToken(token[t])
    /\ account[token[t].owner] = "active"
    /\ TokenLeft
    /\ req' = [req EXCEPT ![q] = Rotating(t)]
    /\ Contest(t)
    /\ UNCHANGED <<account, otp, token, outbox, mailbox, wallet, redeemed,
                   ended, faults>>

\* The row of a token rotated from t.
SuccessorRow(t) ==
    [NoToken EXCEPT !.owner = token[t].owner, !.parent = t,
                    !.code = token[t].code]

\* Variant: the old token stays usable.
RefreshKeepsOld(q, new) ==
    /\ req[q].pc = "rotate"
    /\ new \in FreshTokens
    /\ LET t == req[q].token
       IN  token' = [token EXCEPT ![t].replacedBy = new, ![new] = SuccessorRow(t)]
    /\ req' = [req EXCEPT ![q] = Replying(new)]
    /\ UNCHANGED <<account, otp, outbox, mailbox, wallet, redeemed, ended,
                   contested, faults>>

\* Variant: replaced_by_jti is given the old token's jti.
RefreshNamesItself(q, new) ==
    /\ req[q].pc = "rotate"
    /\ new \in FreshTokens
    /\ LET t == req[q].token
       IN  token' = [token EXCEPT ![t].revoked = TRUE,
                                  ![t].replacedBy = t,
                                  ![new] = SuccessorRow(t)]
    /\ req' = [req EXCEPT ![q] = Replying(new)]
    /\ UNCHANGED <<account, otp, outbox, mailbox, wallet, redeemed, ended,
                   contested, faults>>

RefreshCommit(q, new) ==
    /\ req[q].pc = "rotate"
    /\ new \in FreshTokens
    /\ LET t == req[q].token
       IN  token' = [token EXCEPT
                       ![t].revoked = TRUE,
                       ![t].replacedBy = new,
                       ![new] = SuccessorRow(t)]
    /\ req' = [req EXCEPT ![q] = Replying(new)]
    /\ UNCHANGED <<account, otp, outbox, mailbox, wallet, redeemed, ended,
                   contested, faults>>

-----------------------------------------------------------------------------
(* POST /auth/logout, by a client with a valid access token: the account   *)
(* must be active.  A revoked or expired token is answered 200 as well.    *)

LogoutRead(q, t) ==
    /\ req[q] = Idle
    /\ t \in wallet
    /\ account[token[t].owner] = "active"
    /\ LiveToken(token[t])
    /\ req' = [req EXCEPT ![q] = Ending(t)]
    /\ Contest(t)
    /\ UNCHANGED <<account, otp, token, outbox, mailbox, wallet, redeemed,
                   ended, faults>>

LogoutCommit(q) ==
    /\ req[q].pc = "end"
    /\ token' = [token EXCEPT ![req[q].token].revoked = TRUE]
    /\ ended' = ended \cup {req[q].token}
    /\ req' = [req EXCEPT ![q] = Idle]
    /\ UNCHANGED <<account, otp, outbox, mailbox, wallet, redeemed, contested,
                   faults>>

-----------------------------------------------------------------------------
Reply(q) ==
    /\ req[q].pc = "reply"
    /\ wallet' = wallet \cup {req[q].token}
    /\ req' = [req EXCEPT ![q] = Idle]
    /\ UNCHANGED <<account, otp, token, outbox, mailbox, redeemed, ended,
                   contested, faults>>

\* The process serving a request dies, or its response is lost, or (login)
\* every attempt to insert the one-time password fails.
Killed(q) ==
    /\ req[q] # Idle
    /\ faults < MaxFaults
    /\ faults' = faults + 1
    /\ req' = [req EXCEPT ![q] = Idle]
    /\ UNCHANGED <<account, otp, token, outbox, mailbox, wallet, redeemed,
                   ended, contested>>

\* A request that fails a check (a wrong password, a pending or suspended
\* account, a password or token that is not valid) is answered 401 or 403, or
\* 200 by logout, and changes nothing.
Refused(q) ==
    /\ req[q] = Idle
    /\ UNCHANGED vars

\* expires_at passes.
OtpExpires(o) ==
    /\ ValidOtp(otp[o])
    /\ otp' = [otp EXCEPT ![o].expired = TRUE]
    /\ UNCHANGED <<account, token, req, outbox, mailbox, wallet, redeemed,
                   ended, contested, faults>>

TokenExpires(t) ==
    /\ LiveToken(token[t])
    /\ token' = [token EXCEPT ![t].expired = TRUE]
    /\ UNCHANGED <<account, otp, req, outbox, mailbox, wallet, redeemed,
                   ended, contested, faults>>

Next ==
    \/ \E u \in Users : Approve(u) \/ Suspend(u)
    \/ \E q \in Requests :
         \/ \E u \in Users : Login(q, u)
         \/ \E o \in OtpIds : SendOtp(q, o) \/ RedeemRead(q, o)
         \/ \E t \in TokenIds : \/ IssueTokens(q, t)
                                \/ RefreshRead(q, t)
                                \/ RefreshCommit(q, t)
                                \/ LogoutRead(q, t)
         \/ RedeemCommit(q)
         \/ LogoutCommit(q)
         \/ Reply(q)
         \/ Killed(q)
         \/ Refused(q)
    \/ \E o \in OtpIds : Deliver(o) \/ DeliveryFails(o) \/ OtpExpires(o)
    \/ \E t \in TokenIds : TokenExpires(t)

Spec == Init /\ [][Next]_vars

-----------------------------------------------------------------------------
(* Properties.                                                             *)

TypeOK ==
    /\ account \in [Users -> {"pending", "active", "suspended"}]
    /\ otp \in [OtpIds -> OtpRow]
    /\ token \in [TokenIds -> TokenRow]
    /\ req \in [Requests -> RequestState]
    /\ outbox \subseteq OtpIds
    /\ mailbox \subseteq OtpIds
    /\ wallet \subseteq TokenIds
    /\ redeemed \in [OtpIds -> Nat]
    /\ ended \subseteq TokenIds
    /\ contested \subseteq OtpIds \cup TokenIds
    /\ faults \in 0..MaxFaults

Issued == TokenIds \ FreshTokens

\* Where one-time passwords are on, every token of every session goes back to a
\* consumed password of its owner, in whatever order processes die between the
\* two commits of verify-otp, and no account that was never approved has one
\* (auth.py:295-299).
SessionHasConsumedOtp ==
    \A t \in Issued :
        /\ account[token[t].owner] # "pending"
        /\ OtpEnabled => /\ token[t].code # None
                         /\ otp[token[t].code].used
                         /\ otp[token[t].code].owner = token[t].owner

\* A rotated token is never usable beside its successor, for both are written
\* in one commit (auth.py:336-340); the successor belongs to the same user, and
\* replaced_by_jti names a token that really came from this one, also when two
\* refreshes rotate it and the later overwrites the name.
RotationIsTraceable ==
    \A t \in Issued :
        /\ token[t].parent # None =>
             /\ token[token[t].parent].revoked
             /\ token[token[t].parent].owner = token[t].owner
        /\ token[t].replacedBy # None =>
             /\ token[t].replacedBy \in Issued
             /\ token[token[t].replacedBy].parent = t

HoldsOtp(o) == {q \in Requests : req[q].pc = "redeem" /\ req[q].otp = o}

\* A one-time password opens at most as many sessions as requests run at once:
\* each must have read it unused (auth.py:280-297).
RedemptionsBoundedByRequests ==
    \A o \in OtpIds :
        redeemed[o] + Cardinality(HoldsOtp(o)) <= Cardinality(Requests)

\* README.md:119-122, auth.py:19-20: one-time passwords are single-use.
OtpRedeemedOnce == \A o \in OtpIds : redeemed[o] <= 1

Successors(t) == {s \in Issued : token[s].parent = t}

\* README.md:113-115: refresh rotates the token, a reused one is refused; so a
\* token has one successor.
RotatedOnce ==
    \A t \in Issued : \A s1, s2 \in Successors(t) : s1 = s2

\* README.md:116-117: logout revokes the token; nothing is issued from it
\* afterwards.
LogoutIsFinal ==
    [][\A t \in ended : Successors(t)' = Successors(t)]_vars

\* As long as no two requests use the same row at once, a one-time password is
\* redeemed once, in spite of lost responses and of processes that die between
\* its commit and the tokens' (auth.py:280-299).
RedeemedOnceUnlessContested ==
    \A o \in OtpIds \ contested : redeemed[o] <= 1

\* The tokens of one login.
SameLogin(s, t) == token[s].code # None /\ token[s].code = token[t].code

\* No row of the login of t was used by two requests at once.
Uncontested(t) ==
    /\ token[t].code \notin contested
    /\ \A s \in Issued : SameLogin(s, t) => s \notin contested

\* Then a login never has two usable refresh tokens: rotation replaces, it does
\* not add (auth.py:336-340).
OneLiveTokenPerLogin ==
    \A s, t \in Issued :
        /\ SameLogin(s, t) /\ Uncontested(t)
        /\ LiveToken(token[s]) /\ LiveToken(token[t])
        => s = t

\* And once a logout revoked a token, its login has no usable token at all, nor
\* will it get one (auth.py:360-363).
LogoutEndsSession ==
    \A t \in ended, s \in Issued :
        SameLogin(s, t) /\ Uncontested(t) => ~LiveToken(token[s])

\* models/user.py:43-44, auth.py:237-238: a suspended account cannot log in, by
\* a one-time password sent before the suspension either.
NoLoginWhileSuspended ==
    [][\A q \in Requests, u \in Users, o \in OtpIds :
         account[u] = "suspended" /\ req'[q] = Redeeming(u, o)
            => req[q] = Redeeming(u, o)]_vars
=============================================================================
