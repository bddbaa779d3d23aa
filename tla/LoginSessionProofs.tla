------------------------- MODULE LoginSessionProofs -------------------------
(***************************************************************************)
(* Proofs about LoginSession, for any number of users, passwords, tokens,  *)
(* requests and faults, with one-time passwords on or off.                 *)
(***************************************************************************)
EXTENDS LoginSession, FiniteSetTheorems, TLAPS

-----------------------------------------------------------------------------
(* The inductive invariant.                                                *)

\* Only an account that was approved is sent a one-time password.
OtpsOfApproved ==
    \A o \in OtpIds :
        otp[o].owner # None => account[otp[o].owner] # "pending"

\* What a request has read still holds of the rows' owners, for ever.
RequestsSound ==
    \A q \in Requests :
        /\ req[q].pc \in {"send otp", "issue"} => account[req[q].user] # "pending"
        /\ req[q].pc = "redeem" => otp[req[q].otp].owner = req[q].user
        /\ req[q].pc = "issue" =>
             /\ OtpEnabled => req[q].otp # None
             /\ req[q].otp # None => /\ otp[req[q].otp].used
                                     /\ otp[req[q].otp].owner = req[q].user
        /\ req[q].pc \in {"rotate", "end"} => req[q].token \in Issued

\* A redeemed one-time password is used; so is every session's and every
\* coming session's.
RedeemedIsUsed ==
    /\ \A o \in OtpIds : redeemed[o] > 0 => otp[o].used /\ otp[o].owner # None
    /\ \A t \in Issued : token[t].code # None => redeemed[token[t].code] > 0
    /\ \A q \in Requests :
         req[q].pc = "issue" /\ req[q].otp # None => redeemed[req[q].otp] > 0

\* A one-time password no two requests use at once is with one request at most:
\* first to be redeemed, then to open the session.
OtpUsedByOne ==
    \A o \in OtpIds \ contested :
        /\ redeemed[o] <= 1
        /\ \A p, q \in Requests :
             /\ req[p].pc = "redeem" /\ req[p].otp = o
             /\ req[q].pc = "redeem" /\ req[q].otp = o
             => p = q
        /\ \A p, q \in Requests :
             /\ req[p].pc = "issue" /\ req[p].otp = o
             /\ req[q].pc = "issue" /\ req[q].otp = o
             => p = q
        /\ \A q \in Requests :
             /\ req[q].pc = "redeem" /\ req[q].otp = o => redeemed[o] = 0
             /\ req[q].pc = "issue" /\ req[q].otp = o =>
                  \A t \in Issued : token[t].code # o

\* A token no two requests use at once is with one request at most, and nobody
\* else revokes it.
TokenUsedByOne ==
    \A t \in TokenIds \ contested, q \in Requests :
        req[q].pc \in {"rotate", "end"} /\ req[q].token = t =>
            /\ ~token[t].revoked
            /\ \A p \in Requests :
                 req[p].pc \in {"rotate", "end"} /\ req[p].token = t => p = q

\* An uncontested login has one token that is not revoked, expired or not.
OneUnrevoked ==
    \A s, t \in Issued :
        /\ SameLogin(s, t) /\ Uncontested(t)
        /\ ~token[s].revoked /\ ~token[t].revoked
        => s = t

\* And none after a logout.
EndedIsRevoked ==
    /\ ended \subseteq Issued
    /\ \A t \in ended, s \in Issued :
         SameLogin(s, t) /\ Uncontested(t) => token[s].revoked

IInv ==
    /\ TypeOK
    /\ OtpsOfApproved
    /\ RequestsSound
    /\ SessionHasConsumedOtp
    /\ RotationIsTraceable
    /\ RedeemedIsUsed
    /\ RedemptionsBoundedByRequests
    /\ OtpUsedByOne
    /\ TokenUsedByOne
    /\ OneUnrevoked
    /\ EndedIsRevoked

-----------------------------------------------------------------------------
(* What a request in progress looks like.                                  *)

LEMMA RequestTypes ==
  ASSUME NEW r \in RequestState
  PROVE  /\ r.pc \in {"idle", "send otp", "redeem", "issue", "rotate", "end", "reply"}
         /\ r.pc = "idle" => r = Idle
         /\ r.pc \in {"send otp", "redeem", "issue"} => r.user \in Users
         /\ r.pc = "redeem" => r.otp \in OtpIds
         /\ r.pc = "issue" => r.otp \in OtpIds \cup {None}
         /\ r.pc \in {"rotate", "end", "reply"} => r.token \in TokenIds
  BY DEF RequestState, Idle

LEMMA RequestFields ==
  /\ Idle.pc = "idle"
  /\ \A u : Sending(u).pc = "send otp" /\ Sending(u).user = u
  /\ \A u, o : /\ Redeeming(u, o).pc = "redeem"
               /\ Redeeming(u, o).user = u /\ Redeeming(u, o).otp = o
  /\ \A u, o : /\ Issuing(u, o).pc = "issue"
               /\ Issuing(u, o).user = u /\ Issuing(u, o).otp = o
  /\ \A t : Rotating(t).pc = "rotate" /\ Rotating(t).token = t
  /\ \A t : Ending(t).pc = "end" /\ Ending(t).token = t
  /\ \A t : Replying(t).pc = "reply" /\ Replying(t).token = t
  BY DEF Idle, Sending, Redeeming, Issuing, Rotating, Ending, Replying

LEMMA RequestStates ==
  /\ Idle \in RequestState
  /\ \A u \in Users : Sending(u) \in RequestState
  /\ \A u \in Users, o \in OtpIds : Redeeming(u, o) \in RequestState
  /\ \A u \in Users, o \in OtpIds \cup {None} : Issuing(u, o) \in RequestState
  /\ \A t \in TokenIds : /\ Rotating(t) \in RequestState
                         /\ Ending(t) \in RequestState
                         /\ Replying(t) \in RequestState
  <1>1. Idle \in RequestState
    BY DEF Idle, RequestState
  <1>2. \A u \in Users : Sending(u) \in RequestState
    BY DEF Sending, RequestState
  <1>3. \A u \in Users, o \in OtpIds : Redeeming(u, o) \in RequestState
    BY DEF Redeeming, RequestState
  <1>4. \A u \in Users, o \in OtpIds \cup {None} : Issuing(u, o) \in RequestState
    BY DEF Issuing, RequestState
  <1>5. \A t \in TokenIds : Rotating(t) \in RequestState
    BY DEF Rotating, RequestState
  <1>6. \A t \in TokenIds : Ending(t) \in RequestState
    BY DEF Ending, RequestState
  <1>7. \A t \in TokenIds : Replying(t) \in RequestState
    BY DEF Replying, RequestState
  <1> QED
    BY <1>1, <1>2, <1>3, <1>4, <1>5, <1>6, <1>7

\* Which request uses which row.
LEMMA UsingWhat ==
  ASSUME NEW r \in RequestState
  PROVE  /\ r.pc = "redeem" => Using(r) = {r.otp}
         /\ r.pc \in {"rotate", "end"} => Using(r) = {r.token}
  BY DEF Using

-----------------------------------------------------------------------------
(* Which steps change what.                                                *)

\* A request changes by its own steps only, to what they make of it.
LEMMA RequestChanges ==
  ASSUME TypeOK, [Next]_vars, NEW q \in Requests
  PROVE  \/ req'[q] = req[q]
         \/ req'[q] = Idle
         \/ \E t \in TokenIds : req'[q] = Replying(t)
         \/ \E u \in Users : Login(q, u)
         \/ \E o \in OtpIds : RedeemRead(q, o)
         \/ RedeemCommit(q)
         \/ \E t \in TokenIds : RefreshRead(q, t) \/ LogoutRead(q, t)
  <1>1. req \in [Requests -> RequestState]
    BY DEF TypeOK
  <1> DEFINE Own(p) == \/ \E u \in Users : Login(p, u)
                       \/ \E o \in OtpIds : SendOtp(p, o) \/ RedeemRead(p, o)
                       \/ \E t \in TokenIds : \/ IssueTokens(p, t) \/ RefreshRead(p, t)
                                              \/ RefreshCommit(p, t) \/ LogoutRead(p, t)
                       \/ RedeemCommit(p) \/ LogoutCommit(p) \/ Reply(p) \/ Killed(p)
  <1>2. ASSUME NEW p \in Requests, Own(p), p # q
        PROVE  req'[q] = req[q]
    BY <1>1, <1>2 DEF Login, SendOtp, RedeemRead, IssueTokens, RefreshRead,
       RefreshCommit, LogoutRead, RedeemCommit, LogoutCommit, Reply, Killed
  <1>3. (\A p \in Requests : ~Own(p)) => req' = req
    BY ZenonT(60) DEF Next, Approve, Suspend, Refused, Deliver, DeliveryFails,
       OtpExpires, TokenExpires, vars
  <1>4. CASE Own(q)
    BY <1>1, <1>4 DEF SendOtp, IssueTokens, RefreshCommit, LogoutCommit, Reply, Killed
  <1> HIDE DEF Own
  <1> QED
    BY <1>2, <1>3, <1>4

LEMMA AccountWriters ==
  ASSUME [Next]_vars
  PROVE  (\E u \in Users : Approve(u) \/ Suspend(u)) \/ UNCHANGED account
  BY ZenonT(60) DEF Next, Login, SendOtp, RedeemRead, IssueTokens, RefreshRead,
     RefreshCommit, LogoutRead, RedeemCommit, LogoutCommit, Reply, Killed, Refused,
     Deliver, DeliveryFails, OtpExpires, TokenExpires, vars

LEMMA OtpWriters ==
  ASSUME [Next]_vars
  PROVE  \/ \E q \in Requests, o \in OtpIds : SendOtp(q, o)
         \/ \E q \in Requests : RedeemCommit(q)
         \/ \E o \in OtpIds : OtpExpires(o)
         \/ UNCHANGED otp
  BY ZenonT(60) DEF Next, Approve, Suspend, Login, RedeemRead, IssueTokens,
     RefreshRead, RefreshCommit, LogoutRead, LogoutCommit, Reply, Killed, Refused,
     Deliver, DeliveryFails, TokenExpires, vars

LEMMA RedeemedWriters ==
  ASSUME [Next]_vars
  PROVE  (\E q \in Requests : RedeemCommit(q)) \/ UNCHANGED redeemed
  BY ZenonT(60) DEF Next, Approve, Suspend, Login, SendOtp, RedeemRead, IssueTokens,
     RefreshRead, RefreshCommit, LogoutRead, LogoutCommit, Reply, Killed, Refused,
     Deliver, DeliveryFails, OtpExpires, TokenExpires, vars

LEMMA TokenWriters ==
  ASSUME [Next]_vars
  PROVE  \/ \E q \in Requests, t \in TokenIds : IssueTokens(q, t) \/ RefreshCommit(q, t)
         \/ \E q \in Requests : LogoutCommit(q)
         \/ (\E t \in TokenIds : TokenExpires(t)) /\ UNCHANGED ended
         \/ UNCHANGED <<token, ended>>
  BY ZenonT(60) DEF Next, Approve, Suspend, Login, SendOtp, RedeemRead, RefreshRead,
     LogoutRead, RedeemCommit, Reply, Killed, Refused, Deliver, DeliveryFails,
     OtpExpires, TokenExpires, vars

LEMMA ContestedGrows ==
  ASSUME [Next]_vars
  PROVE  contested \subseteq contested'
  BY ZenonT(60) DEF Next, Approve, Suspend, Login, SendOtp, RedeemRead, IssueTokens,
     RefreshRead, RefreshCommit, LogoutRead, RedeemCommit, LogoutCommit, Reply,
     Killed, Refused, Deliver, DeliveryFails, OtpExpires, TokenExpires, Contest,
     vars

\* A one-time password's row is written when it is sent, and keeps its owner
\* then; used is for ever.
LEMMA OtpRowsKeep ==
  ASSUME TypeOK, [Next]_vars, NEW o \in OtpIds
  PROVE  \/ /\ otp'[o].owner = otp[o].owner
            /\ otp[o].used => otp'[o].used
         \/ /\ otp[o].owner = None
            /\ \E q \in Requests : SendOtp(q, o) /\ otp'[o].owner = req[q].user
  <1>1. otp \in [OtpIds -> OtpRow]
    BY DEF TypeOK
  <1>2. ASSUME NEW q \in Requests, NEW n \in OtpIds, SendOtp(q, n)
        PROVE  IF o = n THEN otp[o].owner = None /\ otp'[o].owner = req[q].user
                        ELSE otp'[o] = otp[o]
    BY <1>1, <1>2 DEF SendOtp, NoOtp, FreshOtps
  <1>3. ASSUME NEW q \in Requests, RedeemCommit(q)
        PROVE  otp'[o].owner = otp[o].owner /\ (otp[o].used => otp'[o].used)
    BY <1>1, <1>3 DEF RedeemCommit, OtpRow
  <1>4. ASSUME NEW n \in OtpIds, OtpExpires(n)
        PROVE  otp'[o].owner = otp[o].owner /\ (otp[o].used => otp'[o].used)
    BY <1>1, <1>4 DEF OtpExpires, OtpRow
  <1> QED
    BY <1>2, <1>3, <1>4, OtpWriters

LEMMA AccountsKeep ==
  ASSUME TypeOK, [Next]_vars, NEW u \in Users, account[u] # "pending"
  PROVE  account'[u] # "pending"
  <1>1. ASSUME NEW v \in Users, Approve(v) \/ Suspend(v)
        PROVE  account'[u] # "pending"
    BY <1>1 DEF Approve, Suspend, TypeOK
  <1> QED
    BY <1>1, AccountWriters

\* A new token's row, for a login and for a rotation.
LEMMA IssuedRow ==
  ASSUME TypeOK, NEW q \in Requests, NEW t \in TokenIds, IssueTokens(q, t)
  PROVE  /\ t \notin Issued
         /\ req[q].pc = "issue" /\ req[q].user \in Users
         /\ req[q].otp \in OtpIds \cup {None}
         /\ token'[t].owner = req[q].user /\ token'[t].code = req[q].otp
         /\ token'[t].parent = None /\ token'[t].replacedBy = None
         /\ ~token'[t].revoked
         /\ \A s \in TokenIds \ {t} : token'[s] = token[s]
         /\ Issued' = Issued \cup {t}
         /\ ended' = ended
  <1>1. /\ token \in [TokenIds -> TokenRow] /\ req[q] \in RequestState
        /\ req[q].pc = "issue"
    BY DEF TypeOK, IssueTokens
  <1>2. req[q].user \in Users /\ req[q].otp \in OtpIds \cup {None}
    BY <1>1, RequestTypes
  <1>3. /\ token'[t] = [NoToken EXCEPT !.owner = req[q].user, !.code = req[q].otp]
        /\ \A s \in TokenIds \ {t} : token'[s] = token[s]
    BY <1>1 DEF IssueTokens
  <1>4. /\ token'[t].owner = req[q].user /\ token'[t].code = req[q].otp
        /\ token'[t].parent = None /\ token'[t].replacedBy = None
        /\ ~token'[t].revoked
    BY <1>3 DEF NoToken
  <1>5. t \notin Issued
    BY DEF IssueTokens, Issued
  <1>6. Issued' = Issued \cup {t}
    BY <1>2, <1>3, <1>4, ConstantsAssumption DEF Issued, FreshTokens
  <1> QED
    BY <1>1, <1>2, <1>3, <1>4, <1>5, <1>6 DEF IssueTokens

LEMMA RotatedRows ==
  ASSUME TypeOK, RequestsSound,
         NEW q \in Requests, NEW new \in TokenIds, RefreshCommit(q, new)
  PROVE  LET t == req[q].token
         IN  /\ req[q].pc = "rotate" /\ t \in Issued /\ new \notin Issued
             /\ token'[new].owner = token[t].owner /\ token'[new].code = token[t].code
             /\ token'[new].parent = t /\ token'[new].replacedBy = None
             /\ ~token'[new].revoked
             /\ token'[t].owner = token[t].owner /\ token'[t].code = token[t].code
             /\ token'[t].parent = token[t].parent /\ token'[t].replacedBy = new
             /\ token'[t].revoked
             /\ \A s \in TokenIds \ {t, new} : token'[s] = token[s]
             /\ Issued' = Issued \cup {new}
             /\ ended' = ended
  <1> DEFINE t == req[q].token
  <1>1. /\ token \in [TokenIds -> TokenRow]
        /\ req[q].pc = "rotate"
        /\ t \in Issued /\ new \notin Issued
    BY DEF TypeOK, RefreshCommit, RequestsSound, Issued
  <1>2. t \in TokenIds /\ token[t] \in TokenRow /\ token[t].owner # None /\ t # new
    BY <1>1 DEF Issued, FreshTokens
  <1>3. /\ token'[new] = SuccessorRow(t)
        /\ token'[t] = [token[t] EXCEPT !.revoked = TRUE, !.replacedBy = new]
        /\ \A s \in TokenIds \ {t, new} : token'[s] = token[s]
        /\ ended' = ended
    BY <1>1, <1>2 DEF RefreshCommit
  <1> HIDE DEF t
  <1>4. /\ token'[new].owner = token[t].owner /\ token'[new].code = token[t].code
        /\ token'[new].parent = t /\ token'[new].replacedBy = None
        /\ ~token'[new].revoked
    BY <1>3 DEF NoToken, SuccessorRow
  <1>5. /\ token'[t].owner = token[t].owner /\ token'[t].code = token[t].code
        /\ token'[t].parent = token[t].parent /\ token'[t].replacedBy = new
        /\ token'[t].revoked
    BY <1>2, <1>3 DEF TokenRow
  <1>6. Issued' = Issued \cup {new}
    <2>1. token[new].owner = None /\ token'[new].owner # None
      BY <1>1, <1>2, <1>4 DEF Issued, FreshTokens
    <2>2. \A s \in TokenIds \ {new} : token'[s].owner = token[s].owner
      BY <1>3, <1>5
    <2> QED
      BY <2>1, <2>2 DEF Issued, FreshTokens
  <1> QED
    BY <1>1, <1>3, <1>4, <1>5, <1>6 DEF t

LEMMA EndedRow ==
  ASSUME TypeOK, RequestsSound, NEW q \in Requests, LogoutCommit(q)
  PROVE  LET t == req[q].token
         IN  /\ req[q].pc = "end" /\ t \in Issued
             /\ token'[t].owner = token[t].owner /\ token'[t].code = token[t].code
             /\ token'[t].parent = token[t].parent
             /\ token'[t].replacedBy = token[t].replacedBy
             /\ token'[t].revoked
             /\ \A s \in TokenIds \ {t} : token'[s] = token[s]
             /\ Issued' = Issued
             /\ ended' = ended \cup {t}
  <1> DEFINE t == req[q].token
  <1>1. /\ token \in [TokenIds -> TokenRow] /\ req[q].pc = "end" /\ t \in Issued
    BY DEF TypeOK, LogoutCommit, RequestsSound
  <1>2. t \in TokenIds /\ token[t] \in TokenRow
    BY <1>1 DEF Issued
  <1>3. /\ token'[t] = [token[t] EXCEPT !.revoked = TRUE]
        /\ \A s \in TokenIds \ {t} : token'[s] = token[s]
        /\ ended' = ended \cup {t}
    BY <1>1, <1>2 DEF LogoutCommit
  <1> HIDE DEF t
  <1>4. /\ token'[t].owner = token[t].owner /\ token'[t].code = token[t].code
        /\ token'[t].parent = token[t].parent
        /\ token'[t].replacedBy = token[t].replacedBy
        /\ token'[t].revoked
    BY <1>2, <1>3 DEF TokenRow
  <1>5. \A s \in TokenIds : token'[s].owner = token[s].owner
    BY <1>3, <1>4
  <1>6. Issued' = Issued
    BY <1>5 DEF Issued, FreshTokens
  <1> QED
    BY <1>1, <1>3, <1>4, <1>6 DEF t

LEMMA ExpiredRow ==
  ASSUME TypeOK, NEW t \in TokenIds, TokenExpires(t)
  PROVE  /\ \A s \in TokenIds :
              /\ token'[s].owner = token[s].owner /\ token'[s].code = token[s].code
              /\ token'[s].parent = token[s].parent
              /\ token'[s].replacedBy = token[s].replacedBy
              /\ token'[s].revoked = token[s].revoked
         /\ Issued' = Issued
  <1>1. token \in [TokenIds -> TokenRow]
    BY DEF TypeOK
  <1>2. \A s \in TokenIds :
          /\ token'[s].owner = token[s].owner /\ token'[s].code = token[s].code
          /\ token'[s].parent = token[s].parent
          /\ token'[s].replacedBy = token[s].replacedBy
          /\ token'[s].revoked = token[s].revoked
    BY <1>1 DEF TokenExpires, TokenRow
  <1> QED
    BY <1>2 DEF Issued, FreshTokens

\* An issued token keeps its owner, its login and its parent, and is never
\* unrevoked.
LEMMA TokenRowsKeep ==
  ASSUME TypeOK, RequestsSound, [Next]_vars, NEW t \in Issued
  PROVE  /\ t \in Issued'
         /\ token'[t].owner = token[t].owner /\ token'[t].code = token[t].code
         /\ token'[t].parent = token[t].parent
         /\ token[t].revoked => token'[t].revoked
  <1>1. t \in TokenIds
    BY DEF Issued
  <1>2. ASSUME NEW q \in Requests, NEW n \in TokenIds, IssueTokens(q, n)
        PROVE  t \in Issued' /\ token'[t] = token[t]
    BY <1>1, <1>2, IssuedRow
  <1>3. ASSUME NEW q \in Requests, NEW n \in TokenIds, RefreshCommit(q, n)
        PROVE  /\ t \in Issued'
               /\ token'[t].owner = token[t].owner /\ token'[t].code = token[t].code
               /\ token'[t].parent = token[t].parent
               /\ token[t].revoked => token'[t].revoked
    BY <1>1, <1>3, RotatedRows
  <1>4. ASSUME NEW q \in Requests, LogoutCommit(q)
        PROVE  /\ t \in Issued'
               /\ token'[t].owner = token[t].owner /\ token'[t].code = token[t].code
               /\ token'[t].parent = token[t].parent
               /\ token[t].revoked => token'[t].revoked
    BY <1>1, <1>4, EndedRow
  <1>5. ASSUME NEW n \in TokenIds, TokenExpires(n)
        PROVE  /\ t \in Issued'
               /\ token'[t].owner = token[t].owner /\ token'[t].code = token[t].code
               /\ token'[t].parent = token[t].parent
               /\ token[t].revoked => token'[t].revoked
    BY <1>1, <1>5, ExpiredRow
  <1> QED
    BY <1>2, <1>3, <1>4, <1>5, TokenWriters DEF Issued, FreshTokens

\* How a request comes to hold what it holds.
LEMMA NewHolders ==
  ASSUME TypeOK, [Next]_vars, NEW q \in Requests, req'[q] # req[q]
  PROVE  /\ req'[q].pc = "send otp" =>
              \E u \in Users : Login(q, u) /\ req'[q].user = u
         /\ req'[q].pc = "redeem" =>
              \E o \in OtpIds : /\ RedeemRead(q, o)
                                /\ req'[q].otp = o /\ req'[q].user = otp[o].owner
         /\ req'[q].pc = "issue" =>
              \/ /\ RedeemCommit(q)
                 /\ req'[q].otp = req[q].otp /\ req'[q].user = req[q].user
              \/ /\ ~OtpEnabled /\ req'[q].otp = None
                 /\ \E u \in Users : Login(q, u) /\ req'[q].user = u
         /\ req'[q].pc \in {"rotate", "end"} =>
              \E t \in TokenIds : /\ RefreshRead(q, t) \/ LogoutRead(q, t)
                                  /\ req'[q].token = t
  <1>1. req \in [Requests -> RequestState]
    BY DEF TypeOK
  <1>2. CASE req'[q] = Idle \/ \E t \in TokenIds : req'[q] = Replying(t)
    BY <1>2, RequestFields
  <1>3. CASE \E u \in Users : Login(q, u)
    <2>1. PICK u \in Users : Login(q, u)
      BY <1>3
    <2>2. \/ OtpEnabled /\ req'[q].pc = "send otp" /\ req'[q].user = u
          \/ /\ ~OtpEnabled /\ req'[q].pc = "issue"
             /\ req'[q].user = u /\ req'[q].otp = None
      BY <1>1, <2>1 DEF Login, Sending, Issuing
    <2> QED
      BY <2>1, <2>2
  <1>4. CASE \E o \in OtpIds : RedeemRead(q, o)
    <2>1. PICK o \in OtpIds : RedeemRead(q, o)
      BY <1>4
    <2>2. /\ req'[q].pc = "redeem"
          /\ req'[q].otp = o /\ req'[q].user = otp[o].owner
      BY <1>1, <2>1 DEF RedeemRead, Redeeming
    <2> QED
      BY <2>1, <2>2
  <1>5. CASE RedeemCommit(q)
    <2>1. /\ req'[q].pc = "issue"
          /\ req'[q].otp = req[q].otp /\ req'[q].user = req[q].user
      BY <1>1, <1>5 DEF RedeemCommit, Issuing
    <2> QED
      BY <1>5, <2>1
  <1>6. CASE \E t \in TokenIds : RefreshRead(q, t) \/ LogoutRead(q, t)
    <2>1. PICK t \in TokenIds : RefreshRead(q, t) \/ LogoutRead(q, t)
      BY <1>6
    <2>2. req'[q].pc \in {"rotate", "end"} /\ req'[q].token = t
      BY <1>1, <2>1 DEF RefreshRead, LogoutRead, Rotating, Ending
    <2> QED
      BY <2>1, <2>2
  <1> QED
    BY <1>2, <1>3, <1>4, <1>5, <1>6, RequestChanges

LEMMA NewTokens ==
  ASSUME TypeOK, RequestsSound, [Next]_vars, NEW t \in Issued', t \notin Issued
  PROVE  /\ t \in TokenIds
         /\ \E q \in Requests : IssueTokens(q, t) \/ RefreshCommit(q, t)
  <1>1. ASSUME NEW q \in Requests, NEW n \in TokenIds, IssueTokens(q, n) \/ RefreshCommit(q, n)
        PROVE  t = n
    BY <1>1, IssuedRow, RotatedRows
  <1>2. ASSUME NEW q \in Requests, LogoutCommit(q) PROVE FALSE
    BY <1>2, EndedRow
  <1>3. ASSUME NEW n \in TokenIds, TokenExpires(n) PROVE FALSE
    BY <1>3, ExpiredRow
  <1>4. UNCHANGED token => FALSE
    BY DEF Issued, FreshTokens
  <1>5. t \in TokenIds
    BY DEF Issued
  <1> QED
    BY <1>1, <1>2, <1>3, <1>4, <1>5, TokenWriters

-----------------------------------------------------------------------------
(* IInv is inductive.                                                      *)

LEMMA InitIInv == ASSUME Init PROVE IInv
  <1>1. TypeOK
    BY ConstantsAssumption, RequestStates
       DEF Init, TypeOK, OtpRow, NoOtp, TokenRow, NoToken
  <1>2. Issued = {}
    BY DEF Init, Issued, FreshTokens, NoToken
  <1>3. \A q \in Requests : req[q].pc = "idle"
    BY DEF Init, Idle
  <1>4. \A o \in OtpIds : redeemed[o] = 0 /\ otp[o].owner = None
    BY DEF Init, NoOtp
  <1>5. RedemptionsBoundedByRequests
    <2>1. \A o \in OtpIds : HoldsOtp(o) = {}
      BY <1>3 DEF HoldsOtp
    <2>2. Cardinality({}) = 0 /\ Cardinality(Requests) \in Nat
      BY FS_EmptySet, FS_CardinalityType, ConstantsAssumption
    <2> QED
      BY <1>4, <2>1, <2>2 DEF RedemptionsBoundedByRequests
  <1>6. ended = {}
    BY DEF Init
  <1>7. OtpsOfApproved /\ RequestsSound
    BY <1>3, <1>4 DEF OtpsOfApproved, RequestsSound
  <1>8. SessionHasConsumedOtp /\ RotationIsTraceable
    BY <1>2 DEF SessionHasConsumedOtp, RotationIsTraceable
  <1>9. RedeemedIsUsed
    BY <1>2, <1>3, <1>4 DEF RedeemedIsUsed
  <1>10. OtpUsedByOne
    BY <1>3, <1>4 DEF OtpUsedByOne
  <1>11. TokenUsedByOne /\ OneUnrevoked /\ EndedIsRevoked
    BY <1>2, <1>3, <1>6 DEF TokenUsedByOne, OneUnrevoked, EndedIsRevoked
  <1> QED
    BY <1>1, <1>5, <1>7, <1>8, <1>9, <1>10, <1>11 DEF IInv

LEMMA TypeStep == ASSUME TypeOK, [Next]_vars PROVE TypeOK'
  <1>0. /\ req \in [Requests -> RequestState]
        /\ otp \in [OtpIds -> OtpRow]
        /\ token \in [TokenIds -> TokenRow]
        /\ redeemed \in [OtpIds -> Nat]
    BY DEF TypeOK
  <1>1. req' \in [Requests -> RequestState]
    <2>1. ASSUME NEW q \in Requests PROVE req'[q] \in RequestState
      <3>1. CASE \E u \in Users : Login(q, u)
        BY <1>0, <3>1, RequestStates DEF Login
      <3>2. ASSUME NEW o \in OtpIds, RedeemRead(q, o) PROVE req'[q] \in RequestState
        <4>1. otp[o].owner \in Users
          BY <1>0, <3>2 DEF RedeemRead, ValidOtp, OtpRow
        <4> QED
          BY <1>0, <3>2, <4>1, RequestStates DEF RedeemRead
      <3>3. CASE RedeemCommit(q)
        BY <1>0, <3>3, RequestTypes, RequestStates DEF RedeemCommit
      <3>4. CASE \E t \in TokenIds : RefreshRead(q, t) \/ LogoutRead(q, t)
        BY <1>0, <3>4, RequestStates DEF RefreshRead, LogoutRead
      <3> QED
        BY <1>0, <3>1, <3>2, <3>3, <3>4, RequestChanges, RequestStates
    <2>2. req' = [q \in Requests |-> req'[q]]
      BY <1>0, ZenonT(60) DEF Next, Approve, Suspend, Login, SendOtp, RedeemRead,
         IssueTokens, RefreshRead, RefreshCommit, LogoutRead, RedeemCommit,
         LogoutCommit, Reply, Killed, Refused, Deliver, DeliveryFails, OtpExpires,
         TokenExpires, vars
    <2> QED
      BY <2>1, <2>2
  <1>2. account' \in [Users -> {"pending", "active", "suspended"}]
    BY AccountWriters DEF TypeOK, Approve, Suspend
  <1>3. otp' \in [OtpIds -> OtpRow]
    <2>1. ASSUME NEW q \in Requests, NEW o \in OtpIds, SendOtp(q, o)
          PROVE  otp' \in [OtpIds -> OtpRow]
      <3>1. req[q].user \in Users
        BY <1>0, <2>1, RequestTypes DEF SendOtp
      <3>2. [NoOtp EXCEPT !.owner = req[q].user] \in OtpRow
        BY <3>1 DEF NoOtp, OtpRow
      <3> QED
        BY <1>0, <2>1, <3>2 DEF SendOtp
    <2>2. ASSUME NEW q \in Requests, RedeemCommit(q)
          PROVE  otp' \in [OtpIds -> OtpRow]
      BY <1>0, <2>2 DEF RedeemCommit, OtpRow
    <2>3. ASSUME NEW o \in OtpIds, OtpExpires(o)
          PROVE  otp' \in [OtpIds -> OtpRow]
      BY <1>0, <2>3 DEF OtpExpires, OtpRow
    <2> QED
      BY <1>0, <2>1, <2>2, <2>3, OtpWriters
  <1>4. token' \in [TokenIds -> TokenRow]
    <2>1. ASSUME NEW q \in Requests, NEW t \in TokenIds, IssueTokens(q, t)
          PROVE  token' \in [TokenIds -> TokenRow]
      <3>1. req[q].user \in Users /\ req[q].otp \in OtpIds \cup {None}
        BY <1>0, <2>1, RequestTypes DEF IssueTokens
      <3>2. [NoToken EXCEPT !.owner = req[q].user, !.code = req[q].otp] \in TokenRow
        BY <3>1 DEF NoToken, TokenRow
      <3> QED
        BY <1>0, <2>1, <3>2 DEF IssueTokens
    <2>2. ASSUME NEW q \in Requests, NEW new \in TokenIds, RefreshCommit(q, new)
          PROVE  token' \in [TokenIds -> TokenRow]
      <3> DEFINE t == req[q].token
      <3>1. t \in TokenIds
        BY <1>0, <2>2, RequestTypes DEF RefreshCommit
      <3>2. SuccessorRow(t) \in TokenRow
        BY <1>0, <3>1 DEF SuccessorRow, NoToken, TokenRow
      <3>3. token' = [token EXCEPT ![t].revoked = TRUE, ![t].replacedBy = new,
                                   ![new] = SuccessorRow(t)]
        BY <2>2 DEF RefreshCommit
      <3> HIDE DEF t
      <3>4. [token EXCEPT ![t].revoked = TRUE, ![t].replacedBy = new]
              \in [TokenIds -> TokenRow]
        BY <1>0, <3>1, ZenonT(60) DEF TokenRow
      <3> QED
        BY <3>2, <3>3, <3>4
    <2>3. ASSUME NEW q \in Requests, LogoutCommit(q)
          PROVE  token' \in [TokenIds -> TokenRow]
      BY <1>0, <2>3, ZenonT(60) DEF LogoutCommit, TokenRow
    <2>4. ASSUME NEW t \in TokenIds, TokenExpires(t)
          PROVE  token' \in [TokenIds -> TokenRow]
      BY <1>0, <2>4, ZenonT(60) DEF TokenExpires, TokenRow
    <2> QED
      BY <1>0, <2>1, <2>2, <2>3, <2>4, TokenWriters
  <1>5. outbox' \subseteq OtpIds /\ mailbox' \subseteq OtpIds
    BY ZenonT(60) DEF TypeOK, Next, Approve, Suspend, Login, SendOtp, RedeemRead,
       IssueTokens, RefreshRead, RefreshCommit, LogoutRead, RedeemCommit,
       LogoutCommit, Reply, Killed, Refused, Deliver, DeliveryFails, OtpExpires,
       TokenExpires, vars
  <1>6. wallet' \subseteq TokenIds
    <2>1. ASSUME NEW q \in Requests, Reply(q) PROVE wallet' \subseteq TokenIds
      BY <1>0, <2>1, RequestTypes DEF Reply, TypeOK
    <2>2. (\A q \in Requests : ~Reply(q)) => wallet' = wallet
      BY ZenonT(60) DEF Next, Approve, Suspend, Login, SendOtp, RedeemRead,
         IssueTokens, RefreshRead, RefreshCommit, LogoutRead, RedeemCommit,
         LogoutCommit, Killed, Refused, Deliver, DeliveryFails, OtpExpires,
         TokenExpires, vars
    <2> QED
      BY <2>1, <2>2 DEF TypeOK
  <1>7. redeemed' \in [OtpIds -> Nat]
    <2>1. ASSUME NEW q \in Requests, RedeemCommit(q)
          PROVE  redeemed' \in [OtpIds -> Nat]
      <3>1. redeemed' = [redeemed EXCEPT ![req[q].otp] = redeemed[req[q].otp] + 1]
        BY <2>1 DEF RedeemCommit
      <3>2. req[q].otp \in OtpIds
        BY <1>0, <2>1, RequestTypes DEF RedeemCommit
      <3>3. redeemed[req[q].otp] + 1 \in Nat
        BY <1>0, <3>2
      <3> QED
        BY <1>0, <3>1, <3>3
    <2> QED
      BY <1>0, <2>1, RedeemedWriters
  <1>8. ended' \subseteq TokenIds
    <2>1. ASSUME NEW q \in Requests, LogoutCommit(q) PROVE ended' \subseteq TokenIds
      BY <1>0, <2>1, RequestTypes DEF LogoutCommit, TypeOK
    <2> QED
      BY <2>1, TokenWriters DEF TypeOK, IssueTokens, RefreshCommit
  <1>9. contested' \subseteq OtpIds \cup TokenIds
    <2>1. \A x \in OtpIds \cup TokenIds :
            Contest(x) => contested' \subseteq OtpIds \cup TokenIds
      BY DEF Contest, TypeOK
    <2> QED
      BY <2>1, ZenonT(60) DEF TypeOK, Next, Approve, Suspend, Login, SendOtp,
         RedeemRead, IssueTokens, RefreshRead, RefreshCommit, LogoutRead,
         RedeemCommit, LogoutCommit, Reply, Killed, Refused, Deliver, DeliveryFails,
         OtpExpires, TokenExpires, vars
  <1>10. faults' \in 0..MaxFaults
    <2>1. faults' = faults \/ (faults < MaxFaults /\ faults' = faults + 1)
      BY ZenonT(60) DEF Next, Approve, Suspend, Login, SendOtp, RedeemRead,
         IssueTokens, RefreshRead, RefreshCommit, LogoutRead, RedeemCommit,
         LogoutCommit, Reply, Killed, Refused, Deliver, DeliveryFails, OtpExpires,
         TokenExpires, vars
    <2> QED
      BY <2>1, ConstantsAssumption DEF TypeOK
  <1> QED
    BY <1>1, <1>2, <1>3, <1>4, <1>5, <1>6, <1>7, <1>8, <1>9, <1>10 DEF TypeOK

LEMMA OtpsOfApprovedStep == ASSUME IInv, [Next]_vars PROVE OtpsOfApproved'
  <1> SUFFICES ASSUME NEW o \in OtpIds, otp'[o].owner # None
               PROVE  account'[otp'[o].owner] # "pending"
    BY DEF OtpsOfApproved
  <1>1. TypeOK /\ TypeOK'
    BY TypeStep DEF IInv
  <1>2. otp'[o].owner \in Users
    BY <1>1 DEF TypeOK, OtpRow
  <1>3. CASE otp'[o].owner = otp[o].owner
    BY <1>1, <1>2, <1>3, AccountsKeep DEF IInv, OtpsOfApproved
  <1>4. ASSUME NEW q \in Requests, SendOtp(q, o), otp'[o].owner = req[q].user
        PROVE  account'[otp'[o].owner] # "pending"
    BY <1>1, <1>2, <1>4, AccountsKeep DEF IInv, RequestsSound, SendOtp
  <1> QED
    BY <1>1, <1>3, <1>4, OtpRowsKeep

LEMMA RequestsSoundStep == ASSUME IInv, [Next]_vars PROVE RequestsSound'
  <1>1. TypeOK /\ TypeOK' /\ RequestsSound
    BY TypeStep DEF IInv
  <1> SUFFICES ASSUME NEW q \in Requests
               PROVE  /\ req'[q].pc \in {"send otp", "issue"} =>
                           account'[req'[q].user] # "pending"
                      /\ req'[q].pc = "redeem" => otp'[req'[q].otp].owner = req'[q].user
                      /\ req'[q].pc = "issue" =>
                           /\ OtpEnabled => req'[q].otp # None
                           /\ req'[q].otp # None =>
                                /\ otp'[req'[q].otp].used
                                /\ otp'[req'[q].otp].owner = req'[q].user
                      /\ req'[q].pc \in {"rotate", "end"} => req'[q].token \in Issued'
    BY DEF RequestsSound
  <1>2. req[q] \in RequestState /\ req'[q] \in RequestState
    BY <1>1 DEF TypeOK
  <1>3. ASSUME NEW o \in OtpIds, otp[o].owner # None
        PROVE  /\ otp'[o].owner = otp[o].owner
               /\ otp[o].used => otp'[o].used
    BY <1>1, <1>3, OtpRowsKeep
  <1>4. CASE req'[q] = req[q]
    <2>1. req[q].pc \in {"send otp", "issue"} => account'[req[q].user] # "pending"
      BY <1>1, <1>2, AccountsKeep, RequestTypes DEF RequestsSound
    <2>2. req[q].pc = "redeem" => otp'[req[q].otp].owner = req[q].user
      <3>1. req[q].pc = "redeem" => otp[req[q].otp].owner = req[q].user
        BY <1>1 DEF RequestsSound
      <3>2. req[q].pc = "redeem" => req[q].otp \in OtpIds /\ req[q].user # None
        BY <1>2, RequestTypes, ConstantsAssumption
      <3> QED
        BY <1>3, <3>1, <3>2
    <2>3. req[q].pc = "issue" =>
            /\ OtpEnabled => req[q].otp # None
            /\ req[q].otp # None => /\ otp'[req[q].otp].used
                                    /\ otp'[req[q].otp].owner = req[q].user
      <3>1. req[q].pc = "issue" =>
              /\ OtpEnabled => req[q].otp # None
              /\ req[q].otp # None => /\ otp[req[q].otp].used
                                      /\ otp[req[q].otp].owner = req[q].user
        BY <1>1 DEF RequestsSound
      <3>2. req[q].pc = "issue" =>
              req[q].otp \in OtpIds \cup {None} /\ req[q].user # None
        BY <1>2, RequestTypes, ConstantsAssumption
      <3> QED
        BY <1>3, <3>1, <3>2
    <2>4. req[q].pc \in {"rotate", "end"} => req[q].token \in Issued'
      BY <1>1, TokenRowsKeep DEF RequestsSound
    <2> QED
      BY <1>4, <2>1, <2>2, <2>3, <2>4
  <1>5. CASE req'[q] # req[q]
    <2>1. CASE req'[q].pc = "send otp"
      BY <1>1, <1>5, <2>1, NewHolders, AccountsKeep DEF Login
    <2>2. CASE req'[q].pc = "redeem"
      <3>1. PICK o \in OtpIds : /\ RedeemRead(q, o)
                                /\ req'[q].otp = o /\ req'[q].user = otp[o].owner
        BY <1>1, <1>5, <2>2, NewHolders
      <3>2. otp' = otp
        BY <3>1 DEF RedeemRead
      <3> QED
        BY <2>2, <3>1, <3>2
    <2>3. CASE req'[q].pc = "issue"
      <3>1. CASE RedeemCommit(q) /\ req'[q].otp = req[q].otp /\ req'[q].user = req[q].user
        <4>1. /\ req[q].pc = "redeem" /\ req[q].otp \in OtpIds /\ req[q].user \in Users
              /\ otp[req[q].otp].owner = req[q].user
          BY <1>1, <1>2, <3>1, RequestTypes DEF RedeemCommit, RequestsSound
        <4>2. account'[req[q].user] # "pending"
          BY <1>1, <4>1, AccountsKeep, ConstantsAssumption DEF IInv, OtpsOfApproved
        <4>3. otp'[req[q].otp].used
          BY <1>1, <3>1, <4>1 DEF RedeemCommit, TypeOK, OtpRow
        <4>4. otp'[req[q].otp].owner = req[q].user
          BY <1>3, <4>1, ConstantsAssumption
        <4> QED
          BY <2>3, <3>1, <4>1, <4>2, <4>3, <4>4, ConstantsAssumption
      <3>2. CASE /\ ~OtpEnabled /\ req'[q].otp = None
                 /\ \E u \in Users : Login(q, u) /\ req'[q].user = u
        BY <1>1, <2>3, <3>2, AccountsKeep DEF Login
      <3> QED
        BY <1>1, <1>5, <2>3, <3>1, <3>2, NewHolders
    <2>4. CASE req'[q].pc \in {"rotate", "end"}
      <3>1. PICK t \in TokenIds : /\ RefreshRead(q, t) \/ LogoutRead(q, t)
                                  /\ req'[q].token = t
        BY <1>1, <1>5, <2>4, NewHolders
      <3>2. t \in Issued
        BY <3>1 DEF RefreshRead, LogoutRead, LiveToken, Issued, FreshTokens
      <3> QED
        BY <1>1, <2>4, <3>1, <3>2, TokenRowsKeep
    <2> QED
      BY <2>1, <2>2, <2>3, <2>4
  <1> QED
    BY <1>4, <1>5

\* Every token's login consumed a one-time password of its owner.
LEMMA SessionStep == ASSUME IInv, [Next]_vars PROVE SessionHasConsumedOtp'
  <1>1. TypeOK /\ TypeOK' /\ RequestsSound
    BY TypeStep DEF IInv
  <1> DEFINE Bought(u, c) ==
               /\ account[u] # "pending"
               /\ OtpEnabled => c # None /\ otp[c].used /\ otp[c].owner = u
             StillBought(u, c) ==
               /\ account'[u] # "pending"
               /\ OtpEnabled => c # None /\ otp'[c].used /\ otp'[c].owner = u
  <1> SUFFICES ASSUME NEW t \in Issued'
               PROVE  StillBought(token'[t].owner, token'[t].code)
    BY DEF SessionHasConsumedOtp
  <1>2. \A s \in Issued : /\ Bought(token[s].owner, token[s].code)
                          /\ token[s].owner \in Users /\ token[s].code \in OtpIds \cup {None}
    BY <1>1 DEF IInv, SessionHasConsumedOtp, TypeOK, TokenRow, Issued, FreshTokens
  <1>3. ASSUME NEW u \in Users, NEW c \in OtpIds \cup {None}, Bought(u, c)
        PROVE  StillBought(u, c)
    BY <1>1, <1>3, OtpRowsKeep, AccountsKeep, ConstantsAssumption
  <1>4. CASE t \in Issued
    <2>1. token'[t].owner = token[t].owner /\ token'[t].code = token[t].code
      BY <1>1, <1>4, TokenRowsKeep
    <2> HIDE DEF Bought, StillBought
    <2> QED
      BY <1>2, <1>3, <1>4, <2>1
  <1>5. ASSUME NEW q \in Requests, t \in TokenIds, IssueTokens(q, t)
        PROVE  StillBought(token'[t].owner, token'[t].code)
    <2>1. /\ req[q].pc = "issue" /\ req[q].user \in Users
          /\ req[q].otp \in OtpIds \cup {None}
          /\ token'[t].owner = req[q].user /\ token'[t].code = req[q].otp
      BY <1>1, <1>5, IssuedRow
    <2>2. Bought(req[q].user, req[q].otp)
      BY <1>1, <2>1 DEF RequestsSound
    <2> HIDE DEF Bought, StillBought
    <2> QED
      BY <1>3, <2>1, <2>2
  <1>6. ASSUME NEW q \in Requests, t \in TokenIds, RefreshCommit(q, t)
        PROVE  StillBought(token'[t].owner, token'[t].code)
    <2>1. /\ req[q].token \in Issued
          /\ token'[t].owner = token[req[q].token].owner
          /\ token'[t].code = token[req[q].token].code
      BY <1>1, <1>6, RotatedRows
    <2> HIDE DEF Bought, StillBought
    <2> QED
      BY <1>2, <1>3, <2>1
  <1> HIDE DEF Bought, StillBought
  <1> QED
    BY <1>1, <1>4, <1>5, <1>6, NewTokens

LEMMA RotationStep == ASSUME IInv, [Next]_vars PROVE RotationIsTraceable'
  <1>1. TypeOK /\ RequestsSound /\ RotationIsTraceable
    BY DEF IInv
  <1>2. \A s \in Issued : s \in TokenIds
    BY DEF Issued
  <1>3. ASSUME NEW t \in Issued'
        PROVE  token'[t].parent # None =>
                 /\ token'[token'[t].parent].revoked
                 /\ token'[token'[t].parent].owner = token'[t].owner
    <2>1. CASE t \in Issued
      <3>1. token'[t].owner = token[t].owner /\ token'[t].parent = token[t].parent
        BY <1>1, <2>1, TokenRowsKeep
      <3>2. SUFFICES ASSUME token[t].parent # None
                     PROVE  /\ token'[token[t].parent].revoked
                            /\ token'[token[t].parent].owner = token[t].owner
        BY <3>1
      <3>3. /\ token[t].parent \in TokenIds /\ token[t].owner # None
            /\ token[token[t].parent].revoked
            /\ token[token[t].parent].owner = token[t].owner
        BY <1>1, <1>2, <2>1, <3>2
           DEF RotationIsTraceable, TypeOK, TokenRow, Issued, FreshTokens
      <3>4. token[t].parent \in Issued
        BY <3>3 DEF Issued, FreshTokens
      <3> QED
        BY <1>1, <3>3, <3>4, TokenRowsKeep
    <2>2. ASSUME NEW q \in Requests, t \in TokenIds, IssueTokens(q, t)
          PROVE  token'[t].parent = None
      BY <1>1, <2>2, IssuedRow
    <2>3. ASSUME NEW q \in Requests, t \in TokenIds, RefreshCommit(q, t)
          PROVE  /\ token'[token'[t].parent].revoked
                 /\ token'[token'[t].parent].owner = token'[t].owner
      BY <1>1, <2>3, RotatedRows
    <2> QED
      BY <1>1, <2>1, <2>2, <2>3, NewTokens
  <1>4. ASSUME NEW t \in Issued'
        PROVE  token'[t].replacedBy # None =>
                 /\ token'[t].replacedBy \in Issued'
                 /\ token'[token'[t].replacedBy].parent = t
    <2>1. CASE t \in Issued /\ token'[t].replacedBy = token[t].replacedBy
      <3>1. token[t].replacedBy # None => /\ token[t].replacedBy \in Issued
                                          /\ token[token[t].replacedBy].parent = t
        BY <1>1, <2>1 DEF RotationIsTraceable
      <3> QED
        BY <1>1, <2>1, <3>1, TokenRowsKeep
    <2>2. ASSUME NEW q \in Requests, NEW n \in TokenIds, IssueTokens(q, n)
          PROVE  \/ token'[t].replacedBy = None
                 \/ t \in Issued /\ token'[t].replacedBy = token[t].replacedBy
      <3>1. /\ n \notin Issued /\ Issued' = Issued \cup {n}
            /\ token'[n].replacedBy = None
            /\ \A s \in TokenIds \ {n} : token'[s] = token[s]
        BY <1>1, <2>2, IssuedRow
      <3>2. CASE t = n
        BY <3>1, <3>2
      <3>3. CASE t # n
        BY <1>2, <3>1, <3>3
      <3> QED
        BY <3>2, <3>3
    <2>3. ASSUME NEW q \in Requests, NEW n \in TokenIds, RefreshCommit(q, n)
          PROVE  \/ token'[t].replacedBy = None
                 \/ t \in Issued /\ token'[t].replacedBy = token[t].replacedBy
                 \/ /\ token'[t].replacedBy \in Issued'
                    /\ token'[token'[t].replacedBy].parent = t
      BY <1>1, <1>2, <2>3, RotatedRows
    <2>4. ASSUME NEW q \in Requests, LogoutCommit(q)
          PROVE  t \in Issued /\ token'[t].replacedBy = token[t].replacedBy
      BY <1>1, <1>2, <2>4, EndedRow
    <2>5. ASSUME NEW n \in TokenIds, TokenExpires(n)
          PROVE  t \in Issued /\ token'[t].replacedBy = token[t].replacedBy
      BY <1>1, <1>2, <2>5, ExpiredRow
    <2>6. UNCHANGED token => t \in Issued /\ token'[t].replacedBy = token[t].replacedBy
      BY DEF Issued, FreshTokens
    <2> QED
      BY <2>1, <2>2, <2>3, <2>4, <2>5, <2>6, TokenWriters
  <1> QED
    BY <1>3, <1>4 DEF RotationIsTraceable

LEMMA RedeemedIsUsedStep == ASSUME IInv, [Next]_vars PROVE RedeemedIsUsed'
  <1>1. TypeOK /\ TypeOK' /\ RequestsSound /\ RedeemedIsUsed
    BY TypeStep DEF IInv
  <1>2. /\ redeemed \in [OtpIds -> Nat] /\ redeemed' \in [OtpIds -> Nat]
        /\ req \in [Requests -> RequestState] /\ token \in [TokenIds -> TokenRow]
    BY <1>1 DEF TypeOK
  <1>3. ASSUME NEW q \in Requests, RedeemCommit(q)
        PROVE  LET o == req[q].otp
               IN  /\ req[q].pc = "redeem" /\ o \in OtpIds
                   /\ redeemed'[o] = redeemed[o] + 1
                   /\ otp'[o].used /\ otp'[o].owner = otp[o].owner /\ otp[o].owner # None
                   /\ \A c \in OtpIds \ {o} : redeemed'[c] = redeemed[c]
    <2>1. /\ req[q].pc = "redeem" /\ req[q].otp \in OtpIds /\ req[q].user \in Users
          /\ otp[req[q].otp].owner = req[q].user
      BY <1>1, <1>2, <1>3, RequestTypes DEF RedeemCommit, RequestsSound
    <2> QED
      BY <1>1, <1>2, <1>3, <2>1, ConstantsAssumption DEF RedeemCommit, TypeOK, OtpRow
  <1>4. \A o \in OtpIds : redeemed[o] > 0 => redeemed'[o] > 0
    BY <1>2, <1>3, RedeemedWriters
  <1>5. ASSUME NEW o \in OtpIds, redeemed'[o] > 0
        PROVE  otp'[o].used /\ otp'[o].owner # None
    <2>1. CASE redeemed[o] > 0
      BY <1>1, <2>1, OtpRowsKeep DEF RedeemedIsUsed
    <2>2. CASE \E q \in Requests : RedeemCommit(q) /\ req[q].otp = o
      BY <1>3, <2>2
    <2> QED
      BY <1>2, <1>3, <1>5, <2>1, <2>2, RedeemedWriters
  <1>6. ASSUME NEW t \in Issued', token'[t].code # None
        PROVE  redeemed'[token'[t].code] > 0
    <2>1. CASE t \in Issued
      <3>1. token'[t].code = token[t].code /\ token[t].code \in OtpIds \cup {None}
        BY <1>1, <1>2, <2>1, TokenRowsKeep DEF Issued, TokenRow
      <3> QED
        BY <1>1, <1>4, <1>6, <2>1, <3>1 DEF RedeemedIsUsed
    <2>2. ASSUME NEW q \in Requests, t \in TokenIds, IssueTokens(q, t)
          PROVE  redeemed'[token'[t].code] > 0
      BY <1>1, <1>4, <1>6, <2>2, IssuedRow DEF RedeemedIsUsed
    <2>3. ASSUME NEW q \in Requests, t \in TokenIds, RefreshCommit(q, t)
          PROVE  redeemed'[token'[t].code] > 0
      <3>1. /\ req[q].token \in Issued /\ token'[t].code = token[req[q].token].code
        BY <1>1, <2>3, RotatedRows
      <3>2. token[req[q].token].code \in OtpIds \cup {None}
        BY <1>2, <3>1 DEF Issued, TokenRow
      <3> QED
        BY <1>1, <1>4, <1>6, <3>1, <3>2 DEF RedeemedIsUsed
    <2> QED
      BY <1>1, <2>1, <2>2, <2>3, NewTokens
  <1>7. ASSUME NEW q \in Requests, req'[q].pc = "issue", req'[q].otp # None
        PROVE  redeemed'[req'[q].otp] > 0
    <2>1. CASE req'[q] = req[q]
      BY <1>1, <1>2, <1>4, <1>7, <2>1, RequestTypes DEF RedeemedIsUsed
    <2>2. CASE RedeemCommit(q) /\ req'[q].otp = req[q].otp
      BY <1>2, <1>3, <2>2
    <2> QED
      BY <1>1, <1>7, <2>1, <2>2, NewHolders
  <1> QED
    BY <1>5, <1>6, <1>7 DEF RedeemedIsUsed

\* A one-time password is read before it is redeemed, so it is consumed at most
\* once by each request that holds it.
LEMMA BoundedStep == ASSUME IInv, [Next]_vars PROVE RedemptionsBoundedByRequests'
  <1>1. TypeOK /\ RequestsSound /\ RedeemedIsUsed /\ RedemptionsBoundedByRequests
    BY DEF IInv
  <1>2. /\ redeemed \in [OtpIds -> Nat] /\ req \in [Requests -> RequestState]
        /\ otp \in [OtpIds -> OtpRow]
    BY <1>1 DEF TypeOK
  <1> SUFFICES ASSUME NEW o \in OtpIds
               PROVE  redeemed'[o] + Cardinality(HoldsOtp(o)') <= Cardinality(Requests)
    BY DEF RedemptionsBoundedByRequests
  <1>3. /\ HoldsOtp(o) \subseteq Requests /\ HoldsOtp(o)' \subseteq Requests
        /\ Cardinality(Requests) \in Nat
        /\ IsFiniteSet(HoldsOtp(o)) /\ Cardinality(HoldsOtp(o)) \in Nat
        /\ IsFiniteSet(HoldsOtp(o)') /\ Cardinality(HoldsOtp(o)') \in Nat
    BY FS_Subset, FS_CardinalityType, ConstantsAssumption DEF HoldsOtp
  <1>4. redeemed[o] + Cardinality(HoldsOtp(o)) <= Cardinality(Requests)
    BY <1>1 DEF RedemptionsBoundedByRequests
  <1>5. CASE \E q \in Requests : RedeemRead(q, o)
    <2>1. redeemed[o] = 0 /\ redeemed'[o] = redeemed[o]
      BY <1>1, <1>2, <1>5 DEF RedeemRead, ValidOtp, RedeemedIsUsed
    <2>2. Cardinality(HoldsOtp(o)') <= Cardinality(Requests)
      BY <1>3, FS_Subset, ConstantsAssumption
    <2> QED
      BY <1>3, <2>1, <2>2
  <1>6. CASE ~\E q \in Requests : RedeemRead(q, o)
    <2>1. \A q \in Requests : req'[q].pc = "redeem" /\ req'[q].otp = o => req'[q] = req[q]
      <3> SUFFICES ASSUME NEW q \in Requests, req'[q].pc = "redeem", req'[q].otp = o,
                          req'[q] # req[q]
                   PROVE  FALSE
        OBVIOUS
      <3>1. \E n \in OtpIds : RedeemRead(q, n) /\ req'[q].otp = n
        BY <1>1, NewHolders
      <3> QED
        BY <1>6, <3>1
    <2>2. HoldsOtp(o)' \subseteq HoldsOtp(o)
      BY <2>1 DEF HoldsOtp
    <2>3. Cardinality(HoldsOtp(o)') <= Cardinality(HoldsOtp(o))
      BY <1>3, <2>2, FS_Subset
    <2>4. ASSUME NEW q \in Requests, RedeemCommit(q), req[q].otp = o
          PROVE  redeemed'[o] + Cardinality(HoldsOtp(o)') <= Cardinality(Requests)
      <3>1. q \in HoldsOtp(o) /\ redeemed'[o] = redeemed[o] + 1
        BY <1>2, <2>4 DEF RedeemCommit, HoldsOtp
      <3>2. req'[q].pc = "issue"
        BY <1>2, <2>4 DEF RedeemCommit, Issuing
      <3>3. HoldsOtp(o)' \subseteq HoldsOtp(o) \ {q}
        BY <2>2, <3>2 DEF HoldsOtp
      <3>4. /\ IsFiniteSet(HoldsOtp(o) \ {q})
            /\ Cardinality(HoldsOtp(o) \ {q}) = Cardinality(HoldsOtp(o)) - 1
        BY <1>3, <3>1, FS_RemoveElement
      <3>5. Cardinality(HoldsOtp(o)') <= Cardinality(HoldsOtp(o) \ {q})
        BY <3>3, <3>4, FS_Subset
      <3> QED
        BY <1>2, <1>3, <1>4, <3>1, <3>4, <3>5
    <2>5. ASSUME NEW q \in Requests, RedeemCommit(q), req[q].otp # o
          PROVE  redeemed'[o] = redeemed[o]
      BY <1>2, <2>5 DEF RedeemCommit
    <2>6. redeemed'[o] = redeemed[o]
            => redeemed'[o] + Cardinality(HoldsOtp(o)') <= Cardinality(Requests)
      BY <1>2, <1>3, <1>4, <2>3
    <2> QED
      BY <2>4, <2>5, <2>6, RedeemedWriters
  <1> QED
    BY <1>5, <1>6

\* Who reads a row another request is using contests it.
LEMMA ContestIfUsed ==
  ASSUME TypeOK, NEW x, Contest(x), NEW p \in Requests,
         x \notin contested',
         \/ req[p].pc = "redeem" /\ req[p].otp = x
         \/ req[p].pc \in {"rotate", "end"} /\ req[p].token = x
  PROVE  FALSE
  <1>1. req[p] \in RequestState
    BY DEF TypeOK
  <1>2. x \in Using(req[p])
    BY <1>1, UsingWhat
  <1> QED
    BY <1>2 DEF Contest

LEMMA OtpUsedByOneStep == ASSUME IInv, [Next]_vars PROVE OtpUsedByOne'
  <1>1. TypeOK /\ TypeOK' /\ RequestsSound /\ RedeemedIsUsed /\ OtpUsedByOne
    BY TypeStep DEF IInv
  <1>2. /\ redeemed \in [OtpIds -> Nat] /\ redeemed' \in [OtpIds -> Nat]
        /\ req \in [Requests -> RequestState] /\ otp \in [OtpIds -> OtpRow]
    BY <1>1 DEF TypeOK
  <1> SUFFICES ASSUME NEW o \in OtpIds, o \notin contested'
               PROVE  /\ redeemed'[o] <= 1
                      /\ \A p, q \in Requests :
                           /\ req'[p].pc = "redeem" /\ req'[p].otp = o
                           /\ req'[q].pc = "redeem" /\ req'[q].otp = o
                           => p = q
                      /\ \A p, q \in Requests :
                           /\ req'[p].pc = "issue" /\ req'[p].otp = o
                           /\ req'[q].pc = "issue" /\ req'[q].otp = o
                           => p = q
                      /\ \A q \in Requests :
                           /\ req'[q].pc = "redeem" /\ req'[q].otp = o
                                => redeemed'[o] = 0
                           /\ req'[q].pc = "issue" /\ req'[q].otp = o =>
                                \A t \in Issued' : token'[t].code # o
    BY DEF OtpUsedByOne
  <1>3. o \notin contested /\ o # None
    BY ContestedGrows, ConstantsAssumption
  <1> DEFINE Redeems(q) == req[q].pc = "redeem" /\ req[q].otp = o
             Issues(q) == req[q].pc = "issue" /\ req[q].otp = o
             RedeemsNext(q) == req'[q].pc = "redeem" /\ req'[q].otp = o
             IssuesNext(q) == req'[q].pc = "issue" /\ req'[q].otp = o
  <1>4. /\ redeemed[o] <= 1
        /\ \A p, q \in Requests : Redeems(p) /\ Redeems(q) => p = q
        /\ \A p, q \in Requests : Issues(p) /\ Issues(q) => p = q
        /\ \A q \in Requests : Redeems(q) => redeemed[o] = 0
        /\ \A q \in Requests : Issues(q) => \A t \in Issued : token[t].code # o
    BY <1>1, <1>3 DEF OtpUsedByOne
  <1>5. ASSUME NEW q \in Requests, Issues(q) PROVE redeemed[o] > 0
    BY <1>1, <1>3, <1>5 DEF RedeemedIsUsed
  <1>6. \A t \in Issued : token[t].code = o => redeemed[o] > 0
    BY <1>1, <1>3 DEF RedeemedIsUsed
  <1>7. ASSUME NEW q \in Requests, RedeemRead(q, o)
        PROVE  /\ redeemed[o] = 0 /\ redeemed' = redeemed
               /\ \A p \in Requests : ~Redeems(p)
               /\ \A p \in Requests \ {q} : req'[p] = req[p]
    <2>1. redeemed[o] = 0 /\ redeemed' = redeemed
      BY <1>1, <1>2, <1>7 DEF RedeemRead, ValidOtp, RedeemedIsUsed
    <2>2. \A p \in Requests : ~Redeems(p)
      BY <1>1, <1>7, ContestIfUsed DEF RedeemRead
    <2> QED
      BY <1>2, <1>7, <2>1, <2>2 DEF RedeemRead
  <1>8. ASSUME NEW q \in Requests, RedeemCommit(q), req[q].otp = o
        PROVE  /\ redeemed[o] = 0 /\ redeemed'[o] = 1 /\ Redeems(q)
               /\ ~RedeemsNext(q) /\ token' = token
               /\ \A p \in Requests \ {q} : req'[p] = req[p]
    <2>1. Redeems(q)
      BY <1>8 DEF RedeemCommit
    <2>2. redeemed[o] = 0
      BY <1>4, <2>1
    <2>3. redeemed'[o] = 1
      BY <1>2, <1>8, <2>2 DEF RedeemCommit
    <2>4. req'[q].pc = "issue"
      BY <1>2, <1>8 DEF RedeemCommit, Issuing
    <2> QED
      BY <1>2, <1>8, <2>1, <2>2, <2>3, <2>4 DEF RedeemCommit
  <1>9. \/ redeemed'[o] = redeemed[o]
        \/ \E q \in Requests : RedeemCommit(q) /\ req[q].otp = o
    BY <1>2, RedeemedWriters DEF RedeemCommit
  <1>10. ASSUME NEW q \in Requests, RedeemsNext(q)
         PROVE  \/ Redeems(q) /\ req'[q] = req[q]
                \/ RedeemRead(q, o)
    BY <1>1, <1>10, NewHolders
  <1>11. ASSUME NEW q \in Requests, IssuesNext(q)
         PROVE  \/ Issues(q) /\ req'[q] = req[q]
                \/ RedeemCommit(q) /\ req[q].otp = o
    BY <1>1, <1>3, <1>11, NewHolders
  <1>12. \A t \in Issued' \ Issued :
           /\ t \in TokenIds
           /\ \E q \in Requests : IssueTokens(q, t) \/ RefreshCommit(q, t)
    BY <1>1, NewTokens
  <1>13. \A t \in Issued : token'[t].code = token[t].code
    BY <1>1, TokenRowsKeep
  <1> HIDE DEF Redeems, Issues, RedeemsNext, IssuesNext
  <1>14. redeemed'[o] <= 1
    BY <1>4, <1>8, <1>9
  <1>15. ASSUME NEW p \in Requests, NEW q \in Requests, RedeemsNext(p), RedeemsNext(q)
         PROVE  p = q
    BY <1>4, <1>7, <1>10, <1>15 DEF Redeems, RedeemsNext
  <1>16. ASSUME NEW p \in Requests, NEW q \in Requests, IssuesNext(p), IssuesNext(q)
         PROVE  p = q
    <2>1. CASE Issues(p) /\ Issues(q)
      BY <1>4, <2>1
    <2>2. ASSUME NEW r \in Requests, RedeemCommit(r), req[r].otp = o
          PROVE  p = r /\ q = r
      <3>1. \A x \in Requests : ~Issues(x)
        BY <1>5, <1>8, <2>2
      <3>2. ASSUME NEW x \in Requests \ {r}, IssuesNext(x)
            PROVE  FALSE
        <4>1. RedeemCommit(x) /\ req[x].otp = o
          BY <1>11, <3>1, <3>2
        <4>2. Redeems(x) /\ ~RedeemsNext(x)
          BY <1>8, <4>1
        <4>3. req'[x] = req[x]
          BY <1>8, <2>2
        <4> QED
          BY <4>2, <4>3 DEF Redeems, RedeemsNext
      <3> QED
        BY <1>16, <3>2
    <2> QED
      BY <1>11, <1>16, <2>1, <2>2
  <1>17. ASSUME NEW q \in Requests, RedeemsNext(q) PROVE redeemed'[o] = 0
    <2>1. ASSUME NEW p \in Requests, RedeemCommit(p), req[p].otp = o PROVE FALSE
      <3>1. Redeems(p) /\ ~RedeemsNext(p)
        BY <1>8, <2>1
      <3>2. Redeems(q)
        BY <1>7, <1>10, <1>17, <3>1
      <3> QED
        BY <1>4, <1>17, <3>1, <3>2
    <2>2. redeemed'[o] = redeemed[o]
      BY <1>9, <2>1
    <2> QED
      BY <1>4, <1>7, <1>10, <1>17, <2>2
  <1>18. ASSUME NEW q \in Requests, IssuesNext(q), NEW t \in Issued'
         PROVE  token'[t].code # o
    <2>1. CASE RedeemCommit(q) /\ req[q].otp = o
      <3>1. redeemed[o] = 0 /\ token' = token
        BY <1>8, <2>1
      <3>2. t \in Issued
        BY <3>1 DEF Issued, FreshTokens
      <3> QED
        BY <1>6, <3>1, <3>2
    <2>2. CASE Issues(q) /\ req'[q] = req[q]
      <3>1. CASE t \in Issued
        BY <1>4, <1>13, <2>2, <3>1
      <3>2. ASSUME NEW p \in Requests, t \in TokenIds, IssueTokens(p, t)
            PROVE  token'[t].code # o
        <4>1. token'[t].code = req[p].otp /\ req[p].pc = "issue"
          BY <1>1, <3>2, IssuedRow
        <4>2. req'[p].pc = "reply"
          BY <1>2, <3>2 DEF IssueTokens, Replying
        <4>3. p # q
          BY <1>18, <4>2 DEF IssuesNext
        <4> QED
          BY <1>4, <2>2, <4>1, <4>3 DEF Issues
      <3>3. ASSUME NEW p \in Requests, t \in TokenIds, RefreshCommit(p, t)
            PROVE  token'[t].code # o
        BY <1>1, <1>4, <2>2, <3>3, RotatedRows
      <3> QED
        BY <1>12, <3>1, <3>2, <3>3
    <2> QED
      BY <1>11, <1>18, <2>1, <2>2
  <1> QED
    BY <1>14, <1>15, <1>16, <1>17, <1>18 DEF RedeemsNext, IssuesNext

\* Only a request that read a token revokes it, and lets go of it then.
LEMMA Revoking ==
  ASSUME TypeOK, RequestsSound, [Next]_vars, NEW t \in Issued,
         ~token[t].revoked, token'[t].revoked
  PROVE  \E p \in Requests : /\ req[p].pc \in {"rotate", "end"} /\ req[p].token = t
                             /\ req'[p].pc \in {"idle", "reply"}
  <1>1. t \in TokenIds
    BY DEF Issued
  <1>2. req \in [Requests -> RequestState]
    BY DEF TypeOK
  <1>3. ASSUME NEW q \in Requests, NEW n \in TokenIds, IssueTokens(q, n)
        PROVE  FALSE
    BY <1>1, <1>3, IssuedRow
  <1>4. ASSUME NEW q \in Requests, NEW n \in TokenIds, RefreshCommit(q, n)
        PROVE  req[q].pc = "rotate" /\ req[q].token = t /\ req'[q].pc = "reply"
    <2>1. req[q].pc = "rotate" /\ req[q].token = t
      BY <1>1, <1>4, RotatedRows
    <2> QED
      BY <1>2, <1>4, <2>1 DEF RefreshCommit, Replying
  <1>5. ASSUME NEW q \in Requests, LogoutCommit(q)
        PROVE  req[q].pc = "end" /\ req[q].token = t /\ req'[q].pc = "idle"
    <2>1. req[q].pc = "end" /\ req[q].token = t
      BY <1>1, <1>5, EndedRow
    <2> QED
      BY <1>2, <1>5, <2>1 DEF LogoutCommit, Idle
  <1>6. ASSUME NEW n \in TokenIds, TokenExpires(n) PROVE FALSE
    BY <1>1, <1>6, ExpiredRow
  <1> QED
    BY <1>3, <1>4, <1>5, <1>6, TokenWriters

LEMMA TokenUsedByOneStep == ASSUME IInv, [Next]_vars PROVE TokenUsedByOne'
  <1>1. TypeOK /\ TypeOK' /\ RequestsSound /\ TokenUsedByOne
    BY TypeStep DEF IInv
  <1>2. req \in [Requests -> RequestState]
    BY <1>1 DEF TypeOK
  <1> SUFFICES ASSUME NEW t \in TokenIds, t \notin contested'
               PROVE  \A q \in Requests :
                        req'[q].pc \in {"rotate", "end"} /\ req'[q].token = t =>
                          /\ ~token'[t].revoked
                          /\ \A p \in Requests :
                               req'[p].pc \in {"rotate", "end"} /\ req'[p].token = t
                                 => p = q
    BY DEF TokenUsedByOne
  <1>3. t \notin contested
    BY ContestedGrows
  <1> DEFINE Uses(q) == req[q].pc \in {"rotate", "end"} /\ req[q].token = t
             UsesNext(q) == req'[q].pc \in {"rotate", "end"} /\ req'[q].token = t
             Reads(q) == RefreshRead(q, t) \/ LogoutRead(q, t)
  <1>4. \A q \in Requests : Uses(q) => /\ ~token[t].revoked
                                       /\ \A p \in Requests : Uses(p) => p = q
    BY <1>1, <1>3 DEF TokenUsedByOne
  <1>5. ASSUME NEW q \in Requests, UsesNext(q)
        PROVE  Uses(q) \/ Reads(q)
    BY <1>1, <1>5, NewHolders
  <1>6. ASSUME NEW q \in Requests, Reads(q)
        PROVE  /\ ~token'[t].revoked
               /\ \A p \in Requests : ~Uses(p)
               /\ \A p \in Requests \ {q} : req'[p] = req[p]
    <2>1. ~token'[t].revoked /\ Contest(t)
      BY <1>6 DEF RefreshRead, LogoutRead, LiveToken
    <2>2. \A p \in Requests : ~Uses(p)
      BY <1>1, <2>1, ContestIfUsed
    <2> QED
      BY <1>2, <1>6, <2>1, <2>2 DEF RefreshRead, LogoutRead
  <1>7. ASSUME NEW q \in Requests, Uses(q), UsesNext(q)
        PROVE  ~token'[t].revoked
    <2>1. t \in Issued /\ ~token[t].revoked
      BY <1>1, <1>4, <1>7 DEF RequestsSound
    <2>2. ASSUME NEW p \in Requests, Uses(p), req'[p].pc \in {"idle", "reply"}
          PROVE  FALSE
      BY <1>4, <1>7, <2>2
    <2> QED
      BY <1>1, <2>1, <2>2, Revoking
  <1>8. ASSUME NEW p \in Requests, NEW q \in Requests, UsesNext(p), UsesNext(q)
        PROVE  p = q
    <2>1. CASE Uses(p) /\ Uses(q)
      BY <1>4, <2>1
    <2>2. ASSUME NEW r \in Requests, Reads(r)
          PROVE  p = r /\ q = r
      <3>1. \A x \in Requests \ {r} : ~UsesNext(x)
        BY <1>6, <2>2
      <3> QED
        BY <1>8, <3>1
    <2> QED
      BY <1>5, <1>8, <2>1, <2>2
  <1> QED
    BY <1>5, <1>6, <1>7, <1>8

\* Logins: what is uncontested was so before, and a new token's login too.
LEMMA LoginsKeep ==
  ASSUME TypeOK, RequestsSound, [Next]_vars, NEW t \in Issued
  PROVE  /\ Uncontested(t)' => Uncontested(t)
         /\ \A s \in Issued : SameLogin(s, t)' <=> SameLogin(s, t)
  BY TokenRowsKeep, ContestedGrows DEF Uncontested, SameLogin

\* The login of a token that is issued is new, or one whose last token is
\* revoked with it.
LEMMA NewInLogin ==
  ASSUME IInv, [Next]_vars, NEW n \in Issued' \ Issued, NEW s \in Issued,
         SameLogin(s, n)', Uncontested(s)'
  PROVE  \E t \in Issued :
            /\ SameLogin(s, t) /\ Uncontested(s)
            /\ ~token[t].revoked /\ token'[t].revoked
  <1>1. TypeOK /\ RequestsSound /\ OtpUsedByOne /\ TokenUsedByOne
    BY DEF IInv
  <1>2. /\ token[s].code = token'[n].code /\ token[s].code # None
        /\ Uncontested(s) /\ token[s].code \notin contested
    BY <1>1, TokenRowsKeep, LoginsKeep DEF SameLogin, Uncontested
  <1>3. ASSUME NEW q \in Requests, n \in TokenIds, IssueTokens(q, n)
        PROVE  FALSE
    <2>1. /\ req[q].pc = "issue" /\ req[q].otp \in OtpIds \cup {None}
          /\ token'[n].code = req[q].otp
      BY <1>1, <1>3, IssuedRow
    <2> QED
      BY <1>1, <1>2, <2>1 DEF OtpUsedByOne
  <1>4. ASSUME NEW q \in Requests, n \in TokenIds, RefreshCommit(q, n)
        PROVE  \E t \in Issued : SameLogin(s, t) /\ ~token[t].revoked /\ token'[t].revoked
    <2> DEFINE t == req[q].token
    <2>1. /\ req[q].pc = "rotate" /\ t \in Issued
          /\ token'[n].code = token[t].code /\ token'[t].revoked
      BY <1>1, <1>4, RotatedRows
    <2>2. SameLogin(s, t) /\ SameLogin(t, s)
      BY <1>2, <2>1 DEF SameLogin
    <2>3. t \notin contested /\ t \in TokenIds
      BY <1>2, <2>1, <2>2 DEF Uncontested, Issued
    <2>4. ~token[t].revoked
      BY <1>1, <2>1, <2>3 DEF TokenUsedByOne
    <2> QED
      BY <2>1, <2>2, <2>4
  <1> QED
    BY <1>1, <1>2, <1>3, <1>4, NewTokens

LEMMA OneUnrevokedStep == ASSUME IInv, [Next]_vars PROVE OneUnrevoked'
  <1>1. TypeOK /\ RequestsSound /\ OneUnrevoked
    BY DEF IInv
  <1> SUFFICES ASSUME NEW s \in Issued', NEW t \in Issued',
                      SameLogin(s, t)', Uncontested(t)',
                      ~token'[s].revoked, ~token'[t].revoked, s # t
               PROVE  FALSE
    BY DEF OneUnrevoked
  <1>2. SameLogin(t, s)' /\ Uncontested(s)'
    BY DEF SameLogin, Uncontested
  <1>3. CASE s \in Issued /\ t \in Issued
    <2>1. ~token[s].revoked /\ ~token[t].revoked
      BY <1>1, <1>3, TokenRowsKeep
    <2>2. SameLogin(s, t) /\ Uncontested(t)
      BY <1>1, <1>3, LoginsKeep
    <2> QED
      BY <1>1, <1>3, <2>1, <2>2 DEF OneUnrevoked
  <1>4. ASSUME NEW old \in Issued, NEW new \in Issued' \ Issued,
               SameLogin(old, new)', Uncontested(old)', ~token'[old].revoked
        PROVE  FALSE
    <2>1. PICK u \in Issued : /\ SameLogin(old, u) /\ Uncontested(old)
                              /\ ~token[u].revoked /\ token'[u].revoked
      BY <1>4, NewInLogin
    <2>2. ~token[old].revoked
      BY <1>1, <1>4, TokenRowsKeep
    <2>3. SameLogin(u, old)
      BY <2>1 DEF SameLogin
    <2>4. u = old
      BY <1>1, <2>1, <2>2, <2>3 DEF OneUnrevoked
    <2> QED
      BY <1>4, <2>1, <2>4
  <1>5. s \notin Issued => t \in Issued
    <2>1. ASSUME NEW q \in Requests, NEW n \in TokenIds, IssueTokens(q, n) \/ RefreshCommit(q, n)
          PROVE  Issued' = Issued \cup {n}
      BY <1>1, <2>1, IssuedRow, RotatedRows
    <2> QED
      BY <1>1, <2>1, NewTokens
  <1> QED
    BY <1>2, <1>3, <1>4, <1>5

LEMMA EndedIsRevokedStep == ASSUME IInv, [Next]_vars PROVE EndedIsRevoked'
  <1>1. /\ TypeOK /\ RequestsSound /\ EndedIsRevoked /\ TokenUsedByOne /\ OneUnrevoked
    BY DEF IInv
  <1>2. \A t \in ended : t \in Issued
    BY <1>1 DEF EndedIsRevoked
  <1>3. \A t \in ended' \ ended : t \in Issued
                                  /\ \E q \in Requests : LogoutCommit(q) /\ req[q].token = t
    BY <1>1, TokenWriters, IssuedRow, RotatedRows, EndedRow
  <1>4. \A t \in ended' : t \in Issued /\ t \in Issued'
    BY <1>1, <1>2, <1>3, TokenRowsKeep
  <1> SUFFICES ASSUME NEW t \in ended', NEW s \in Issued', SameLogin(s, t)', Uncontested(t)'
               PROVE  token'[s].revoked
    BY <1>4 DEF EndedIsRevoked
  <1>5. t \in Issued /\ Uncontested(t)
    BY <1>1, <1>4, LoginsKeep
  <1>6. CASE t \in ended /\ s \in Issued
    <2>1. SameLogin(s, t)
      BY <1>1, <1>5, <1>6, LoginsKeep
    <2> QED
      BY <1>1, <1>5, <1>6, <2>1, TokenRowsKeep DEF EndedIsRevoked
  <1>7. CASE t \notin ended /\ s \in Issued
    <2>1. PICK q \in Requests : LogoutCommit(q) /\ req[q].token = t
      BY <1>3, <1>7
    <2>2. req[q].pc = "end" /\ token'[t].revoked
      BY <1>1, <2>1, EndedRow
    <2>3. SameLogin(s, t)
      BY <1>1, <1>5, <1>7, LoginsKeep
    <2>4. SameLogin(t, t) /\ t \notin contested /\ t \in TokenIds
      BY <1>5, <2>3 DEF SameLogin, Uncontested, Issued
    <2>5. ~token[t].revoked
      BY <1>1, <2>1, <2>2, <2>4 DEF TokenUsedByOne
    <2>6. CASE token[s].revoked
      BY <1>1, <1>7, <2>6, TokenRowsKeep
    <2>7. CASE ~token[s].revoked
      BY <1>1, <1>5, <1>7, <2>2, <2>3, <2>5, <2>7 DEF OneUnrevoked
    <2> QED
      BY <2>6, <2>7
  <1>8. CASE s \notin Issued
    <2>1. SameLogin(t, s)'
      BY DEF SameLogin
    <2>2. PICK u \in Issued : /\ SameLogin(t, u) /\ Uncontested(t)
                              /\ ~token[u].revoked /\ token'[u].revoked
      BY <1>5, <1>8, <2>1, NewInLogin
    <2>3. t \in ended
      <3>1. ASSUME NEW q \in Requests, LogoutCommit(q) PROVE FALSE
        BY <1>1, <1>8, <3>1, EndedRow
      <3> QED
        BY <1>3, <3>1
    <2>4. SameLogin(u, t)
      BY <2>2 DEF SameLogin
    <2> QED
      BY <1>1, <2>2, <2>3, <2>4 DEF EndedIsRevoked
  <1> QED
    BY <1>6, <1>7, <1>8

LEMMA NextIInv == ASSUME IInv, [Next]_vars PROVE IInv'
  BY TypeStep, OtpsOfApprovedStep, RequestsSoundStep, SessionStep, RotationStep,
     RedeemedIsUsedStep, BoundedStep, OtpUsedByOneStep, TokenUsedByOneStep,
     OneUnrevokedStep, EndedIsRevokedStep DEF IInv

LEMMA Invariant == Spec => []IInv
  BY InitIInv, NextIInv, PTL DEF Spec

-----------------------------------------------------------------------------
(* Theorems.                                                               *)

\* Every session goes back to a consumed one-time password of its owner, who
\* was approved once (auth.py:295-299).
THEOREM SessionConsumedOtp == Spec => []SessionHasConsumedOtp
  <1>1. IInv => SessionHasConsumedOtp
    BY DEF IInv
  <1> QED
    BY <1>1, Invariant, PTL

\* A rotated token is revoked, and parent and successor name each other as the
\* code's one commit writes them (auth.py:336-340).
THEOREM RotationTraceable == Spec => []RotationIsTraceable
  <1>1. IInv => RotationIsTraceable
    BY DEF IInv
  <1> QED
    BY <1>1, Invariant, PTL

\* A one-time password is consumed at most once by each request that can be in
\* progress (auth.py:280-297).
THEOREM RedemptionsBounded == Spec => []RedemptionsBoundedByRequests
  <1>1. IInv => RedemptionsBoundedByRequests
    BY DEF IInv
  <1> QED
    BY <1>1, Invariant, PTL

\* An uncontested one-time password is consumed once (auth.py:280-299).
THEOREM RedeemedOnce == Spec => []RedeemedOnceUnlessContested
  <1>1. IInv => RedeemedOnceUnlessContested
    BY DEF IInv, OtpUsedByOne, RedeemedOnceUnlessContested
  <1> QED
    BY <1>1, Invariant, PTL

\* An uncontested login has one usable refresh token (auth.py:336-340).
THEOREM OneLiveToken == Spec => []OneLiveTokenPerLogin
  <1>1. IInv => OneLiveTokenPerLogin
    BY DEF IInv, OneUnrevoked, OneLiveTokenPerLogin, LiveToken
  <1> QED
    BY <1>1, Invariant, PTL

\* A logout leaves an uncontested login no usable token, now and later
\* (auth.py:360-363).
THEOREM LogoutEnds == Spec => []LogoutEndsSession
  <1>1. IInv => LogoutEndsSession
    BY DEF IInv, EndedIsRevoked, LogoutEndsSession, LiveToken
  <1> QED
    BY <1>1, Invariant, PTL
=============================================================================
