---------------------------- MODULE AuthSessions ----------------------------
(***************************************************************************)
(* Refresh tokens of one user, pairing codes, and the logins that pass     *)
(* the rate limit.  A token is the row of auth_sessions with its digest;   *)
(* the tokens that replace one another from one login on are a family,     *)
(* named after its first token.  Requests take several statements; what    *)
(* one holds locked with FOR UPDATE makes another wait, and an UPDATE      *)
(* waits for it at the commit.                                             *)
(*                                                                         *)
(* Refused requests change nothing and are left out: unknown, expired and  *)
(* foreign tokens and codes, inactive users.                               *)
(***************************************************************************)
EXTENDS RateLimits, FiniteSets, TLC

CONSTANTS
  Requests,
  MaxTokens,       \* bound of the model on tokens
  Codes

ASSUME TokenAssumption ==
  /\ MaxTokens \in Nat \ {0}
  /\ IsFiniteSet(Requests)
  /\ "none" \notin Codes

Tokens == 1 .. MaxTokens
NoToken == 0

VARIABLES
  family,        \* of every token, NoToken before it is issued
  revoked,       \* tokens with revoked_at
  successor,     \* replaced_by_session_id
  code,          \* pairing codes: "absent", "open", "redeemed"
  issued,        \* extension tokens issued for a code
  request        \* requests in progress

tokens == <<family, revoked, successor>>
pairing == <<code, issued>>
vars == <<tokens, pairing, request, limitVars>>

Idle == [pc |-> "idle", token |-> NoToken, wanted |-> {}, locks |-> {}, code |-> "none"]

Init ==
  /\ family = [t \in Tokens |-> NoToken]
  /\ revoked = {}
  /\ successor = [t \in Tokens |-> NoToken]
  /\ code = [c \in Codes |-> "absent"]
  /\ issued = [c \in Codes |-> 0]
  /\ request = [r \in Requests |-> Idle]
  /\ LimitsInit

Issued == {t \in Tokens : family[t] # NoToken}
Family(t) == {u \in Issued : family[u] = family[t]}

(* Tokens that a request other than r holds locked. *)
LockedFor(r) == UNION {request[q].locks : q \in Requests \ {r}}

Goto(r, local) == request' = [request EXCEPT ![r] = local]
Return(r) == request' = [request EXCEPT ![r] = Idle]

(* issue_pair: a new row, in a family of its own or in a given one. *)
Fresh == Cardinality(Issued) + 1
CanIssue == Fresh \in Tokens
Issue(f) == family' = [family EXCEPT ![Fresh] = f]

-----------------------------------------------------------------------------
(* The middleware lets a login through that finds no block; it may be on   *)
(* its way when another one sets the block.                                *)
BeginLogin(r) ==
  /\ request[r].pc = "idle"
  /\ ~IsBlocked
  /\ Goto(r, [Idle EXCEPT !.pc = "login"])
  /\ UNCHANGED <<tokens, pairing, limitVars>>

(* login, or register *)
Login(r) ==
  /\ request[r].pc = "login"
  /\ CanIssue
  /\ Issue(Fresh)
  /\ Return(r)
  /\ UNCHANGED <<revoked, successor, pairing, limitVars>>

LoginFails(r) ==
  /\ request[r].pc = "login"
  /\ Goto(r, [request[r] EXCEPT !.pc = "count"])
  /\ UNCHANGED <<tokens, pairing, limitVars>>

CountFailedLogin(r) ==
  /\ request[r].pc = "count"
  /\ CountFailure
  /\ IF Limited(failed') THEN Goto(r, [request[r] EXCEPT !.pc = "block"]) ELSE Return(r)
  /\ UNCHANGED <<tokens, pairing>>

(* Redis may have become unavailable since the count: no block is set.     *)
BlockLogins(r) ==
  /\ request[r].pc = "block"
  /\ Block \/ BlockIsMissed
  /\ Return(r)
  /\ UNCHANGED <<tokens, pairing>>

-----------------------------------------------------------------------------
(* Defect: the token is read without FOR UPDATE. *)
LocksNothing(t) == {}

RefreshLocks(t) == {t}

(* refresh: the row of the token is locked and read.  A revoked token was  *)
(* used before, and the whole family is to be revoked: the statement that  *)
(* locks it asks for the rows it sees now.                                 *)
BeginRefresh(r, t) ==
  /\ request[r].pc = "idle"
  /\ t \in Issued
  /\ t \notin LockedFor(r)
  /\ IF t \in revoked
     THEN Goto(r, [Idle EXCEPT !.pc = "reuse", !.token = t, !.wanted = Family(t), !.locks = {t}])
     ELSE Goto(r, [Idle EXCEPT !.pc = "rotate", !.token = t, !.locks = RefreshLocks(t)])
  /\ UNCHANGED <<tokens, pairing, limitVars>>

Rotate(r) ==
  LET t == request[r].token IN
  /\ request[r].pc = "rotate"
  /\ t \notin LockedFor(r)
  /\ CanIssue
  /\ Issue(family[t])
  /\ revoked' = revoked \cup {t}
  /\ successor' = [successor EXCEPT ![t] = Fresh]
  /\ Return(r)
  /\ UNCHANGED <<pairing, limitVars>>

LockFamily(r) ==
  /\ request[r].pc = "reuse"
  /\ request[r].wanted \cap LockedFor(r) = {}
  /\ Goto(r, [request[r] EXCEPT !.pc = "reread", !.locks = request[r].wanted])
  /\ UNCHANGED <<tokens, pairing, limitVars>>

(* Defect: the rows that were locked are taken for the family. *)
LockedFamily(r) == request[r].locks

FamilyNow(r) == Family(request[r].token)

(* The family is read once more, without a lock: a refresh that was waited *)
(* for has added to it.                                                    *)
RereadFamily(r) ==
  /\ request[r].pc = "reread"
  /\ Goto(r, [request[r] EXCEPT !.pc = "revoke", !.wanted = FamilyNow(r)])
  /\ UNCHANGED <<tokens, pairing, limitVars>>

(* The endpoint commits although the refresh is an error. *)
RevokeFamily(r) ==
  /\ request[r].pc = "revoke"
  /\ request[r].wanted \cap LockedFor(r) = {}
  /\ revoked' = revoked \cup request[r].wanted
  /\ Return(r)
  /\ UNCHANGED <<family, successor, pairing, limitVars>>

(* logout, and logout-all: live tokens are read without a lock and revoked *)
(* at the commit, whatever has become of them.                             *)
BeginLogout(r) ==
  LET live == Issued \ revoked IN
  /\ request[r].pc = "idle"
  /\ \/ \E t \in live : Goto(r, [Idle EXCEPT !.pc = "logout", !.wanted = {t}])
     \/ Goto(r, [Idle EXCEPT !.pc = "logout", !.wanted = live])
  /\ UNCHANGED <<tokens, pairing, limitVars>>

Logout(r) ==
  /\ request[r].pc = "logout"
  /\ request[r].wanted \cap LockedFor(r) = {}
  /\ revoked' = revoked \cup request[r].wanted
  /\ Return(r)
  /\ UNCHANGED <<family, successor, pairing, limitVars>>

-----------------------------------------------------------------------------
(* PairingService.create, for a user with a valid access token. *)
CreatePairing(c) ==
  /\ code[c] = "absent"
  /\ code' = [code EXCEPT ![c] = "open"]
  /\ UNCHANGED <<tokens, issued, request, limitVars>>

CodeFree(r, c) == \A q \in Requests \ {r} : request[q].code # c

(* exchange: the code is locked and read, after the middleware has looked  *)
(* for a block.                                                            *)
BeginExchange(r, c) ==
  /\ request[r].pc = "idle"
  /\ ~IsBlocked
  /\ code[c] = "open"
  /\ CodeFree(r, c)
  /\ Goto(r, [Idle EXCEPT !.pc = "exchange", !.code = c])
  /\ UNCHANGED <<tokens, pairing, limitVars>>

Exchange(r) ==
  LET c == request[r].code IN
  /\ request[r].pc = "exchange"
  /\ code' = [code EXCEPT ![c] = "redeemed"]
  /\ issued' = [issued EXCEPT ![c] = @ + 1]
  /\ Return(r)
  /\ UNCHANGED <<tokens, limitVars>>

-----------------------------------------------------------------------------
(* An open transaction rolls back: the connection is lost, or PostgreSQL   *)
(* chooses it to end a deadlock (two reuses lock one family from different *)
(* ends).  Redis may be unavailable when a failed login is to be counted.   *)
Aborts(r) ==
  /\ request[r].pc \notin {"idle", "block"}
  /\ Return(r)
  /\ UNCHANGED <<tokens, pairing, limitVars>>

Tick == LimitsTick /\ UNCHANGED <<tokens, pairing, request>>

Next ==
  \/ \E r \in Requests :
       \/ BeginLogin(r) \/ Login(r) \/ LoginFails(r) \/ CountFailedLogin(r) \/ BlockLogins(r)
       \/ \E t \in Tokens : BeginRefresh(r, t)
       \/ Rotate(r) \/ LockFamily(r) \/ RereadFamily(r) \/ RevokeFamily(r)
       \/ BeginLogout(r) \/ Logout(r)
       \/ \E c \in Codes : BeginExchange(r, c)
       \/ Exchange(r) \/ Aborts(r)
  \/ \E c \in Codes : CreatePairing(c)
  \/ Tick

Spec == Init /\ [][Next]_vars
-----------------------------------------------------------------------------
Steps == {"idle", "login", "count", "block", "rotate", "reuse", "reread", "revoke",
          "logout", "exchange"}

(* Type invariant. *)
TypeOK ==
  /\ family \in [Tokens -> Tokens \cup {NoToken}]
  /\ Issued = 1 .. Cardinality(Issued)
  /\ revoked \subseteq Issued
  /\ successor \in [Tokens -> Tokens \cup {NoToken}]
  /\ code \in [Codes -> {"absent", "open", "redeemed"}]
  /\ issued \in [Codes -> Nat]
  /\ request \in [Requests -> [pc : Steps, token : Tokens \cup {NoToken},
       wanted : SUBSET Tokens, locks : SUBSET Tokens, code : Codes \cup {"none"}]]
  /\ failed \in [count : 0 .. MaxFailed, ttl : 0 .. Window]
  /\ failed.count > 0 <=> failed.ttl > 0
  /\ outages \in 0 .. MaxOutages
  /\ blocked \in 0 .. BlockTime

(* AuthenticationService.refresh and PairingService.exchange: concurrent   *)
(* requests never spend a refresh token or a code twice.  A family is a    *)
(* chain whose only live token, if there is one, is its last.              *)
NothingIsSpentTwice ==
  /\ \A t \in Issued :
       /\ Cardinality(Family(t) \ revoked) <= 1
       /\ Cardinality({u \in Issued : successor[u] = t}) = (IF family[t] = t THEN 0 ELSE 1)
       /\ successor[t] # NoToken => t \in revoked /\ family[successor[t]] = family[t]
  /\ \A c \in Codes : issued[c] = (IF code[c] = "redeemed" THEN 1 ELSE 0)

(* AuthenticationService.refresh: when a reuse is answered, all it held    *)
(* locked is revoked, and so are the successors of those tokens, which a   *)
(* refresh it had to wait for may have issued after it asked.              *)
ReuseRevokesLocked ==
  [][\A r \in Requests : RevokeFamily(r) =>
       \A t \in request[r].locks :
         t \in revoked' /\ (successor[t] # NoToken => successor[t] \in revoked')]_vars

(* ProductionRateLimitMiddleware: however logins overlap, the failures of  *)
(* a window pass the limit by no more than the requests that can be on     *)
(* their way together and the blocks that Redis missed, as long as Redis   *)
(* reports time left for the window.                                       *)
FailuresBounded ==
  Reported(failed.ttl) > 0 =>
    failed.count <= FailedLogin + Cardinality(Requests) + outages
=============================================================================
