------------------------- MODULE AuthSessionsProofs -------------------------
(***************************************************************************)
(* Proofs about AuthSessions, for any number of requests, tokens and codes *)
(* and any limits.                                                         *)
(*                                                                         *)
(* The invariant has four parts that do not depend on one another's        *)
(* details.  Chains says what the rows of the tokens look like, without    *)
(* counting anything; Holding says what a request in progress may rely on  *)
(* because of its locks; Spending is about codes; and Counting is the      *)
(* budget of failed logins: before a block every failure past the limit is *)
(* paid for by a request that is about to set one, or by an outage; after  *)
(* it, by the requests that were let in before it.                         *)
(***************************************************************************)
EXTENDS AuthSessions, FiniteSetTheorems, TLAPS

Live == Issued \ revoked

(* Every family is named after its first token, and a successor is later,  *)
(* of the same family, the successor of one token only, and of every token *)
(* but the first there is a predecessor.  A token that has a successor is  *)
(* dead, and no family has two live tokens.                                *)
Named == \A t \in Issued : family[t] \in Issued /\ family[t] <= t
Succeeds ==
  \A t \in Tokens : successor[t] # NoToken =>
    /\ t \in Issued /\ t \in revoked
    /\ successor[t] \in Issued /\ family[successor[t]] = family[t]
    /\ family[successor[t]] # successor[t]
OnePredecessor ==
  /\ \A t, u \in Tokens : successor[t] = successor[u] /\ successor[t] # NoToken => t = u
  /\ \A t \in Issued : family[t] # t => \E u \in Issued : successor[u] = t
OneLive == \A t, u \in Live : family[t] = family[u] => t = u

Chains == Named /\ Succeeds /\ OnePredecessor /\ OneLive

(* Row locks exclude one another.                                          *)
LocksDisjoint ==
  \A r, q \in Requests : r # q => request[r].locks \cap request[q].locks = {}

(* What a request in progress may rely on.                                 *)
Holds(r) ==
  LET k == request[r] IN
  /\ k.locks \subseteq Issued /\ k.wanted \subseteq Issued
  /\ k.pc = "rotate" => k.token \in Live /\ k.locks = {k.token}
  /\ k.pc = "reuse" => k.token \in Issued /\ k.wanted \subseteq Family(k.token)
  /\ k.pc = "reread" => k.token \in Issued /\ k.locks \subseteq Family(k.token)
  /\ k.pc = "revoke" =>
       /\ k.locks \subseteq k.wanted
       /\ \A t \in k.locks : successor[t] # NoToken => successor[t] \in k.wanted

Holding == LocksDisjoint /\ \A r \in Requests : Holds(r)

(* A code that is being exchanged is open and nobody else has it.          *)
Exchanging(r) ==
  /\ request[r].pc = "exchange" =>
       request[r].code \in Codes /\ code[request[r].code] = "open"
  /\ request[r].pc # "exchange" => request[r].code = "none"

Spending ==
  /\ \A c \in Codes : issued[c] = (IF code[c] = "redeemed" THEN 1 ELSE 0)
  /\ \A r \in Requests : Exchanging(r)
  /\ \A r, q \in Requests :
       r # q /\ request[r].pc = "exchange" => request[r].code # request[q].code

LettingIn == {r \in Requests : request[r].pc \in {"login", "count"}}
Blocking == {r \in Requests : request[r].pc = "block"}
BlockOutlasts == blocked >= failed.ttl

Counting ==
  Reported(failed.ttl) > 0 =>
    IF BlockOutlasts
    THEN failed.count + Cardinality(LettingIn)
           <= FailedLogin + Cardinality(Requests) + outages
    ELSE failed.count <= FailedLogin + Cardinality(Blocking) + outages

IInv == TypeOK /\ Chains /\ Holding /\ Spending /\ Counting

RequestStates ==
  [pc : Steps, token : Tokens \cup {NoToken}, wanted : SUBSET Tokens,
   locks : SUBSET Tokens, code : Codes \cup {"none"}]

Assumptions == TokenAssumption /\ RateAssumption

-----------------------------------------------------------------------------
(* Tokens are issued in order: Fresh is the number of none, and the rows   *)
(* there are after it was issued are again the first ones.                 *)
LEMMA FreshIsNew ==
  ASSUME Assumptions, TypeOK
  PROVE  /\ IsFiniteSet(Issued) /\ Cardinality(Issued) \in Nat
         /\ Issued \subseteq Tokens /\ Fresh \in Nat /\ NoToken \notin Tokens
         /\ Fresh \notin Issued /\ \A t \in Issued : t < Fresh
         /\ Tokens \subseteq Nat
<1>1. Issued \subseteq Tokens /\ Tokens \subseteq Nat /\ NoToken \notin Tokens
  BY DEF Issued, Tokens, NoToken
<1>2. IsFiniteSet(Tokens)
  BY FS_Interval DEF Tokens, Assumptions, TokenAssumption
<1>3. IsFiniteSet(Issued)
  BY <1>1, <1>2, FS_Subset
<1>4. Cardinality(Issued) \in Nat
  BY <1>3, FS_CardinalityType
<1>5. Issued = 1 .. Cardinality(Issued)
  BY DEF TypeOK
<1>6. Fresh = Cardinality(Issued) + 1
  BY DEF Fresh
<1> QED
  BY <1>1, <1>3, <1>4, <1>5, <1>6

LEMMA IssueAddsFresh ==
  ASSUME Assumptions, TypeOK, CanIssue, NEW f \in Tokens, Issue(f)
  PROVE  /\ family' \in [Tokens -> Tokens \cup {NoToken}]
         /\ Issued' = Issued \cup {Fresh}
         /\ Issued' = 1 .. Cardinality(Issued')
         /\ family'[Fresh] = f
         /\ \A t \in Tokens \ {Fresh} : family'[t] = family[t]
<1>1. Fresh \in Tokens /\ family' = [family EXCEPT ![Fresh] = f]
      /\ family \in [Tokens -> Tokens \cup {NoToken}]
  BY DEF CanIssue, Issue, TypeOK
<1>2. /\ family' \in [Tokens -> Tokens \cup {NoToken}]
      /\ family'[Fresh] = f
      /\ \A t \in Tokens \ {Fresh} : family'[t] = family[t]
  BY <1>1
<1>3. Issued' = Issued \cup {Fresh}
  BY <1>1, <1>2, FreshIsNew DEF Issued
<1>4. Cardinality(Issued') = Cardinality(Issued) + 1
  BY <1>3, FreshIsNew, FS_AddElement
<1>5. Issued' = 1 .. Cardinality(Issued) + 1
  <2>1. Issued = 1 .. Cardinality(Issued) /\ Fresh = Cardinality(Issued) + 1
        /\ Cardinality(Issued) \in Nat
    BY FreshIsNew DEF TypeOK, Fresh
  <2> DEFINE n == Cardinality(Issued)
  <2>2. 1 .. n + 1 = (1 .. n) \cup {n + 1}
    <3> HIDE DEF n
    <3>1. n \in Nat
      BY <2>1 DEF n
    <3> QED
      BY <3>1
  <2> QED
    BY <2>1, <2>2, <1>3
<1> QED
  BY <1>2, <1>3, <1>4, <1>5

-----------------------------------------------------------------------------
(* Chains under the three changes there are to tokens.                     *)
LEMMA RevocationKeepsChains ==
  ASSUME Chains, UNCHANGED <<family, successor>>, revoked \subseteq revoked'
  PROVE  Chains'
<1>1. Issued' = Issued /\ Live' \subseteq Live
  BY DEF Issued, Live
<1> QED
  BY <1>1 DEF Chains, Named, Succeeds, OnePredecessor, OneLive

LEMMA LoginKeepsChains ==
  ASSUME Assumptions, TypeOK, Chains, CanIssue, Issue(Fresh), UNCHANGED <<revoked, successor>>
  PROVE  Chains'
<1>1. Fresh \in Tokens
  BY DEF CanIssue
<1>2. /\ Issued' = Issued \cup {Fresh} /\ family'[Fresh] = Fresh
      /\ \A t \in Tokens \ {Fresh} : family'[t] = family[t]
  BY <1>1, IssueAddsFresh
<1>3. \A t \in Issued : t \in Tokens /\ t # Fresh /\ family'[t] = family[t]
  BY <1>2, FreshIsNew
<1>4. Named'
  BY <1>1, <1>2, <1>3, FreshIsNew DEF Chains, Named
<1>5. Succeeds'
  BY <1>2, <1>3 DEF Chains, Succeeds
<1>6. OnePredecessor'
  BY <1>2, <1>3 DEF Chains, OnePredecessor
<1>7. \A t \in Issued : family[t] # Fresh
  BY FreshIsNew DEF Chains, Named
<1>8. Live' \subseteq Live \cup {Fresh} /\ Live \subseteq Issued
  BY <1>2 DEF Live
<1>9. OneLive'
  BY <1>2, <1>3, <1>7, <1>8 DEF Chains, OneLive
<1> QED
  BY <1>4, <1>5, <1>6, <1>9 DEF Chains

LEMMA RotationKeepsChains ==
  ASSUME Assumptions, TypeOK, Chains, NEW t \in Live, CanIssue, Issue(family[t]),
         revoked' = revoked \cup {t}, successor' = [successor EXCEPT ![t] = Fresh]
  PROVE  Chains'
<1>1. /\ Fresh \in Tokens /\ t \in Issued /\ t \in Tokens /\ t # Fresh /\ t \notin revoked
      /\ family[t] \in Issued /\ family[t] \in Tokens /\ family[t] # Fresh
  BY FreshIsNew DEF CanIssue, Live, Chains, Named
<1>2. /\ Issued' = Issued \cup {Fresh} /\ family'[Fresh] = family[t]
      /\ \A u \in Tokens \ {Fresh} : family'[u] = family[u]
  BY <1>1, IssueAddsFresh
<1>3. \A u \in Issued : u \in Tokens /\ u # Fresh /\ family'[u] = family[u]
  BY <1>2, FreshIsNew
<1>4. /\ successor'[t] = Fresh
      /\ \A u \in Tokens \ {t} : successor'[u] = successor[u]
  BY <1>1 DEF TypeOK
<1>5. \A u \in Tokens : successor[u] # Fresh
  BY <1>1, FreshIsNew DEF Chains, Succeeds
<1>6. Named'
  <2>1. family[t] <= Fresh
    BY <1>1, FreshIsNew DEF Chains, Named
  <2> QED
    BY <2>1, <1>1, <1>2, <1>3 DEF Chains, Named
<1>7. Succeeds'
  <2>1. ASSUME NEW u \in Tokens, successor'[u] # NoToken
        PROVE  /\ u \in Issued' /\ u \in revoked'
               /\ successor'[u] \in Issued' /\ family'[successor'[u]] = family'[u]
               /\ family'[successor'[u]] # successor'[u]
    <3>1. CASE u = t
      BY <3>1, <1>1, <1>2, <1>3, <1>4
    <3>2. CASE u # t
      <4>1. successor'[u] = successor[u]
        BY <3>2, <1>4
      <4> QED
        BY <4>1, <2>1, <1>2, <1>3 DEF Chains, Succeeds
    <3> QED
      BY <3>1, <3>2
  <2> QED
    BY <2>1 DEF Succeeds
<1>8. OnePredecessor'
  <2>1. \A u, v \in Tokens : successor'[u] = successor'[v] /\ successor'[u] # NoToken => u = v
    BY <1>4, <1>5 DEF Chains, OnePredecessor
  <2>2. ASSUME NEW u \in Issued', family'[u] # u
        PROVE  \E v \in Issued' : successor'[v] = u
    <3>1. CASE u = Fresh
      BY <3>1, <1>1, <1>2, <1>4
    <3>2. CASE u # Fresh
      <4>1. u \in Issued /\ family[u] # u
        BY <3>2, <2>2, <1>2, <1>3
      <4>2. PICK v \in Issued : successor[v] = u
        BY <4>1 DEF Chains, OnePredecessor
      <4>3. u # NoToken
        BY <4>1, FreshIsNew
      <4>4. v # t
        BY <4>2, <4>3, <1>1 DEF Chains, Succeeds
      <4> QED
        BY <4>2, <4>4, <1>2, <1>3, <1>4
    <3> QED
      BY <3>1, <3>2
  <2> QED
    BY <2>1, <2>2 DEF OnePredecessor
<1>9. OneLive'
  <2>1. Live' \subseteq (Live \ {t}) \cup {Fresh} /\ Live \subseteq Issued
    BY <1>2 DEF Live
  <2>2. \A u \in Live \ {t} : family[u] # family[t]
    BY DEF Chains, OneLive
  <2> QED
    BY <2>1, <2>2, <1>2, <1>3 DEF Chains, OneLive
<1> QED
  BY <1>6, <1>7, <1>8, <1>9 DEF Chains

-----------------------------------------------------------------------------
(* The requests: one record is replaced, and the tokens that others hold   *)
(* locked are neither revoked nor replaced.                                *)
LEMMA Replaced ==
  ASSUME TypeOK, NEW r \in Requests, NEW k \in RequestStates,
         request' = [request EXCEPT ![r] = k]
  PROVE  /\ request' \in [Requests -> RequestStates]
         /\ request'[r] = k
         /\ \A q \in Requests \ {r} : request'[q] = request[q]
  BY DEF TypeOK, RequestStates

LEMMA HoldingKept ==
  ASSUME TypeOK, Holding, NEW r \in Requests, NEW k \in RequestStates,
         request' = [request EXCEPT ![r] = k],
         k.locks \cap LockedFor(r) = {},
         Holds(r)',
         Issued \subseteq Issued',
         \A t \in Issued : family'[t] = family[t],
         \A t \in LockedFor(r) :
           /\ t \in revoked' => t \in revoked
           /\ successor'[t] = successor[t]
  PROVE  Holding'
<1>1. /\ request'[r] = k
      /\ \A q \in Requests \ {r} : request'[q] = request[q]
  BY Replaced
<1>2. \A q \in Requests \ {r} : request[q].locks \subseteq LockedFor(r)
  BY DEF LockedFor
<1>3. LocksDisjoint'
  BY <1>1, <1>2 DEF Holding, LocksDisjoint
<1>4. ASSUME NEW q \in Requests, q # r
      PROVE  Holds(q)'
  <2>1. request'[q] = request[q] /\ request[q].locks \subseteq LockedFor(r) /\ Holds(q)
    BY <1>1, <1>2, <1>4 DEF Holding
  <2>2. \A t \in Issued : Family(t) \subseteq Family(t)'
    BY DEF Family
  <2> QED
    BY <2>1, <2>2 DEF Holds, Live
<1> QED
  BY <1>3, <1>4 DEF Holding

(* No other request is touched when the tokens do not change at all.       *)
LEMMA HoldingMoves ==
  ASSUME TypeOK, Holding, NEW r \in Requests, NEW k \in RequestStates,
         request' = [request EXCEPT ![r] = k], UNCHANGED tokens,
         k.locks \cap LockedFor(r) = {}, Holds(r)'
  PROVE  Holding'
<1>1. Issued' = Issued /\ UNCHANGED <<family, revoked, successor>>
  BY DEF Issued, tokens
<1> QED
  BY <1>1, HoldingKept

LEMMA SpendingMoves ==
  ASSUME TypeOK, Spending, NEW r \in Requests, NEW k \in RequestStates,
         request' = [request EXCEPT ![r] = k], UNCHANGED pairing,
         k.pc # "exchange", k.code = "none"
  PROVE  Spending'
<1>1. /\ request'[r] = k
      /\ \A q \in Requests \ {r} : request'[q] = request[q]
  BY Replaced
<1>2. UNCHANGED <<code, issued>>
  BY DEF pairing
<1>4. \A q \in Requests : Exchanging(q)'
  BY <1>1, <1>2 DEF Spending, Exchanging
<1>5. \A q, p \in Requests :
        q # p /\ request'[q].pc = "exchange" => request'[q].code # request'[p].code
  <2>1. SUFFICES ASSUME NEW q \in Requests, NEW p \in Requests, q # p, request'[q].pc = "exchange"
                 PROVE  request'[q].code # request'[p].code
    OBVIOUS
  <2>2. q # r /\ request'[q] = request[q]
    BY <2>1, <1>1
  <2>3. CASE p = r
    <3>1. request[q].code \in Codes
      BY <2>1, <2>2 DEF Spending, Exchanging
    <3> QED
      BY <2>3, <2>2, <3>1, <1>1, TokenAssumption DEF TokenAssumption
  <2>4. CASE p # r
    BY <2>1, <2>2, <2>4, <1>1 DEF Spending
  <2> QED
    BY <2>3, <2>4
<1> QED
  BY <1>2, <1>4, <1>5 DEF Spending

-----------------------------------------------------------------------------
(* The budget of failures.                                                 *)
LEMMA CountingKinds ==
  ASSUME Assumptions, TypeOK
  PROVE  /\ IsFiniteSet(Requests) /\ Cardinality(Requests) \in Nat
         /\ IsFiniteSet(LettingIn) /\ Cardinality(LettingIn) \in Nat
         /\ IsFiniteSet(Blocking) /\ Cardinality(Blocking) \in Nat
         /\ Cardinality(LettingIn) + Cardinality(Blocking) <= Cardinality(Requests)
<1>1. IsFiniteSet(Requests) /\ LettingIn \subseteq Requests /\ Blocking \subseteq Requests
  BY DEF Assumptions, TokenAssumption, LettingIn, Blocking
<1>2. IsFiniteSet(LettingIn) /\ IsFiniteSet(Blocking)
  BY <1>1, FS_Subset
<1>3. LettingIn \cap Blocking = {}
  BY DEF LettingIn, Blocking
<1>4. Cardinality(LettingIn \cup Blocking) = Cardinality(LettingIn) + Cardinality(Blocking)
  <2>1. Cardinality(LettingIn \cap Blocking) = 0
    BY <1>3, FS_EmptySet
  <2>2. Cardinality(LettingIn) \in Nat /\ Cardinality(Blocking) \in Nat
    BY <1>2, FS_CardinalityType
  <2>3. Cardinality(LettingIn \cup Blocking) =
          Cardinality(LettingIn) + Cardinality(Blocking) - Cardinality(LettingIn \cap Blocking)
    BY <1>2, FS_Union
  <2> QED
    BY <2>1, <2>2, <2>3
<1>5. Cardinality(LettingIn \cup Blocking) <= Cardinality(Requests)
  BY <1>1, FS_Subset
<1> QED
  BY <1>1, <1>2, <1>4, <1>5, FS_CardinalityType

(* Requests that have nothing to do with logins, and those that give up    *)
(* before they are counted.                                                *)
LEMMA CountingMoves ==
  ASSUME Assumptions, TypeOK, Counting, NEW r \in Requests, NEW k \in RequestStates,
         request' = [request EXCEPT ![r] = k], UNCHANGED limitVars,
         request[r].pc # "block", k.pc # "block",
         k.pc \in {"login", "count"} => r \in LettingIn
  PROVE  Counting'
<1>1. /\ request'[r] = k
      /\ \A q \in Requests \ {r} : request'[q] = request[q]
  BY Replaced
<1>2. LettingIn' \subseteq LettingIn /\ Blocking' = Blocking
  BY <1>1 DEF LettingIn, Blocking
<1>3. /\ Cardinality(LettingIn') <= Cardinality(LettingIn)
      /\ Cardinality(LettingIn') \in Nat
  BY <1>2, CountingKinds, FS_Subset, FS_CardinalityType
<1>4. UNCHANGED <<failed, blocked, outages>>
  BY DEF limitVars
<1>5. failed.count \in Nat /\ outages \in Nat /\ FailedLogin \in Nat
  BY DEF TypeOK, Assumptions, RateAssumption
<1> QED
  BY <1>2, <1>3, <1>4, <1>5, CountingKinds DEF Counting, BlockOutlasts

-----------------------------------------------------------------------------
(* The parts of TypeOK.                                                    *)
TokenTypes ==
  /\ family \in [Tokens -> Tokens \cup {NoToken}]
  /\ Issued = 1 .. Cardinality(Issued)
  /\ revoked \subseteq Issued
  /\ successor \in [Tokens -> Tokens \cup {NoToken}]

PairingTypes ==
  /\ code \in [Codes -> {"absent", "open", "redeemed"}]
  /\ issued \in [Codes -> Nat]

LimitTypes ==
  /\ failed \in [count : 0 .. MaxFailed, ttl : 0 .. Window]
  /\ failed.count > 0 <=> failed.ttl > 0
  /\ outages \in 0 .. MaxOutages
  /\ blocked \in 0 .. BlockTime

LEMMA TypeParts ==
  TypeOK <=> TokenTypes /\ PairingTypes /\ LimitTypes /\ request \in [Requests -> RequestStates]
BY DEF TypeOK, TokenTypes, PairingTypes, LimitTypes, RequestStates

LEMMA TokensStay ==
  ASSUME TypeOK, Chains, UNCHANGED tokens
  PROVE  TokenTypes' /\ Chains'
<1>1. UNCHANGED <<family, revoked, successor>>
  BY DEF tokens
<1>2. Issued' = Issued
  BY <1>1 DEF Issued
<1> QED
  BY <1>1, <1>2, RevocationKeepsChains, TypeParts DEF TokenTypes

LEMMA PairingStays ==
  ASSUME TypeOK, UNCHANGED pairing
  PROVE  PairingTypes'
BY TypeParts DEF pairing, PairingTypes

LEMMA LimitsStay ==
  ASSUME TypeOK, UNCHANGED limitVars
  PROVE  LimitTypes'
BY TypeParts DEF limitVars, LimitTypes

LEMMA TypesKept ==
  ASSUME TokenTypes', PairingTypes', LimitTypes', (request \in [Requests -> RequestStates])'
  PROVE  TypeOK'
BY DEF TypeOK, TokenTypes, PairingTypes, LimitTypes, RequestStates

(* A request moves, and nothing but its own record changes.                *)
LEMMA RequestMoves ==
  ASSUME Assumptions, IInv, NEW r \in Requests, NEW k \in RequestStates,
         request' = [request EXCEPT ![r] = k], UNCHANGED <<tokens, pairing, limitVars>>,
         k.locks \cap LockedFor(r) = {}, Holds(r)',
         k.pc # "exchange", k.code = "none", request[r].pc # "block", k.pc # "block",
         k.pc \in {"login", "count"} => r \in LettingIn
  PROVE  IInv'
<1>1. UNCHANGED tokens /\ UNCHANGED pairing /\ UNCHANGED limitVars
  OBVIOUS
<1>2. TypeOK /\ Chains /\ Holding /\ Spending /\ Counting
  BY DEF IInv
<1>3. TokenTypes' /\ Chains'
  BY <1>1, <1>2, TokensStay
<1>4. PairingTypes' /\ LimitTypes' /\ (request \in [Requests -> RequestStates])'
  BY <1>1, <1>2, PairingStays, LimitsStay, Replaced
<1>5. Holding'
  BY <1>1, <1>2, HoldingMoves
<1>6. Spending'
  BY <1>1, <1>2, SpendingMoves
<1>7. Counting'
  BY <1>1, <1>2, CountingMoves
<1> QED
  BY <1>3, <1>4, <1>5, <1>6, <1>7, TypesKept DEF IInv

(* The record of a request in progress, and of a connection at rest.       *)
LEMMA RecordOf ==
  ASSUME Assumptions, IInv, NEW r \in Requests
  PROVE  /\ request[r] \in RequestStates
         /\ Holds(r) /\ Exchanging(r)
         /\ request[r].locks \cap LockedFor(r) = {}
         /\ Idle \in RequestStates
  <1>1. request[r] \in RequestStates
    BY TypeParts DEF IInv
  <1>2. Idle \in RequestStates
    BY DEF Idle, RequestStates, Steps
  <1>3. Holds(r) /\ Exchanging(r)
    BY DEF IInv, Holding, Spending
  <1>4. request[r].locks \cap LockedFor(r) = {}
    BY DEF IInv, Holding, LocksDisjoint, LockedFor
  <1> QED
    BY <1>1, <1>2, <1>3, <1>4

LEMMA AtRest ==
  ASSUME NEW r \in Requests, request'[r] = Idle
  PROVE  Holds(r)'
BY DEF Holds, Idle

-----------------------------------------------------------------------------
LEMMA LoginFailsKeeps ==
  ASSUME Assumptions, IInv, NEW r \in Requests, LoginFails(r)
  PROVE  IInv'
<1> DEFINE k == [request[r] EXCEPT !.pc = "count"]
<1>1. request[r].pc = "login" /\ request' = [request EXCEPT ![r] = k]
      /\ UNCHANGED <<tokens, pairing, limitVars>>
  BY DEF LoginFails, Goto
<1>2. k \in RequestStates
  BY RecordOf DEF RequestStates, Steps
<1>3. /\ k.pc = "count" /\ k.locks = request[r].locks /\ k.wanted = request[r].wanted
      /\ k.code = request[r].code
  BY RecordOf DEF RequestStates
<1> HIDE DEF k
<1>4. k.locks \cap LockedFor(r) = {} /\ k.code = "none"
  BY <1>1, <1>3, RecordOf DEF Exchanging
<1>5. Holds(r)'
  <2>1. request'[r] = k /\ Issued' = Issued
    BY <1>1, <1>2, Replaced DEF IInv, tokens, Issued
  <2> QED
    BY <2>1, <1>1, <1>3, RecordOf DEF Holds
<1> QED
  BY <1>1, <1>2, <1>3, <1>4, <1>5, RequestMoves DEF LettingIn

LEMMA AbortsKeeps ==
  ASSUME Assumptions, IInv, NEW r \in Requests, Aborts(r)
  PROVE  IInv'
<1>1. request[r].pc # "block" /\ request' = [request EXCEPT ![r] = Idle]
      /\ UNCHANGED <<tokens, pairing, limitVars>>
  BY DEF Aborts, Return
<1>2. Idle \in RequestStates /\ Idle.pc = "idle" /\ Idle.code = "none" /\ Idle.locks = {}
  BY RecordOf DEF Idle
<1>3. Holds(r)'
  BY <1>1, <1>2, AtRest, Replaced DEF IInv
<1> QED
  BY <1>1, <1>2, <1>3, RequestMoves

LEMMA BeginLogoutKeeps ==
  ASSUME Assumptions, IInv, NEW r \in Requests, BeginLogout(r)
  PROVE  IInv'
<1>1. /\ request[r].pc = "idle" /\ UNCHANGED <<tokens, pairing, limitVars>>
      /\ \E w \in SUBSET Issued :
           request' = [request EXCEPT ![r] = [Idle EXCEPT !.pc = "logout", !.wanted = w]]
  BY DEF BeginLogout, Goto
<1>2. PICK w \in SUBSET Issued :
        request' = [request EXCEPT ![r] = [Idle EXCEPT !.pc = "logout", !.wanted = w]]
  BY <1>1
<1> DEFINE k == [Idle EXCEPT !.pc = "logout", !.wanted = w]
<1>3. k \in RequestStates
  BY FreshIsNew, RecordOf DEF RequestStates, Steps, IInv
<1>4. k.pc = "logout" /\ k.locks = {} /\ k.code = "none" /\ k.wanted = w
  BY DEF Idle
<1> HIDE DEF k
<1>5. request' = [request EXCEPT ![r] = k]
  BY <1>2 DEF k
<1>6. Holds(r)'
  <2>1. request'[r] = k /\ Issued' = Issued
    BY <1>1, <1>3, <1>5, Replaced DEF IInv, tokens, Issued
  <2> QED
    BY <2>1, <1>4 DEF Holds
<1> QED
  BY <1>1, <1>3, <1>4, <1>5, <1>6, RequestMoves

LEMMA BeginRefreshKeeps ==
  ASSUME Assumptions, IInv, NEW r \in Requests, NEW t \in Tokens, BeginRefresh(r, t)
  PROVE  IInv'
<1>1. /\ request[r].pc = "idle" /\ t \in Issued /\ t \notin LockedFor(r)
      /\ UNCHANGED <<tokens, pairing, limitVars>>
  BY DEF BeginRefresh
<1>2. Issued' = Issued /\ revoked' = revoked /\ Family(t)' = Family(t) /\ Live' = Live
  BY <1>1 DEF tokens, Issued, Family, Live
<1>3. CASE t \in revoked
  <2> DEFINE k == [Idle EXCEPT !.pc = "reuse", !.token = t, !.wanted = Family(t), !.locks = {t}]
  <2>1. request' = [request EXCEPT ![r] = k]
    BY <1>3 DEF BeginRefresh, Goto
  <2>2. Family(t) \subseteq Issued
    BY DEF Family
  <2>3. k \in RequestStates
    BY <1>1, <2>2, FreshIsNew, RecordOf DEF RequestStates, Steps, IInv
  <2>4. /\ k.pc = "reuse" /\ k.token = t /\ k.wanted = Family(t) /\ k.locks = {t}
        /\ k.code = "none"
    BY DEF Idle
  <2> HIDE DEF k
  <2>5. request'[r] = k
    BY <2>1, <2>3, Replaced DEF IInv
  <2>6. Holds(r)'
    BY <2>4, <2>5, <1>1, <1>2, <2>2 DEF Holds
  <2> QED
    BY <1>1, <2>1, <2>3, <2>4, <2>6, RequestMoves
<1>4. CASE t \notin revoked
  <2> DEFINE k == [Idle EXCEPT !.pc = "rotate", !.token = t, !.locks = {t}]
  <2>1. request' = [request EXCEPT ![r] = k]
    BY <1>4 DEF BeginRefresh, Goto, RefreshLocks
  <2>3. k \in RequestStates
    BY <1>1, FreshIsNew, RecordOf DEF RequestStates, Steps, IInv
  <2>4. k.pc = "rotate" /\ k.token = t /\ k.wanted = {} /\ k.locks = {t} /\ k.code = "none"
    BY DEF Idle
  <2> HIDE DEF k
  <2>5. request'[r] = k
    BY <2>1, <2>3, Replaced DEF IInv
  <2>6. Holds(r)'
    BY <2>4, <2>5, <1>1, <1>2, <1>4 DEF Holds, Live
  <2> QED
    BY <1>1, <2>1, <2>3, <2>4, <2>6, RequestMoves
<1> QED
  BY <1>3, <1>4

LEMMA LockFamilyKeeps ==
  ASSUME Assumptions, IInv, NEW r \in Requests, LockFamily(r)
  PROVE  IInv'
<1> DEFINE k == [request[r] EXCEPT !.pc = "reread", !.locks = request[r].wanted]
<1>1. /\ request[r].pc = "reuse" /\ request[r].wanted \cap LockedFor(r) = {}
      /\ request' = [request EXCEPT ![r] = k]
      /\ UNCHANGED <<tokens, pairing, limitVars>>
  BY DEF LockFamily, Goto
<1>2. k \in RequestStates
  BY RecordOf DEF RequestStates, Steps
<1>3. /\ k.pc = "reread" /\ k.locks = request[r].wanted /\ k.wanted = request[r].wanted
      /\ k.code = request[r].code /\ k.token = request[r].token
  BY RecordOf DEF RequestStates
<1> HIDE DEF k
<1>4. k.code = "none"
  BY <1>1, <1>3, RecordOf DEF Exchanging
<1>5. Holds(r)'
  <2>1. request'[r] = k /\ Issued' = Issued /\ family' = family
    BY <1>1, <1>2, Replaced DEF IInv, tokens, Issued
  <2>2. \A t \in Issued : Family(t)' = Family(t)
    BY <2>1 DEF Family
  <2> QED
    BY <2>1, <2>2, <1>1, <1>3, RecordOf DEF Holds
<1> QED
  BY <1>1, <1>2, <1>3, <1>4, <1>5, RequestMoves

(* What was waited for is a successor of what is locked, so of the family. *)
LEMMA RereadFamilyKeeps ==
  ASSUME Assumptions, IInv, NEW r \in Requests, RereadFamily(r)
  PROVE  IInv'
<1> DEFINE k == [request[r] EXCEPT !.pc = "revoke", !.wanted = FamilyNow(r)]
<1>1. /\ request[r].pc = "reread" /\ request' = [request EXCEPT ![r] = k]
      /\ UNCHANGED <<tokens, pairing, limitVars>>
  BY DEF RereadFamily, Goto
<1>2. /\ request[r].token \in Issued /\ request[r].locks \subseteq Family(request[r].token)
      /\ request[r].locks \subseteq Issued
  BY <1>1, RecordOf DEF Holds
<1>3. FamilyNow(r) = Family(request[r].token) /\ FamilyNow(r) \subseteq Issued
  BY DEF FamilyNow, Family
<1>4. k \in RequestStates
  BY <1>3, FreshIsNew, RecordOf DEF RequestStates, Steps, IInv
<1>5. /\ k.pc = "revoke" /\ k.locks = request[r].locks /\ k.wanted = FamilyNow(r)
      /\ k.code = request[r].code
  BY RecordOf DEF RequestStates
<1> HIDE DEF k
<1>6. k.code = "none" /\ k.locks \cap LockedFor(r) = {}
  BY <1>1, <1>5, RecordOf DEF Exchanging
<1>7. \A t \in k.locks : successor[t] # NoToken => successor[t] \in k.wanted
  <2>1. \A t \in k.locks : t \in Tokens /\ family[t] = family[request[r].token]
    BY <1>2, <1>5, FreshIsNew DEF Family, IInv
  <2> QED
    BY <2>1, <1>3, <1>5 DEF IInv, Chains, Succeeds, Family
<1>8. Holds(r)'
  <2>1. request'[r] = k /\ Issued' = Issued /\ successor' = successor
    BY <1>1, <1>4, Replaced DEF IInv, tokens, Issued
  <2> QED
    BY <2>1, <1>2, <1>3, <1>5, <1>7 DEF Holds
<1> QED
  BY <1>1, <1>4, <1>5, <1>6, <1>8, RequestMoves

(* Rows are revoked that nobody else holds locked.                         *)
LEMMA RevocationKeeps ==
  ASSUME Assumptions, IInv, NEW r \in Requests,
         request[r].wanted \cap LockedFor(r) = {}, request[r].pc # "block",
         revoked' = revoked \cup request[r].wanted,
         UNCHANGED <<family, successor, pairing, limitVars>>, Return(r)
  PROVE  IInv'
<1>1. /\ request' = [request EXCEPT ![r] = Idle]
      /\ UNCHANGED pairing /\ UNCHANGED limitVars
  BY DEF Return
<1>2. TypeOK /\ Chains /\ Holding /\ Spending /\ Counting
  BY DEF IInv
<1>3. Idle \in RequestStates /\ Idle.pc = "idle" /\ Idle.code = "none" /\ Idle.locks = {}
  BY RecordOf DEF Idle
<1>4. Issued' = Issued /\ request[r].wanted \subseteq Issued
  BY RecordOf DEF Issued, Holds
<1>5. TokenTypes'
  BY <1>2, <1>4, TypeParts DEF TokenTypes
<1>6. Chains'
  BY <1>2, RevocationKeepsChains
<1>7. PairingTypes' /\ LimitTypes' /\ (request \in [Requests -> RequestStates])'
  BY <1>1, <1>2, <1>3, PairingStays, LimitsStay, Replaced
<1>8. Holds(r)'
  BY <1>1, <1>2, <1>3, AtRest, Replaced
<1>9. Holding'
  BY <1>1, <1>2, <1>3, <1>4, <1>8, HoldingKept
<1>10. Spending'
  BY <1>1, <1>2, <1>3, SpendingMoves
<1>11. Counting'
  BY <1>1, <1>2, <1>3, CountingMoves
<1> QED
  BY <1>5, <1>6, <1>7, <1>9, <1>10, <1>11, TypesKept DEF IInv

LEMMA LoginKeeps ==
  ASSUME Assumptions, IInv, NEW r \in Requests, Login(r)
  PROVE  IInv'
<1>1. /\ request[r].pc = "login" /\ CanIssue /\ Issue(Fresh)
      /\ request' = [request EXCEPT ![r] = Idle]
      /\ UNCHANGED <<revoked, successor>> /\ UNCHANGED pairing /\ UNCHANGED limitVars
  BY DEF Login, Return
<1>2. TypeOK /\ Chains /\ Holding /\ Spending /\ Counting
  BY DEF IInv
<1>3. Idle \in RequestStates /\ Idle.pc = "idle" /\ Idle.code = "none" /\ Idle.locks = {}
  BY RecordOf DEF Idle
<1>4. Fresh \in Tokens
  BY <1>1 DEF CanIssue
<1>5. TokenTypes' /\ Issued \subseteq Issued' /\ \A t \in Issued : family'[t] = family[t]
  BY <1>1, <1>2, <1>4, IssueAddsFresh, FreshIsNew, TypeParts DEF TokenTypes
<1>6. Chains'
  BY <1>1, <1>2, LoginKeepsChains
<1>7. PairingTypes' /\ LimitTypes' /\ (request \in [Requests -> RequestStates])'
  BY <1>1, <1>2, <1>3, PairingStays, LimitsStay, Replaced
<1>8. Holds(r)'
  BY <1>1, <1>2, <1>3, AtRest, Replaced
<1>9. Holding'
  BY <1>1, <1>2, <1>3, <1>5, <1>8, HoldingKept
<1>10. Spending'
  BY <1>1, <1>2, <1>3, SpendingMoves
<1>11. Counting'
  BY <1>1, <1>2, <1>3, CountingMoves
<1> QED
  BY <1>5, <1>6, <1>7, <1>9, <1>10, <1>11, TypesKept DEF IInv

LEMMA RotateKeeps ==
  ASSUME Assumptions, IInv, NEW r \in Requests, Rotate(r)
  PROVE  IInv'
<1> DEFINE t == request[r].token
<1>1. /\ request[r].pc = "rotate" /\ t \notin LockedFor(r) /\ CanIssue /\ Issue(family[t])
      /\ revoked' = revoked \cup {t} /\ successor' = [successor EXCEPT ![t] = Fresh]
      /\ request' = [request EXCEPT ![r] = Idle]
      /\ UNCHANGED pairing /\ UNCHANGED limitVars
  BY DEF Rotate, Return
<1>2. TypeOK /\ Chains /\ Holding /\ Spending /\ Counting
  BY DEF IInv
<1>3. Idle \in RequestStates /\ Idle.pc = "idle" /\ Idle.code = "none" /\ Idle.locks = {}
  BY RecordOf DEF Idle
<1>4. t \in Live /\ t \in Issued /\ t \in Tokens /\ Fresh \in Tokens /\ family[t] \in Tokens
  BY <1>1, <1>2, RecordOf, FreshIsNew DEF CanIssue, Holds, Live, Chains, Named
<1>6. /\ Issued' = Issued \cup {Fresh} /\ \A v \in Issued : family'[v] = family[v]
      /\ TokenTypes'
  <2>1. PICK f \in Tokens : f = family[t]
    BY <1>4
  <2>2. Issue(f)
    BY <2>1, <1>1
  <2>3. /\ family' \in [Tokens -> Tokens \cup {NoToken}]
        /\ Issued' = Issued \cup {Fresh} /\ Issued' = 1 .. Cardinality(Issued')
        /\ \A v \in Tokens \ {Fresh} : family'[v] = family[v]
    BY <2>2, <1>1, <1>2, IssueAddsFresh
  <2>4. revoked' \subseteq Issued' /\ successor' \in [Tokens -> Tokens \cup {NoToken}]
    BY <2>3, <1>1, <1>2, <1>4, TypeParts DEF TokenTypes
  <2> QED
    BY <2>3, <2>4, <1>2, FreshIsNew DEF TokenTypes
<1>7. Chains'
  BY <1>1, <1>2, <1>4, RotationKeepsChains
<1>8. PairingTypes' /\ LimitTypes' /\ (request \in [Requests -> RequestStates])'
  BY <1>1, <1>2, <1>3, PairingStays, LimitsStay, Replaced
<1>9. Holds(r)'
  BY <1>1, <1>2, <1>3, AtRest, Replaced
<1>10. \A v \in LockedFor(r) : (v \in revoked' => v \in revoked) /\ successor'[v] = successor[v]
  BY <1>1, <1>2 DEF TypeOK
<1>11. Holding'
  BY <1>1, <1>2, <1>3, <1>6, <1>9, <1>10, HoldingKept
<1>12. Spending'
  BY <1>1, <1>2, <1>3, SpendingMoves
<1>13. Counting'
  BY <1>1, <1>2, <1>3, CountingMoves
<1> QED
  BY <1>6, <1>7, <1>8, <1>11, <1>12, <1>13, TypesKept DEF IInv

-----------------------------------------------------------------------------
(* The steps of a login touch no token and no code.                        *)
LEMMA LoginMoves ==
  ASSUME Assumptions, IInv, NEW r \in Requests, NEW k \in RequestStates,
         request' = [request EXCEPT ![r] = k], UNCHANGED <<tokens, pairing>>,
         k.pc \in {"idle", "login", "count", "block"}, k.code = "none",
         k.locks \cap LockedFor(r) = {}, k.locks \subseteq Issued, k.wanted \subseteq Issued, LimitTypes', Counting'
  PROVE  IInv'
<1>1. UNCHANGED tokens /\ UNCHANGED pairing
  OBVIOUS
<1>2. TypeOK /\ Chains /\ Holding /\ Spending
  BY DEF IInv
<1>3. TokenTypes' /\ Chains'
  BY <1>1, <1>2, TokensStay
<1>4. PairingTypes' /\ (request \in [Requests -> RequestStates])'
  BY <1>1, <1>2, PairingStays, Replaced
<1>5. Holds(r)'
  BY <1>1, <1>2, Replaced DEF Holds, Issued, tokens
<1>6. Holding'
  BY <1>1, <1>2, <1>5, HoldingMoves
<1>7. Spending'
  BY <1>1, <1>2, SpendingMoves
<1> QED
  BY <1>3, <1>4, <1>6, <1>7, TypesKept DEF IInv

(* Numbers that the limits are made of.                                    *)
LEMMA LimitKinds ==
  ASSUME Assumptions, TypeOK
  PROVE  /\ failed = [count |-> failed.count, ttl |-> failed.ttl]
         /\ failed.count \in Nat /\ failed.ttl \in Nat /\ blocked \in Nat /\ outages \in Nat
         /\ failed.count <= MaxFailed /\ failed.ttl <= Window /\ blocked <= BlockTime
         /\ outages <= MaxOutages
         /\ failed.count > 0 <=> failed.ttl > 0
         /\ FailedLogin \in Nat /\ FailedLogin > 0 /\ Window \in Nat /\ Window > 0
         /\ BlockTime \in Nat /\ MaxFailed \in Nat /\ MaxOutages \in Nat /\ BlockTime >= Window
<1>1. /\ failed \in [count : 0 .. MaxFailed, ttl : 0 .. Window]
      /\ failed.count > 0 <=> failed.ttl > 0
      /\ outages \in 0 .. MaxOutages /\ blocked \in 0 .. BlockTime
  BY DEF TypeOK
<1>2. /\ FailedLogin \in Nat /\ FailedLogin > 0 /\ Window \in Nat /\ Window > 0
      /\ BlockTime \in Nat /\ MaxFailed \in Nat /\ MaxOutages \in Nat /\ BlockTime >= Window
  BY DEF Assumptions, RateAssumption
<1>3. failed = [count |-> failed.count, ttl |-> failed.ttl]
  BY <1>1
<1>4. failed.count \in 0 .. MaxFailed /\ failed.ttl \in 0 .. Window
  BY <1>1
<1> QED
  BY <1>1, <1>2, <1>3, <1>4

LEMMA BeginLoginKeeps ==
  ASSUME Assumptions, IInv, NEW r \in Requests, BeginLogin(r)
  PROVE  IInv'
<1> DEFINE k == [Idle EXCEPT !.pc = "login"]
<1>1. /\ request[r].pc = "idle" /\ ~IsBlocked /\ request' = [request EXCEPT ![r] = k]
      /\ UNCHANGED <<tokens, pairing>> /\ UNCHANGED limitVars
  BY DEF BeginLogin, Goto
<1>2. k \in RequestStates /\ TypeOK /\ Counting
  BY RecordOf DEF RequestStates, Steps, IInv
<1>3. k.pc = "login" /\ k.locks = {} /\ k.wanted = {} /\ k.code = "none"
  BY DEF Idle
<1> HIDE DEF k
<1>4. request'[r] = k /\ \A q \in Requests \ {r} : request'[q] = request[q]
  BY <1>1, <1>2, Replaced
<1>5. Blocking' = Blocking /\ UNCHANGED <<failed, blocked, outages>>
  BY <1>1, <1>3, <1>4 DEF Blocking, limitVars
<1>6. Reported(failed.ttl) > 0 => ~BlockOutlasts
  BY <1>1, <1>2, LimitKinds DEF IsBlocked, Reported, BlockOutlasts
<1>7. Counting'
  BY <1>2, <1>5, <1>6 DEF Counting, BlockOutlasts, Reported
<1>8. LimitTypes'
  BY <1>1, <1>2, LimitsStay
<1> QED
  BY <1>1, <1>2, <1>3, <1>7, <1>8, LoginMoves

(* A failure within the limit goes back to rest, one past it will block.   *)
LEMMA CountedFailure ==
  ASSUME Assumptions, TypeOK, Counting, NEW r \in Requests, request[r].pc = "count",
         failed' = Hit(failed), blocked' = blocked, outages' = outages,
         NEW k \in RequestStates, request' = [request EXCEPT ![r] = k],
         k.pc = IF Limited(failed') THEN "block" ELSE "idle"
  PROVE  Counting'
<1>1. request'[r] = k /\ \A q \in Requests \ {r} : request'[q] = request[q]
  BY Replaced
<1>2. r \in LettingIn /\ r \notin Blocking /\ LettingIn' = LettingIn \ {r}
      /\ Blocking' = (IF Limited(failed') THEN Blocking \cup {r} ELSE Blocking)
  BY <1>1 DEF LettingIn, Blocking
<1>3. Cardinality(LettingIn') = Cardinality(LettingIn) - 1
  BY <1>2, CountingKinds, FS_RemoveElement
<1>4. Cardinality(Blocking') =
        (IF Limited(failed') THEN Cardinality(Blocking) + 1 ELSE Cardinality(Blocking))
  BY <1>2, CountingKinds, FS_AddElement
<1>5. /\ failed'.count = failed.count + 1
      /\ failed'.ttl = (IF failed.count = 0 THEN Window ELSE failed.ttl)
  BY DEF Hit
<1> DEFINE in == Cardinality(LettingIn)
           blocking == Cardinality(Blocking)
           all == Cardinality(Requests)
<1>6. in \in Nat /\ blocking \in Nat /\ all \in Nat /\ in + blocking <= all
  BY CountingKinds
<1>7. SUFFICES ASSUME Reported(failed'.ttl) > 0
               PROVE  IF BlockOutlasts'
                      THEN failed'.count + Cardinality(LettingIn') <= FailedLogin + all + outages
                      ELSE failed'.count <= FailedLogin + Cardinality(Blocking') + outages
  BY DEF Counting
<1>8. Limited(failed') <=> failed.count + 1 > FailedLogin
  BY <1>5, <1>7 DEF Limited
<1> HIDE DEF in, blocking, all
<1>9. CASE failed.count = 0
  <2>1. failed'.count = 1
    BY <1>9, <1>5
  <2>2. 1 + (in - 1) <= FailedLogin + all + outages
    BY <1>6, LimitKinds
  <2>3. ~Limited(failed') /\ 1 <= FailedLogin + blocking + outages
    BY <1>6, <1>8, <1>9, LimitKinds
  <2> QED
    BY <2>1, <2>2, <2>3, <1>3, <1>4 DEF in, blocking
<1>10. CASE failed.count # 0
  <2>1. failed'.ttl = failed.ttl /\ (BlockOutlasts' <=> BlockOutlasts)
    BY <1>10, <1>5 DEF BlockOutlasts
  <2>2. CASE BlockOutlasts
    <3>1. failed.count + in <= FailedLogin + all + outages
      BY <2>1, <2>2, <1>7 DEF Counting, in, all
    <3>2. failed.count + 1 + (in - 1) <= FailedLogin + all + outages
      BY <3>1, <1>6, LimitKinds
    <3> QED
      BY <3>2, <2>1, <2>2, <1>3, <1>5 DEF in
  <2>3. CASE ~BlockOutlasts
    <3>1. failed.count <= FailedLogin + blocking + outages
      BY <2>1, <2>3, <1>7 DEF Counting, blocking
    <3>2. CASE Limited(failed')
      <4>1. failed.count + 1 <= FailedLogin + (blocking + 1) + outages
        BY <3>1, <1>6, LimitKinds
      <4> QED
        BY <4>1, <3>2, <2>1, <2>3, <1>4, <1>5 DEF blocking
    <3>3. CASE ~Limited(failed')
      <4>1. failed.count + 1 <= FailedLogin + blocking + outages
        BY <3>3, <1>6, <1>8, LimitKinds
      <4> QED
        BY <4>1, <3>3, <2>1, <2>3, <1>4, <1>5 DEF blocking
    <3> QED
      BY <3>2, <3>3
  <2> QED
    BY <2>2, <2>3
<1> QED
  BY <1>9, <1>10

LEMMA CountFailedLoginKeeps ==
  ASSUME Assumptions, IInv, NEW r \in Requests, CountFailedLogin(r)
  PROVE  IInv'
<1> DEFINE k == IF Limited(failed') THEN [request[r] EXCEPT !.pc = "block"] ELSE Idle
<1>1. /\ request[r].pc = "count" /\ failed.count < MaxFailed /\ failed' = Hit(failed)
      /\ blocked' = blocked /\ outages' = outages
      /\ UNCHANGED <<tokens, pairing>>
  BY DEF CountFailedLogin, CountFailure
<1>2. request' = [request EXCEPT ![r] = k]
  BY DEF CountFailedLogin, Goto, Return
<1>3. TypeOK /\ Counting /\ request[r] \in RequestStates /\ Idle \in RequestStates
  BY RecordOf DEF IInv
<1>4. /\ k \in RequestStates
      /\ k.pc = IF Limited(failed') THEN "block" ELSE "idle"
      /\ k.code = "none"
      /\ k.locks \subseteq request[r].locks /\ k.wanted \subseteq request[r].wanted
  <2>1. request[r].code = "none"
    BY <1>1, RecordOf DEF Exchanging
  <2>2. CASE Limited(failed')
    <3>1. [request[r] EXCEPT !.pc = "block"] \in RequestStates
      BY <1>3 DEF RequestStates, Steps
    <3> QED
      BY <2>1, <2>2, <3>1, <1>3 DEF RequestStates
  <2>3. CASE ~Limited(failed')
    BY <2>3, <1>3 DEF Idle
  <2> QED
    BY <2>2, <2>3
<1>5. PICK l \in RequestStates :
        /\ request' = [request EXCEPT ![r] = l]
        /\ l.pc = IF Limited(failed') THEN "block" ELSE "idle"
        /\ l.code = "none"
        /\ l.locks \subseteq request[r].locks /\ l.wanted \subseteq request[r].wanted
  <2> HIDE DEF k
  <2> QED
    BY <1>2, <1>4
<1>6. Counting'
  BY <1>1, <1>3, <1>5, CountedFailure
<1>7. LimitTypes'
  <2>1. /\ failed'.count \in 0 .. MaxFailed /\ failed'.ttl \in 0 .. Window
        /\ failed'.count > 0 /\ failed'.ttl > 0
        /\ failed' = [count |-> failed'.count, ttl |-> failed'.ttl]
    BY <1>1, <1>3, LimitKinds DEF Hit
  <2> QED
    BY <2>1, <1>1, <1>3, TypeParts DEF LimitTypes
<1> QED
  BY <1>1, <1>5, <1>6, <1>7, LoginMoves, RecordOf DEF Holds

(* A block outlasts the window in which it is set; a missed one is an      *)
(* outage.  Either way the request is no longer one that is about to block. *)
LEMMA BlockLoginsKeeps ==
  ASSUME Assumptions, IInv, NEW r \in Requests, BlockLogins(r)
  PROVE  IInv'
<1>1. /\ request[r].pc = "block" /\ (Block \/ BlockIsMissed)
      /\ request' = [request EXCEPT ![r] = Idle]
      /\ UNCHANGED <<tokens, pairing>>
  BY DEF BlockLogins, Return
<1>2. /\ TypeOK /\ Counting /\ Idle \in RequestStates
      /\ Idle.pc = "idle" /\ Idle.locks = {} /\ Idle.wanted = {} /\ Idle.code = "none"
  BY RecordOf DEF IInv, Idle
<1>3. /\ failed' = failed
      /\ \/ blocked' = BlockTime /\ outages' = outages
         \/ blocked' = blocked /\ outages' = outages + 1 /\ outages < MaxOutages
  BY <1>1 DEF Block, BlockIsMissed
<1>4. LimitTypes'
  <2>1. blocked' \in 0 .. BlockTime /\ outages' \in 0 .. MaxOutages
    BY <1>2, <1>3, LimitKinds
  <2> QED
    BY <2>1, <1>2, <1>3, TypeParts DEF LimitTypes
<1>5. request'[r] = Idle /\ \A q \in Requests \ {r} : request'[q] = request[q]
  BY <1>1, <1>2, Replaced
<1>6. r \in Blocking /\ LettingIn' = LettingIn /\ Blocking' = Blocking \ {r}
  BY <1>1, <1>2, <1>5 DEF LettingIn, Blocking
<1>7. Cardinality(Blocking') = Cardinality(Blocking) - 1
  BY <1>2, <1>6, CountingKinds, FS_RemoveElement
<1> DEFINE in == Cardinality(LettingIn)
           blocking == Cardinality(Blocking)
           all == Cardinality(Requests)
<1>8. in \in Nat /\ blocking \in Nat /\ all \in Nat /\ in + blocking <= all
  BY <1>2, CountingKinds
<1>9. Counting'
  <2>1. SUFFICES ASSUME Reported(failed.ttl) > 0
                 PROVE  IF BlockOutlasts'
                        THEN failed.count + in <= FailedLogin + all + outages'
                        ELSE failed.count <= FailedLogin + (blocking - 1) + outages'
    BY <1>3, <1>6, <1>7 DEF Counting
  <2>2. IF BlockOutlasts
        THEN failed.count + in <= FailedLogin + all + outages
        ELSE failed.count <= FailedLogin + blocking + outages
    BY <2>1, <1>2 DEF Counting
  <2> HIDE DEF in, blocking, all
  <2>3. CASE blocked' = BlockTime /\ outages' = outages
    <3>1. BlockOutlasts'
      BY <2>3, <1>2, <1>3, LimitKinds DEF BlockOutlasts
    <3> QED
      BY <2>2, <2>3, <3>1, <1>2, <1>8, LimitKinds
  <2>4. CASE blocked' = blocked /\ outages' = outages + 1
    <3>1. BlockOutlasts' <=> BlockOutlasts
      BY <2>4, <1>3 DEF BlockOutlasts
    <3> QED
      BY <2>2, <2>4, <3>1, <1>2, <1>8, LimitKinds
  <2> QED
    BY <2>3, <2>4, <1>3
<1> QED
  BY <1>1, <1>2, <1>4, <1>9, LoginMoves

(* Time passes: a block that outlasts the window goes on doing so.         *)
LEMMA TickKeeps ==
  ASSUME Assumptions, IInv, Tick
  PROVE  IInv'
<1>1. /\ UNCHANGED tokens /\ UNCHANGED pairing /\ request' = request /\ outages' = outages
      /\ failed' = (IF failed.ttl <= 1 THEN NoFailures ELSE [failed EXCEPT !.ttl = @ - 1])
      /\ blocked' = Older(blocked)
  BY DEF Tick, LimitsTick
<1>2. TypeOK /\ Chains /\ Holding /\ Spending /\ Counting
  BY DEF IInv
<1>3. /\ failed'.ttl = (IF failed.ttl <= 1 THEN 0 ELSE failed.ttl - 1)
      /\ failed'.count = (IF failed.ttl <= 1 THEN 0 ELSE failed.count)
      /\ failed' = [count |-> failed'.count, ttl |-> failed'.ttl]
      /\ blocked' = (IF blocked = 0 THEN 0 ELSE blocked - 1)
  BY <1>1, <1>2, LimitKinds DEF NoFailures, Older
<1>4. LimitTypes'
  <2>1. /\ failed'.ttl \in 0 .. Window /\ failed'.count \in 0 .. MaxFailed
        /\ failed'.count > 0 <=> failed'.ttl > 0
        /\ blocked' \in 0 .. BlockTime
    BY <1>2, <1>3, LimitKinds
  <2> QED
    BY <2>1, <1>1, <1>2, <1>3, TypeParts DEF LimitTypes
<1>5. TokenTypes' /\ Chains' /\ PairingTypes' /\ (request \in [Requests -> RequestStates])'
  BY <1>1, <1>2, TokensStay, PairingStays, TypeParts
<1>6. Holding' /\ Spending'
  <2>1. Issued' = Issued /\ Live' = Live /\ successor' = successor /\ family' = family
        /\ code' = code /\ issued' = issued
    BY <1>1 DEF tokens, pairing, Issued, Live
  <2>2. \A r \in Requests : Holds(r)' /\ Exchanging(r)'
    BY <2>1, <1>1, <1>2 DEF Holding, Holds, Spending, Exchanging, Family
  <2> QED
    BY <2>1, <2>2, <1>1, <1>2 DEF Holding, LocksDisjoint, Spending
<1>7. Counting'
  <2>1. LettingIn' = LettingIn /\ Blocking' = Blocking
    BY <1>1 DEF LettingIn, Blocking
  <2>2. Reported(failed'.ttl) > 0 =>
          /\ Reported(failed.ttl) > 0 /\ failed'.count = failed.count
          /\ BlockOutlasts' <=> BlockOutlasts
    BY <1>2, <1>3, LimitKinds DEF Reported, BlockOutlasts
  <2> QED
    BY <2>1, <2>2, <1>1, <1>2 DEF Counting
<1> QED
  BY <1>2, <1>4, <1>5, <1>6, <1>7, TypesKept DEF IInv

-----------------------------------------------------------------------------
(* Pairing.                                                                *)
LEMMA CreatePairingKeeps ==
  ASSUME Assumptions, IInv, NEW c \in Codes, CreatePairing(c)
  PROVE  IInv'
<1>1. /\ code[c] = "absent" /\ code' = [code EXCEPT ![c] = "open"] /\ issued' = issued
      /\ UNCHANGED tokens /\ UNCHANGED limitVars /\ request' = request
  BY DEF CreatePairing
<1>2. TypeOK /\ Chains /\ Holding /\ Spending /\ Counting
  BY DEF IInv
<1>3. TokenTypes' /\ Chains' /\ LimitTypes' /\ (request \in [Requests -> RequestStates])'
  BY <1>1, <1>2, TokensStay, LimitsStay, TypeParts
<1>4. PairingTypes'
  BY <1>1, <1>2, TypeParts DEF PairingTypes
<1>5. code'[c] = "open" /\ \A d \in Codes \ {c} : code'[d] = code[d]
  BY <1>1, <1>2 DEF TypeOK
<1>6. Spending'
  <2>1. \A r \in Requests : Exchanging(r)'
    BY <1>1, <1>2, <1>5 DEF Spending, Exchanging
  <2> QED
    BY <2>1, <1>1, <1>2, <1>5 DEF Spending
<1>7. Holding'
  <2>1. Issued' = Issued /\ Live' = Live /\ successor' = successor /\ family' = family
    BY <1>1 DEF tokens, Issued, Live
  <2>2. \A r \in Requests : Holds(r)'
    BY <2>1, <1>1, <1>2 DEF Holding, Holds, Family
  <2> QED
    BY <2>2, <1>1, <1>2 DEF Holding, LocksDisjoint
<1>8. Counting'
  BY <1>1, <1>2 DEF Counting, limitVars, LettingIn, Blocking, BlockOutlasts
<1> QED
  BY <1>3, <1>4, <1>6, <1>7, <1>8, TypesKept DEF IInv

LEMMA BeginExchangeKeeps ==
  ASSUME Assumptions, IInv, NEW r \in Requests, NEW c \in Codes, BeginExchange(r, c)
  PROVE  IInv'
<1> DEFINE k == [Idle EXCEPT !.pc = "exchange", !.code = c]
<1>1. /\ request[r].pc = "idle" /\ code[c] = "open" /\ CodeFree(r, c)
      /\ request' = [request EXCEPT ![r] = k]
      /\ UNCHANGED tokens /\ UNCHANGED pairing /\ UNCHANGED limitVars
  BY DEF BeginExchange, Goto
<1>2. TypeOK /\ Chains /\ Holding /\ Spending /\ Counting
  BY DEF IInv
<1>3. k \in RequestStates
  BY RecordOf DEF RequestStates, Steps
<1>4. k.pc = "exchange" /\ k.locks = {} /\ k.wanted = {} /\ k.code = c
  BY DEF Idle
<1> HIDE DEF k
<1>5. request'[r] = k /\ \A q \in Requests \ {r} : request'[q] = request[q]
  BY <1>1, <1>2, <1>3, Replaced
<1>6. TokenTypes' /\ Chains' /\ PairingTypes' /\ LimitTypes'
      /\ (request \in [Requests -> RequestStates])'
  BY <1>1, <1>2, <1>3, TokensStay, PairingStays, LimitsStay, Replaced
<1>7. Holding'
  <2>1. Holds(r)'
    BY <1>4, <1>5 DEF Holds
  <2> QED
    BY <2>1, <1>1, <1>2, <1>3, <1>4, HoldingMoves
<1>8. Spending'
  <2>1. code' = code /\ issued' = issued
    BY <1>1 DEF pairing
  <2>2. \A q \in Requests : Exchanging(q)'
    BY <2>1, <1>1, <1>2, <1>4, <1>5 DEF Spending, Exchanging
  <2>3. \A q \in Requests \ {r} : request'[q].code # c
    BY <1>1, <1>5 DEF CodeFree
  <2> QED
    BY <2>1, <2>2, <2>3, <1>2, <1>4, <1>5 DEF Spending
<1>9. Counting'
  BY <1>1, <1>2, <1>3, <1>4, CountingMoves
<1> QED
  BY <1>6, <1>7, <1>8, <1>9, TypesKept DEF IInv

LEMMA ExchangeKeeps ==
  ASSUME Assumptions, IInv, NEW r \in Requests, Exchange(r)
  PROVE  IInv'
<1> DEFINE c == request[r].code
<1>1. /\ request[r].pc = "exchange" /\ code' = [code EXCEPT ![c] = "redeemed"]
      /\ issued' = [issued EXCEPT ![c] = @ + 1]
      /\ request' = [request EXCEPT ![r] = Idle]
      /\ UNCHANGED tokens /\ UNCHANGED limitVars
  BY DEF Exchange, Return
<1>2. TypeOK /\ Chains /\ Holding /\ Spending /\ Counting
  BY DEF IInv
<1>3. Idle \in RequestStates /\ Idle.pc = "idle" /\ Idle.code = "none" /\ Idle.locks = {}
  BY RecordOf DEF Idle
<1>4. c \in Codes /\ code[c] = "open" /\ issued[c] = 0
  BY <1>1, <1>2 DEF Spending, Exchanging
<1>5. request'[r] = Idle /\ \A q \in Requests \ {r} : request'[q] = request[q]
  BY <1>1, <1>2, <1>3, Replaced
<1>6. /\ code'[c] = "redeemed" /\ issued'[c] = 1
      /\ \A d \in Codes \ {c} : code'[d] = code[d] /\ issued'[d] = issued[d]
      /\ code' \in [Codes -> {"absent", "open", "redeemed"}]
      /\ issued' \in [Codes -> Nat]
  BY <1>1, <1>2, <1>4, TypeParts DEF PairingTypes
<1>7. TokenTypes' /\ Chains' /\ LimitTypes' /\ PairingTypes'
      /\ (request \in [Requests -> RequestStates])'
  BY <1>1, <1>2, <1>3, <1>6, TokensStay, LimitsStay, Replaced DEF PairingTypes
<1>8. Holding'
  <2>1. Holds(r)'
    BY <1>5, AtRest
  <2> QED
    BY <2>1, <1>1, <1>2, <1>3, HoldingMoves
<1>9. Spending'
  <2>1. \A q \in Requests \ {r} : request[q].pc = "exchange" => request[q].code # c
    BY <1>1, <1>2 DEF Spending
  <2>2. ASSUME NEW q \in Requests
        PROVE  Exchanging(q)'
    <3>1. CASE q = r
      BY <3>1, <1>3, <1>5 DEF Exchanging
    <3>2. CASE q # r
      BY <3>2, <2>1, <1>2, <1>5, <1>6 DEF Spending, Exchanging
    <3> QED
      BY <3>1, <3>2
  <2>3. \A d \in Codes : issued'[d] = (IF code'[d] = "redeemed" THEN 1 ELSE 0)
    BY <1>2, <1>6 DEF Spending
  <2>4. ASSUME NEW q \in Requests, NEW p \in Requests, q # p, request'[q].pc = "exchange"
        PROVE  request'[q].code # request'[p].code
    <3>1. q # r /\ request'[q] = request[q] /\ request[q].code \in Codes
      BY <2>4, <1>2, <1>3, <1>5 DEF Spending, Exchanging
    <3>2. CASE p = r
      BY <3>1, <3>2, <1>3, <1>5, TokenAssumption DEF TokenAssumption
    <3>3. CASE p # r
      BY <3>1, <3>3, <2>4, <1>2, <1>5 DEF Spending
    <3> QED
      BY <3>2, <3>3
  <2> QED
    BY <2>2, <2>3, <2>4 DEF Spending
<1>10. Counting'
  BY <1>1, <1>2, <1>3, CountingMoves
<1> QED
  BY <1>7, <1>8, <1>9, <1>10, TypesKept DEF IInv

-----------------------------------------------------------------------------
LEMMA InitHolds ==
  ASSUME Assumptions, Init
  PROVE  IInv
<1> USE DEF Init
<1>1. Issued = {} /\ Live = {} /\ Cardinality({}) = 0 /\ 1 .. 0 = {}
  BY FS_EmptySet DEF Issued, Live
<1>2. TokenTypes
  BY <1>1 DEF TokenTypes
<1>3. PairingTypes
  BY DEF PairingTypes
<1>4. LimitTypes
  BY DEF LimitTypes, LimitsInit, NoFailures, Assumptions, RateAssumption
<1>5. Idle \in RequestStates
  BY DEF Idle, RequestStates, Steps
<1>6. TypeOK
  BY <1>2, <1>3, <1>4, <1>5, TypeParts
<1>7. Chains
  BY <1>1 DEF Chains, Named, Succeeds, OnePredecessor, OneLive
<1>8. Holding
  BY DEF Holding, LocksDisjoint, Holds, Idle
<1>9. Spending
  BY DEF Spending, Exchanging, Idle
<1>10. Counting
  BY DEF Counting, LimitsInit, NoFailures, Reported
<1> QED
  BY <1>6, <1>7, <1>8, <1>9, <1>10 DEF IInv

LEMMA NextKeeps ==
  ASSUME Assumptions, IInv, [Next]_vars
  PROVE  IInv'
<1>1. ASSUME NEW r \in Requests,
             \/ BeginLogin(r) \/ Login(r) \/ LoginFails(r) \/ CountFailedLogin(r) \/ BlockLogins(r)
             \/ \E t \in Tokens : BeginRefresh(r, t)
             \/ Rotate(r) \/ LockFamily(r) \/ RereadFamily(r) \/ RevokeFamily(r)
             \/ BeginLogout(r) \/ Logout(r)
             \/ \E c \in Codes : BeginExchange(r, c)
             \/ Exchange(r) \/ Aborts(r)
      PROVE  IInv'
  <2>1. CASE RevokeFamily(r) \/ Logout(r)
    BY <2>1, RevocationKeeps DEF RevokeFamily, Logout
  <2>2. CASE \E t \in Tokens : BeginRefresh(r, t)
    BY <2>2, BeginRefreshKeeps
  <2>3. CASE \E c \in Codes : BeginExchange(r, c)
    BY <2>3, BeginExchangeKeeps
  <2> QED
    BY <1>1, <2>1, <2>2, <2>3, BeginLoginKeeps, LoginKeeps, LoginFailsKeeps,
       CountFailedLoginKeeps, BlockLoginsKeeps, RotateKeeps, LockFamilyKeeps,
       RereadFamilyKeeps, BeginLogoutKeeps, ExchangeKeeps, AbortsKeeps
<1>2. CASE \E c \in Codes : CreatePairing(c)
  BY <1>2, CreatePairingKeeps
<1>3. CASE Tick
  BY <1>3, TickKeeps
<1>4. CASE UNCHANGED vars
  <2>1. UNCHANGED tokens /\ UNCHANGED pairing /\ UNCHANGED limitVars /\ request' = request
    BY <1>4 DEF vars
  <2>2. TypeOK /\ Chains /\ Holding /\ Spending /\ Counting
    BY DEF IInv
  <2>3. TypeOK'
    BY <2>1, <2>2, TokensStay, PairingStays, LimitsStay, TypeParts, TypesKept
  <2>4. Chains'
    BY <2>1, <2>2, TokensStay
  <2>5. Issued' = Issued /\ Live' = Live /\ successor' = successor /\ family' = family
    BY <2>1 DEF tokens, Issued, Live
  <2>6. Holding'
    BY <2>1, <2>2, <2>5 DEF Holding, LocksDisjoint, Holds, Family
  <2>7. Spending'
    BY <2>1, <2>2 DEF pairing, Spending, Exchanging
  <2>8. Counting'
    BY <2>1, <2>2 DEF limitVars, Counting, LettingIn, Blocking, BlockOutlasts
  <2> QED
    BY <2>3, <2>4, <2>6, <2>7, <2>8 DEF IInv
<1> QED
  BY <1>1, <1>2, <1>3, <1>4 DEF Next

(* The inductive invariant of the sessions of one user.                    *)
THEOREM SessionsInvariant == Spec => []IInv
<1>1. Assumptions
  BY TokenAssumption, RateAssumption DEF Assumptions
<1>2. Init => IInv
  BY <1>1, InitHolds
<1>3. IInv /\ [Next]_vars => IInv'
  BY <1>1, NextKeeps
<1> QED
  BY <1>2, <1>3, PTL DEF Spec

(* Rows of tokens and codes, requests and Redis keys keep values of their  *)
(* kind; tokens are issued in order and only issued ones are revoked       *)
(* (models.py, AuthSession and ExtensionPairing; rate_limits.py).          *)
THEOREM SessionTypes == Spec => []TypeOK
<1>1. IInv => TypeOK
  BY DEF IInv
<1> QED
  BY <1>1, SessionsInvariant, PTL

(* AuthenticationService.refresh and PairingService.exchange: however      *)
(* requests overlap and abort, a family is a chain with at most one live   *)
(* token, and a code gives one extension token.                            *)
THEOREM TokensSpentOnce == Spec => []NothingIsSpentTwice
<1>1. ASSUME IInv
      PROVE  NothingIsSpentTwice
  <2>1. Assumptions /\ TypeOK /\ Chains /\ Spending
    BY <1>1, TokenAssumption, RateAssumption DEF Assumptions, IInv
  <2>2. ASSUME NEW t \in Issued
        PROVE  Cardinality(Family(t) \ revoked) <= 1
    <3>1. \A u, v \in Family(t) \ revoked : u = v
      BY <2>1 DEF Family, Chains, OneLive, Live
    <3>2. CASE Family(t) \ revoked = {}
      BY <3>2, FS_EmptySet
    <3>3. CASE Family(t) \ revoked # {}
      <4>1. PICK u : Family(t) \ revoked = {u}
        BY <3>1, <3>3
      <4> QED
        BY <4>1, FS_Singleton
    <3> QED
      BY <3>2, <3>3
  <2>3. ASSUME NEW t \in Issued
        PROVE  Cardinality({u \in Issued : successor[u] = t}) = (IF family[t] = t THEN 0 ELSE 1)
    <3>1. Issued \subseteq Tokens /\ NoToken \notin Tokens
      BY <2>1, FreshIsNew
    <3>2. CASE family[t] = t
      <4>1. {u \in Issued : successor[u] = t} = {}
        BY <3>1, <3>2, <2>1 DEF Chains, Succeeds
      <4> QED
        BY <4>1, <3>2, FS_EmptySet
    <3>3. CASE family[t] # t
      <4>1. PICK u \in Issued : successor[u] = t
        BY <3>3, <2>1 DEF Chains, OnePredecessor
      <4>2. {v \in Issued : successor[v] = t} = {u}
        BY <4>1, <3>1, <2>1 DEF Chains, OnePredecessor
      <4> QED
        BY <4>2, <3>3, FS_Singleton
    <3> QED
      BY <3>2, <3>3
  <2>4. \A t \in Issued : successor[t] # NoToken =>
          t \in revoked /\ family[successor[t]] = family[t]
    BY <2>1, FreshIsNew DEF Chains, Succeeds
  <2> QED
    BY <2>1, <2>2, <2>3, <2>4 DEF NothingIsSpentTwice, Spending
<1> QED
  BY <1>1, SessionsInvariant, PTL

(* ProductionRateLimitMiddleware: whatever the limits are and however many *)
(* logins overlap, the failures of a window pass the limit by no more than *)
(* the requests that there can be and the blocks that Redis missed.        *)
THEOREM FailuresStayBounded == Spec => []FailuresBounded
<1>1. ASSUME IInv
      PROVE  FailuresBounded
  <2>1. Assumptions /\ TypeOK /\ Counting
    BY <1>1, TokenAssumption, RateAssumption DEF Assumptions, IInv
  <2> QED
    BY <2>1, CountingKinds, LimitKinds DEF Counting, FailuresBounded
<1> QED
  BY <1>1, SessionsInvariant, PTL

(* AuthenticationService.refresh: when a reuse is answered, all that it    *)
(* held locked is revoked with its successors, also those that were issued *)
(* while it waited for the locks.                                          *)
THEOREM LockedChainIsRevoked == Spec => ReuseRevokesLocked
<1>1. IInv /\ [Next]_vars =>
        [\A r \in Requests : RevokeFamily(r) =>
           \A t \in request[r].locks :
             t \in revoked' /\ (successor[t] # NoToken => successor[t] \in revoked')]_vars
  BY DEF IInv, Holding, Holds, RevokeFamily
<1> QED
  BY <1>1, SessionsInvariant, PTL DEF Spec, ReuseRevokesLocked
=============================================================================
