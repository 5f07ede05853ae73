-------------------------- MODULE IngestPartsProofs --------------------------
(***************************************************************************)
(* The parts behind reading a source: the safety properties of             *)
(* TokenRefresh, OutlookPermits and RateWindow for every value of their    *)
(* constants, and what follows for MCIngestParts, in which any of the      *)
(* parts moves while the others rest.                                      *)
(***************************************************************************)
EXTENDS MCIngestParts, SourceIngestProofs, FlushWorkerProofs, PushChannelsProofs,
        FiniteSetTheorems, SequenceTheorems, WellFoundedInduction, TLAPS

----------------------------------------------------------------------------
(***************************************************************************)
(* The safety properties of TokenRefresh for every number of calls and     *)
(* processes, of expiries and of lapsed locks.                             *)
(***************************************************************************)

\* Where a call holds the lock, or believes that it does.
HoldingPcs == {"check", "refresh", "persist", "release"}
Holding == {c \in Clients : client[c].pc \in HoldingPcs}

\* A call on its way to a refresh is the one its process has in flight.
WhoRefreshesLeads ==
  \A c \in Clients : client[c].pc \in HoldingPcs \cup {"acquire"} => Leads(c)

\* Every call that believes in a lock it no longer has lost it to a lapse.
LapsesAreCounted == Cardinality(Holding \ refreshLock) <= lapses

\* Nobody holds a token older than the stored one once the access token has run out.
StaleIsRead ==
  ~fresh => \A c \in Clients : client[c].pc # "idle" => client[c].token = storedToken

\* While no lock has lapsed and no token was lost, the provider's token is stored or
\* about to be, and what is being refreshed has not been refreshed since.
TokensAreSound ==
  (lapses = 0 /\ ~tokenLost) =>
    /\ ~demanded
    /\ StoredTokenIsCurrent
    /\ \A c \in Refreshing : ~fresh
    /\ \A c \in Clients : client[c].pc = "persist" => client[c].new = issued

RefreshInv == /\ TokenRefreshTypeOK
              /\ WhoRefreshesLeads /\ LapsesAreCounted /\ StaleIsRead /\ TokensAreSound

-----------------------------------------------------------------------------
(* Types.                                                                   *)

Pcs == {"idle", "have", "joined", "acquire", "check", "refresh", "persist", "release"}
RefreshCalls(n) == [pc : Pcs, token : 0..n, new : 0..n]

ClientTyped == client \in [Clients -> RefreshCalls(issued)]
LocksTyped == leader \in [Processes -> AtMostOne] /\ refreshLock \in AtMostOne
TokensTyped == /\ issued \in Nat /\ storedToken \in 0..issued
               /\ fresh \in BOOLEAN /\ demanded \in BOOLEAN /\ tokenLost \in BOOLEAN
CountsTyped == lapses \in 0..MaxLapses /\ expiries \in 0..MaxExpiries

LEMMA RefreshTypeParts ==
  /\ TokenRefreshTypeOK <=> ClientTyped /\ LocksTyped /\ TokensTyped /\ CountsTyped
  /\ TokenRefreshTypeOK' <=> ClientTyped' /\ LocksTyped' /\ TokensTyped' /\ CountsTyped'
BY DEF TokenRefreshTypeOK, ClientTyped, LocksTyped, TokensTyped, CountsTyped, RefreshCalls, Pcs

LEMMA OneOrNone ==
  /\ {} \in AtMostOne
  /\ \A c \in Clients : {c} \in AtMostOne
  /\ \A S \in AtMostOne : S \subseteq Clients /\ \A c \in S : S = {c}
BY DEF AtMostOne

\* The tokens a call may hold only grow in number.
LEMMA Wider ==
  ASSUME NEW m \in Nat, NEW n \in Nat, m <= n
  PROVE  \A r \in RefreshCalls(m) : r \in RefreshCalls(n)
BY DEF RefreshCalls

LEMMA IdleIsACall == ASSUME NEW n \in Nat PROVE IdleClient \in RefreshCalls(n)
BY DEF IdleClient, RefreshCalls, Pcs

\* One call moves and the others do not.
LEMMA OneMoves ==
  ASSUME ClientTyped, issued \in Nat, issued' \in Nat, issued <= issued',
         NEW c \in Clients, NEW r \in RefreshCalls(issued'),
         client' = [client EXCEPT ![c] = r]
  PROVE  /\ ClientTyped'
         /\ client'[c] = r
         /\ \A d \in Clients \ {c} : client'[d] = client[d]
<1>1. \A d \in Clients : client'[d] \in RefreshCalls(issued')
  BY Wider DEF ClientTyped
<1> QED
  BY <1>1 DEF ClientTyped

\* A call goes from one place to the next and keeps what it has read.
LEMMA GoesMoves ==
  ASSUME ClientTyped, issued \in Nat, issued' \in Nat, issued <= issued',
         NEW c \in Clients, NEW pc \in Pcs, Goes(c, pc)
  PROVE  /\ ClientTyped'
         /\ client'[c].pc = pc /\ client'[c].token = client[c].token
         /\ client'[c].new = client[c].new
         /\ \A d \in Clients \ {c} : client'[d] = client[d]
<1> DEFINE r == [client[c] EXCEPT !.pc = pc]
<1>1. client[c] \in RefreshCalls(issued)
  BY DEF ClientTyped
<1>2. /\ r \in RefreshCalls(issued)
      /\ r.pc = pc /\ r.token = client[c].token /\ r.new = client[c].new
  BY <1>1 DEF RefreshCalls
<1>3. client' = [client EXCEPT ![c] = r]
  BY DEF Goes
<1>4. r \in RefreshCalls(issued')
  BY <1>2, Wider
<1> HIDE DEF r
<1> QED
  BY <1>2, <1>3, <1>4, OneMoves

\* A call settles: those who joined it go with it and nobody else moves.
LEMMA SettledMoves ==
  ASSUME ClientTyped, LocksTyped, issued \in Nat, issued' = issued,
         NEW c \in Clients, Settled(c)
  PROVE  /\ ClientTyped'
         /\ leader' \in [Processes -> AtMostOne]
         /\ client'[c] = IdleClient
         /\ \A d \in Clients : client'[d] = client[d] \/ client'[d] = IdleClient
         /\ \A d \in Clients \ {c} : client[d].pc # "joined" => client'[d] = client[d]
         /\ \A p \in Processes : leader'[p] = IF p = ProcessOf[c] THEN {} ELSE leader[p]
<1>1. \A d \in Clients : client'[d] = client[d] \/ client'[d] = IdleClient
  BY DEF Settled
<1>2. \A d \in Clients : client'[d] \in RefreshCalls(issued')
  BY <1>1, IdleIsACall DEF ClientTyped
<1>3. client' = [d \in Clients |-> client'[d]]
  BY DEF Settled
<1>4. ClientTyped'
  BY <1>2, <1>3 DEF ClientTyped
<1>5. leader' \in [Processes -> AtMostOne]
  BY OneOrNone DEF Settled, LocksTyped
<1>6. /\ client'[c] = IdleClient
      /\ \A d \in Clients \ {c} : client[d].pc # "joined" => client'[d] = client[d]
  BY DEF Settled
<1>7. \A p \in Processes : leader'[p] = IF p = ProcessOf[c] THEN {} ELSE leader[p]
  BY DEF Settled, LocksTyped
<1> QED
  BY <1>1, <1>4, <1>5, <1>6, <1>7

\* The refresh token the provider holds is never an earlier one.
LEMMA TokensGrow ==
  ASSUME TokenRefreshTypeOK, [TokenRefreshNext]_refreshVars
  PROVE  issued' \in Nat /\ issued <= issued'
<1>1. issued \in Nat
  BY RefreshTypeParts DEF TokensTyped
<1>2. ASSUME NEW c \in Clients, ReadCredential(c)
      PROVE  issued' = issued
  BY <1>2 DEF ReadCredential, tokenVars
<1>3. ASSUME NEW c \in Clients, RefreshStep(c)
      PROVE  issued' = issued \/ issued' = issued + 1
  BY <1>3 DEF RefreshStep, tokenVars, StillValid, JoinOrLead, TryAcquire, AdoptWaiting, GiveUp,
     AdoptOrRefresh, ProviderRefreshes, ProviderFails, ProviderRejects, PersistCredential,
     PersistCredentialFails, ReleaseLock
<1>4. ASSUME RefreshLockLapses \/ AccessTokenExpires \/ \E p \in Processes : ProcessDies(p)
      PROVE  issued' = issued
  BY <1>4 DEF RefreshLockLapses, AccessTokenExpires, ProcessDies, tokenVars
<1>5. CASE UNCHANGED refreshVars
  BY <1>1, <1>5 DEF refreshVars
<1> QED
  BY <1>1, <1>2, <1>3, <1>4, <1>5 DEF TokenRefreshNext

LEMMA RefreshTypeStep ==
  ASSUME TokenRefreshTypeOK, TokenRefreshNext
  PROVE  TokenRefreshTypeOK'
<1> USE RefreshTypeParts, TokenRefreshAssumption
<1>0. ClientTyped /\ LocksTyped /\ TokensTyped /\ CountsTyped
  OBVIOUS
<1>g. issued \in Nat /\ issued' \in Nat /\ issued <= issued'
  BY TokensGrow DEF TokensTyped
<1>p. \A c \in Clients : client[c] \in RefreshCalls(issued) /\ ProcessOf[c] \in Processes
  BY DEF ClientTyped
<1>a. ASSUME NEW c \in Clients, ReadCredential(c)
      PROVE  TokenRefreshTypeOK'
  <2> DEFINE r == [pc |-> "have", token |-> storedToken, new |-> 0]
  <2>1. r \in RefreshCalls(issued')
    BY <1>0, <1>a, <1>g DEF ReadCredential, tokenVars, TokensTyped, RefreshCalls, Pcs
  <2>2. client' = [client EXCEPT ![c] = r]
    BY <1>a DEF ReadCredential
  <2> HIDE DEF r
  <2>3. ClientTyped'
    BY <1>0, <1>g, <2>1, <2>2, OneMoves
  <2> QED
    BY <1>0, <1>a, <2>3 DEF ReadCredential, tokenVars, LocksTyped, TokensTyped, CountsTyped
<1>b. ASSUME NEW c \in Clients, StillValid(c)
      PROVE  TokenRefreshTypeOK'
  <2>1. ClientTyped'
    BY <1>0, <1>b, <1>g, OneMoves, IdleIsACall DEF StillValid
  <2> QED
    BY <1>0, <1>b, <2>1 DEF StillValid, tokenVars, LocksTyped, TokensTyped, CountsTyped
<1>c. ASSUME NEW c \in Clients, JoinOrLead(c)
      PROVE  TokenRefreshTypeOK'
  <2>1. \E pc \in Pcs : Goes(c, pc)
    BY <1>c DEF JoinOrLead, Pcs
  <2>2. ClientTyped'
    BY <1>0, <1>g, <2>1, GoesMoves
  <2>3. leader' \in [Processes -> AtMostOne]
    BY <1>0, <1>c, <1>p, OneOrNone DEF JoinOrLead, LocksTyped
  <2> QED
    BY <1>0, <1>c, <2>2, <2>3 DEF JoinOrLead, tokenVars, LocksTyped, TokensTyped, CountsTyped
<1>d. ASSUME NEW c \in Clients, TryAcquire(c)
      PROVE  TokenRefreshTypeOK'
  <2>1. ClientTyped'
    BY <1>0, <1>d, <1>g, GoesMoves DEF TryAcquire, Pcs
  <2> QED
    BY <1>0, <1>d, <2>1, OneOrNone DEF TryAcquire, tokenVars, LocksTyped, TokensTyped, CountsTyped
<1>e. ASSUME NEW c \in Clients, AdoptWaiting(c) \/ GiveUp(c)
      PROVE  TokenRefreshTypeOK'
  <2>1. ClientTyped' /\ leader' \in [Processes -> AtMostOne]
    BY <1>0, <1>e, <1>g, SettledMoves DEF AdoptWaiting, GiveUp, tokenVars
  <2> QED
    BY <1>0, <1>e, <2>1 DEF AdoptWaiting, GiveUp, tokenVars, LocksTyped, TokensTyped, CountsTyped
<1>f. ASSUME NEW c \in Clients, AdoptOrRefresh(c)
      PROVE  TokenRefreshTypeOK'
  <2>1. \E pc \in Pcs : Goes(c, pc)
    BY <1>f DEF AdoptOrRefresh, Pcs
  <2>2. ClientTyped'
    BY <1>0, <1>g, <2>1, GoesMoves
  <2> QED
    BY <1>0, <1>f, <2>2 DEF AdoptOrRefresh, tokenVars, LocksTyped, TokensTyped, CountsTyped
<1>h. ASSUME NEW c \in Clients, NEW rotates \in BOOLEAN, ProviderRefreshes(c, rotates)
      PROVE  TokenRefreshTypeOK'
  <2> DEFINE r == [pc |-> "persist", token |-> client[c].token, new |-> issued']
  <2>1. client[c] \in RefreshCalls(issued')
    BY <1>g, <1>p, Wider
  <2>2. r \in RefreshCalls(issued')
    BY <1>g, <2>1 DEF RefreshCalls, Pcs
  <2>3. client' = [client EXCEPT ![c] = r]
    BY <1>h DEF ProviderRefreshes
  <2> HIDE DEF r
  <2>4. ClientTyped'
    BY <1>0, <1>g, <2>2, <2>3, OneMoves
  <2> QED
    BY <1>0, <1>g, <1>h, <2>4 DEF ProviderRefreshes, LocksTyped, TokensTyped, CountsTyped
<1>i. ASSUME NEW c \in Clients, NEW rotates \in BOOLEAN, ProviderFails(c, rotates)
      PROVE  TokenRefreshTypeOK'
  <2>1. ClientTyped'
    BY <1>0, <1>g, <1>i, GoesMoves DEF ProviderFails, Pcs
  <2> QED
    BY <1>0, <1>g, <1>i, <2>1 DEF ProviderFails, LocksTyped, TokensTyped, CountsTyped
<1>j. ASSUME NEW c \in Clients, ProviderRejects(c)
      PROVE  TokenRefreshTypeOK'
  <2>1. ClientTyped'
    BY <1>0, <1>g, <1>j, GoesMoves DEF ProviderRejects, Pcs
  <2> QED
    BY <1>0, <1>j, <2>1 DEF ProviderRejects, LocksTyped, TokensTyped, CountsTyped
<1>k. ASSUME NEW c \in Clients, PersistCredential(c) \/ PersistCredentialFails(c)
      PROVE  TokenRefreshTypeOK'
  <2>1. ClientTyped'
    BY <1>0, <1>g, <1>k, GoesMoves DEF PersistCredential, PersistCredentialFails, Pcs
  <2>2. client[c].new \in 0..issued
    BY <1>p DEF RefreshCalls
  <2>3. TokensTyped'
    BY <1>0, <1>k, <2>2 DEF PersistCredential, PersistCredentialFails, TokensTyped
  <2> QED
    BY <1>0, <1>k, <2>1, <2>3 DEF PersistCredential, PersistCredentialFails, LocksTyped, CountsTyped
<1>l. ASSUME NEW c \in Clients, ReleaseLock(c)
      PROVE  TokenRefreshTypeOK'
  <2>1. ClientTyped' /\ leader' \in [Processes -> AtMostOne]
    BY <1>0, <1>l, <1>g, SettledMoves DEF ReleaseLock, tokenVars
  <2> QED
    BY <1>0, <1>l, <2>1, OneOrNone DEF ReleaseLock, tokenVars, LocksTyped, TokensTyped, CountsTyped
<1>m. ASSUME RefreshLockLapses
      PROVE  TokenRefreshTypeOK'
  BY <1>0, <1>m, OneOrNone
  DEF RefreshLockLapses, tokenVars, ClientTyped, LocksTyped, TokensTyped, CountsTyped
<1>n. ASSUME AccessTokenExpires
      PROVE  TokenRefreshTypeOK'
  <2>1. CountsTyped'
    BY <1>0, <1>n DEF AccessTokenExpires, CountsTyped
  <2>2. ClientTyped' /\ LocksTyped' /\ TokensTyped'
    BY <1>0, <1>n DEF AccessTokenExpires, ClientTyped, LocksTyped, TokensTyped
  <2> QED
    BY <2>1, <2>2
<1>o. ASSUME NEW p \in Processes, ProcessDies(p)
      PROVE  TokenRefreshTypeOK'
  <2>1. \A d \in Clients :
          (IF ProcessOf[d] = p THEN IdleClient ELSE client[d]) \in RefreshCalls(issued)
    BY <1>g, <1>p, IdleIsACall
  <2>2. ClientTyped'
    BY <1>o, <2>1 DEF ProcessDies, ClientTyped
  <2> QED
    BY <1>0, <1>o, <2>2, OneOrNone DEF ProcessDies, LocksTyped, TokensTyped, CountsTyped
<1> QED
  BY <1>a, <1>b, <1>c, <1>d, <1>e, <1>f, <1>h, <1>i, <1>j, <1>k, <1>l, <1>m, <1>n, <1>o
  DEF TokenRefreshNext, RefreshStep

-----------------------------------------------------------------------------
(* What a step does to every call.                                          *)

\* The places a call in the course of a refresh goes through, one after the other.
Onward(c) ==
  /\ client[c].pc \in HoldingPcs \cup {"acquire"}
  /\ client'[c].pc \in HoldingPcs
  /\ client'[c].token = client[c].token
  /\ client[c].pc = "acquire" => TryAcquire(c)
  /\ \A d \in Clients \ {c} : client'[d] = client[d]
  /\ UNCHANGED <<leader, lapses>>
  /\ client[c].pc # "acquire" => UNCHANGED refreshLock
  /\ fresh' = TRUE \/ UNCHANGED <<fresh, storedToken>>

LEMMA StepOnward ==
  ASSUME TokenRefreshTypeOK, NEW c \in Clients,
         \/ TryAcquire(c) \/ AdoptOrRefresh(c) \/ ProviderRejects(c)
         \/ PersistCredential(c) \/ PersistCredentialFails(c)
         \/ \E rotates \in BOOLEAN : ProviderRefreshes(c, rotates) \/ ProviderFails(c, rotates)
  PROVE  Onward(c)
<1>0. /\ ClientTyped /\ issued \in Nat /\ TokenRefreshNext
      /\ issued' \in Nat /\ issued <= issued'
  BY RefreshTypeParts, TokensGrow DEF TokensTyped, TokenRefreshNext, RefreshStep
<1>f. fresh' = TRUE \/ UNCHANGED <<fresh, storedToken>>
  BY DEF TryAcquire, AdoptOrRefresh, ProviderRejects, PersistCredential, PersistCredentialFails,
     ProviderRefreshes, ProviderFails, tokenVars
<1>1. CASE TryAcquire(c)
  <2>1. Goes(c, "check") /\ client[c].pc = "acquire" /\ UNCHANGED <<leader, lapses>>
    BY <1>1 DEF TryAcquire
  <2> QED
    BY <1>0, <1>f, <1>1, <2>1, GoesMoves DEF Onward, HoldingPcs, Pcs
<1>2. CASE AdoptOrRefresh(c)
  <2>1. Goes(c, "release") \/ Goes(c, "refresh")
    BY <1>2 DEF AdoptOrRefresh
  <2>2. client[c].pc = "check" /\ UNCHANGED <<leader, refreshLock, lapses>>
    BY <1>2 DEF AdoptOrRefresh
  <2> QED
    BY <1>0, <1>f, <2>1, <2>2, GoesMoves DEF Onward, HoldingPcs, Pcs
<1>3. CASE \E rotates \in BOOLEAN : ProviderRefreshes(c, rotates)
  <2> DEFINE r == [pc |-> "persist", token |-> client[c].token, new |-> issued']
  <2>1. client[c] \in RefreshCalls(issued')
    BY <1>0, Wider DEF ClientTyped
  <2>2. /\ r \in RefreshCalls(issued') /\ r.pc = "persist" /\ r.token = client[c].token
    BY <1>0, <2>1 DEF RefreshCalls, Pcs
  <2>3. /\ client' = [client EXCEPT ![c] = r]
        /\ client[c].pc = "refresh" /\ UNCHANGED <<leader, refreshLock, lapses>>
    BY <1>3 DEF ProviderRefreshes
  <2> HIDE DEF r
  <2> QED
    BY <1>0, <1>f, <2>2, <2>3, OneMoves DEF Onward, HoldingPcs
<1>4. CASE \/ ProviderRejects(c)
           \/ PersistCredential(c) \/ PersistCredentialFails(c)
           \/ \E rotates \in BOOLEAN : ProviderFails(c, rotates)
  <2>1. /\ Goes(c, "release") /\ client[c].pc \in {"refresh", "persist"}
        /\ UNCHANGED <<leader, refreshLock, lapses>>
    BY <1>4 DEF ProviderRejects, PersistCredential, PersistCredentialFails, ProviderFails
  <2> QED
    BY <1>0, <1>f, <2>1, GoesMoves DEF Onward, HoldingPcs, Pcs
<1> QED
  BY <1>1, <1>2, <1>3, <1>4

\* A call before its lock, or after its end.
Outside(c) ==
  /\ client[c].pc \in {"idle", "have"}
  /\ client'[c].pc \notin HoldingPcs
  /\ client'[c].pc = "acquire" => JoinOrLead(c) /\ leader[ProcessOf[c]] = {}
  /\ \A d \in Clients \ {c} : client'[d] = client[d]
  /\ client'[c].pc = "idle" \/ client'[c].token \in {client[c].token, storedToken}
  /\ client[c].pc = "idle" => client'[c].token = storedToken
  /\ client'[c].pc # "acquire" => UNCHANGED leader
  /\ UNCHANGED <<refreshLock, issued, storedToken, fresh, demanded, tokenLost, lapses>>

LEMMA StepOutside ==
  ASSUME TokenRefreshTypeOK, NEW c \in Clients,
         ReadCredential(c) \/ StillValid(c) \/ JoinOrLead(c)
  PROVE  Outside(c)
<1>0. ClientTyped /\ issued \in Nat /\ storedToken \in 0..issued
  BY RefreshTypeParts DEF TokensTyped
<1>1. CASE ReadCredential(c)
  <2> DEFINE r == [pc |-> "have", token |-> storedToken, new |-> 0]
  <2>1. r \in RefreshCalls(issued) /\ r.pc = "have" /\ r.token = storedToken
    BY <1>0 DEF RefreshCalls, Pcs
  <2>2. /\ client' = [client EXCEPT ![c] = r] /\ client[c].pc = "idle"
        /\ UNCHANGED <<leader, refreshLock, tokenVars, lapses>>
    BY <1>1 DEF ReadCredential
  <2> HIDE DEF r
  <2>3. client'[c] = r /\ \A d \in Clients \ {c} : client'[d] = client[d]
    <3>1. issued' = issued
      BY <2>2 DEF tokenVars
    <3>2. r \in RefreshCalls(issued')
      BY <2>1, <3>1
    <3>3. issued' \in Nat /\ issued <= issued'
      BY <1>0, <3>1
    <3>4. client' = [client EXCEPT ![c] = r] /\ ClientTyped
      BY <1>0, <2>2
    <3> QED
      BY <1>0, <3>2, <3>3, <3>4, OneMoves
  <2>4. UNCHANGED <<issued, storedToken, fresh, demanded, tokenLost>>
    BY <2>2 DEF tokenVars
  <2> QED
    BY <2>1, <2>2, <2>3, <2>4 DEF Outside, HoldingPcs
<1>2. CASE StillValid(c)
  <2>1. /\ client' = [client EXCEPT ![c] = IdleClient] /\ client[c].pc = "have"
        /\ UNCHANGED <<leader, refreshLock, tokenVars, lapses>>
    BY <1>2 DEF StillValid
  <2>2. IdleClient.pc = "idle"
    BY DEF IdleClient
  <2> QED
    BY <1>0, <2>1, <2>2, OneMoves, IdleIsACall DEF Outside, HoldingPcs, tokenVars
<1>3. CASE JoinOrLead(c)
  <2>1. client[c].pc = "have" /\ UNCHANGED <<refreshLock, tokenVars, lapses>>
    BY <1>3 DEF JoinOrLead
  <2>2. CASE leader[ProcessOf[c]] # {}
    <3>1. Goes(c, "joined") /\ UNCHANGED leader
      BY <1>3, <2>2 DEF JoinOrLead
    <3> QED
      BY <1>0, <2>1, <3>1, GoesMoves DEF Outside, HoldingPcs, tokenVars, Pcs
  <2>3. CASE leader[ProcessOf[c]] = {}
    <3>1. Goes(c, "acquire")
      BY <1>3, <2>3 DEF JoinOrLead
    <3> QED
      BY <1>0, <1>3, <2>1, <2>3, <3>1, GoesMoves DEF Outside, HoldingPcs, tokenVars, Pcs
  <2> QED
    BY <2>2, <2>3
<1> QED
  BY <1>1, <1>2, <1>3

\* A call and those that joined it come to rest.
Ends(c) ==
  /\ client[c].pc \in {"acquire", "release"}
  /\ client'[c].pc = "idle"
  /\ \A d \in Clients : client'[d] = client[d] \/ client'[d].pc = "idle"
  /\ \A d \in Clients \ {c} : client[d].pc # "joined" => client'[d] = client[d]
  /\ \A p \in Processes : leader'[p] = IF p = ProcessOf[c] THEN {} ELSE leader[p]
  /\ client[c].pc = "acquire" => UNCHANGED refreshLock
  /\ client[c].pc = "release" => refreshLock' = {}
  /\ UNCHANGED <<issued, storedToken, fresh, demanded, tokenLost, lapses>>

LEMMA StepEnds ==
  ASSUME TokenRefreshTypeOK, NEW c \in Clients, AdoptWaiting(c) \/ GiveUp(c) \/ ReleaseLock(c)
  PROVE  Ends(c)
<1>0. ClientTyped /\ LocksTyped /\ issued \in Nat
  BY RefreshTypeParts DEF TokensTyped
<1>1. /\ Settled(c) /\ client[c].pc \in {"acquire", "release"}
      /\ UNCHANGED <<issued, storedToken, fresh, demanded, tokenLost, lapses>>
  BY DEF AdoptWaiting, GiveUp, ReleaseLock, tokenVars
<1>2. /\ client[c].pc = "acquire" => UNCHANGED refreshLock
      /\ client[c].pc = "release" => refreshLock' = {}
  BY DEF AdoptWaiting, GiveUp, ReleaseLock
<1>3. IdleClient.pc = "idle"
  BY DEF IdleClient
<1> QED
  BY <1>0, <1>1, <1>2, <1>3, SettledMoves DEF Ends

\* A step is one of these.
LEMMA RefreshStepKinds ==
  ASSUME TokenRefreshTypeOK, TokenRefreshNext
  PROVE  \/ \E c \in Clients : Onward(c) \/ Outside(c) \/ Ends(c)
         \/ RefreshLockLapses \/ AccessTokenExpires
         \/ \E p \in Processes : ProcessDies(p)
BY StepOnward, StepOutside, StepEnds DEF TokenRefreshNext, RefreshStep

-----------------------------------------------------------------------------
(* The invariant, part by part.                                             *)

LEMMA LeadStep ==
  ASSUME RefreshInv, TokenRefreshNext
  PROVE  WhoRefreshesLeads'
<1>0. /\ TokenRefreshTypeOK /\ WhoRefreshesLeads /\ LocksTyped
      /\ \A c \in Clients : ProcessOf[c] \in Processes
  BY RefreshTypeParts, TokenRefreshAssumption DEF RefreshInv
<1>1. ASSUME NEW c \in Clients, Onward(c)
      PROVE  WhoRefreshesLeads'
  BY <1>0, <1>1 DEF Onward, WhoRefreshesLeads, Leads
<1>2. ASSUME NEW c \in Clients, Outside(c)
      PROVE  WhoRefreshesLeads'
  <2> SUFFICES ASSUME NEW d \in Clients, client'[d].pc \in HoldingPcs \cup {"acquire"}
               PROVE  leader'[ProcessOf[d]] = {d}
    BY DEF WhoRefreshesLeads, Leads
  <2>1. CASE client'[c].pc # "acquire"
    <3>1. d # c /\ client'[d] = client[d]
      BY <1>2, <2>1 DEF Outside
    <3> QED
      BY <1>0, <1>2, <2>1, <3>1 DEF Outside, WhoRefreshesLeads, Leads
  <2>2. CASE client'[c].pc = "acquire"
    <3>1. /\ leader[ProcessOf[c]] = {}
          /\ leader' = [leader EXCEPT ![ProcessOf[c]] = {c}]
      BY <1>2, <2>2 DEF Outside, JoinOrLead
    <3>2. CASE d = c
      BY <1>0, <3>1, <3>2 DEF LocksTyped
    <3>3. CASE d # c
      <4>1. leader[ProcessOf[d]] = {d}
        BY <1>0, <1>2, <3>3 DEF Outside, WhoRefreshesLeads, Leads
      <4> QED
        BY <1>0, <3>1, <4>1 DEF LocksTyped
    <3> QED
      BY <3>2, <3>3
  <2> QED
    BY <2>1, <2>2
<1>3. ASSUME NEW c \in Clients, Ends(c)
      PROVE  WhoRefreshesLeads'
  <2> SUFFICES ASSUME NEW d \in Clients, client'[d].pc \in HoldingPcs \cup {"acquire"}
               PROVE  leader'[ProcessOf[d]] = {d}
    BY DEF WhoRefreshesLeads, Leads
  <2>1. d # c /\ client'[d] = client[d]
    BY <1>3 DEF Ends, HoldingPcs
  <2>2. leader[ProcessOf[d]] = {d} /\ leader[ProcessOf[c]] = {c}
    BY <1>0, <1>3, <2>1 DEF Ends, WhoRefreshesLeads, Leads, HoldingPcs
  <2>3. ProcessOf[d] # ProcessOf[c]
    BY <2>1, <2>2
  <2> QED
    BY <1>0, <1>3, <2>2, <2>3 DEF Ends
<1>4. CASE RefreshLockLapses \/ AccessTokenExpires
  BY <1>0, <1>4 DEF RefreshLockLapses, AccessTokenExpires, WhoRefreshesLeads, Leads
<1>5. ASSUME NEW p \in Processes, ProcessDies(p)
      PROVE  WhoRefreshesLeads'
  <2> SUFFICES ASSUME NEW d \in Clients, client'[d].pc \in HoldingPcs \cup {"acquire"}
               PROVE  leader'[ProcessOf[d]] = {d}
    BY DEF WhoRefreshesLeads, Leads
  <2>1. ProcessOf[d] # p /\ client'[d] = client[d]
    BY <1>5 DEF ProcessDies, IdleClient, HoldingPcs
  <2> QED
    BY <1>0, <1>5, <2>1 DEF ProcessDies, LocksTyped, WhoRefreshesLeads, Leads
<1> QED
  BY <1>0, <1>1, <1>2, <1>3, <1>4, <1>5, RefreshStepKinds

\* Losing nobody else's lock and taking none without having it adds to no overlap.
LEMMA Shrinks ==
  ASSUME LapsesAreCounted, CountsTyped, Holding' \ refreshLock' \subseteq Holding \ refreshLock,
         UNCHANGED lapses
  PROVE  LapsesAreCounted'
<1>1. IsFiniteSet(Holding \ refreshLock)
  BY TokenRefreshAssumption, FS_Subset DEF Holding
<1>2. /\ Cardinality(Holding' \ refreshLock') \in Nat
      /\ Cardinality(Holding \ refreshLock) \in Nat
      /\ Cardinality(Holding' \ refreshLock') <= Cardinality(Holding \ refreshLock)
  BY <1>1, FS_Subset, FS_CardinalityType
<1> QED
  BY <1>2 DEF LapsesAreCounted, CountsTyped

LEMMA LapsesStep ==
  ASSUME RefreshInv, TokenRefreshNext
  PROVE  LapsesAreCounted'
<1>0. /\ TokenRefreshTypeOK /\ LapsesAreCounted /\ LocksTyped /\ CountsTyped
      /\ TokenRefreshTypeOK'
  BY RefreshTypeParts, RefreshTypeStep DEF RefreshInv
<1>f. /\ Holding \subseteq Clients /\ IsFiniteSet(Clients) /\ IsFiniteSet(Holding)
      /\ Cardinality(Holding) \in Nat
  BY TokenRefreshAssumption, FS_Subset, FS_CardinalityType DEF Holding
<1>1. ASSUME NEW c \in Clients, Onward(c)
      PROVE  LapsesAreCounted'
  <2>1. Holding' \ {c} = Holding \ {c}
    BY <1>1 DEF Onward, Holding
  <2>2. CASE client[c].pc = "acquire"
    <3>1. refreshLock = {} /\ refreshLock' = {c} /\ c \notin Holding
      BY <1>1, <2>2 DEF Onward, TryAcquire, Holding, HoldingPcs
    <3> QED
      BY <1>0, <1>1, <2>1, <3>1, Shrinks DEF Onward
  <2>3. CASE client[c].pc # "acquire"
    <3>1. c \in Holding /\ UNCHANGED <<refreshLock, lapses>>
      BY <1>1, <2>3 DEF Onward, Holding, HoldingPcs
    <3> QED
      BY <1>0, <2>1, <3>1, Shrinks
  <2> QED
    BY <2>2, <2>3
<1>2. ASSUME NEW c \in Clients, Outside(c)
      PROVE  LapsesAreCounted'
  <2>1. Holding' \subseteq Holding /\ UNCHANGED <<refreshLock, lapses>>
    BY <1>2 DEF Outside, Holding
  <2> QED
    BY <1>0, <2>1, Shrinks
<1>3. ASSUME NEW c \in Clients, Ends(c)
      PROVE  LapsesAreCounted'
  <2>1. Holding' \subseteq Holding \ {c} /\ UNCHANGED lapses
    BY <1>3 DEF Ends, Holding, HoldingPcs
  <2>2. CASE client[c].pc = "acquire"
    BY <1>0, <1>3, <2>1, <2>2, Shrinks DEF Ends
  <2>3. CASE client[c].pc = "release" /\ refreshLock \cap Holding \subseteq {c}
    <3>1. Holding' \ refreshLock' \subseteq Holding \ refreshLock
      BY <2>1, <2>3
    <3> QED
      BY <1>0, <2>1, <3>1, Shrinks
  <2>4. CASE client[c].pc = "release" /\ ~(refreshLock \cap Holding \subseteq {c})
    <3>1. PICK d \in refreshLock \cap Holding : d # c
      BY <2>4
    <3>2. refreshLock = {d} /\ c \in Holding /\ d \in Holding
      BY <1>0, <2>4, <3>1, OneOrNone DEF LocksTyped, Holding, HoldingPcs
    <3>3. /\ Cardinality(Holding \ {c}) = Cardinality(Holding) - 1
          /\ Cardinality(Holding \ {d}) = Cardinality(Holding) - 1
          /\ IsFiniteSet(Holding \ {c})
      BY <1>f, <3>2, FS_RemoveElement
    <3>4. refreshLock' = {}
      BY <1>3, <2>4 DEF Ends
    <3>5. /\ Cardinality(Holding' \ refreshLock') <= Cardinality(Holding \ {c})
          /\ Cardinality(Holding' \ refreshLock') \in Nat
      BY <2>1, <3>3, <3>4, FS_Subset, FS_CardinalityType
    <3> QED
      BY <1>0, <1>f, <2>1, <3>2, <3>3, <3>5 DEF LapsesAreCounted, CountsTyped
  <2> QED
    BY <1>3, <2>2, <2>3, <2>4 DEF Ends
<1>4. CASE RefreshLockLapses
  <2>1. PICK c \in refreshLock : IF c \in Holding THEN lapses' = lapses + 1 ELSE UNCHANGED lapses
    BY <1>0, <1>4, OneOrNone DEF RefreshLockLapses, Holding, HoldingPcs, LocksTyped
  <2>2. refreshLock = {c} /\ refreshLock' = {} /\ Holding' = Holding
    BY <1>0, <1>4, <2>1, OneOrNone DEF RefreshLockLapses, LocksTyped, Holding
  <2>3. CASE c \in Holding
    <3>1. Cardinality(Holding \ {c}) = Cardinality(Holding) - 1
      BY <1>f, <2>3, FS_RemoveElement
    <3>2. Holding' \ refreshLock' = Holding
      BY <2>2
    <3> QED
      BY <1>0, <1>f, <2>1, <2>2, <2>3, <3>1, <3>2 DEF LapsesAreCounted, CountsTyped
  <2>4. CASE c \notin Holding
    BY <1>0, <2>1, <2>2, <2>4, Shrinks
  <2> QED
    BY <2>3, <2>4
<1>5. CASE AccessTokenExpires
  BY <1>0, <1>5, Shrinks DEF AccessTokenExpires, Holding
<1>6. ASSUME NEW p \in Processes, ProcessDies(p)
      PROVE  LapsesAreCounted'
  <2>1. Holding' \subseteq Holding /\ UNCHANGED <<refreshLock, lapses>>
    BY <1>6 DEF ProcessDies, Holding, HoldingPcs, IdleClient
  <2> QED
    BY <1>0, <2>1, Shrinks
<1> QED
  BY <1>0, <1>1, <1>2, <1>3, <1>4, <1>5, <1>6, RefreshStepKinds

LEMMA ReadStep ==
  ASSUME RefreshInv, TokenRefreshNext
  PROVE  StaleIsRead'
<1>0. TokenRefreshTypeOK /\ StaleIsRead
  BY DEF RefreshInv
<1>1. ASSUME NEW c \in Clients, Onward(c)
      PROVE  StaleIsRead'
  BY <1>0, <1>1 DEF Onward, StaleIsRead, HoldingPcs
<1>2. ASSUME NEW c \in Clients, Outside(c)
      PROVE  StaleIsRead'
  BY <1>0, <1>2 DEF Outside, StaleIsRead
<1>3. ASSUME NEW c \in Clients, Ends(c)
      PROVE  StaleIsRead'
  BY <1>0, <1>3 DEF Ends, StaleIsRead
<1>4. CASE RefreshLockLapses
  BY <1>0, <1>4 DEF RefreshLockLapses, StaleIsRead, tokenVars
<1>5. CASE AccessTokenExpires
  BY <1>0, <1>5 DEF AccessTokenExpires, StaleIsRead
<1>6. ASSUME NEW p \in Processes, ProcessDies(p)
      PROVE  StaleIsRead'
  BY <1>0, <1>6 DEF ProcessDies, StaleIsRead, IdleClient
<1> QED
  BY <1>0, <1>1, <1>2, <1>3, <1>4, <1>5, <1>6, RefreshStepKinds

-----------------------------------------------------------------------------
(* Tokens.                                                                  *)

\* While no lock has lapsed, the lock is exclusive.
LEMMA Alone ==
  ASSUME RefreshInv, lapses = 0
  PROVE  \A c, d \in Holding : c = d
<1>1. LapsesAreCounted /\ LocksTyped
  BY RefreshTypeParts DEF RefreshInv
<1>2. IsFiniteSet(Holding \ refreshLock)
  BY TokenRefreshAssumption, FS_Subset DEF Holding
<1>3. Cardinality(Holding \ refreshLock) = 0
  BY <1>1, <1>2, FS_CardinalityType DEF LapsesAreCounted
<1>4. Holding \subseteq refreshLock
  BY <1>2, <1>3, FS_EmptySet
<1> QED
  BY <1>1, <1>4, OneOrNone DEF LocksTyped

\* What is being refreshed is what is stored, and what the provider holds until it answers.
LEMMA RefreshesTheCurrent ==
  ASSUME RefreshInv, lapses = 0, ~tokenLost, NEW c \in Refreshing
  PROVE  /\ fresh = FALSE
         /\ client[c].token = storedToken
         /\ client[c].pc = "refresh" => storedToken = issued
         /\ client[c].pc = "persist" => client[c].new = issued
<1>1. /\ fresh \in BOOLEAN /\ StaleIsRead /\ TokensAreSound /\ c \in Clients /\ c \in Holding
      /\ client[c].pc \in {"refresh", "persist"}
  BY RefreshTypeParts DEF RefreshInv, TokensTyped, Refreshing, Holding, HoldingPcs
<1>2. fresh = FALSE /\ (client[c].pc = "persist" => client[c].new = issued)
  BY <1>1 DEF TokensAreSound
<1>3. client[c].token = storedToken
  BY <1>1, <1>2 DEF StaleIsRead
<1>4. ASSUME client[c].pc = "refresh"
      PROVE  storedToken = issued
  <2>1. \A d \in Clients : client[d].pc # "persist"
    BY <1>1, <1>4, Alone DEF Holding, HoldingPcs
  <2> QED
    BY <1>1, <2>1 DEF TokensAreSound, StoredTokenIsCurrent
<1> QED
  BY <1>2, <1>3, <1>4

\* A step that leaves the tokens and whoever is storing one alone.
LEMMA Untouched ==
  ASSUME RefreshInv, lapses = 0, ~tokenLost,
         UNCHANGED <<issued, storedToken, demanded>>,
         \A d \in Clients : client[d].pc = "persist" \/ client'[d].pc = "persist"
                              => client'[d] = client[d],
         \A d \in Refreshing' : ~fresh'
  PROVE  TokensAreSound'
<1>1. ~demanded /\ StoredTokenIsCurrent
      /\ \A c \in Clients : client[c].pc = "persist" => client[c].new = issued
  BY DEF RefreshInv, TokensAreSound
<1>2. StoredTokenIsCurrent'
  BY <1>1 DEF StoredTokenIsCurrent
<1> QED
  BY <1>1, <1>2 DEF TokensAreSound

LEMMA SoundStep ==
  ASSUME RefreshInv, TokenRefreshNext
  PROVE  TokensAreSound'
<1> SUFFICES ASSUME lapses' = 0, ~tokenLost'
             PROVE  TokensAreSound'
  BY DEF TokensAreSound
<1>0. /\ TokenRefreshTypeOK /\ TokensAreSound /\ WhoRefreshesLeads /\ ClientTyped
      /\ TokensTyped /\ CountsTyped
  BY RefreshTypeParts DEF RefreshInv
<1>o. ASSUME NEW c \in Clients, RefreshStep(c)
      PROVE  lapses = 0 /\ ~tokenLost
  <2>1. UNCHANGED lapses
    BY <1>o DEF RefreshStep, StillValid, JoinOrLead, TryAcquire, AdoptWaiting, GiveUp,
       AdoptOrRefresh, ProviderRefreshes, ProviderFails, ProviderRejects, PersistCredential,
       PersistCredentialFails, ReleaseLock
  <2>2. CASE UNCHANGED tokenLost
    BY <2>1, <2>2
  <2>3. CASE PersistCredentialFails(c) \/ \E rotates \in BOOLEAN : ProviderFails(c, rotates)
    BY <2>1, <2>3 DEF PersistCredentialFails, ProviderFails
  <2> QED
    BY <1>o, <2>2, <2>3 DEF RefreshStep, StillValid, JoinOrLead, TryAcquire, AdoptWaiting, GiveUp,
       AdoptOrRefresh, ProviderRefreshes, ProviderRejects, PersistCredential, ReleaseLock,
       tokenVars
<1>1. ASSUME NEW c \in Clients, Outside(c)
      PROVE  TokensAreSound'
  <2>1. lapses = 0 /\ ~tokenLost
    BY <1>1 DEF Outside
  <2>2. \A d \in Refreshing' : d \in Refreshing
    BY <1>1 DEF Outside, Refreshing, HoldingPcs
  <2>3. \A d \in Refreshing' : ~fresh'
    BY <1>1, <2>1, <2>2, RefreshesTheCurrent DEF Outside
  <2> QED
    BY <1>1, <2>1, <2>3, Untouched DEF Outside, HoldingPcs
<1>2. ASSUME NEW c \in Clients, Ends(c)
      PROVE  TokensAreSound'
  <2>1. lapses = 0 /\ ~tokenLost
    BY <1>2 DEF Ends
  <2>2. \A d \in Refreshing' : d \in Refreshing
    BY <1>2 DEF Ends, Refreshing
  <2>3. \A d \in Refreshing' : ~fresh'
    BY <1>2, <2>1, <2>2, RefreshesTheCurrent DEF Ends
  <2> QED
    BY <1>2, <2>1, <2>3, Untouched DEF Ends
<1>3. ASSUME NEW c \in Clients, TryAcquire(c)
      PROVE  TokensAreSound'
  <2>1. lapses = 0 /\ ~tokenLost /\ Onward(c) /\ UNCHANGED tokenVars
    BY <1>0, <1>3, <1>o, StepOnward DEF RefreshStep, TryAcquire
  <2>2. client'[c].pc = "check" /\ client[c].pc = "acquire"
    BY <1>0, <1>3 DEF TryAcquire, Goes, ClientTyped, RefreshCalls
  <2>3. \A d \in Refreshing' : d \in Refreshing
    BY <2>1, <2>2 DEF Onward, Refreshing
  <2>4. \A d \in Refreshing' : ~fresh'
    BY <2>1, <2>3, RefreshesTheCurrent DEF tokenVars
  <2> QED
    BY <2>1, <2>2, <2>4, Untouched DEF Onward, tokenVars
<1>4. ASSUME NEW c \in Clients, AdoptOrRefresh(c)
      PROVE  TokensAreSound'
  <2>1. lapses = 0 /\ ~tokenLost /\ Onward(c) /\ UNCHANGED tokenVars
    BY <1>0, <1>4, <1>o, StepOnward DEF RefreshStep, AdoptOrRefresh
  <2>2. client'[c].pc = (IF fresh THEN "release" ELSE "refresh") /\ client[c].pc = "check"
    BY <1>0, <1>4 DEF AdoptOrRefresh, Goes, ClientTyped, RefreshCalls
  <2>3. \A d \in Refreshing' : d \in Refreshing \/ ~fresh
    BY <2>1, <2>2 DEF Onward, Refreshing
  <2>4. \A d \in Refreshing' : ~fresh'
    BY <2>1, <2>3, RefreshesTheCurrent DEF tokenVars
  <2>5. client'[c].pc # "persist"
    BY <2>2
  <2> QED
    BY <2>1, <2>2, <2>4, <2>5, Untouched DEF Onward, tokenVars
<1>5. ASSUME NEW c \in Clients, NEW rotates \in BOOLEAN, ProviderRefreshes(c, rotates)
      PROVE  TokensAreSound'
  <2>1. lapses = 0 /\ ~tokenLost /\ Onward(c) /\ c \in Refreshing
    BY <1>0, <1>5, <1>o, StepOnward DEF RefreshStep, ProviderRefreshes, Refreshing
  <2>2. client'[c].pc = "persist" /\ client'[c].new = issued'
        /\ UNCHANGED <<storedToken, fresh, demanded>>
    BY <1>0, <1>5 DEF ProviderRefreshes, ClientTyped
  <2>3. \A d \in Clients \ {c} : client'[d].pc \notin {"refresh", "persist"}
    BY <2>1, Alone DEF Onward, Refreshing, Holding, HoldingPcs
  <2>4. ~fresh
    BY <2>1, RefreshesTheCurrent
  <2>5. ~demanded
    BY <1>0, <2>1 DEF TokensAreSound
  <2>6. StoredTokenIsCurrent'
    BY <2>2 DEF StoredTokenIsCurrent
  <2> QED
    BY <2>2, <2>3, <2>4, <2>5, <2>6 DEF TokensAreSound, Refreshing
<1>6. ASSUME NEW c \in Clients, ProviderRejects(c)
      PROVE  TokensAreSound'
  <2>1. lapses = 0 /\ ~tokenLost /\ c \in Refreshing
    BY <1>6, <1>o DEF RefreshStep, ProviderRejects, Refreshing
  <2>2. client[c].token = issued
    BY <1>6, <2>1, RefreshesTheCurrent DEF ProviderRejects
  <2> QED
    BY <1>6, <2>2 DEF ProviderRejects
<1>7. ASSUME NEW c \in Clients, NEW rotates \in BOOLEAN, ProviderFails(c, rotates)
      PROVE  TokensAreSound'
  <2>1. lapses = 0 /\ ~tokenLost /\ Onward(c)
    BY <1>0, <1>7, <1>o, StepOnward DEF RefreshStep
  <2>2. client[c].pc = "refresh" /\ client'[c].pc = "release"
    BY <1>0, <1>7 DEF ProviderFails, Goes, ClientTyped, RefreshCalls
  <2>3. UNCHANGED <<issued, storedToken, fresh, demanded>>
    BY <1>7, <2>1 DEF ProviderFails
  <2>4. \A d \in Refreshing' : d \in Refreshing
    BY <2>1, <2>2 DEF Onward, Refreshing
  <2>5. \A d \in Refreshing' : ~fresh'
    BY <2>1, <2>3, <2>4, RefreshesTheCurrent
  <2> QED
    BY <2>1, <2>2, <2>3, <2>5, Untouched DEF Onward
<1>8. ASSUME NEW c \in Clients, PersistCredential(c) \/ PersistCredentialFails(c)
      PROVE  TokensAreSound'
  <2>1. lapses = 0 /\ ~tokenLost /\ Onward(c) /\ c \in Refreshing /\ client[c].pc = "persist"
    BY <1>0, <1>8, <1>o, StepOnward
    DEF RefreshStep, PersistCredential, PersistCredentialFails, Refreshing
  <2>2. client'[c].pc = "release"
    BY <1>0, <1>8 DEF PersistCredential, PersistCredentialFails, Goes, ClientTyped, RefreshCalls
  <2>3. \A d \in Clients : client'[d].pc \notin {"refresh", "persist"}
    BY <2>1, <2>2, Alone DEF Onward, Refreshing, Holding, HoldingPcs
  <2>4. client[c].new = issued /\ client[c].token = storedToken
    BY <2>1, RefreshesTheCurrent
  <2>5. storedToken' = issued'
    BY <1>8, <2>4 DEF PersistCredential, PersistCredentialFails
  <2>6. ~demanded'
    BY <1>0, <1>8, <2>1 DEF TokensAreSound, PersistCredential, PersistCredentialFails
  <2> QED
    BY <2>3, <2>5, <2>6 DEF TokensAreSound, StoredTokenIsCurrent, Refreshing
<1>9. CASE RefreshLockLapses
  <2>1. lapses = 0 /\ UNCHANGED <<client, tokenVars>>
    BY <1>0, <1>9 DEF RefreshLockLapses, CountsTyped
  <2> QED
    BY <1>0, <2>1 DEF TokensAreSound, StoredTokenIsCurrent, Refreshing, tokenVars
<1>10. CASE AccessTokenExpires
  BY <1>10, Untouched DEF AccessTokenExpires
<1>11. ASSUME NEW p \in Processes, ProcessDies(p)
       PROVE  TokensAreSound'
  <2>1. /\ lapses = 0 /\ ~tokenLost
        /\ UNCHANGED <<issued, storedToken, fresh, demanded>>
        /\ \A c \in leader[p] : client[c].pc = "persist" => client[c].new = client[c].token
    BY <1>11 DEF ProcessDies
  <2>2. \A d \in Clients : client'[d] = (IF ProcessOf[d] = p THEN IdleClient ELSE client[d])
    BY <1>11 DEF ProcessDies
  <2>3. \A d \in Refreshing' : d \in Refreshing
    BY <2>2 DEF Refreshing, IdleClient
  <2>4. \A d \in Refreshing' : ~fresh'
    BY <2>1, <2>3, RefreshesTheCurrent
  <2>5. CASE \E c \in Clients : client[c].pc = "persist" /\ ProcessOf[c] = p
    <3>1. PICK c \in Clients : client[c].pc = "persist" /\ ProcessOf[c] = p
      BY <2>5
    <3>2. c \in leader[p] /\ c \in Refreshing
      BY <1>0, <3>1 DEF WhoRefreshesLeads, Leads, HoldingPcs, Refreshing
    <3>6. client[c].new = issued /\ client[c].token = storedToken
      BY <2>1, <3>1, <3>2, RefreshesTheCurrent
    <3>3. storedToken = issued
      BY <2>1, <3>1, <3>2, <3>6
    <3>4. \A d \in Clients : client'[d].pc # "persist"
      BY <2>1, <2>2, <3>1, Alone DEF Holding, HoldingPcs, IdleClient
    <3>5. ~demanded
      BY <1>0, <2>1 DEF TokensAreSound
    <3> QED
      BY <2>1, <2>4, <3>3, <3>4, <3>5 DEF TokensAreSound, StoredTokenIsCurrent
  <2>6. CASE \A c \in Clients : client[c].pc = "persist" => ProcessOf[c] # p
    BY <2>1, <2>2, <2>4, <2>6, Untouched DEF IdleClient
  <2> QED
    BY <2>5, <2>6
<1> QED
  <2>1. ASSUME NEW c \in Clients, ReadCredential(c) \/ StillValid(c) \/ JoinOrLead(c)
        PROVE  TokensAreSound'
    BY <1>0, <1>1, <2>1, StepOutside
  <2>2. ASSUME NEW c \in Clients, AdoptWaiting(c) \/ GiveUp(c) \/ ReleaseLock(c)
        PROVE  TokensAreSound'
    BY <1>0, <1>2, <2>2, StepEnds
  <2> QED
    BY <1>3, <1>4, <1>5, <1>6, <1>7, <1>8, <1>9, <1>10, <1>11, <2>1, <2>2
    DEF TokenRefreshNext, RefreshStep

-----------------------------------------------------------------------------
(* The invariant.                                                           *)

LEMMA RefreshInvInit == TokenRefreshInit => RefreshInv
<1> SUFFICES ASSUME TokenRefreshInit PROVE RefreshInv
  OBVIOUS
<1>1. TokenRefreshTypeOK
  <2>1. ClientTyped
    BY IdleIsACall DEF TokenRefreshInit, ClientTyped
  <2>2. LocksTyped
    BY OneOrNone DEF TokenRefreshInit, LocksTyped
  <2>3. TokensTyped
    <3>1. issued = 0 /\ storedToken = 0
      BY DEF TokenRefreshInit
    <3>2. issued \in Nat /\ storedToken \in 0..issued
      BY <3>1
    <3>3. fresh \in BOOLEAN /\ demanded \in BOOLEAN /\ tokenLost \in BOOLEAN
      BY Zenon DEF TokenRefreshInit
    <3> QED
      BY <3>2, <3>3 DEF TokensTyped
  <2>4. MaxExpiries \in Nat /\ MaxLapses \in Nat
    BY TokenRefreshAssumption
  <2>5. CountsTyped
    BY <2>4 DEF TokenRefreshInit, CountsTyped
  <2> QED
    BY <2>1, <2>2, <2>3, <2>5, RefreshTypeParts
<1>2. Holding \ refreshLock = {}
  BY DEF TokenRefreshInit, Holding, HoldingPcs, IdleClient
<1>3. LapsesAreCounted
  BY <1>2, FS_EmptySet DEF TokenRefreshInit, LapsesAreCounted
<1>4. WhoRefreshesLeads /\ StaleIsRead /\ TokensAreSound
  BY DEF TokenRefreshInit, WhoRefreshesLeads, StaleIsRead, TokensAreSound, HoldingPcs,
     IdleClient, Refreshing, StoredTokenIsCurrent
<1> QED
  BY <1>1, <1>3, <1>4 DEF RefreshInv

LEMMA RefreshInvStep == RefreshInv /\ [TokenRefreshNext]_refreshVars => RefreshInv'
<1> SUFFICES ASSUME RefreshInv, [TokenRefreshNext]_refreshVars
             PROVE  RefreshInv'
  OBVIOUS
<1>1. CASE TokenRefreshNext
  BY <1>1, RefreshTypeStep, LeadStep, LapsesStep, ReadStep, SoundStep DEF RefreshInv
<1>2. CASE UNCHANGED refreshVars
  BY <1>2 DEF RefreshInv, refreshVars, TokenRefreshTypeOK, WhoRefreshesLeads, LapsesAreCounted,
     StaleIsRead, TokensAreSound, Holding, Refreshing, StoredTokenIsCurrent, Leads
<1> QED
  BY <1>1, <1>2

\* The invariant of the refresh: who leads, who holds the lock and what each token is.
THEOREM RefreshInvariance == TokenRefreshSpec => []RefreshInv
BY RefreshInvInit, RefreshInvStep, PTL DEF TokenRefreshSpec

\* The variables of TokenRefresh keep their kinds, for every set of calls and processes.
THEOREM RefreshTyped == TokenRefreshSpec => []TokenRefreshTypeOK
<1>1. RefreshInv => TokenRefreshTypeOK
  BY DEF RefreshInv
<1> QED
  BY <1>1, RefreshInvariance, PTL

\* No more refreshes run at a time than locks have lapsed, and one; and while none has and
\* no token was lost, the stored token is the provider's and nobody is made to
\* reauthenticate (withRefreshCoordination and persistRefreshedCredential).
THEOREM RefreshesAreSafe == TokenRefreshSpec => []RefreshIsSafe
<1>1. ASSUME RefreshInv
      PROVE  RefreshIsSafe
  <2>1. /\ LapsesAreCounted /\ LocksTyped /\ CountsTyped /\ TokensAreSound
        /\ Refreshing \subseteq Holding /\ IsFiniteSet(Holding)
    BY <1>1, RefreshTypeParts, TokenRefreshAssumption, FS_Subset
    DEF RefreshInv, Refreshing, Holding, HoldingPcs
  <2>2. Cardinality(Refreshing) <= Cardinality(Holding) /\ Cardinality(Refreshing) \in Nat
    BY <2>1, FS_Subset, FS_CardinalityType
  <2>4. Cardinality(Holding \ refreshLock) \in Nat /\ Cardinality(Holding) \in Nat
    BY <2>1, FS_Subset, FS_CardinalityType
  <2>3. Cardinality(Holding) <= 1 + Cardinality(Holding \ refreshLock)
    <3>1. CASE refreshLock = {}
      <4>1. Holding \ refreshLock = Holding
        BY <3>1
      <4> QED
        BY <2>4, <4>1
    <3>2. CASE refreshLock # {}
      <4>1. PICK c \in refreshLock : refreshLock = {c}
        BY <2>1, <3>2, OneOrNone DEF LocksTyped
      <4> QED
        <5>1. Cardinality(Holding \ {c}) \in {Cardinality(Holding), Cardinality(Holding) - 1}
          BY <2>1, FS_RemoveElement
        <5> QED
          BY <2>4, <4>1, <5>1
    <3> QED
      BY <3>1, <3>2
  <2>5. OverlapIsBounded
    BY <2>1, <2>2, <2>3, <2>4 DEF OverlapIsBounded, LapsesAreCounted, CountsTyped
  <2>6. StoredTokenIsCurrent /\ NoFalseDemand
    BY <2>1 DEF TokensAreSound, StoredTokenIsCurrent, NoFalseDemand
  <2> QED
    BY <2>5, <2>6 DEF RefreshIsSafe
<1> QED
  BY <1>1, RefreshInvariance, PTL

----------------------------------------------------------------------------
(***************************************************************************)
(* The safety properties of OutlookPermits for every number of requests,   *)
(* processes and slots: leases are owned, and gates counted exactly.       *)
(***************************************************************************)

\* Where a request stands in the gate's line, and where it has a lease.
InLine == {"waiting", "aborted"}
Leased == {"sending", "deleting"}

\* The line of a process holds each of its waiting and aborted requests, once.
QueueIsWhole(h) ==
  LET ws == gateWaiters[h] IN
  /\ \A i \in 1..Len(ws) : HostOf[ws[i]] = h /\ call[ws[i]] \in InLine
  /\ \A i, j \in 1..Len(ws) : ws[i] = ws[j] => i = j
  /\ \A r \in Requests :
       HostOf[r] = h /\ call[r] \in InLine => \E i \in 1..Len(ws) : ws[i] = r

\* A lease in date is of one slot, whose key is its own; only such a lease is deleted.
LeasesOwned ==
  /\ \A r \in inDate : /\ call[r] \in Leased
                       /\ \E s \in SlotKeys : lease[r] = {s} /\ slotKey[s] = {r}
  /\ \A r \in Requests : call[r] = "deleting" => r \in inDate

PermitInv == /\ OutlookPermitsTypeOK
             /\ \A h \in Hosts : QueueIsWhole(h)
             /\ LeasesOwned
             /\ GateIsExact

-----------------------------------------------------------------------------
(* Types.                                                                   *)

Places == {"idle", "waiting", "aborted"} \cup InGate

CallsTyped == call \in [Requests -> Places]
GatesTyped == gateActive \in [Hosts -> 0..GateWidth] /\ gateWaiters \in [Hosts -> Seq(Requests)]
LeasesTyped == /\ slotKey \in [SlotKeys -> SUBSET (Requests \cup {NoOwner})]
               /\ lease \in [Requests -> SUBSET SlotKeys]
               /\ inDate \subseteq Requests
OrphansTyped == orphans \in 0..MaxOrphans

LEMMA PermitTypeParts ==
  /\ OutlookPermitsTypeOK <=> CallsTyped /\ GatesTyped /\ LeasesTyped /\ OrphansTyped
  /\ OutlookPermitsTypeOK' <=> CallsTyped' /\ GatesTyped' /\ LeasesTyped' /\ OrphansTyped'
BY DEF OutlookPermitsTypeOK, CallsTyped, GatesTyped, LeasesTyped, OrphansTyped, Places

\* Whoever is through a gate is one of finitely many.
LEMMA ThroughFinite ==
  ASSUME NEW h \in Hosts
  PROVE  /\ IsFiniteSet(Through(h)) /\ Cardinality(Through(h)) \in Nat
         /\ IsFiniteSet(Through(h)') /\ Cardinality(Through(h)') \in Nat
<1>1. Through(h) \subseteq Requests /\ Through(h)' \subseteq Requests
  BY DEF Through
<1> QED
  BY <1>1, OutlookPermitsAssumption, FS_Subset, FS_CardinalityType

-----------------------------------------------------------------------------
(* The gate's line.                                                         *)

\* How many waiters leave the line with a request that leaves the gate.
Dropped(ws) == IF Unsettled(ws) = {} THEN Len(ws) ELSE First(ws)

\* All that are dropped are aborted, but for the last when someone still waits.
LEMMA DroppedAreAborted ==
  ASSUME CallsTyped, NEW h \in Hosts, QueueIsWhole(h),
         NEW ws \in Seq(Requests), ws = gateWaiters[h]
  PROVE  /\ Dropped(ws) \in 0..Len(ws) /\ Len(ws) \in Nat
         /\ \A i \in 1..Len(ws) : i < Dropped(ws) => call[ws[i]] = "aborted"
         /\ Unsettled(ws) = {} => \A i \in 1..Len(ws) : call[ws[i]] = "aborted"
         /\ Unsettled(ws) # {} =>
              /\ Dropped(ws) \in 1..Len(ws)
              /\ call[ws[Dropped(ws)]] = "waiting"
<1>1. Len(ws) \in Nat /\ \A i \in 1..Len(ws) : call[ws[i]] \in InLine
  BY LenProperties DEF QueueIsWhole
<1>2. \A i \in 1..Len(ws) : i \notin Unsettled(ws) => call[ws[i]] = "aborted"
  BY <1>1 DEF Unsettled, InLine
<1>3. CASE Unsettled(ws) = {}
  BY <1>1, <1>2, <1>3 DEF Dropped
<1>4. CASE Unsettled(ws) # {}
  <2>1. Unsettled(ws) \in SUBSET Nat /\ Unsettled(ws) \subseteq 1..Len(ws)
    BY <1>1 DEF Unsettled
  <2>2. \E i \in Unsettled(ws) : \A j \in Unsettled(ws) : i <= j
    BY <1>4, <2>1, LeastOfNaturals
  <2>3. First(ws) \in Unsettled(ws) /\ \A j \in Unsettled(ws) : First(ws) <= j
    BY <2>2 DEF First
  <2>4. Dropped(ws) = First(ws)
    BY <1>4 DEF Dropped
  <2>5. \A i \in 1..Len(ws) : i < First(ws) => i \notin Unsettled(ws)
    BY <1>1, <2>1, <2>3
  <2>6. call[ws[First(ws)]] = "waiting"
    BY <2>3 DEF Unsettled
  <2> QED
    BY <1>1, <1>2, <1>4, <2>1, <2>3, <2>4, <2>5, <2>6
<1> QED
  BY <1>3, <1>4

\* What is left of a line.
LEMMA RestOfLine ==
  ASSUME NEW ws \in Seq(Requests), NEW n \in 0..Len(ws)
  PROVE  /\ SubSeq(ws, n + 1, Len(ws)) \in Seq(Requests)
         /\ Len(SubSeq(ws, n + 1, Len(ws))) = Len(ws) - n
         /\ \A i \in 1..Len(ws) - n : SubSeq(ws, n + 1, Len(ws))[i] = ws[n + i]
<1>1. Len(ws) \in Nat /\ \A i \in 1..Len(ws) : ws[i] \in Requests
  BY LenProperties, ElementOfSeq
<1>2. \A i \in n + 1..Len(ws) : ws[i] \in Requests
  BY <1>1
<1>3. n + 1 \in Int /\ Len(ws) \in Int
  BY <1>1
<1>4. /\ SubSeq(ws, n + 1, Len(ws)) \in Seq(Requests)
      /\ Len(SubSeq(ws, n + 1, Len(ws))) = IF n + 1 <= Len(ws) THEN Len(ws) - (n + 1) + 1 ELSE 0
      /\ \A i \in 1..Len(ws) - (n + 1) + 1 :
           SubSeq(ws, n + 1, Len(ws))[i] = ws[(n + 1) + i - 1]
  BY <1>2, <1>3, SubSeqProperties
<1>5. \A i \in 1..Len(ws) - n : (n + 1) + i - 1 = n + i
  BY <1>1
<1>6. Len(ws) - (n + 1) + 1 = Len(ws) - n
  BY <1>1
<1>7. ASSUME NEW i \in 1..Len(ws) - n
      PROVE  SubSeq(ws, n + 1, Len(ws))[i] = ws[n + i]
  <2>1. i \in 1..Len(ws) - (n + 1) + 1
    BY <1>6
  <2>2. (n + 1) + i - 1 = n + i
    BY <1>5
  <2>3. SubSeq(ws, n + 1, Len(ws))[i] = ws[(n + 1) + i - 1]
    BY <1>4, <2>1
  <2> QED
    BY <2>2, <2>3
<1>8. Len(SubSeq(ws, n + 1, Len(ws))) = Len(ws) - n
  BY <1>1, <1>4
<1> QED
  BY <1>4, <1>7, <1>8

\* What becomes of every request when r leaves its gate for next, and the first n of the
\* line ws with it.
LineMoves(r, next, ws, n) ==
  /\ call'[r] = next
  /\ \A i \in 1..Len(ws) : ws[i] # r
  /\ \A i \in 1..n : call'[ws[i]] =
       IF i = n /\ Unsettled(ws) # {} THEN "leasing" ELSE "idle"
  /\ \A q \in Requests : q # r /\ (\A i \in 1..n : q # ws[i]) => call'[q] = call[q]
  /\ \A i \in 1..Len(ws) : i > n => call'[ws[i]] = call[ws[i]]

LEMMA LeaveGateMoves ==
  ASSUME CallsTyped, GatesTyped, NEW r \in Requests, QueueIsWhole(HostOf[r]),
         call[r] \in {"leasing", "sending"}, NEW next \in {"idle", "deleting"},
         LeaveGate(r, next)
  PROVE  /\ CallsTyped'
         /\ LineMoves(r, next, gateWaiters[HostOf[r]], Dropped(gateWaiters[HostOf[r]]))
<1> DEFINE ws == gateWaiters[HostOf[r]]
           n == Dropped(ws)
<1>0. ws \in Seq(Requests)
  BY OutlookPermitsAssumption DEF GatesTyped
<1> DEFINE h == HostOf[r]
<1>1. /\ Len(ws) \in Nat /\ n \in 0..Len(ws)
      /\ \A i \in 1..Len(ws) : ws[i] \in Requests /\ call[ws[i]] \in InLine
      /\ \A i, j \in 1..Len(ws) : ws[i] = ws[j] => i = j
      /\ h \in Hosts
  BY <1>0, LenProperties, ElementOfSeq, DroppedAreAborted, OutlookPermitsAssumption
  DEF QueueIsWhole
<1>2. \A i \in 1..n : call[ws[i]] = (IF i = n /\ Unsettled(ws) # {} THEN "waiting" ELSE "aborted")
  <2> SUFFICES ASSUME NEW i \in 1..n
               PROVE  call[ws[i]] =
                        IF i = n /\ Unsettled(ws) # {} THEN "waiting" ELSE "aborted"
    OBVIOUS
  <2>1. i \in 1..Len(ws) /\ (i < n \/ i = n)
    BY <1>1
  <2>2. CASE i = n /\ Unsettled(ws) # {}
    BY <1>1, <2>2, <1>0, DroppedAreAborted
  <2>3. CASE i < n
    BY <1>1, <2>1, <2>3, <1>0, DroppedAreAborted
  <2>4. CASE i = n /\ Unsettled(ws) = {}
    BY <1>1, <2>1, <2>4, <1>0, DroppedAreAborted
  <2> QED
    BY <2>1, <2>2, <2>3, <2>4
<1> DEFINE dropped == {ws[i] : i \in 1..n}
<1>3. call' = [q \in Requests |->
           CASE q = r -> next
             [] q # r /\ q \in dropped -> IF call[q] = "waiting" THEN "leasing" ELSE "idle"
             [] OTHER -> call[q]]
  BY DEF LeaveGate, Dropped
<1>4. \A q \in dropped : \E i \in 1..n : q = ws[i]
  OBVIOUS
<1>5. \A i \in 1..n : ws[i] \in dropped
  OBVIOUS
<1>6. \A i \in 1..Len(ws) : ws[i] # r
  BY <1>1 DEF InLine
<1> HIDE DEF dropped
<1>7. call'[r] = next
  BY <1>3
<1>8. \A i \in 1..n : call'[ws[i]] =
        IF i = n /\ Unsettled(ws) # {} THEN "leasing" ELSE "idle"
  <2> SUFFICES ASSUME NEW i \in 1..n
               PROVE  call'[ws[i]] = IF i = n /\ Unsettled(ws) # {} THEN "leasing" ELSE "idle"
    OBVIOUS
  <2>1. i \in 1..Len(ws)
    BY <1>1
  <2>2. ws[i] \in Requests /\ ws[i] # r /\ ws[i] \in dropped
    BY <1>1, <1>5, <1>6, <2>1
  <2>3. call'[ws[i]] = IF call[ws[i]] = "waiting" THEN "leasing" ELSE "idle"
    BY <1>3, <2>2
  <2> QED
    BY <1>2, <2>3
<1>9. \A q \in Requests : q # r /\ (\A i \in 1..n : q # ws[i]) => call'[q] = call[q]
  BY <1>3, <1>4
<1>10. \A i \in 1..Len(ws) : i > n => call'[ws[i]] = call[ws[i]]
  <2> SUFFICES ASSUME NEW i \in 1..Len(ws), i > n
               PROVE  call'[ws[i]] = call[ws[i]]
    OBVIOUS
  <2>1. \A j \in 1..n : j \in 1..Len(ws) /\ j # i
    BY <1>1
  <2>2. \A j \in 1..n : ws[i] # ws[j]
    BY <1>1, <2>1
  <2> QED
    BY <1>1, <1>6, <1>9, <2>2
<1>11. CallsTyped'
  <2>1. \A q \in Requests : call'[q] \in Places
    BY <1>3 DEF CallsTyped, Places, InGate
  <2> QED
    BY <1>3, <2>1 DEF CallsTyped
<1> QED
  BY <1>6, <1>7, <1>8, <1>9, <1>10, <1>11 DEF LineMoves

\* A gate is left with its line whole and its count exact.
LEMMA LeaveGateKeeps ==
  ASSUME CallsTyped, GatesTyped, \A h \in Hosts : QueueIsWhole(h), GateIsExact,
         NEW r \in Requests, call[r] \in {"leasing", "sending"},
         NEW next \in {"idle", "deleting"}, LeaveGate(r, next)
  PROVE  /\ CallsTyped' /\ GatesTyped' /\ GateIsExact'
         /\ \A h \in Hosts : QueueIsWhole(h)'
<1> DEFINE h == HostOf[r]
           ws == gateWaiters[h]
           n == Dropped(ws)
<1>1. h \in Hosts /\ ws \in Seq(Requests) /\ QueueIsWhole(h)
  BY OutlookPermitsAssumption DEF GatesTyped
<1>2. /\ Len(ws) \in Nat /\ n \in 0..Len(ws)
      /\ Unsettled(ws) = {} => \A i \in 1..Len(ws) : call[ws[i]] = "aborted"
      /\ Unsettled(ws) # {} => n \in 1..Len(ws) /\ call[ws[n]] = "waiting"
  BY <1>1, DroppedAreAborted
<1>3. /\ call'[r] = next
      /\ \A i \in 1..Len(ws) : ws[i] # r
      /\ \A i \in 1..n : call'[ws[i]] =
           IF i = n /\ Unsettled(ws) # {} THEN "leasing" ELSE "idle"
      /\ \A q \in Requests : q # r /\ (\A i \in 1..n : q # ws[i]) => call'[q] = call[q]
      /\ \A i \in 1..Len(ws) : i > n => call'[ws[i]] = call[ws[i]]
      /\ CallsTyped'
  <2>1. CallsTyped' /\ LineMoves(r, next, ws, n)
    BY <1>1, LeaveGateMoves
  <2> HIDE DEF h, ws, n
  <2> QED
    BY <2>1 DEF LineMoves
<1>4. /\ gateWaiters' = [gateWaiters EXCEPT ![h] = SubSeq(ws, n + 1, Len(ws))]
      /\ gateActive' = [gateActive EXCEPT ![h] =
           IF Unsettled(ws) = {} THEN gateActive[h] - 1 ELSE gateActive[h]]
  BY DEF LeaveGate, Dropped, GatesTyped
<1>5. /\ \A i \in 1..Len(ws) : /\ ws[i] \in Requests /\ HostOf[ws[i]] = h
                               /\ call[ws[i]] \in InLine
      /\ \A i, j \in 1..Len(ws) : ws[i] = ws[j] => i = j
      /\ \A q \in Requests :
           HostOf[q] = h /\ call[q] \in InLine => \E i \in 1..Len(ws) : ws[i] = q
  BY <1>1, ElementOfSeq DEF QueueIsWhole
<1>6. \A i \in 1..n : i \in 1..Len(ws)
  BY <1>2
<1>7. \A q \in Requests : HostOf[q] # h => call'[q] = call[q]
  BY <1>3, <1>5, <1>6
<1>r. /\ SubSeq(ws, n + 1, Len(ws)) \in Seq(Requests)
      /\ Len(SubSeq(ws, n + 1, Len(ws))) = Len(ws) - n
      /\ \A i \in 1..Len(ws) - n : SubSeq(ws, n + 1, Len(ws))[i] = ws[n + i]
  BY <1>1, <1>2, RestOfLine
<1>w. gateWaiters'[h] = SubSeq(ws, n + 1, Len(ws))
  BY <1>1, <1>4 DEF GatesTyped
<1>a. gateActive[h] \in 0..GateWidth /\ gateActive[h] = Cardinality(Through(h)) /\ GateWidth \in Nat
  BY <1>1, OutlookPermitsAssumption DEF GatesTyped, GateIsExact
<1>b. r \in Through(h) /\ gateActive[h] > 0
  <2>1. r \in Through(h)
    BY DEF Through
  <2>2. Cardinality(Through(h)) # 0
    BY <1>1, <2>1, ThroughFinite, FS_EmptySet
  <2> QED
    BY <1>a, <2>1, <2>2
<1> HIDE DEF h, ws, n
<1>8. GatesTyped'
  <2>1. (IF Unsettled(ws) = {} THEN gateActive[h] - 1 ELSE gateActive[h]) \in 0..GateWidth
    BY <1>a, <1>b
  <2> QED
    BY <1>4, <1>r, <2>1 DEF GatesTyped
<1>9. ASSUME NEW g \in Hosts
      PROVE  QueueIsWhole(g)'
  <2>1. CASE g # h
    <3>1. gateWaiters'[g] = gateWaiters[g] /\ QueueIsWhole(g)
      BY <1>4, <2>1 DEF GatesTyped
    <3>2. \A i \in 1..Len(gateWaiters[g]) : gateWaiters[g][i] \in Requests
      BY ElementOfSeq DEF GatesTyped
    <3>3. \A i \in 1..Len(gateWaiters[g]) : HostOf[gateWaiters[g][i]] = g
      BY <3>1 DEF QueueIsWhole
    <3>4. \A i \in 1..Len(gateWaiters[g]) : call'[gateWaiters[g][i]] = call[gateWaiters[g][i]]
      BY <1>7, <2>1, <3>2, <3>3
    <3>5. \A q \in Requests : HostOf[q] = g => call'[q] = call[q]
      BY <1>7, <2>1
    <3> QED
      BY <3>1, <3>4, <3>5 DEF QueueIsWhole
  <2>2. CASE g = h
    <3>1. Len(gateWaiters'[h]) = Len(ws) - n
      BY <1>r, <1>w
    <3>2. \A i \in 1..Len(ws) - n : /\ gateWaiters'[h][i] = ws[n + i]
                                    /\ n + i \in 1..Len(ws) /\ n + i > n
      BY <1>2, <1>r, <1>w
    <3>3. \A i \in 1..Len(ws) - n : /\ HostOf[gateWaiters'[h][i]] = h
                                    /\ call'[gateWaiters'[h][i]] \in InLine
      BY <1>3, <1>5, <3>2
    <3>4. ASSUME NEW i \in 1..Len(ws) - n, NEW j \in 1..Len(ws) - n,
                 gateWaiters'[h][i] = gateWaiters'[h][j]
          PROVE  i = j
      <4>1. n + i = n + j
        BY <1>5, <3>2, <3>4
      <4> QED
        BY <1>2, <4>1
    <3>5. ASSUME NEW q \in Requests, HostOf[q] = h, call'[q] \in InLine
          PROVE  \E i \in 1..Len(ws) - n : gateWaiters'[h][i] = q
      <4>1. q # r
        BY <1>3, <3>5 DEF InLine
      <4>2. \A i \in 1..n : q # ws[i]
        BY <1>3, <3>5 DEF InLine
      <4>3. call[q] \in InLine
        BY <1>3, <3>5, <4>1, <4>2
      <4>4. PICK j \in 1..Len(ws) : ws[j] = q
        BY <1>5, <3>5, <4>3
      <4>5. j \notin 1..n
        BY <4>2, <4>4
      <4>6. j - n \in 1..Len(ws) - n /\ n + (j - n) = j
        BY <1>2, <4>5
      <4> QED
        BY <3>2, <4>4, <4>6
    <3> QED
      BY <2>2, <3>1, <3>3, <3>4, <3>5 DEF QueueIsWhole
  <2> QED
    BY <2>1, <2>2
<1>10. ASSUME NEW g \in Hosts
       PROVE  /\ gateActive'[g] = Cardinality(Through(g)')
              /\ (\E q \in Requests : HostOf[q] = g /\ call'[q] = "waiting")
                   => gateActive'[g] = GateWidth
  <2>0. \A q \in Requests : call'[q] = "waiting" => call[q] = "waiting"
    BY <1>3
  <2>1. CASE g # h
    <3>1. Through(g)' = Through(g) /\ gateActive'[g] = gateActive[g]
      BY <1>4, <1>7, <2>1 DEF Through, GatesTyped
    <3> QED
      BY <2>0, <3>1 DEF GateIsExact
  <2>2. CASE g = h /\ Unsettled(ws) = {}
    <3>1. \A i \in 1..n : call'[ws[i]] = "idle" /\ ws[i] \notin Through(h)
      BY <1>3, <1>5, <1>6, <2>2 DEF Through, InLine
    <3>2. Through(h)' = Through(h) \ {r}
      BY <1>3, <1>7, <3>1 DEF Through
    <3>6. Cardinality(Through(h) \ {r}) = gateActive[h] - 1
      BY <1>1, <1>a, <1>b, ThroughFinite, FS_RemoveElement
    <3>3. Cardinality(Through(h)') = gateActive[h] - 1
      BY <3>2, <3>6
    <3>4. gateActive'[h] = gateActive[h] - 1
      BY <1>1, <1>4, <2>2 DEF GatesTyped
    <3>5. \A q \in Requests : HostOf[q] = h => call[q] # "waiting"
      BY <1>2, <1>5, <2>2 DEF InLine
    <3> QED
      BY <2>0, <2>2, <3>3, <3>4, <3>5
  <2>3. CASE g = h /\ Unsettled(ws) # {}
    <3> DEFINE w == ws[n]
    <3>1. /\ n \in 1..n /\ n \in 1..Len(ws) /\ w \in Requests /\ HostOf[w] = h
          /\ call[w] = "waiting" /\ call'[w] = "leasing"
      BY <1>2, <1>3, <1>5, <2>3
    <3>2. \A i \in 1..n : i # n => call'[ws[i]] = "idle" /\ ws[i] \notin Through(h)
      BY <1>3, <1>5, <1>6 DEF Through, InLine
    <3>3. Through(h)' = (Through(h) \ {r}) \cup {w}
      <4>1. ASSUME NEW q \in Through(h)'
            PROVE  q \in (Through(h) \ {r}) \cup {w}
        <5>1. q \in Requests /\ HostOf[q] = h /\ call'[q] \in {"leasing", "sending"} /\ q # r
          BY <1>3, <4>1 DEF Through
        <5>2. CASE \E i \in 1..n : q = ws[i]
          BY <3>2, <5>1, <5>2
        <5>3. CASE \A i \in 1..n : q # ws[i]
          BY <1>3, <5>1, <5>3 DEF Through
        <5> QED
          BY <5>2, <5>3
      <4>2. ASSUME NEW q \in Through(h) \ {r}
            PROVE  q \in Through(h)'
        <5>1. q \in Requests /\ HostOf[q] = h /\ call[q] \in {"leasing", "sending"}
          BY DEF Through
        <5>2. \A i \in 1..n : q # ws[i]
          BY <1>5, <1>6, <5>1 DEF InLine
        <5> QED
          BY <1>3, <5>1, <5>2 DEF Through
      <4>3. w \in Through(h)'
        BY <3>1 DEF Through
      <4> QED
        BY <4>1, <4>2, <4>3
    <3>4. w \notin Through(h)
      BY <3>1 DEF Through
    <3>5. /\ IsFiniteSet(Through(h) \ {r})
          /\ Cardinality(Through(h) \ {r}) = gateActive[h] - 1
      BY <1>1, <1>a, <1>b, ThroughFinite, FS_RemoveElement
    <3>6. Cardinality(Through(h)') = (gateActive[h] - 1) + 1
      BY <3>3, <3>4, <3>5, FS_AddElement
    <3>7. gateActive'[h] = gateActive[h]
      BY <1>1, <1>4, <2>3 DEF GatesTyped
    <3>8. gateActive[h] = GateWidth
      BY <1>1, <3>1 DEF GateIsExact
    <3> QED
      BY <1>a, <2>3, <3>6, <3>7, <3>8
  <2> QED
    BY <2>1, <2>2, <2>3
<1> QED
  BY <1>3, <1>8, <1>9, <1>10 DEF GateIsExact

\* Nobody enters or leaves a gate, or its line.
LEMMA GatesKept ==
  ASSUME GatesTyped, \A h \in Hosts : QueueIsWhole(h), GateIsExact,
         UNCHANGED <<gateActive, gateWaiters>>,
         \A q \in Requests : /\ call'[q] \in InLine <=> call[q] \in InLine
                             /\ call'[q] \in {"leasing", "sending"}
                                  <=> call[q] \in {"leasing", "sending"}
                             /\ call'[q] = "waiting" => call[q] = "waiting"
  PROVE  /\ GateIsExact'
         /\ \A h \in Hosts : QueueIsWhole(h)'
<1>1. \A h \in Hosts : Through(h)' = Through(h)
  BY DEF Through
<1>2. GateIsExact'
  BY <1>1 DEF GateIsExact
<1>3. ASSUME NEW h \in Hosts
      PROVE  QueueIsWhole(h)'
  <2>1. QueueIsWhole(h) /\ gateWaiters' = gateWaiters
    OBVIOUS
  <2>2. \A i \in 1..Len(gateWaiters[h]) : gateWaiters[h][i] \in Requests
    BY ElementOfSeq DEF GatesTyped
  <2> QED
    BY <2>1, <2>2 DEF QueueIsWhole
<1> QED
  BY <1>2, <1>3

\* A request takes a place at the gate, or at the end of its line.
LEMMA EnterGateKeeps ==
  ASSUME CallsTyped, GatesTyped, \A h \in Hosts : QueueIsWhole(h), GateIsExact,
         NEW r \in Requests, EnterGate(r)
  PROVE  /\ CallsTyped' /\ GatesTyped' /\ GateIsExact'
         /\ \A h \in Hosts : QueueIsWhole(h)'
<1> DEFINE h == HostOf[r]
           ws == gateWaiters[h]
<1>1. /\ h \in Hosts /\ call[r] = "idle" /\ r \notin Through(h)
      /\ gateActive[h] \in 0..GateWidth /\ GateWidth \in Nat
      /\ gateActive[h] = Cardinality(Through(h))
      /\ ws \in Seq(Requests) /\ QueueIsWhole(h)
  BY OutlookPermitsAssumption DEF EnterGate, GatesTyped, GateIsExact, Through
<1>2. /\ Len(ws) \in Nat
      /\ \A i \in 1..Len(ws) : /\ ws[i] \in Requests /\ HostOf[ws[i]] = h /\ ws[i] # r
                               /\ call[ws[i]] \in InLine
      /\ \A i, j \in 1..Len(ws) : ws[i] = ws[j] => i = j
      /\ \A q \in Requests :
           HostOf[q] = h /\ call[q] \in InLine => \E i \in 1..Len(ws) : ws[i] = q
  BY <1>1, ElementOfSeq, LenProperties DEF QueueIsWhole, InLine
<1>3. \A g \in Hosts : gateWaiters[g] \in Seq(Requests)
  BY DEF GatesTyped
<1>4. CASE gateActive[h] < GateWidth
  <2>1. /\ gateActive' = [gateActive EXCEPT ![h] = gateActive[h] + 1]
        /\ call' = [call EXCEPT ![r] = "leasing"]
        /\ gateWaiters' = gateWaiters
    BY <1>4 DEF EnterGate
  <2>2. CallsTyped' /\ GatesTyped'
    <3>1. gateActive[h] + 1 \in 0..GateWidth
      BY <1>1, <1>4
    <3> QED
      BY <2>1, <3>1 DEF CallsTyped, GatesTyped, Places, InGate
  <2>3. call'[r] = "leasing" /\ \A q \in Requests \ {r} : call'[q] = call[q]
    BY <2>1 DEF CallsTyped
  <2>4. ASSUME NEW g \in Hosts
        PROVE  QueueIsWhole(g)'
    <3>1. \A i \in 1..Len(gateWaiters[g]) : gateWaiters[g][i] \in Requests \ {r}
      BY <1>1, <1>3, ElementOfSeq DEF QueueIsWhole, InLine
    <3>2. QueueIsWhole(g)
      OBVIOUS
    <3> QED
      BY <2>1, <2>3, <3>1, <3>2 DEF QueueIsWhole, InLine
  <2>5. \A g \in Hosts : g # h => Through(g)' = Through(g) /\ gateActive'[g] = gateActive[g]
    BY <2>1, <2>3 DEF Through, GatesTyped
  <2>6. gateActive'[h] = Cardinality(Through(h)')
    <3>1. Through(h)' = Through(h) \cup {r}
      BY <2>3 DEF Through
    <3>2. Cardinality(Through(h) \cup {r}) = gateActive[h] + 1
      BY <1>1, ThroughFinite, FS_AddElement
    <3> QED
      BY <1>1, <2>1, <3>1, <3>2 DEF GatesTyped
  <2>7. \A q \in Requests : HostOf[q] = h => call'[q] # "waiting"
    BY <1>1, <1>4, <2>3 DEF GateIsExact
  <2>8. \A q \in Requests : call'[q] = "waiting" => call[q] = "waiting"
    BY <2>3
  <2>9. GateIsExact'
    BY <2>5, <2>6, <2>7, <2>8 DEF GateIsExact
  <2> QED
    BY <2>2, <2>4, <2>9
<1>5. CASE ~(gateActive[h] < GateWidth)
  <2>1. /\ gateWaiters' = [gateWaiters EXCEPT ![h] = Append(ws, r)]
        /\ call' = [call EXCEPT ![r] = "waiting"]
        /\ gateActive' = gateActive
    BY <1>5 DEF EnterGate, GatesTyped
  <2>2. /\ Append(ws, r) \in Seq(Requests) /\ Len(Append(ws, r)) = Len(ws) + 1
        /\ \A i \in 1..Len(ws) : Append(ws, r)[i] = ws[i]
        /\ Append(ws, r)[Len(ws) + 1] = r
    BY <1>1, AppendProperties
  <2>3. CallsTyped' /\ GatesTyped'
    BY <2>1, <2>2 DEF CallsTyped, GatesTyped, Places
  <2>4. call'[r] = "waiting" /\ \A q \in Requests \ {r} : call'[q] = call[q]
    BY <2>1 DEF CallsTyped
  <2> DEFINE after == Append(ws, r)
  <2>5. gateWaiters'[h] = after
    BY <1>1, <2>1 DEF GatesTyped
  <2> HIDE DEF after
  <2>6. ASSUME NEW g \in Hosts
        PROVE  QueueIsWhole(g)'
    <3>1. CASE g # h
      <4>1. gateWaiters'[g] = gateWaiters[g] /\ QueueIsWhole(g)
        BY <2>1, <3>1 DEF GatesTyped
      <4>2. \A i \in 1..Len(gateWaiters[g]) : gateWaiters[g][i] \in Requests \ {r}
        BY <1>1, <1>3, <4>1, ElementOfSeq DEF QueueIsWhole, InLine
      <4>3. \A q \in Requests : HostOf[q] = g => q # r
        BY <3>1
      <4> QED
        BY <2>4, <4>1, <4>2, <4>3 DEF QueueIsWhole
    <3>2. CASE g = h
      <4>1. Len(after) = Len(ws) + 1
        BY <2>2 DEF after
      <4>2. \A i \in 1..Len(ws) + 1 : i \in 1..Len(ws) \/ i = Len(ws) + 1
        BY <1>2
      <4>3. /\ \A i \in 1..Len(ws) : after[i] = ws[i]
            /\ after[Len(ws) + 1] = r
        BY <2>2 DEF after
      <4>4. \A i \in 1..Len(after) : HostOf[after[i]] = h /\ call'[after[i]] \in InLine
        <5>1. ASSUME NEW i \in 1..Len(ws)
              PROVE  HostOf[after[i]] = h /\ call'[after[i]] \in InLine
          <6>1. ws[i] \in Requests \ {r} /\ HostOf[ws[i]] = h /\ call[ws[i]] \in InLine
            BY <1>2
          <6> QED
            BY <2>4, <4>3, <6>1
        <5>2. HostOf[after[Len(ws) + 1]] = h /\ call'[after[Len(ws) + 1]] \in InLine
          BY <2>4, <4>3 DEF InLine
        <5> QED
          BY <4>1, <4>2, <5>1, <5>2
      <4>5. \A i, j \in 1..Len(after) : after[i] = after[j] => i = j
        BY <1>2, <4>1, <4>2, <4>3
      <4>6. ASSUME NEW q \in Requests, HostOf[q] = h, call'[q] \in InLine
            PROVE  \E i \in 1..Len(after) : after[i] = q
        <5>1. CASE q = r
          <6>1. Len(ws) + 1 \in 1..Len(after)
            BY <1>2, <4>1
          <6> QED
            BY <4>3, <5>1, <6>1
        <5>2. CASE q # r
          <6>1. PICK i \in 1..Len(ws) : ws[i] = q
            BY <1>2, <2>4, <4>6, <5>2
          <6>2. i \in 1..Len(after)
            BY <1>2, <4>1
          <6> QED
            BY <4>3, <6>1, <6>2
        <5> QED
          BY <5>1, <5>2
      <4> QED
        BY <2>5, <3>2, <4>4, <4>5, <4>6 DEF QueueIsWhole
    <3> QED
      BY <3>1, <3>2
  <2>7. \A g \in Hosts : Through(g)' = Through(g)
    BY <1>1, <2>4 DEF Through
  <2>8. gateActive[h] = GateWidth
    BY <1>1, <1>5
  <2>9. GateIsExact'
    BY <2>1, <2>4, <2>7, <2>8 DEF GateIsExact
  <2> QED
    BY <2>3, <2>6, <2>9
<1> QED
  BY <1>4, <1>5

\* A process dies, and its gate is gone with it.
LEMMA HostDiesKeeps ==
  ASSUME CallsTyped, GatesTyped, \A h \in Hosts : QueueIsWhole(h), GateIsExact,
         NEW h \in Hosts, HostDies(h)
  PROVE  /\ CallsTyped' /\ GatesTyped' /\ GateIsExact'
         /\ \A g \in Hosts : QueueIsWhole(g)'
<1>1. /\ call' = [r \in Requests |-> IF HostOf[r] = h THEN "idle" ELSE call[r]]
      /\ gateActive' = [gateActive EXCEPT ![h] = 0]
      /\ gateWaiters' = [gateWaiters EXCEPT ![h] = <<>>]
  BY DEF HostDies
<1>2. CallsTyped'
  BY <1>1 DEF CallsTyped, Places
<1>3. GatesTyped'
  <2>1. 0 \in 0..GateWidth
    BY OutlookPermitsAssumption
  <2>2. <<>> \in Seq(Requests)
    BY EmptySeq
  <2> QED
    BY <1>1, <2>1, <2>2 DEF GatesTyped
<1>4. ASSUME NEW g \in Hosts
      PROVE  QueueIsWhole(g)' /\ gateActive'[g] = Cardinality(Through(g)')
             /\ ((\E q \in Requests : HostOf[q] = g /\ call'[q] = "waiting")
                   => gateActive'[g] = GateWidth)
  <2>1. CASE g = h
    <3>1. gateWaiters'[h] = <<>> /\ gateActive'[h] = 0
      BY <1>1 DEF GatesTyped
    <3>2. \A q \in Requests : HostOf[q] = h => call'[q] = "idle"
      BY <1>1
    <3>3. Through(h)' = {}
      BY <3>2 DEF Through
    <3>4. Len(<<>>) = 0
      BY EmptySeq
    <3>5. QueueIsWhole(h)'
      BY <3>1, <3>2, <3>4 DEF QueueIsWhole, InLine
    <3> QED
      BY <2>1, <3>1, <3>2, <3>3, <3>5, FS_EmptySet
  <2>2. CASE g # h
    <3>1. /\ gateWaiters'[g] = gateWaiters[g] /\ gateActive'[g] = gateActive[g]
          /\ QueueIsWhole(g)
      BY <1>1, <2>2 DEF GatesTyped
    <3>2. \A q \in Requests : HostOf[q] = g => call'[q] = call[q]
      BY <1>1, <2>2
    <3>3. Through(g)' = Through(g)
      BY <3>2 DEF Through
    <3>4. \A i \in 1..Len(gateWaiters[g]) : gateWaiters[g][i] \in Requests
      BY ElementOfSeq DEF GatesTyped
    <3>5. QueueIsWhole(g)'
      BY <3>1, <3>2, <3>4 DEF QueueIsWhole
    <3> QED
      BY <3>1, <3>2, <3>3, <3>5 DEF GateIsExact
  <2> QED
    BY <2>1, <2>2
<1> QED
  BY <1>2, <1>3, <1>4 DEF GateIsExact

\* The gates, step by step.
GatesWhole == CallsTyped /\ GatesTyped /\ GateIsExact /\ \A h \in Hosts : QueueIsWhole(h)

LEMMA GateStep ==
  ASSUME GatesWhole, LeasesOwned, OutlookPermitsNext
  PROVE  GatesWhole'
<1>0. CallsTyped /\ GatesTyped /\ GateIsExact /\ \A h \in Hosts : QueueIsWhole(h)
  BY DEF GatesWhole
<1>1. ASSUME NEW r \in Requests, EnterGate(r)
      PROVE  GatesWhole'
  BY <1>0, <1>1, EnterGateKeeps DEF GatesWhole
<1>2. ASSUME NEW r \in Requests, NEW next \in {"idle", "deleting"},
             call[r] \in {"leasing", "sending"}, LeaveGate(r, next)
      PROVE  GatesWhole'
  BY <1>0, <1>2, LeaveGateKeeps DEF GatesWhole
<1>3. ASSUME NEW r \in Requests, NEW pc \in Places, call' = [call EXCEPT ![r] = pc],
             UNCHANGED <<gateActive, gateWaiters>>,
             \/ call[r] = "waiting" /\ pc = "aborted"
             \/ call[r] = "leasing" /\ pc = "sending"
             \/ call[r] = "deleting" /\ pc = "idle"
      PROVE  GatesWhole'
  <2>1. CallsTyped' /\ GatesTyped'
    BY <1>0, <1>3 DEF CallsTyped, GatesTyped
  <2>2. call'[r] = pc /\ \A q \in Requests \ {r} : call'[q] = call[q]
    BY <1>0, <1>3 DEF CallsTyped
  <2>3. \A q \in Requests : /\ call'[q] \in InLine <=> call[q] \in InLine
                            /\ call'[q] \in {"leasing", "sending"}
                                 <=> call[q] \in {"leasing", "sending"}
                            /\ call'[q] = "waiting" => call[q] = "waiting"
    BY <1>3, <2>2 DEF InLine
  <2> QED
    BY <1>0, <1>3, <2>1, <2>3, GatesKept DEF GatesWhole
<1>4. CASE UNCHANGED <<call, gateActive, gateWaiters>>
  BY <1>0, <1>4, GatesKept DEF GatesWhole, CallsTyped, GatesTyped
<1>5. ASSUME NEW h \in Hosts, HostDies(h)
      PROVE  GatesWhole'
  BY <1>0, <1>5, HostDiesKeeps DEF GatesWhole
<1>6. ASSUME NEW r \in Requests,
             \/ AbortWaiting(r) \/ DeleteKey(r) \/ LeaseRunsOut(r)
             \/ \E s \in SlotKeys : TakeLease(r, s)
      PROVE  GatesWhole'
  BY <1>3, <1>4, <1>6 DEF AbortWaiting, DeleteKey, LeaseRunsOut, TakeLease, Places, InGate
<1>7. ASSUME NEW r \in Requests,
             LeaseFails(r) \/ ReleasePermit(r) \/ \E s \in SlotKeys : LeaseReplyLost(r, s)
      PROVE  GatesWhole'
  <2>1. call[r] \in {"leasing", "sending"}
    BY <1>7 DEF LeaseFails, ReleasePermit, LeaseReplyLost
  <2>2. LeaveGate(r, "idle") \/ LeaveGate(r, "deleting")
    BY <1>7 DEF LeaseFails, ReleasePermit, LeaseReplyLost
  <2> QED
    BY <1>2, <2>1, <2>2
<1>8. ASSUME NEW s \in SlotKeys, KeyLapses(s)
      PROVE  GatesWhole'
  BY <1>4, <1>8 DEF KeyLapses
<1> QED
  BY <1>1, <1>5, <1>6, <1>7, <1>8 DEF OutlookPermitsNext

-----------------------------------------------------------------------------
(* The leases.                                                              *)

LeasesWhole == LeasesTyped /\ LeasesOwned

\* Leaving the gate disturbs no other lease.
LEMMA OthersKeepTheirLease ==
  ASSUME GatesWhole, LeasesOwned, NEW r \in Requests, call[r] \in {"leasing", "sending"},
         NEW next \in {"idle", "deleting"}, LeaveGate(r, next)
  PROVE  /\ call'[r] = next
         /\ \A q \in inDate \ {r} : q \in Requests => call'[q] = call[q]
         /\ \A q \in Requests \ {r} : call'[q] = "deleting" => call[q] = "deleting"
<1> DEFINE ws == gateWaiters[HostOf[r]]
           n == Dropped(ws)
<1>1. /\ HostOf[r] \in Hosts /\ ws \in Seq(Requests) /\ QueueIsWhole(HostOf[r])
      /\ CallsTyped /\ GatesTyped
  BY OutlookPermitsAssumption DEF GatesWhole, GatesTyped
<1>2. LineMoves(r, next, ws, n) /\ n \in 0..Len(ws) /\ Len(ws) \in Nat
  BY <1>1, LeaveGateMoves, DroppedAreAborted
<1>3. \A i \in 1..n : call[ws[i]] \in InLine
  BY <1>1, <1>2 DEF QueueIsWhole
<1> HIDE DEF ws, n
<1>4. ASSUME NEW q \in Requests \ {r}, call[q] \notin InLine
      PROVE  call'[q] = call[q]
  BY <1>2, <1>3, <1>4 DEF LineMoves
<1>5. \A q \in inDate : call[q] \notin InLine
  BY DEF LeasesOwned, Leased, InLine
<1>6. ASSUME NEW q \in Requests \ {r}, call'[q] = "deleting"
      PROVE  call[q] = "deleting"
  <2>1. \A i \in 1..n : call'[ws[i]] # "deleting"
    BY <1>2 DEF LineMoves
  <2> QED
    BY <1>2, <1>6, <2>1 DEF LineMoves
<1> QED
  BY <1>2, <1>4, <1>5, <1>6 DEF LineMoves

LEMMA LeaseStep ==
  ASSUME GatesWhole, LeasesWhole, OutlookPermitsNext
  PROVE  LeasesWhole'
<1>0. LeasesTyped /\ LeasesOwned /\ inDate \subseteq Requests /\ CallsTyped
  BY DEF LeasesWhole, LeasesTyped, GatesWhole
<1>1. ASSUME NEW r \in Requests, EnterGate(r) \/ AbortWaiting(r)
      PROVE  LeasesWhole'
  <2>1. /\ call[r] \notin Leased /\ call'[r] \notin Leased
        /\ \A q \in Requests \ {r} : call'[q] = call[q]
        /\ UNCHANGED <<slotKey, lease, inDate>>
    BY <1>0, <1>1 DEF EnterGate, AbortWaiting, Leased, CallsTyped
  <2> QED
    BY <1>0, <2>1 DEF LeasesWhole, LeasesTyped, LeasesOwned, Leased
<1>2. ASSUME NEW r \in Requests, LeaseFails(r)
      PROVE  LeasesWhole'
  <2>1. /\ call[r] = "leasing" /\ r \notin inDate /\ LeaveGate(r, "idle")
        /\ UNCHANGED <<slotKey, lease, inDate>>
    BY <1>0, <1>2 DEF LeaseFails, LeasesOwned, Leased
  <2> QED
    BY <1>0, <2>1, OthersKeepTheirLease DEF LeasesWhole, LeasesTyped, LeasesOwned
<1>3. ASSUME NEW r \in Requests, NEW s \in SlotKeys, LeaseReplyLost(r, s)
      PROVE  LeasesWhole'
  <2>1. /\ call[r] = "leasing" /\ r \notin inDate /\ LeaveGate(r, "idle")
        /\ slotKey' = [slotKey EXCEPT ![s] = {NoOwner}] /\ slotKey[s] = {}
        /\ UNCHANGED <<lease, inDate>>
    BY <1>0, <1>3 DEF LeaseReplyLost, LeasesOwned, Leased
  <2>2. LeasesTyped'
    BY <1>0, <2>1 DEF LeasesTyped
  <2>3. \A t \in SlotKeys : slotKey[t] # {} => slotKey'[t] = slotKey[t]
    BY <1>0, <2>1 DEF LeasesTyped
  <2> QED
    BY <1>0, <2>1, <2>2, <2>3, OthersKeepTheirLease DEF LeasesWhole, LeasesOwned
<1>4. ASSUME NEW r \in Requests, ReleasePermit(r)
      PROVE  LeasesWhole'
  <2>1. /\ call[r] = "sending"
        /\ LeaveGate(r, IF r \in inDate THEN "deleting" ELSE "idle")
        /\ lease' = IF r \in inDate THEN lease ELSE [lease EXCEPT ![r] = {}]
        /\ UNCHANGED <<slotKey, inDate>>
    BY <1>4 DEF ReleasePermit
  <2>2. LeasesTyped'
    BY <1>0, <2>1 DEF LeasesTyped
  <2>3. \A q \in inDate : lease'[q] = lease[q]
    BY <1>0, <2>1 DEF LeasesTyped
  <2>4. /\ call'[r] = IF r \in inDate THEN "deleting" ELSE "idle"
        /\ \A q \in inDate \ {r} : call'[q] = call[q]
        /\ \A q \in Requests \ {r} : call'[q] = "deleting" => call[q] = "deleting"
    BY <1>0, <2>1, OthersKeepTheirLease
  <2> QED
    BY <1>0, <2>1, <2>2, <2>3, <2>4 DEF LeasesWhole, LeasesOwned, Leased
<1>5. ASSUME NEW r \in Requests, NEW s \in SlotKeys, TakeLease(r, s)
      PROVE  LeasesWhole'
  <2>1. /\ call[r] = "leasing" /\ r \notin inDate /\ slotKey[s] = {}
        /\ slotKey' = [slotKey EXCEPT ![s] = {r}]
        /\ lease' = [lease EXCEPT ![r] = {s}]
        /\ inDate' = inDate \cup {r}
        /\ call' = [call EXCEPT ![r] = "sending"]
    BY <1>0, <1>5 DEF TakeLease, LeasesOwned, Leased
  <2>2. LeasesTyped'
    BY <1>0, <2>1 DEF LeasesTyped
  <2>3. /\ \A t \in SlotKeys : slotKey[t] # {} => slotKey'[t] = slotKey[t]
        /\ slotKey'[s] = {r} /\ lease'[r] = {s} /\ call'[r] = "sending"
        /\ \A q \in Requests \ {r} : lease'[q] = lease[q] /\ call'[q] = call[q]
    BY <1>0, <2>1 DEF LeasesTyped, CallsTyped
  <2>4. ASSUME NEW q \in inDate'
        PROVE  /\ call'[q] \in Leased
               /\ \E t \in SlotKeys : lease'[q] = {t} /\ slotKey'[t] = {q}
    <3>1. CASE q = r
      BY <2>3, <3>1 DEF Leased
    <3>2. CASE q # r
      <4>1. q \in inDate /\ q \in Requests \ {r}
        BY <1>0, <2>1, <3>2
      <4>2. PICK t \in SlotKeys : lease[q] = {t} /\ slotKey[t] = {q}
        BY <1>0, <4>1 DEF LeasesOwned
      <4>3. lease'[q] = {t} /\ slotKey'[t] = {q}
        BY <2>3, <4>1, <4>2
      <4> QED
        BY <1>0, <2>3, <4>1, <4>3 DEF LeasesOwned
    <3> QED
      BY <3>1, <3>2
  <2>5. \A q \in Requests : call'[q] = "deleting" => q \in inDate'
    BY <1>0, <2>1, <2>3 DEF LeasesOwned
  <2> QED
    BY <2>2, <2>4, <2>5 DEF LeasesWhole, LeasesOwned
<1>6. ASSUME NEW r \in Requests, DeleteKey(r)
      PROVE  LeasesWhole'
  <2>1. /\ call[r] = "deleting" /\ r \in inDate
        /\ slotKey' = [t \in SlotKeys |-> IF t \in lease[r] THEN {} ELSE slotKey[t]]
        /\ lease' = [lease EXCEPT ![r] = {}]
        /\ inDate' = inDate \ {r}
        /\ call' = [call EXCEPT ![r] = "idle"]
    BY <1>0, <1>6 DEF DeleteKey, LeasesOwned
  <2>2. PICK s \in SlotKeys : lease[r] = {s} /\ slotKey[s] = {r}
    BY <1>0, <2>1 DEF LeasesOwned
  <2>3. LeasesTyped'
    BY <1>0, <2>1 DEF LeasesTyped
  <2>4. /\ call'[r] = "idle"
        /\ \A q \in Requests \ {r} : lease'[q] = lease[q] /\ call'[q] = call[q]
    BY <1>0, <2>1 DEF LeasesTyped, CallsTyped
  <2>5. ASSUME NEW q \in inDate'
        PROVE  /\ call'[q] \in Leased
               /\ \E t \in SlotKeys : lease'[q] = {t} /\ slotKey'[t] = {q}
    <3>1. q \in inDate /\ q \in Requests \ {r}
      BY <1>0, <2>1
    <3>2. PICK t \in SlotKeys : lease[q] = {t} /\ slotKey[t] = {q}
      BY <1>0, <3>1 DEF LeasesOwned
    <3>3. t # s
      BY <2>2, <3>1, <3>2
    <3>4. slotKey'[t] = {q} /\ lease'[q] = {t}
      BY <2>1, <2>2, <2>4, <3>1, <3>2, <3>3
    <3> QED
      BY <1>0, <2>4, <3>1, <3>4 DEF LeasesOwned
  <2>6. \A q \in Requests : call'[q] = "deleting" => q \in inDate'
    BY <1>0, <2>1, <2>4 DEF LeasesOwned
  <2> QED
    BY <2>3, <2>5, <2>6 DEF LeasesWhole, LeasesOwned
<1>7. ASSUME NEW r \in Requests, LeaseRunsOut(r)
      PROVE  LeasesWhole'
  BY <1>0, <1>7 DEF LeaseRunsOut, LeasesWhole, LeasesTyped, LeasesOwned
<1>8. ASSUME NEW s \in SlotKeys, KeyLapses(s)
      PROVE  LeasesWhole'
  <2>1. /\ slotKey[s] \cap inDate = {} /\ slotKey' = [slotKey EXCEPT ![s] = {}]
        /\ UNCHANGED <<call, lease, inDate>>
    BY <1>8 DEF KeyLapses
  <2>2. LeasesTyped'
    BY <1>0, <2>1 DEF LeasesTyped
  <2>3. \A t \in SlotKeys \ {s} : slotKey'[t] = slotKey[t]
    BY <1>0, <2>1 DEF LeasesTyped
  <2>4. ASSUME NEW q \in inDate
        PROVE  \E t \in SlotKeys : lease'[q] = {t} /\ slotKey'[t] = {q}
    <3>1. PICK t \in SlotKeys : lease[q] = {t} /\ slotKey[t] = {q}
      BY <1>0 DEF LeasesOwned
    <3>2. t # s
      BY <2>1, <3>1
    <3> QED
      BY <2>1, <2>3, <3>1, <3>2
  <2> QED
    BY <1>0, <2>1, <2>2, <2>4 DEF LeasesWhole, LeasesOwned
<1>9. ASSUME NEW h \in Hosts, HostDies(h)
      PROVE  LeasesWhole'
  <2> DEFINE mine == {r \in Requests : HostOf[r] = h}
  <2>1. /\ call' = [r \in Requests |-> IF r \in mine THEN "idle" ELSE call[r]]
        /\ slotKey' = [s \in SlotKeys |->
                         IF slotKey[s] \cap mine # {} THEN {NoOwner} ELSE slotKey[s]]
        /\ lease' = [r \in Requests |-> IF r \in mine THEN {} ELSE lease[r]]
        /\ inDate' = inDate \ mine
    BY <1>9 DEF HostDies
  <2> HIDE DEF mine
  <2>2. LeasesTyped'
    BY <1>0, <2>1 DEF LeasesTyped
  <2>3. ASSUME NEW q \in inDate'
        PROVE  /\ call'[q] \in Leased
               /\ \E t \in SlotKeys : lease'[q] = {t} /\ slotKey'[t] = {q}
    <3>1. q \in inDate /\ q \in Requests /\ q \notin mine
      BY <1>0, <2>1
    <3>2. PICK t \in SlotKeys : lease[q] = {t} /\ slotKey[t] = {q}
      BY <1>0, <3>1 DEF LeasesOwned
    <3>3. slotKey'[t] = {q} /\ lease'[q] = {t} /\ call'[q] = call[q]
      BY <2>1, <3>1, <3>2
    <3> QED
      BY <1>0, <3>1, <3>3 DEF LeasesOwned
  <2>4. \A q \in Requests : call'[q] = "deleting" => q \in inDate'
    BY <1>0, <2>1 DEF LeasesOwned
  <2> QED
    BY <2>2, <2>3, <2>4 DEF LeasesWhole, LeasesOwned
<1> QED
  BY <1>1, <1>2, <1>3, <1>4, <1>5, <1>6, <1>7, <1>8, <1>9 DEF OutlookPermitsNext

-----------------------------------------------------------------------------
(* The invariant.                                                           *)

LEMMA PermitParts ==
  /\ PermitInv <=> GatesWhole /\ LeasesWhole /\ OrphansTyped
  /\ PermitInv' <=> GatesWhole' /\ LeasesWhole' /\ OrphansTyped'
BY PermitTypeParts DEF PermitInv, GatesWhole, LeasesWhole

LEMMA OrphanStep ==
  ASSUME OrphansTyped, OutlookPermitsNext
  PROVE  OrphansTyped'
<1>1. orphans' = orphans \/ (orphans > 0 /\ orphans' = orphans - 1)
  BY DEF OutlookPermitsNext, EnterGate, AbortWaiting, LeaseFails, ReleasePermit, DeleteKey,
     LeaseRunsOut, TakeLease, LeaseReplyLost, KeyLapses, HostDies
<1>2. MaxOrphans \in Nat
  BY OutlookPermitsAssumption
<1> QED
  BY <1>1, <1>2 DEF OrphansTyped

LEMMA PermitInvInit == OutlookPermitsInit => PermitInv
<1> SUFFICES ASSUME OutlookPermitsInit PROVE PermitInv
  OBVIOUS
<1>1. CallsTyped
  BY DEF OutlookPermitsInit, CallsTyped, Places
<1>2. GatesTyped
  <2>1. 0 \in 0..GateWidth /\ <<>> \in Seq(Requests)
    BY OutlookPermitsAssumption, EmptySeq
  <2> QED
    BY <2>1 DEF OutlookPermitsInit, GatesTyped
<1>3. LeasesTyped /\ LeasesOwned
  BY DEF OutlookPermitsInit, LeasesTyped, LeasesOwned
<1>4. OrphansTyped
  <2>1. MaxOrphans \in Nat
    BY OutlookPermitsAssumption
  <2> QED
    BY <2>1 DEF OutlookPermitsInit, OrphansTyped
<1>5. ASSUME NEW h \in Hosts
      PROVE  QueueIsWhole(h) /\ gateActive[h] = Cardinality(Through(h))
  <2>1. gateWaiters[h] = <<>> /\ Len(<<>>) = 0 /\ gateActive[h] = 0
    BY EmptySeq DEF OutlookPermitsInit
  <2>2. \A r \in Requests : call[r] = "idle"
    BY DEF OutlookPermitsInit
  <2>3. Through(h) = {}
    BY <2>2 DEF Through
  <2>4. QueueIsWhole(h)
    BY <2>1, <2>2 DEF QueueIsWhole, InLine
  <2> QED
    BY <2>1, <2>3, <2>4, FS_EmptySet
<1>6. GateIsExact
  BY <1>5 DEF OutlookPermitsInit, GateIsExact
<1> QED
  BY <1>1, <1>2, <1>3, <1>4, <1>5, <1>6, PermitParts DEF GatesWhole, LeasesWhole

LEMMA PermitInvStep == PermitInv /\ [OutlookPermitsNext]_permitVars => PermitInv'
<1> SUFFICES ASSUME PermitInv, [OutlookPermitsNext]_permitVars
             PROVE  PermitInv'
  OBVIOUS
<1>1. CASE OutlookPermitsNext
  <2>1. GatesWhole /\ LeasesWhole /\ LeasesOwned /\ OrphansTyped
    BY PermitParts DEF LeasesWhole
  <2> QED
    BY <1>1, <2>1, PermitParts, GateStep, LeaseStep, OrphanStep
<1>2. CASE UNCHANGED permitVars
  <2> USE <1>2 DEF permitVars
  <2>1. GatesWhole /\ LeasesWhole /\ OrphansTyped
    BY PermitParts
  <2>2. CallsTyped' /\ GatesTyped'
    BY <2>1 DEF GatesWhole, CallsTyped, GatesTyped
  <2>3. GateIsExact' /\ \A h \in Hosts : QueueIsWhole(h)'
    BY <2>1 DEF GatesWhole, GateIsExact, Through, QueueIsWhole
  <2>4. LeasesWhole' /\ OrphansTyped'
    BY <2>1 DEF LeasesWhole, LeasesTyped, LeasesOwned, OrphansTyped
  <2> QED
    BY <2>2, <2>3, <2>4, PermitParts DEF GatesWhole
<1> QED
  BY <1>1, <1>2

\* The invariant of the permits: the line of each gate, its count and the leases.
THEOREM PermitInvariance == OutlookPermitsSpec => []PermitInv
BY PermitInvInit, PermitInvStep, PTL DEF OutlookPermitsSpec

\* The variables of OutlookPermits keep their kinds, for every set of requests and slots.
THEOREM PermitsTyped == OutlookPermitsSpec => []OutlookPermitsTypeOK
<1>1. PermitInv => OutlookPermitsTypeOK
  BY DEF PermitInv
<1> QED
  BY <1>1, PermitInvariance, PTL

\* Requests with a lease in date have a slot each, so they are no more than the slots.
LEMMA SlotEach ==
  ASSUME LeasesWhole
  PROVE  CapacityHeld
<1> DEFINE slotOf == [r \in inDate |-> CHOOSE s \in SlotKeys : lease[r] = {s} /\ slotKey[s] = {r}]
<1>1. \A r \in inDate : slotOf[r] \in SlotKeys /\ slotKey[slotOf[r]] = {r}
  BY DEF LeasesWhole, LeasesOwned
<1> HIDE DEF slotOf
<1>2. \A r, q \in inDate : slotOf[r] = slotOf[q] => r = q
  BY <1>1
<1>3. slotOf \in [inDate -> SlotKeys]
  BY <1>1 DEF slotOf
<1>4. slotOf \in Injection(inDate, SlotKeys)
  BY <1>2, <1>3 DEF Injection, IsInjective
<1> QED
  BY <1>4, OutlookPermitsAssumption, FS_Injection DEF CapacityHeld

\* No more requests have a lease in date than there are slots, each the owner of its key,
\* and each gate counts exactly who is through it (leased-semaphore.ts release, and
\* leaveAccountGate).
THEOREM PermitsAlwaysHold == OutlookPermitsSpec => []PermitsHold
<1>1. ASSUME PermitInv
      PROVE  PermitsHold
  <2>1. LeasesWhole /\ GateIsExact
    BY <1>1, PermitParts DEF GatesWhole
  <2>2. LeaseOwnsItsKey
    BY <2>1 DEF LeaseOwnsItsKey, LeasesWhole, LeasesOwned
  <2> QED
    BY <2>1, <2>2, SlotEach DEF PermitsHold
<1> QED
  BY <1>1, PermitInvariance, PTL

----------------------------------------------------------------------------
(***************************************************************************)
(* The safety properties of RateWindow for every set of takers, whatever   *)
(* each asks for and is allowed: no waiter that polls is overtaken or      *)
(* dropped, but for one that another token has passed.                     *)
(***************************************************************************)

(* The books of the window: the queue names each waiter once, what is noticed *)
(* is queued, only a taker that has stopped or was passed is silent, and of   *)
(* the noticed only the head has been passed by none.                         *)
QueueSound(q) == q \in Seq(Takers) /\ IsInjective(q)

WindowTypes ==
  /\ taker \in [Takers -> {"idle", "parked", "stopped"}]
  /\ spent \in Nat
  /\ stops \in 0..MaxStops
  /\ passed \in [Takers -> 0..MaxPassed]

NoticeSound == /\ silent \subseteq noticed /\ noticed \subseteq ToSet(line)
               /\ \A t \in silent : taker[t] = "stopped" \/ passed[t] > 0
               /\ \A t \in noticed : passed[t] = 0 => Head(line) = t

WindowInv == WindowTypes /\ QueueSound(line) /\ NoticeSound

----------------------------------------------------------------------------
(* Queues.                                                                    *)

\* Whom a queue names.
LEMMA QueueMembers ==
  ASSUME NEW q \in Seq(Takers)
  PROVE  /\ ToSet(q) = {q[i] : i \in 1..Len(q)}
         /\ ToSet(q) \subseteq Takers
         /\ Len(q) \in Nat
         /\ \A i \in 1..Len(q) : q[i] \in Takers
BY DEF ToSet

\* A queue without its head names everyone else.
LEMMA HeadAndTail ==
  ASSUME NEW q, QueueSound(q), q # <<>>
  PROVE  /\ QueueSound(Tail(q))
         /\ Head(q) \in Takers /\ Head(q) = q[1]
         /\ ToSet(Tail(q)) = ToSet(q) \ {Head(q)}
         /\ Head(q) \in ToSet(q)
<1>1. /\ q \in Seq(Takers) /\ Len(q) \in Nat \ {0} /\ DOMAIN q = 1..Len(q)
      /\ \A i, j \in 1..Len(q) : q[i] = q[j] => i = j
  BY EmptySeq DEF QueueSound, IsInjective
<1>2. /\ Tail(q) \in Seq(Takers) /\ Len(Tail(q)) = Len(q) - 1
      /\ \A i \in 1..(Len(q) - 1) : Tail(q)[i] = q[i + 1]
      /\ Head(q) = q[1] /\ Head(q) \in Takers
  BY <1>1, HeadTailProperties
<1>3. DOMAIN Tail(q) = 1..(Len(q) - 1)
  BY <1>1, <1>2
<1>4. IsInjective(Tail(q))
  BY <1>1, <1>2, <1>3 DEF IsInjective
<1>5. ASSUME NEW x PROVE x \in ToSet(Tail(q)) <=> x \in ToSet(q) \ {Head(q)}
  <2>1. ASSUME x \in ToSet(Tail(q)) PROVE x \in ToSet(q) \ {Head(q)}
    <3>1. PICK i \in 1..(Len(q) - 1) : x = Tail(q)[i]
      BY <1>3, <2>1 DEF ToSet
    <3>2. x = q[i + 1] /\ i + 1 \in 1..Len(q) /\ i + 1 # 1 /\ 1 \in 1..Len(q)
      BY <1>1, <1>2, <3>1
    <3> QED
      BY <1>1, <1>2, <3>2 DEF ToSet
  <2>2. ASSUME x \in ToSet(q), x # Head(q) PROVE x \in ToSet(Tail(q))
    <3>1. PICK i \in 1..Len(q) : x = q[i]
      BY <1>1, <2>2 DEF ToSet
    <3>2. i # 1
      BY <1>2, <2>2, <3>1
    <3>3. i - 1 \in 1..(Len(q) - 1) /\ (i - 1) + 1 = i
      BY <1>1, <3>2
    <3>4. Tail(q)[i - 1] = x
      BY <1>2, <3>1, <3>3
    <3> QED
      BY <1>3, <3>3, <3>4 DEF ToSet
  <2> QED
    BY <2>1, <2>2
<1>6. Head(q) \in ToSet(q)
  BY <1>1, <1>2 DEF ToSet
<1> QED
  BY <1>2, <1>4, <1>5, <1>6 DEF QueueSound

\* A queue without t names everyone else.
LEMMA WithoutSound ==
  ASSUME NEW q, QueueSound(q), NEW t
  PROVE  /\ QueueSound(Without(q, t)) /\ ToSet(Without(q, t)) = ToSet(q) \ {t}
         /\ q # <<>> /\ Head(q) # t => Head(Without(q, t)) = Head(q)
<1>1. CASE t \notin ToSet(q)
  BY <1>1 DEF Without
<1>2. CASE t \in ToSet(q)
  <2> DEFINE n == Len(q)
             k == CHOOSE i \in DOMAIN q : q[i] = t
             w == Without(q, t)
  <2>1. /\ q \in Seq(Takers) /\ n \in Nat /\ DOMAIN q = 1..n
        /\ \A i, j \in 1..n : q[i] = q[j] => i = j
    BY DEF QueueSound, IsInjective
  <2>2. k \in 1..n /\ q[k] = t
    BY <1>2, <2>1 DEF ToSet
  <2>3. w = SubSeq(q, 1, k - 1) \o SubSeq(q, k + 1, Len(q))
    BY <1>2 DEF Without, RemoveAt
  <2> HIDE DEF k, w
  <2>4. /\ SubSeq(q, 1, k - 1) \in Seq(Takers) /\ Len(SubSeq(q, 1, k - 1)) = k - 1
        /\ \A i \in 1..(k - 1) : SubSeq(q, 1, k - 1)[i] = q[i]
    <3>1. 1 \in 1..n + 1 /\ k - 1 \in 0..n
      BY <2>1, <2>2
    <3>2. \A i \in 1..(k - 1) : i \in 1..n
      BY <2>1, <2>2
    <3>3. \A i \in 1..(k - 1) : q[i] \in Takers
      BY <2>1, <3>2
    <3> QED
      BY <2>1, <2>2, <3>1, <3>2, <3>3
  <2>5. /\ SubSeq(q, k + 1, n) \in Seq(Takers) /\ Len(SubSeq(q, k + 1, n)) = n - k
        /\ \A i \in 1..(n - k) : SubSeq(q, k + 1, n)[i] = q[i + k]
    <3>1. \A i \in 1..(n - k) : i + k \in 1..n
      BY <2>1, <2>2
    <3>2. \A i \in (k + 1)..n : q[i] \in Takers
      BY <2>1, <2>2
    <3> DEFINE b == SubSeq(q, k + 1, n)
    <3> HIDE DEF n
    <3>3. /\ b \in Seq(Takers)
          /\ Len(b) = IF k + 1 <= n THEN n - (k + 1) + 1 ELSE 0
          /\ \A i \in 1..(n - (k + 1) + 1) : b[i] = q[(k + 1) + i - 1]
      BY <2>1, <2>2, <3>2, SubSeqProperties
    <3> HIDE DEF b
    <3>4. Len(b) = n - k
      BY <2>1, <2>2, <3>3
    <3>5. ASSUME NEW i \in 1..(n - k) PROVE b[i] = q[i + k]
      <4>1. i \in 1..(n - (k + 1) + 1) /\ (k + 1) + i - 1 = i + k
        BY <2>1, <2>2
      <4> QED
        BY <3>3, <4>1
    <3> QED
      BY <3>3, <3>4, <3>5 DEF b
  <2>6. /\ w \in Seq(Takers) /\ Len(w) = n - 1
        /\ \A i \in 1..(n - 1) : w[i] = IF i < k THEN q[i] ELSE q[i + 1]
    <3> DEFINE a == SubSeq(q, 1, k - 1)
               b == SubSeq(q, k + 1, n)
    <3>1. w = a \o b /\ a \in Seq(Takers) /\ b \in Seq(Takers) /\ Len(a) = k - 1 /\ Len(b) = n - k
      BY <2>3, <2>4, <2>5
    <3>2. /\ \A i \in 1..(k - 1) : a[i] = q[i]
          /\ \A i \in 1..(n - k) : b[i] = q[i + k]
      BY <2>4, <2>5
    <3> HIDE DEF a, b, n
    <3>3. w \in Seq(Takers) /\ Len(w) = Len(a) + Len(b)
      BY <3>1, ConcatProperties
    <3>4. \A i \in 1..(Len(a) + Len(b)) : w[i] = IF i <= Len(a) THEN a[i] ELSE b[i - Len(a)]
      BY <3>1, ConcatProperties
    <3>5. Len(w) = n - 1
      BY <2>1, <2>2, <3>1, <3>3
    <3>6. ASSUME NEW i \in 1..(n - 1) PROVE w[i] = IF i < k THEN q[i] ELSE q[i + 1]
      <4>1. w[i] = IF i <= k - 1 THEN a[i] ELSE b[i - (k - 1)]
        BY <2>1, <2>2, <3>1, <3>4
      <4>2. CASE i < k
        BY <2>1, <2>2, <3>2, <4>1, <4>2
      <4>3. CASE ~(i < k)
        <5>1. i - (k - 1) \in 1..(n - k) /\ i - (k - 1) + k = i + 1 /\ ~(i <= k - 1)
          BY <2>1, <2>2, <4>3
        <5> QED
          BY <3>2, <4>1, <4>3, <5>1
      <4> QED
        BY <4>2, <4>3
    <3> QED
      BY <3>3, <3>5, <3>6
  <2>7. DOMAIN w = 1..(n - 1)
    BY <2>6
  <2> HIDE DEF n
  <2>8. IsInjective(w)
    <3>1. SUFFICES ASSUME NEW i \in 1..(n - 1), NEW j \in 1..(n - 1), w[i] = w[j] PROVE i = j
      BY <2>7 DEF IsInjective
    <3>2. i \in 1..n /\ i + 1 \in 1..n /\ j \in 1..n /\ j + 1 \in 1..n
      BY <2>1
    <3>3. /\ w[i] = (IF i < k THEN q[i] ELSE q[i + 1])
          /\ w[j] = (IF j < k THEN q[j] ELSE q[j + 1])
      BY <2>6
    <3>4. (IF i < k THEN i ELSE i + 1) = (IF j < k THEN j ELSE j + 1)
      BY <2>1, <3>1, <3>2, <3>3
    <3> QED
      BY <2>1, <2>2, <3>4
  <2>9. ASSUME NEW x PROVE x \in ToSet(w) <=> x \in ToSet(q) \ {t}
    <3>1. ASSUME x \in ToSet(w) PROVE x \in ToSet(q) \ {t}
      <4>1. PICK i \in 1..(n - 1) : x = w[i]
        BY <2>7, <3>1 DEF ToSet
      <4>2. i \in 1..n /\ i + 1 \in 1..n
        BY <2>1
      <4>3. x = (IF i < k THEN q[i] ELSE q[i + 1])
        BY <2>6, <4>1
      <4>4. PICK j \in 1..n : x = q[j] /\ j # k
        <5>1. CASE i < k
          BY <4>2, <4>3, <5>1
        <5>2. CASE ~(i < k)
          BY <2>1, <2>2, <4>2, <4>3, <5>2
        <5> QED
          BY <5>1, <5>2
      <4> QED
        BY <2>1, <2>2, <4>4 DEF ToSet
    <3>2. ASSUME x \in ToSet(q), x # t PROVE x \in ToSet(w)
      <4>1. PICK j \in 1..n : x = q[j]
        BY <2>1, <3>2 DEF ToSet
      <4>2. j # k
        BY <2>2, <3>2, <4>1
      <4>3. CASE j < k
        <5>1. j \in 1..(n - 1) /\ w[j] = q[j]
          BY <2>1, <2>2, <2>6, <4>3
        <5> QED
          BY <2>7, <4>1, <5>1 DEF ToSet
      <4>4. CASE j > k
        <5>1. j - 1 \in 1..(n - 1) /\ ~(j - 1 < k) /\ (j - 1) + 1 = j
          BY <2>1, <2>2, <4>4
        <5>2. w[j - 1] = q[j]
          BY <2>6, <5>1
        <5> QED
          BY <2>7, <4>1, <5>1, <5>2 DEF ToSet
      <4> QED
        BY <2>1, <2>2, <4>2, <4>3, <4>4
    <3> QED
      BY <3>1, <3>2
  <2>10. QueueSound(w) /\ ToSet(w) = ToSet(q) \ {t}
    BY <2>6, <2>8, <2>9 DEF QueueSound
  <2>11. ASSUME Head(q) # t PROVE Head(w) = Head(q)
    <3>1. q # <<>> /\ Head(q) = q[1]
      BY <2>1, <2>2, EmptySeq, HeadAndTail
    <3>2. 1 < k /\ 1 \in 1..(n - 1)
      BY <2>1, <2>2, <2>11, <3>1
    <3>3. w[1] = q[1] /\ Len(w) # 0
      BY <2>1, <2>6, <3>2
    <3>4. w # <<>> /\ Head(w) = w[1]
      BY <2>6, <2>10, <3>3, EmptySeq, HeadAndTail
    <3> QED
      BY <3>1, <3>3, <3>4
  <2> QED
    BY <2>10, <2>11 DEF w
<1> QED
  BY <1>1, <1>2

\* A newcomer at its place: before it the queue is as it was, behind it one further.
LEMMA InsertSound ==
  ASSUME NEW q, QueueSound(q), NEW t \in Takers, t \notin ToSet(q), NEW k \in 1..Len(q) + 1
  PROVE  /\ QueueSound(InsertAt(q, k, t)) /\ ToSet(InsertAt(q, k, t)) = ToSet(q) \cup {t}
         /\ Len(InsertAt(q, k, t)) = Len(q) + 1
         /\ \A i \in 1..Len(q) + 1 :
              InsertAt(q, k, t)[i] = IF i < k THEN q[i] ELSE IF i = k THEN t ELSE q[i - 1]
<1> DEFINE n == Len(q)
           a == SubSeq(q, 1, k - 1)
           b == SubSeq(q, k, n)
           w == InsertAt(q, k, t)
<1>1. /\ q \in Seq(Takers) /\ n \in Nat /\ DOMAIN q = 1..n
      /\ \A i, j \in 1..n : q[i] = q[j] => i = j
      /\ \A i \in 1..n : q[i] \in Takers /\ q[i] # t
  BY DEF QueueSound, IsInjective, ToSet
<1>2. k \in 1..n + 1
  OBVIOUS
<1>3. w = (a \o <<t>>) \o b
  BY DEF InsertAt
<1> HIDE DEF n, w
<1>4. a \in Seq(Takers) /\ Len(a) = k - 1 /\ \A i \in 1..(k - 1) : a[i] = q[i]
  <2>1. 1 \in 1..n + 1 /\ k - 1 \in 0..n
    BY <1>1, <1>2
  <2>2. \A i \in 1..(k - 1) : i \in 1..n
    BY <1>1, <1>2
  <2>3. \A i \in 1..(k - 1) : q[i] \in Takers
    BY <1>1, <2>2
  <2> QED
    BY <1>1, <1>2, <2>1, <2>3
<1>5. b \in Seq(Takers) /\ Len(b) = n - k + 1 /\ \A i \in 1..(n - k + 1) : b[i] = q[k + i - 1]
  <2>1. \A i \in k..n : q[i] \in Takers
    BY <1>1, <1>2
  <2>2. /\ b \in Seq(Takers)
        /\ Len(b) = IF k <= n THEN n - k + 1 ELSE 0
        /\ \A i \in 1..(n - k + 1) : b[i] = q[k + i - 1]
    BY <1>1, <1>2, <2>1, SubSeqProperties
  <2> HIDE DEF b
  <2> QED
    BY <1>1, <1>2, <2>2
<1> HIDE DEF a, b
<1>6. /\ a \o <<t>> \in Seq(Takers) /\ Len(a \o <<t>>) = k
      /\ \A i \in 1..k : (a \o <<t>>)[i] = IF i < k THEN q[i] ELSE t
  <2>1. <<t>> \in Seq(Takers) /\ Len(<<t>>) = 1 /\ <<t>>[1] = t
    OBVIOUS
  <2>2. /\ a \o <<t>> \in Seq(Takers) /\ Len(a \o <<t>>) = Len(a) + 1
        /\ \A i \in 1..(Len(a) + 1) : (a \o <<t>>)[i] = IF i <= Len(a) THEN a[i] ELSE <<t>>[i - Len(a)]
    BY <1>4, <2>1, ConcatProperties
  <2>3. ASSUME NEW i \in 1..k PROVE (a \o <<t>>)[i] = IF i < k THEN q[i] ELSE t
    <3>1. (a \o <<t>>)[i] = IF i <= k - 1 THEN a[i] ELSE <<t>>[i - (k - 1)]
      BY <1>2, <1>4, <2>2
    <3>2. CASE i < k
      BY <1>2, <1>4, <3>1, <3>2
    <3>3. CASE i = k
      <4>1. i - (k - 1) = 1 /\ ~(i <= k - 1) /\ ~(i < k)
        BY <1>1, <1>2, <3>3
      <4>2. (a \o <<t>>)[i] = <<t>>[i - (k - 1)]
        BY <3>1, <4>1
      <4>3. (a \o <<t>>)[i] = <<t>>[1]
        BY <4>1, <4>2
      <4> QED
        BY <2>1, <4>1, <4>3
    <3>4. i < k \/ i = k
      BY <1>1, <1>2
    <3> QED
      BY <3>2, <3>3, <3>4
  <2> QED
    BY <1>1, <1>2, <1>4, <2>2, <2>3
<1> DEFINE c == a \o <<t>>
<1> HIDE DEF c
<1>7. /\ w \in Seq(Takers) /\ Len(w) = n + 1
      /\ \A i \in 1..n + 1 : w[i] = IF i < k THEN q[i] ELSE IF i = k THEN t ELSE q[i - 1]
  <2>1. /\ c \in Seq(Takers) /\ Len(c) = k /\ w = c \o b
        /\ \A i \in 1..k : c[i] = IF i < k THEN q[i] ELSE t
    BY <1>3, <1>6 DEF c
  <2>2. /\ w \in Seq(Takers) /\ Len(w) = Len(c) + Len(b)
        /\ \A i \in 1..(Len(c) + Len(b)) : w[i] = IF i <= Len(c) THEN c[i] ELSE b[i - Len(c)]
    BY <1>5, <2>1, ConcatProperties
  <2>3. ASSUME NEW i \in 1..n + 1
        PROVE  w[i] = IF i < k THEN q[i] ELSE IF i = k THEN t ELSE q[i - 1]
    <3>1. w[i] = IF i <= k THEN c[i] ELSE b[i - k]
      BY <1>1, <1>2, <1>5, <2>1, <2>2
    <3>2. CASE i <= k
      <4>1. i \in 1..k
        BY <1>2, <3>2
      <4> QED
        BY <1>2, <2>1, <3>1, <3>2, <4>1
    <3>3. CASE i > k
      <4>1. i - k \in 1..(n - k + 1) /\ k + (i - k) - 1 = i - 1
        BY <1>1, <1>2, <3>3
      <4>2. b[i - k] = q[i - 1]
        BY <1>5, <4>1
      <4> QED
        BY <1>2, <3>1, <3>3, <4>2
    <3> QED
      BY <1>1, <1>2, <3>2, <3>3
  <2> QED
    BY <1>1, <1>2, <1>5, <2>1, <2>2, <2>3
<1>8. DOMAIN w = 1..n + 1
  BY <1>7
<1>9. IsInjective(w)
  <2>1. SUFFICES ASSUME NEW i \in 1..n + 1, NEW j \in 1..n + 1, w[i] = w[j] PROVE i = j
    BY <1>8 DEF IsInjective
  <2>2. /\ w[i] = (IF i < k THEN q[i] ELSE IF i = k THEN t ELSE q[i - 1])
        /\ w[j] = (IF j < k THEN q[j] ELSE IF j = k THEN t ELSE q[j - 1])
    BY <1>7
  <2>3. /\ i < k => i \in 1..n
        /\ i > k => i - 1 \in 1..n
        /\ j < k => j \in 1..n
        /\ j > k => j - 1 \in 1..n
    BY <1>1, <1>2
  <2>4. CASE i = k \/ j = k
    <3>1. /\ i < k => w[i] # t
          /\ i > k => w[i] # t
          /\ j < k => w[j] # t
          /\ j > k => w[j] # t
      <4>1. i < k => w[i] = q[i]
        BY <2>2
      <4>2. i > k => w[i] = q[i - 1]
        BY <1>1, <1>2, <2>2
      <4>3. j < k => w[j] = q[j]
        BY <2>2
      <4>4. j > k => w[j] = q[j - 1]
        BY <1>1, <1>2, <2>2
      <4> QED
        BY <1>1, <2>3, <4>1, <4>2, <4>3, <4>4
    <3>2. (i = k => w[i] = t) /\ (j = k => w[j] = t)
      BY <1>1, <1>2, <2>2
    <3> QED
      BY <1>1, <1>2, <2>1, <2>4, <3>1, <3>2
  <2>5. CASE i # k /\ j # k
    <3>1. CASE i < k /\ j < k
      BY <1>1, <2>1, <2>2, <2>3, <3>1
    <3>2. CASE i < k /\ j > k
      <4>1. w[i] = q[i] /\ w[j] = q[j - 1]
        BY <1>1, <1>2, <2>2, <3>2
      <4>2. i = j - 1
        BY <1>1, <2>1, <2>3, <3>2, <4>1
      <4> QED
        BY <1>1, <1>2, <3>2, <4>2
    <3>3. CASE i > k /\ j < k
      <4>1. w[i] = q[i - 1] /\ w[j] = q[j]
        BY <1>1, <1>2, <2>2, <3>3
      <4>2. i - 1 = j
        BY <1>1, <2>1, <2>3, <3>3, <4>1
      <4> QED
        BY <1>1, <1>2, <3>3, <4>2
    <3>4. CASE i > k /\ j > k
      <4>1. w[i] = q[i - 1] /\ w[j] = q[j - 1]
        BY <1>1, <1>2, <2>2, <3>4
      <4>2. i - 1 = j - 1
        BY <1>1, <2>1, <2>3, <3>4, <4>1
      <4> QED
        BY <1>1, <1>2, <4>2
    <3> QED
      BY <1>1, <1>2, <2>5, <3>1, <3>2, <3>3, <3>4
  <2> QED
    BY <2>4, <2>5
<1>10. ASSUME NEW x PROVE x \in ToSet(w) <=> x \in ToSet(q) \cup {t}
  <2>1. ASSUME x \in ToSet(w) PROVE x \in ToSet(q) \cup {t}
    <3>1. PICK i \in 1..n + 1 : x = w[i]
      BY <1>8, <2>1 DEF ToSet
    <3>2. /\ i < k => i \in 1..n
          /\ i > k => i - 1 \in 1..n
      BY <1>1, <1>2
    <3>3. w[i] = (IF i < k THEN q[i] ELSE IF i = k THEN t ELSE q[i - 1])
      BY <1>7
    <3> QED
      BY <1>1, <1>2, <3>1, <3>2, <3>3 DEF ToSet
  <2>2. ASSUME x \in ToSet(q) PROVE x \in ToSet(w)
    <3>1. PICK i \in 1..n : x = q[i]
      BY <1>1, <2>2 DEF ToSet
    <3>2. i \in 1..n + 1 /\ i + 1 \in 1..n + 1 /\ (i + 1) - 1 = i
      BY <1>1
    <3>3. CASE i < k
      BY <1>7, <1>8, <3>1, <3>2, <3>3 DEF ToSet
    <3>4. CASE ~(i < k)
      <4>1. ~(i + 1 < k) /\ i + 1 # k
        BY <1>1, <1>2, <3>4
      <4>2. w[i + 1] = q[i]
        BY <1>7, <3>2, <4>1
      <4> QED
        BY <1>8, <3>1, <3>2, <4>2 DEF ToSet
    <3> QED
      BY <3>3, <3>4
  <2>3. t \in ToSet(w)
    <3>1. w[k] = t
      BY <1>2, <1>7
    <3> QED
      BY <1>2, <1>8, <3>1 DEF ToSet
  <2> QED
    BY <2>1, <2>2, <2>3
<1>11. /\ QueueSound(w) /\ ToSet(w) = ToSet(q) \cup {t} /\ Len(w) = n + 1
       /\ \A i \in 1..n + 1 : w[i] = IF i < k THEN q[i] ELSE IF i = k THEN t ELSE q[i - 1]
  BY <1>7, <1>9, <1>10 DEF QueueSound
<1> QED
  BY <1>11 DEF w, n

\* A token that joins lands behind the head, or before all; those it passes
\* have not been passed too often.
LEMMA JoinedSound ==
  ASSUME NEW q, QueueSound(q), NEW t \in Takers, t \notin ToSet(q), NEW w \in Joined(q, t),
         passed \in [Takers -> 0..MaxPassed]
  PROVE  /\ QueueSound(w) /\ ToSet(w) = ToSet(q) \cup {t}
         /\ \A s \in Takers : Behind(w, t, s) => s \in ToSet(q) /\ passed[s] < MaxPassed
         /\ Head(w) = Head(q) \/ \A s \in ToSet(q) : Behind(w, t, s)
<1>1. PICK k \in Landings(q) : w = InsertAt(q, k, t)
  BY DEF Joined
<1> DEFINE n == Len(q)
<1>2. /\ k \in 1..n + 1 /\ n \in Nat /\ DOMAIN q = 1..n
      /\ \A j \in k..n : passed[q[j]] < MaxPassed
      /\ \A i \in 1..n : q[i] \in Takers /\ q[i] # t
  BY DEF Landings, QueueSound, ToSet
<1>3. /\ QueueSound(w) /\ ToSet(w) = ToSet(q) \cup {t} /\ Len(w) = n + 1
      /\ \A i \in 1..n + 1 : w[i] = IF i < k THEN q[i] ELSE IF i = k THEN t ELSE q[i - 1]
  BY <1>1, <1>2, InsertSound
<1> HIDE DEF n
<1>4. w # <<>> /\ Head(w) = w[1]
  <2>1. ToSet(w) # {}
    BY <1>3
  <2>2. ToSet(<<>>) = {}
    BY DEF ToSet
  <2> QED
    BY <1>3, <2>1, <2>2, HeadAndTail
<1>5. ASSUME NEW s \in Takers, Behind(w, t, s) PROVE s \in ToSet(q) /\ passed[s] < MaxPassed
  <2>1. PICK i \in 1..n + 1, j \in 1..n + 1 : w[i] = t /\ w[j] = s /\ i < j
    BY <1>3, <1>5 DEF Behind
  <2>2. i = k
    <3>1. /\ i < k => i \in 1..n /\ w[i] = q[i]
          /\ i > k => i - 1 \in 1..n /\ w[i] = q[i - 1]
      BY <1>2, <1>3
    <3> QED
      BY <1>2, <2>1, <3>1
  <2>3. j - 1 \in k..n /\ j - 1 \in 1..n /\ w[j] = q[j - 1]
    BY <1>2, <1>3, <2>1, <2>2
  <2> QED
    BY <1>2, <2>1, <2>3 DEF ToSet
<1>6. CASE k = 1
  <2>1. ASSUME NEW s \in ToSet(q) PROVE Behind(w, t, s)
    <3>1. PICK i \in 1..n : q[i] = s
      BY <1>2 DEF ToSet
    <3>2. 1 \in 1..n + 1 /\ i + 1 \in 1..n + 1 /\ ~(i + 1 < k) /\ i + 1 # k /\ (i + 1) - 1 = i /\ 1 < i + 1
      BY <1>2, <1>6
    <3>3. w[1] = t /\ w[i + 1] = s
      BY <1>3, <1>6, <3>1, <3>2
    <3> QED
      BY <1>3, <3>2, <3>3 DEF Behind
  <2> QED
    BY <1>3, <1>5, <2>1
<1>7. CASE k # 1
  <2>1. 1 \in 1..n + 1 /\ 1 < k /\ n # 0
    BY <1>2, <1>7
  <2>2. w[1] = q[1]
    BY <1>3, <2>1
  <2>3. q # <<>> /\ Head(q) = q[1]
    <3>1. q # <<>>
      BY <2>1 DEF n
    <3> QED
      BY <3>1, HeadAndTail
  <2> QED
    BY <1>3, <1>4, <1>5, <2>2, <2>3
<1> QED
  BY <1>6, <1>7

----------------------------------------------------------------------------
(* The steps.                                                                 *)

\* Reaping drops no one but a silent head other than the caller, which has stopped or
\* was passed; of those noticed then, only the head was passed by none.
LEMMA ReapedSound ==
  ASSUME WindowInv, NEW t \in Takers
  PROVE  /\ QueueSound(Reaped(t))
         /\ ToSet(Reaped(t)) \subseteq ToSet(line)
         /\ \A q \in ToSet(line) \ ToSet(Reaped(t)) :
              q \in silent /\ q # t /\ (taker[q] = "stopped" \/ passed[q] > 0)
         /\ Noted(t) \subseteq ToSet(Reaped(t))
         /\ silent \cap ToSet(Reaped(t)) \subseteq Noted(t)
         /\ \A q \in Noted(t) : passed[q] = 0 => Head(Reaped(t)) = q
<1> USE DEF WindowInv, NoticeSound
<1>1. CASE line = <<>> \/ Head(line) = t
  <2>1. Reaped(t) = line /\ Noted(t) = noticed
    BY <1>1 DEF Reaped, Noted
  <2> QED
    BY <2>1
<1>2. CASE line # <<>> /\ Head(line) # t /\ Head(line) \in silent
  <2>1. Reaped(t) = Tail(line) /\ Noted(t) = noticed \ {Head(line)}
    BY <1>2 DEF Reaped, Noted
  <2>2. QueueSound(Tail(line)) /\ ToSet(Tail(line)) = ToSet(line) \ {Head(line)}
    BY <1>2, HeadAndTail
  <2> QED
    BY <1>2, <2>1, <2>2
<1>3. CASE line # <<>> /\ Head(line) # t /\ Head(line) \notin silent
  <2>1. Reaped(t) = line /\ Noted(t) = noticed \cup {Head(line)}
    BY <1>3 DEF Reaped, Noted
  <2>2. Head(line) \in ToSet(line)
    BY <1>3, HeadAndTail
  <2> QED
    BY <1>3, <2>1, <2>2
<1> QED
  BY <1>1, <1>2, <1>3

\* Who is queued has been passed as often as before, who is not by none.
LEMMA PassedSound ==
  ASSUME WindowTypes, NEW q
  PROVE  /\ PassedIn(q) \in [Takers -> 0..MaxPassed]
         /\ \A t \in Takers : PassedIn(q)[t] = IF t \in ToSet(q) THEN passed[t] ELSE 0
BY RateWindowAssumption DEF WindowTypes, PassedIn

\* Where the takers are when those that were dropped are gone.
LEMMA GoneSound ==
  ASSUME WindowTypes, NEW q
  PROVE  /\ StoppedGone(q) \in [Takers -> {"idle", "parked", "stopped"}]
         /\ \A t \in Takers : StoppedGone(q)[t] =
              IF taker[t] = "stopped" /\ t \notin ToSet(q) THEN "idle" ELSE taker[t]
BY DEF WindowTypes, StoppedGone

\* A call without a token: granted before an empty queue, or told to wait.
LEMMA FirstCallKeeps ==
  ASSUME WindowInv, NEW t \in Takers, FirstCall(t) PROVE WindowInv'
<1> USE DEF WindowInv
<1>1. taker[t] = "idle" /\ stops' = stops /\ spent \in Nat /\ Need[t] \in Nat
  BY RateWindowAssumption DEF FirstCall, WindowTypes
<1>2. CASE HasRoom(t)
  <2> DEFINE q == Reaped(t)
             to == IF q = <<>> THEN "idle" ELSE "parked"
  <2>1. /\ line' = q /\ noticed' = Noted(t) /\ silent' = silent \cap ToSet(q)
        /\ passed' = PassedIn(q)
        /\ taker' = [StoppedGone(q) EXCEPT ![t] = to]
        /\ spent' = (IF q = <<>> THEN spent + Need[t] ELSE spent)
    BY <1>2 DEF FirstCall
  <2>2. /\ QueueSound(q)
        /\ Noted(t) \subseteq ToSet(q)
        /\ silent \cap ToSet(q) \subseteq Noted(t)
        /\ \A s \in Noted(t) : passed[s] = 0 => Head(q) = s
    BY ReapedSound
  <2>3. to \in {"idle", "parked", "stopped"}
    OBVIOUS
  <2> HIDE DEF q, to
  <2>4. /\ taker' \in [Takers -> {"idle", "parked", "stopped"}]
        /\ \A s \in Takers \ {t} : taker'[s] = StoppedGone(q)[s]
    BY <2>1, <2>3, GoneSound
  <2>5. spent' \in Nat
    BY <1>1, <2>1
  <2>6. ToSet(q) \subseteq Takers
    BY <2>2, QueueMembers DEF QueueSound
  <2>7. passed' \in [Takers -> 0..MaxPassed] /\ \A s \in ToSet(q) : passed'[s] = passed[s]
    BY <2>1, <2>6, PassedSound
  <2>8. \A s \in silent' : taker'[s] = "stopped" \/ passed'[s] > 0
    <3>1. SUFFICES ASSUME NEW s \in silent', ~(passed[s] > 0) PROVE taker'[s] = "stopped"
      BY <2>1, <2>7
    <3>2. s \in silent /\ s \in ToSet(q) /\ taker[s] = "stopped"
      BY <2>1, <3>1 DEF NoticeSound
    <3>3. s \in Takers /\ s # t
      BY <1>1, <2>6, <3>2
    <3>4. StoppedGone(q)[s] = taker[s]
      BY <3>2, <3>3, GoneSound
    <3> QED
      BY <2>4, <3>2, <3>3, <3>4
  <2>9. \A s \in noticed' : passed'[s] = 0 => Head(line') = s
    BY <2>1, <2>2, <2>7
  <2> QED
    BY <1>1, <2>1, <2>2, <2>4, <2>5, <2>7, <2>8, <2>9 DEF WindowTypes, NoticeSound
<1>3. CASE ~HasRoom(t)
  <2>1. /\ taker' = [taker EXCEPT ![t] = "parked"] /\ UNCHANGED <<spent, line, noticed, silent, passed>>
    BY <1>3 DEF FirstCall
  <2>2. silent \subseteq Takers
    BY QueueMembers DEF NoticeSound, QueueSound
  <2>3. \A s \in silent : taker[s] = "stopped" => taker'[s] = "stopped"
    BY <1>1, <2>1, <2>2 DEF WindowTypes
  <2> QED
    BY <1>1, <2>1, <2>3 DEF WindowTypes, NoticeSound
<1> QED
  BY <1>2, <1>3

\* What a call with its token does to the queue: the caller leaves when it is granted,
\* and else it is queued, where it was or where it lands.
LEMMA QueuedCallMoves ==
  ASSUME WindowInv, NEW t \in Takers, QueuedCall(t)
  PROVE  LET reaped == Reaped(t)
             granted == (reaped = <<>> \/ Head(reaped) = t) /\ HasRoom(t) IN
         /\ QueueSound(line')
         /\ passed' \in [Takers -> 0..MaxPassed]
         /\ \A s \in ToSet(line') : s \in Takers /\ passed'[s] >= IF s = t /\ t \notin ToSet(line) THEN 0 ELSE passed[s]
         /\ granted => /\ ToSet(line') = ToSet(reaped) \ {t}
                       /\ reaped # <<>> => Head(reaped) = t
         /\ ~granted => ToSet(line') = ToSet(reaped) \cup {t}
         /\ ~granted /\ reaped # <<>> =>
              Head(line') = Head(reaped) \/ \A s \in ToSet(reaped) : passed'[s] > 0
<1> DEFINE reaped == Reaped(t)
           granted == (reaped = <<>> \/ Head(reaped) = t) /\ HasRoom(t)
<1>1. /\ line' \in (IF granted THEN {Without(reaped, t)} ELSE Joined(reaped, t))
      /\ passed' = [s \in Takers |-> IF t \notin ToSet(line) /\ Behind(line', t, s)
                                     THEN passed[s] + 1 ELSE PassedIn(line')[s]]
  BY DEF QueuedCall
<1>2. /\ QueueSound(reaped) /\ ToSet(reaped) \subseteq ToSet(line)
      /\ t \in ToSet(line) => t \in ToSet(reaped)
  BY ReapedSound
<1>3. passed \in [Takers -> 0..MaxPassed] /\ WindowTypes /\ MaxPassed \in Nat
  BY RateWindowAssumption DEF WindowInv, WindowTypes
<1>4. ToSet(reaped) \subseteq Takers
  BY <1>2, QueueMembers DEF QueueSound
<1>5. granted => (reaped # <<>> => Head(reaped) = t)
  OBVIOUS
<1>6. ToSet(<<>>) = {}
  BY DEF ToSet
<1> HIDE DEF reaped, granted
<1>7. CASE granted
  <2>1. line' = Without(reaped, t)
    BY <1>1, <1>7
  <2>2. QueueSound(line') /\ ToSet(line') = ToSet(reaped) \ {t}
    BY <1>2, <2>1, WithoutSound
  <2>3. ASSUME NEW s PROVE ~Behind(line', t, s)
    <3>1. \A i \in 1..Len(line') : line'[i] \in ToSet(line')
      BY <2>2 DEF ToSet, QueueSound
    <3> QED
      BY <2>2, <3>1 DEF Behind
  <2>4. passed' = [s \in Takers |-> PassedIn(line')[s]]
    BY <1>1, <2>3
  <2>5. /\ passed' \in [Takers -> 0..MaxPassed]
        /\ \A s \in Takers : passed'[s] = IF s \in ToSet(line') THEN passed[s] ELSE 0
    BY <1>3, <2>4, PassedSound
  <2>6. \A s \in ToSet(line') : s \in Takers /\ s # t /\ passed'[s] >= passed[s]
    BY <1>3, <1>4, <2>2, <2>5
  <2> QED
    BY <1>5, <1>7, <2>2, <2>5, <2>6 DEF reaped, granted
<1>8. CASE ~granted /\ t \in ToSet(reaped)
  <2>1. line' = reaped /\ t \in ToSet(line)
    BY <1>1, <1>2, <1>8 DEF Joined
  <2>2. passed' = [s \in Takers |-> PassedIn(line')[s]]
    BY <1>1, <2>1
  <2>3. /\ passed' \in [Takers -> 0..MaxPassed]
        /\ \A s \in Takers : passed'[s] = IF s \in ToSet(line') THEN passed[s] ELSE 0
    BY <1>3, <2>2, PassedSound
  <2>4. \A s \in ToSet(line') : s \in Takers /\ passed'[s] >= passed[s]
    BY <1>3, <1>4, <2>1, <2>3
  <2> QED
    BY <1>2, <1>8, <2>1, <2>3, <2>4 DEF reaped, granted
<1>9. CASE ~granted /\ t \notin ToSet(reaped)
  <2>1. line' \in Joined(reaped, t) /\ t \notin ToSet(line)
    BY <1>1, <1>2, <1>9
  <2>2. /\ QueueSound(line') /\ ToSet(line') = ToSet(reaped) \cup {t}
        /\ \A s \in Takers : Behind(line', t, s) => s \in ToSet(reaped) /\ passed[s] < MaxPassed
        /\ Head(line') = Head(reaped) \/ \A s \in ToSet(reaped) : Behind(line', t, s)
    BY <1>2, <1>3, <1>9, <2>1, JoinedSound
  <2>3. \A s \in Takers : passed'[s] = IF Behind(line', t, s) THEN passed[s] + 1
                                       ELSE IF s \in ToSet(line') THEN passed[s] ELSE 0
    BY <1>1, <1>3, <2>1, PassedSound
  <2>4. passed' \in [Takers -> 0..MaxPassed]
    <3>1. \A s \in Takers : passed'[s] \in 0..MaxPassed
      <4>1. SUFFICES ASSUME NEW s \in Takers PROVE passed'[s] \in 0..MaxPassed
        OBVIOUS
      <4>2. passed[s] \in 0..MaxPassed
        BY <1>3
      <4> QED
        BY <1>3, <2>2, <2>3, <4>2
    <3> QED
      BY <1>1, <3>1
  <2>5. ASSUME NEW s \in ToSet(line')
        PROVE  /\ s \in Takers
               /\ passed'[s] >= IF s = t /\ t \notin ToSet(line) THEN 0 ELSE passed[s]
    <3>1. s \in Takers
      BY <1>4, <2>2
    <3>2. passed[s] \in 0..MaxPassed /\ passed'[s] \in {passed[s], passed[s] + 1}
      BY <1>3, <2>3, <3>1
    <3> QED
      BY <1>3, <3>1, <3>2
  <2>6. ASSUME NEW s \in ToSet(reaped), Behind(line', t, s) PROVE passed'[s] > 0
    <3>1. s \in Takers /\ passed[s] \in 0..MaxPassed
      BY <1>3, <1>4
    <3> QED
      BY <1>3, <2>3, <2>6, <3>1
  <2> QED
    BY <1>9, <2>2, <2>4, <2>5, <2>6 DEF reaped, granted
<1> QED
  BY <1>7, <1>8, <1>9

\* A call with its token: granted at the head, or queued once.
LEMMA QueuedCallKeeps ==
  ASSUME WindowInv, NEW t \in Takers, QueuedCall(t) PROVE WindowInv'
<1> USE DEF WindowInv
<1> DEFINE reaped == Reaped(t)
           granted == (reaped = <<>> \/ Head(reaped) = t) /\ HasRoom(t)
           left == IF reaped # <<>> /\ Head(reaped) = t THEN {t} ELSE {}
           to == IF granted THEN "idle" ELSE "parked"
<1>1. /\ taker[t] = "parked" /\ stops' = stops
      /\ noticed' = (Noted(t) \ left) \cap ToSet(line')
      /\ silent' = (silent \ left) \cap ToSet(line')
      /\ spent' = (IF granted THEN spent + Need[t] ELSE spent)
      /\ taker' = [StoppedGone(line') EXCEPT ![t] = to]
  BY DEF QueuedCall
<1>2. to \in {"idle", "parked", "stopped"} /\ (Head(reaped) = t /\ reaped # <<>> => left = {t})
  OBVIOUS
<1>3. /\ ToSet(reaped) \subseteq ToSet(line)
      /\ t \in ToSet(line) => t \in ToSet(reaped)
      /\ Noted(t) \subseteq ToSet(reaped)
      /\ silent \cap ToSet(reaped) \subseteq Noted(t)
      /\ \A s \in Noted(t) : passed[s] = 0 => Head(reaped) = s
  BY ReapedSound
<1>4. /\ QueueSound(line') /\ passed' \in [Takers -> 0..MaxPassed]
      /\ \A s \in ToSet(line') : s \in Takers /\ passed'[s] >= IF s = t /\ t \notin ToSet(line) THEN 0 ELSE passed[s]
      /\ granted => /\ ToSet(line') = ToSet(reaped) \ {t}
                    /\ reaped # <<>> => Head(reaped) = t
      /\ ~granted => ToSet(line') = ToSet(reaped) \cup {t}
      /\ ~granted /\ reaped # <<>> =>
           Head(line') = Head(reaped) \/ \A s \in ToSet(reaped) : passed'[s] > 0
  BY QueuedCallMoves
<1>5. spent' \in Nat
  <2> HIDE DEF granted
  <2> QED
    BY <1>1, RateWindowAssumption DEF WindowTypes
<1>6. ToSet(<<>>) = {}
  BY DEF ToSet
<1> HIDE DEF reaped, granted, to, left
<1>7. /\ taker' \in [Takers -> {"idle", "parked", "stopped"}]
      /\ \A s \in Takers \ {t} : taker'[s] = StoppedGone(line')[s]
  BY <1>1, <1>2, GoneSound
<1>8. \A s \in ToSet(line) : s \in ToSet(line') => s \in ToSet(reaped) /\ passed'[s] >= passed[s]
  BY <1>3, <1>4
<1>9. silent \subseteq ToSet(line) /\ passed \in [Takers -> 0..MaxPassed] /\ MaxPassed \in Nat
  BY RateWindowAssumption DEF NoticeSound, WindowTypes
<1>10. silent' \subseteq noticed' /\ noticed' \subseteq ToSet(line')
  BY <1>1, <1>3, <1>8, <1>9
<1>11. ASSUME NEW s \in silent', ~(passed'[s] > 0) PROVE taker'[s] = "stopped"
  <2>1. s \in silent /\ s \in ToSet(line') /\ s \in Takers /\ passed'[s] >= passed[s]
    BY <1>1, <1>4, <1>8, <1>9
  <2>2. passed[s] \in 0..MaxPassed /\ passed'[s] \in 0..MaxPassed
    BY <1>4, <1>9, <2>1
  <2>3. ~(passed[s] > 0)
    BY <1>9, <1>11, <2>1, <2>2
  <2>4. taker[s] = "stopped" /\ s # t
    BY <1>1, <2>1, <2>3 DEF NoticeSound
  <2>5. StoppedGone(line')[s] = taker[s]
    BY <2>1, GoneSound
  <2> QED
    BY <1>7, <2>1, <2>4, <2>5
<1>12. ASSUME NEW s \in noticed', passed'[s] = 0 PROVE Head(line') = s
  <2>1. s \in Noted(t) /\ s \notin left /\ s \in ToSet(line') /\ s \in ToSet(reaped) /\ reaped # <<>>
    BY <1>1, <1>3, <1>6
  <2>2. s \in Takers /\ passed'[s] >= passed[s]
    BY <1>3, <1>4, <1>8, <2>1
  <2>3. passed[s] = 0
    <3>1. passed[s] \in 0..MaxPassed
      BY <1>9, <2>2
    <3> QED
      BY <1>9, <1>12, <2>2, <3>1
  <2>4. Head(reaped) = s
    BY <1>3, <2>1, <2>3
  <2>5. ~granted
    BY <1>4, <2>1, <2>4
  <2>6. ~(passed'[s] > 0)
    BY <1>12
  <2> QED
    BY <1>4, <2>1, <2>4, <2>5, <2>6
<1> QED
  BY <1>1, <1>4, <1>5, <1>7, <1>10, <1>11, <1>12 DEF WindowTypes, NoticeSound

\* A waiter that leaves leaves the queue and the notices.
LEMMA LeaveQueueKeeps ==
  ASSUME WindowInv, NEW t \in Takers, LeaveQueue(t) PROVE WindowInv'
<1> USE DEF WindowInv
<1>1. /\ QueueSound(line') /\ ToSet(line') = ToSet(line) \ {t}
      /\ line # <<>> /\ Head(line) # t => Head(line') = Head(line)
  BY WithoutSound DEF LeaveQueue
<1>2. /\ taker[t] = "parked" /\ taker' = [taker EXCEPT ![t] = "idle"]
      /\ passed' = [passed EXCEPT ![t] = 0]
      /\ noticed' = noticed \ {t} /\ silent' = silent \ {t} /\ UNCHANGED <<spent, stops>>
  BY DEF LeaveQueue
<1>3. ToSet(line) \subseteq Takers /\ ToSet(<<>>) = {}
  BY QueueMembers DEF QueueSound, ToSet
<1>4. passed' \in [Takers -> 0..MaxPassed] /\ \A s \in Takers \ {t} : passed'[s] = passed[s] /\ taker'[s] = taker[s]
  BY <1>2, RateWindowAssumption DEF WindowTypes
<1>5. \A s \in silent' : taker'[s] = "stopped" \/ passed'[s] > 0
  BY <1>2, <1>3, <1>4 DEF NoticeSound
<1>6. \A s \in noticed' : passed'[s] = 0 => Head(line') = s
  BY <1>1, <1>2, <1>3, <1>4 DEF NoticeSound
<1> QED
  BY <1>1, <1>2, <1>4, <1>5, <1>6 DEF WindowTypes, NoticeSound

\* Calls with priority, deaths, and time.
LEMMA OtherCallsKeep ==
  ASSUME WindowInv, NEW t \in Takers,
         InteractiveCall(t) \/ StopPolling(t) \/ GracePasses(t) \/ EntryExpires
  PROVE  WindowInv'
<1> USE DEF WindowInv
<1>1. CASE InteractiveCall(t)
  BY <1>1, RateWindowAssumption DEF InteractiveCall, WindowTypes, NoticeSound
<1>2. CASE StopPolling(t)
  <2>1. /\ taker[t] = "parked" /\ stops' \in 0..MaxStops
        /\ UNCHANGED <<spent, line, noticed, silent, passed>>
        /\ taker' \in [Takers -> {"idle", "parked", "stopped"}]
        /\ \A s \in Takers \ {t} : taker'[s] = taker[s]
    BY <1>2, RateWindowAssumption DEF StopPolling, WindowTypes
  <2>2. silent \subseteq Takers
    BY QueueMembers DEF NoticeSound, QueueSound
  <2>3. \A s \in silent : taker[s] = "stopped" => taker'[s] = "stopped"
    BY <2>1, <2>2
  <2> QED
    BY <2>1, <2>3 DEF WindowTypes, NoticeSound
<1>3. CASE GracePasses(t)
  <2>1. /\ t \in noticed /\ silent' = silent \cup {t}
        /\ taker[t] = "stopped" \/ t # Head(line)
        /\ UNCHANGED <<taker, spent, line, noticed, passed, stops>>
    BY <1>3 DEF GracePasses
  <2>2. taker[t] = "stopped" \/ passed[t] > 0
    <3>1. passed[t] \in 0..MaxPassed
      BY DEF WindowTypes
    <3> QED
      BY <2>1, <3>1, RateWindowAssumption DEF NoticeSound
  <2> QED
    BY <2>1, <2>2 DEF WindowTypes, NoticeSound
<1>4. CASE EntryExpires
  BY <1>4 DEF EntryExpires, WindowTypes, NoticeSound
<1> QED
  BY <1>1, <1>2, <1>3, <1>4

\* The queue starts empty.
LEMMA WindowStarts == RateWindowInit => WindowInv
<1> SUFFICES ASSUME RateWindowInit PROVE WindowInv
  OBVIOUS
<1>1. WindowTypes
  BY RateWindowAssumption DEF RateWindowInit, WindowTypes
<1>2. QueueSound(<<>>)
  BY DEF QueueSound, IsInjective
<1> QED
  BY <1>1, <1>2 DEF RateWindowInit, WindowInv, NoticeSound

\* Every step keeps the books of the window.
LEMMA WindowStep == WindowInv /\ [RateWindowNext]_windowVars => WindowInv'
<1> SUFFICES ASSUME WindowInv, [RateWindowNext]_windowVars PROVE WindowInv'
  OBVIOUS
<1>1. CASE UNCHANGED windowVars
  BY <1>1 DEF windowVars, WindowInv, WindowTypes, NoticeSound
<1>2. CASE EntryExpires
  <2>1. WindowTypes' /\ UNCHANGED <<taker, line, noticed, silent, passed>>
    BY <1>2 DEF EntryExpires, WindowInv, WindowTypes
  <2> QED
    BY <2>1 DEF WindowInv, NoticeSound
<1>3. CASE RateWindowNext
  BY <1>2, <1>3, FirstCallKeeps, QueuedCallKeeps, LeaveQueueKeeps, OtherCallsKeep DEF RateWindowNext
<1> QED
  BY <1>1, <1>3

----------------------------------------------------------------------------
(* What a step does to those who wait and poll.                               *)

\* A call that is granted stands before everyone who polls and stays, but for a silent head.
LEMMA GrantStep ==
  ASSUME WindowInv, [RateWindowNext]_windowVars, spent' > spent, stops' = stops,
         NEW q \in Living \cap ToSet(line), taker'[q] # "idle",
         ~(passed[q] > 0 /\ q \notin ToSet(line'))
  PROVE  \E t \in Living : taker'[t] = "idle" /\ Behind(line, t, q)
<1>1. /\ line \in Seq(Takers) /\ Len(line) \in Nat /\ QueueSound(line)
      /\ q \in Takers /\ taker[q] = "parked" /\ q \in ToSet(line)
  BY DEF WindowInv, QueueSound, NoticeSound, Living
<1>2. spent \in Nat
  BY DEF WindowInv, WindowTypes
<1>3. PICK t \in Takers : FirstCall(t) \/ QueuedCall(t)
  BY <1>2, RateWindowAssumption
     DEF RateWindowNext, windowVars, InteractiveCall, LeaveQueue, StopPolling, GracePasses, EntryExpires,
         WindowInv, WindowTypes
<1>4. ToSet(line') \subseteq ToSet(Reaped(t)) \/ UNCHANGED spent
  <2>1. FirstCall(t) => line' = Reaped(t) \/ UNCHANGED spent
    BY DEF FirstCall
  <2>2. CASE QueuedCall(t)
    <3> DEFINE granted == (Reaped(t) = <<>> \/ Head(Reaped(t)) = t) /\ HasRoom(t)
    <3>1. ~granted => UNCHANGED spent
      BY <2>2 DEF QueuedCall
    <3>2. granted => ToSet(line') = ToSet(Reaped(t)) \ {t}
      BY <2>2, QueuedCallMoves
    <3> QED
      BY <3>1, <3>2
  <2> QED
    BY <1>3, <2>1, <2>2
<1>5. q \in ToSet(Reaped(t)) /\ Reaped(t) # <<>>
  <2>1. ToSet(line') \subseteq ToSet(Reaped(t))
    BY <1>2, <1>4
  <2>2. q \in ToSet(Reaped(t))
    BY <1>1, <2>1, ReapedSound
  <2>3. ToSet(<<>>) = {}
    BY DEF ToSet
  <2> QED
    BY <2>2, <2>3
<1>6. ~FirstCall(t)
  BY <1>2, <1>5 DEF FirstCall
<1>7. /\ Head(Reaped(t)) = t /\ taker[t] = "parked" /\ t \notin Interactive
      /\ taker' = [StoppedGone(line') EXCEPT ![t] = "idle"]
  BY <1>2, <1>3, <1>5, <1>6 DEF QueuedCall
<1>8. taker'[t] = "idle"
  BY <1>7 DEF StoppedGone
<1>9. q # t /\ t \in Living
  BY <1>7, <1>8 DEF Living
<1>10. CASE Reaped(t) = line
  <2>1. t = line[1] /\ 1 \in 1..Len(line)
    <3>1. line # <<>> /\ line[1] = Head(line)
      BY <1>1, <1>5, <1>10, HeadAndTail
    <3> QED
      BY <1>1, <1>7, <1>10, <3>1, EmptySeq
  <2>2. PICK j \in 1..Len(line) : line[j] = q
    BY <1>1, QueueMembers
  <2>3. 1 < j
    BY <1>1, <1>9, <2>1, <2>2
  <2> QED
    BY <1>8, <1>9, <2>1, <2>2, <2>3 DEF Behind
<1>11. CASE Reaped(t) # line
  <2>1. line # <<>> /\ Reaped(t) = Tail(line) /\ Head(line) \in silent
    BY <1>11 DEF Reaped
  <2>2. /\ Tail(line) \in Seq(Takers) /\ Len(Tail(line)) = Len(line) - 1 /\ Len(line) \in Nat
        /\ \A i \in 1..(Len(line) - 1) : Tail(line)[i] = line[i + 1]
    BY <1>1, <2>1, HeadTailProperties
  <2>3. QueueSound(Tail(line)) /\ Tail(line) # <<>>
    BY <1>1, <1>5, <2>1, HeadAndTail
  <2>4. Tail(line)[1] = t /\ 1 \in 1..(Len(line) - 1)
    <3>1. Head(Tail(line)) = Tail(line)[1]
      BY <2>3, HeadAndTail
    <3>2. Len(Tail(line)) # 0
      BY <2>2, <2>3, EmptySeq
    <3> QED
      BY <1>7, <2>1, <2>2, <3>1, <3>2
  <2>5. line[2] = t /\ 2 \in 1..Len(line)
    BY <1>1, <2>2, <2>4
  <2>6. PICK k \in 1..(Len(line) - 1) : Tail(line)[k] = q
    BY <1>5, <2>1, <2>2, QueueMembers, ZenonT(60)
  <2>7. k # 1
    BY <1>9, <2>4, <2>6
  <2>8. k + 1 \in 1..Len(line) /\ line[k + 1] = q /\ 2 < k + 1
    BY <1>1, <2>2, <2>6, <2>7
  <2> QED
    BY <1>8, <1>9, <2>5, <2>8 DEF Behind
<1> QED
  BY <1>10, <1>11

\* A waiter that polls is taken out by its own grant or its own departure, or was passed.
LEMMA PlaceStep ==
  ASSUME WindowInv, [RateWindowNext]_windowVars,
         NEW t \in Living \cap ToSet(line), t \notin ToSet(line')
  PROVE  taker'[t] = "idle" \/ passed[t] > 0
<1>1. t \in Takers /\ taker[t] = "parked" /\ t \in ToSet(line) /\ QueueSound(line)
      /\ taker \in [Takers -> {"idle", "parked", "stopped"}]
  BY DEF WindowInv, WindowTypes, NoticeSound, Living
<1>2. line' # line
  OBVIOUS
<1>3. PICK c \in Takers : FirstCall(c) \/ QueuedCall(c) \/ LeaveQueue(c)
  BY <1>2 DEF RateWindowNext, windowVars, InteractiveCall, StopPolling, GracePasses, EntryExpires
<1>4. CASE t \notin ToSet(Reaped(c))
  BY <1>1, <1>4, ReapedSound
<1>5. CASE t \in ToSet(Reaped(c)) /\ FirstCall(c)
  BY <1>2, <1>5 DEF FirstCall
<1>6. CASE LeaveQueue(c)
  <2>1. ToSet(line') = ToSet(line) \ {c} /\ taker' = [taker EXCEPT ![c] = "idle"]
    BY <1>1, <1>6, WithoutSound DEF LeaveQueue
  <2> QED
    BY <1>1, <2>1
<1>7. CASE t \in ToSet(Reaped(c)) /\ QueuedCall(c)
  <2> DEFINE granted == (Reaped(c) = <<>> \/ Head(Reaped(c)) = c) /\ HasRoom(c)
  <2>1. /\ granted => ToSet(line') = ToSet(Reaped(c)) \ {c}
        /\ ~granted => ToSet(line') = ToSet(Reaped(c)) \cup {c}
    BY <1>7, QueuedCallMoves
  <2>2. granted /\ t = c
    BY <1>7, <2>1
  <2>3. taker' = [StoppedGone(line') EXCEPT ![c] = "idle"]
    BY <1>7, <2>2 DEF QueuedCall
  <2> QED
    BY <1>1, <2>2, <2>3 DEF StoppedGone
<1> QED
  BY <1>3, <1>4, <1>5, <1>6, <1>7

----------------------------------------------------------------------------
\* The books of the window hold in every state that is reached.
THEOREM WindowInvariance == RateWindowSpec => []WindowInv
BY WindowStarts, WindowStep, PTL DEF RateWindowSpec

\* The window, the queue and the blocked set keep their kinds.
THEOREM WindowTyped == RateWindowSpec => []RateWindowTypeOK
<1>1. WindowInv => RateWindowTypeOK
  BY DEF WindowInv, WindowTypes, QueueSound, NoticeSound, RateWindowTypeOK
<1> QED
  BY <1>1, WindowInvariance, PTL

\* The acquire scripts grant no call before one that stands before it in the queue, polls
\* and stays: only a head that has stopped, or that was passed, is dropped between the two.
THEOREM NoneIsOvertaken == RateWindowSpec => NoLivingOvertaken
<1>1. WindowInv /\ [RateWindowNext]_windowVars =>
  [(spent' > spent /\ stops' = stops) =>
       LET granted == {t \in Living : taker'[t] = "idle"}
           dropped == {t \in Living : passed[t] > 0 /\ t \notin ToSet(line')} IN
       \A q \in (Living \cap ToSet(line)) \ (granted \cup dropped) :
         \E t \in granted : Behind(line, t, q)]_windowVars
  <2> SUFFICES ASSUME WindowInv, [RateWindowNext]_windowVars, spent' > spent, stops' = stops
               PROVE  LET granted == {t \in Living : taker'[t] = "idle"}
                          dropped == {t \in Living : passed[t] > 0 /\ t \notin ToSet(line')} IN
                      \A q \in (Living \cap ToSet(line)) \ (granted \cup dropped) :
                        \E t \in granted : Behind(line, t, q)
    OBVIOUS
  <2> DEFINE granted == {t \in Living : taker'[t] = "idle"}
             dropped == {t \in Living : passed[t] > 0 /\ t \notin ToSet(line')}
  <2>1. ASSUME NEW q \in (Living \cap ToSet(line)) \ (granted \cup dropped)
        PROVE  \E t \in granted : Behind(line, t, q)
    <3>1. /\ q \in Living \cap ToSet(line) /\ taker'[q] # "idle"
          /\ ~(passed[q] > 0 /\ q \notin ToSet(line'))
      OBVIOUS
    <3> QED
      BY <3>1, GrantStep
  <2> QED
    BY <2>1
<1> QED
  BY <1>1, WindowInvariance, PTL DEF RateWindowSpec, NoLivingOvertaken

\* headAfterReaping and the scripts take a waiter that polls and that no token has passed
\* out of the queue only by its own grant or departure.
THEOREM PlacesAreKept == RateWindowSpec => LivingKeepTheirPlace
<1>1. WindowInv /\ [RateWindowNext]_windowVars =>
        [\A t \in Living \cap ToSet(line) :
           t \notin ToSet(line') => taker'[t] = "idle" \/ passed[t] > 0]_windowVars
  BY PlaceStep
<1> QED
  BY <1>1, WindowInvariance, PTL DEF RateWindowSpec, LivingKeepTheirPlace

\* A waiter that polls is neither overtaken nor dropped by who came behind it, whatever
\* stops, expires and joins, but for one that a token with an earlier clock has passed.
THEOREM WindowStaysFair == RateWindowSpec => WindowIsFair
BY NoneIsOvertaken, PlacesAreKept, PTL DEF WindowIsFair

----------------------------------------------------------------------------
(***************************************************************************)
(* The parts together.  A behaviour of PartsSpec is one of every part: the *)
(* part that moves takes its own steps, and the others stutter.            *)
(***************************************************************************)

\* A step of the whole is a step of each part, or leaves it alone.
LEMMA PartsStep ==
  ASSUME [PartsNext]_partVars
  PROVE  /\ [SourceIngestNext]_ingestVars
         /\ [PushChannelsNext]_channelVars
         /\ [FlushNext]_flushVars
         /\ [TokenRefreshNext]_refreshVars
         /\ [OutlookPermitsNext]_permitVars
         /\ [RateWindowNext]_windowVars
BY DEF PartsNext, Only, FlushParts, TokenParts, partVars

LEMMA PartsAreTheirOwn ==
  PartsSpec => /\ SourceIngestSpec /\ PushChannelsSpec /\ FlushSpec
               /\ TokenRefreshSpec /\ OutlookPermitsSpec /\ RateWindowSpec
<1>1. PartsInit => /\ SourceIngestInit /\ PushChannelsInit /\ FlushInit
                   /\ TokenRefreshInit /\ OutlookPermitsInit /\ RateWindowInit
  BY DEF PartsInit
<1> QED
  BY <1>1, PartsStep, PTL
     DEF PartsSpec, SourceIngestSpec, PushChannelsSpec, FlushSpec, TokenRefreshSpec, OutlookPermitsSpec,
         RateWindowSpec

\* Whatever part moves, the variables of all of them keep their kinds.
THEOREM IngestPartsTyped == PartsSpec => []IngestTypeOK
<1>1. PartsSpec => /\ []SourceIngestTypeOK /\ []PushChannelsTypeOK /\ []FlushTypeOK
                   /\ []TokenRefreshTypeOK /\ []OutlookPermitsTypeOK /\ []RateWindowTypeOK
  BY PartsAreTheirOwn, WideIsNarrow, IngestTyped, ChannelsTyped, FlushTyped, RefreshTyped, PermitsTyped,
     WindowTyped, PTL
<1> QED
  BY <1>1, PTL DEF IngestTypeOK

\* Whatever part moves, each keeps its promises: ingestion stores one moment of the
\* provider and goes forward, channels authenticate, books balance, refreshes, permits
\* and the window are safe.
THEOREM IngestPartsSafe ==
  PartsSpec => /\ []StoredIsSound /\ PersistsForward /\ ChannelsAreSafe /\ []FlushBooksBalance
               /\ []RefreshIsSafe /\ []PermitsHold /\ WindowIsFair
BY PartsAreTheirOwn, StoredAlwaysSound, CommitsGoForward, ChannelsStaySafe, FlushBooksAlwaysBalance,
   RefreshesAreSafe, PermitsAlwaysHold, WindowStaysFair, PTL
=============================================================================
