---------------------------- MODULE TokenRefresh ----------------------------
(* Refreshing one stored OAuth credential from several processes.            *)
(*   packages/calendar/src/core/oauth/{refresh-coordinator,coordinated-      *)
(*     refresher,ensure-valid-token}.ts                                       *)
(* A refresh token is the number of the rotation that issued it, and the      *)
(* provider accepts only the last one.  The access token is fresh while more  *)
(* than TOKEN_REFRESH_BUFFER_MS of it remains.                                *)
EXTENDS Naturals, FiniteSets

CONSTANTS Clients,        \* the calls of ensureValidToken
          Processes,
          ProcessOf,      \* ProcessOf[c]
          MaxExpiries,    \* bound: how often the access token runs out
          MaxLapses       \* bound: locks that lapse while their holder lives

ASSUME TokenRefreshAssumption ==
  /\ IsFiniteSet(Clients) /\ ProcessOf \in [Clients -> Processes]
  /\ MaxExpiries \in Nat /\ MaxLapses \in Nat

VARIABLES client,         \* client[c]: where the call is, and the token it has
          leader,         \* inFlightRefreshByCredentialId of each process
          refreshLock,    \* the lock's key: the client that set it, in a set
          issued,         \* the provider's current refresh token
          storedToken,    \* the one in oauth_credentials
          fresh,          \* the stored access token has time left
          demanded,       \* needsReauthentication
          tokenLost,      \* a rotated token was never stored
          lapses,         \* locks that lapsed under a living holder
          expiries        \* bound: what is left of MaxExpiries

refreshVars == <<client, leader, refreshLock, issued, storedToken, fresh, demanded, tokenLost,
                 lapses, expiries>>
tokenVars == <<issued, storedToken, fresh, demanded, tokenLost>>

IdleClient == [pc |-> "idle", token |-> 0, new |-> 0]
Leads(c) == leader[ProcessOf[c]] = {c}
Refreshing == {c \in Clients : client[c].pc \in {"refresh", "persist"}}

AtMostOne == {S \in SUBSET Clients : \A c, d \in S : c = d}

TokenRefreshTypeOK ==
  /\ issued \in Nat
  /\ client \in [Clients -> [pc : {"idle", "have", "joined", "acquire", "check", "refresh",
                                   "persist", "release"},
                             token : 0..issued, new : 0..issued]]
  /\ leader \in [Processes -> AtMostOne]
  /\ refreshLock \in AtMostOne
  /\ storedToken \in 0..issued
  /\ fresh \in BOOLEAN /\ demanded \in BOOLEAN /\ tokenLost \in BOOLEAN
  /\ lapses \in 0..MaxLapses /\ expiries \in 0..MaxExpiries

TokenRefreshInit ==
  /\ client = [c \in Clients |-> IdleClient]
  /\ leader = [p \in Processes |-> {}]
  /\ refreshLock = {}
  /\ issued = 0 /\ storedToken = 0 /\ fresh = TRUE /\ demanded = FALSE /\ tokenLost = FALSE
  /\ lapses = 0 /\ expiries = MaxExpiries

----------------------------------------------------------------------------
Goes(c, pc) == client' = [client EXCEPT ![c].pc = pc]

(* A run reads the credential it works with.                                 *)
ReadCredential(c) ==
  /\ client[c].pc = "idle"
  /\ client' = [client EXCEPT ![c] = [pc |-> "have", token |-> storedToken, new |-> 0]]
  /\ UNCHANGED <<leader, refreshLock, tokenVars, lapses, expiries>>

(* ensureValidToken finds time left, and the run ends without a refresh.     *)
StillValid(c) ==
  /\ client[c].pc = "have"
  /\ client' = [client EXCEPT ![c] = IdleClient]
  /\ UNCHANGED <<leader, refreshLock, tokenVars, lapses, expiries>>

(* It does not: the access token it read has run out, or been replaced since. *)
(* The call joins the one its process has in flight, or becomes it.           *)
JoinOrLead(c) ==
  /\ client[c].pc = "have"
  /\ ~fresh \/ client[c].token # storedToken
  /\ IF leader[ProcessOf[c]] # {}
     THEN Goes(c, "joined") /\ UNCHANGED leader
     ELSE Goes(c, "acquire") /\ leader' = [leader EXCEPT ![ProcessOf[c]] = {c}]
  /\ UNCHANGED <<refreshLock, tokenVars, lapses, expiries>>

\* Mutant: the calls that joined are not told.
SettledAlone(c) ==
  /\ client' = [client EXCEPT ![c] = IdleClient]
  /\ leader' = [leader EXCEPT ![ProcessOf[c]] = {}]

(* The call of a process settles: everyone who joined it goes with it.        *)
Settled(c) ==
  /\ client' = [d \in Clients |->
       IF d = c \/ (ProcessOf[d] = ProcessOf[c] /\ client[d].pc = "joined")
       THEN IdleClient ELSE client[d]]
  /\ leader' = [leader EXCEPT ![ProcessOf[c]] = {}]

TryAcquire(c) ==
  /\ client[c].pc = "acquire"
  /\ refreshLock = {}
  /\ refreshLock' = {c}
  /\ Goes(c, "check")
  /\ UNCHANGED <<leader, tokenVars, lapses, expiries>>

(* adoptPeerCredential while another holds the lock.                          *)
AdoptWaiting(c) ==
  /\ client[c].pc = "acquire"
  /\ refreshLock # {}
  /\ fresh
  /\ Settled(c)
  /\ UNCHANGED <<refreshLock, tokenVars, lapses, expiries>>

(* ACQUIRE_BUDGET_MS has passed, the lock held or Redis out of reach.         *)
GiveUp(c) ==
  /\ client[c].pc = "acquire"
  /\ Settled(c)
  /\ UNCHANGED <<refreshLock, tokenVars, lapses, expiries>>

\* Mutant: the credential is not looked at again under the lock.
RefreshAnyway(c) ==
  /\ client[c].pc = "check"
  /\ Goes(c, "refresh")
  /\ UNCHANGED <<leader, refreshLock, tokenVars, lapses, expiries>>

(* With the lock held: a peer's credential is adopted, or runRefresh starts.  *)
AdoptOrRefresh(c) ==
  /\ client[c].pc = "check"
  /\ Goes(c, IF fresh THEN "release" ELSE "refresh")
  /\ UNCHANGED <<leader, refreshLock, tokenVars, lapses, expiries>>

(* rawRefresh succeeds; the provider may issue a new refresh token.           *)
ProviderRefreshes(c, rotates) ==
  /\ client[c].pc = "refresh"
  /\ client[c].token = issued
  /\ issued' = IF rotates THEN issued + 1 ELSE issued
  /\ client' =
       [client EXCEPT ![c] = [pc |-> "persist", token |-> client[c].token, new |-> issued']]
  /\ UNCHANGED <<leader, refreshLock, storedToken, fresh, demanded, tokenLost, lapses, expiries>>

(* invalid_grant: the account is made to reauthenticate.                      *)
ProviderRejects(c) ==
  /\ client[c].pc = "refresh"
  /\ client[c].token # issued
  /\ demanded' = TRUE
  /\ Goes(c, "release")
  /\ UNCHANGED <<leader, refreshLock, issued, storedToken, fresh, tokenLost, lapses, expiries>>

(* A transient or an operator's fault; the answer to a rotation may be lost. *)
ProviderFails(c, rotates) ==
  /\ client[c].pc = "refresh"
  /\ rotates => client[c].token = issued
  /\ issued' = IF rotates THEN issued + 1 ELSE issued
  /\ tokenLost' = (tokenLost \/ rotates)
  /\ Goes(c, "release")
  /\ UNCHANGED <<leader, refreshLock, storedToken, fresh, demanded, lapses, expiries>>

(* persistRefreshedCredential.                                                *)
PersistCredential(c) ==
  /\ client[c].pc = "persist"
  /\ storedToken' = client[c].new
  /\ fresh' = TRUE
  /\ Goes(c, "release")
  /\ UNCHANGED <<leader, refreshLock, issued, demanded, tokenLost, lapses, expiries>>

PersistCredentialFails(c) ==
  /\ client[c].pc = "persist"
  /\ tokenLost' = (tokenLost \/ client[c].new # client[c].token)
  /\ Goes(c, "release")
  /\ UNCHANGED <<leader, refreshLock, issued, storedToken, fresh, demanded, lapses, expiries>>

(* The finally: the key is deleted, whoever set it.                           *)
ReleaseLock(c) ==
  /\ client[c].pc = "release"
  /\ refreshLock' = {}
  /\ Settled(c)
  /\ UNCHANGED <<tokenVars, lapses, expiries>>

----------------------------------------------------------------------------
(* REFRESH_LOCK_TTL_SECONDS pass.                                             *)
RefreshLockLapses ==
  /\ \E c \in refreshLock :
       IF client[c].pc \in {"check", "refresh", "persist", "release"}
       THEN lapses < MaxLapses /\ lapses' = lapses + 1
       ELSE UNCHANGED lapses
  /\ refreshLock' = {}
  /\ UNCHANGED <<client, leader, tokenVars, expiries>>

(* A process dies with its calls.                                             *)
ProcessDies(p) ==
  /\ leader[p] # {}
  /\ tokenLost' = (tokenLost \/ \E c \in leader[p] : /\ client[c].pc = "persist"
                                           /\ client[c].new # client[c].token)
  /\ client' = [c \in Clients |-> IF ProcessOf[c] = p THEN IdleClient ELSE client[c]]
  /\ leader' = [leader EXCEPT ![p] = {}]
  /\ UNCHANGED <<refreshLock, issued, storedToken, fresh, demanded, lapses, expiries>>

(* The access token runs out.  It lives an hour, longer than a run: no run    *)
(* under way has read its credential before the last rotation but one.        *)
AccessTokenExpires ==
  /\ fresh
  /\ expiries > 0
  /\ expiries' = expiries - 1
  /\ fresh' = FALSE
  /\ \A c \in Clients : client[c].pc # "idle" => client[c].token = storedToken
  /\ UNCHANGED <<client, leader, refreshLock, issued, storedToken, demanded, tokenLost, lapses>>

----------------------------------------------------------------------------
RefreshStep(c) ==
  \/ StillValid(c) \/ JoinOrLead(c)
  \/ TryAcquire(c) \/ AdoptWaiting(c) \/ GiveUp(c) \/ AdoptOrRefresh(c)
  \/ \E rotates \in BOOLEAN : ProviderRefreshes(c, rotates) \/ ProviderFails(c, rotates)
  \/ ProviderRejects(c) \/ PersistCredential(c) \/ PersistCredentialFails(c) \/ ReleaseLock(c)

TokenRefreshNext ==
  \/ \E c \in Clients : ReadCredential(c) \/ RefreshStep(c)
  \/ RefreshLockLapses \/ AccessTokenExpires
  \/ \E p \in Processes : ProcessDies(p)

(* Every wait of a call is bounded: the lock's by its budget, the others by   *)
(* the timeouts of their requests.                                            *)
TokenRefreshSpec == TokenRefreshInit /\ [][TokenRefreshNext]_refreshVars
TokenRefreshFairSpec == TokenRefreshSpec /\ \A c \in Clients : WF_refreshVars(RefreshStep(c))

----------------------------------------------------------------------------
(* A lock that lapses under its holder lets one more refresh run, and the      *)
(* holder's late release, which deletes the key of whoever holds it by then,   *)
(* lets in no more than that: the overlap does not grow.                       *)
OverlapIsBounded == Cardinality(Refreshing) <= 1 + lapses

(* While no lock lapsed under its holder and no rotated token was lost, the  *)
(* stored refresh token is the one the provider accepts, but for the moment  *)
(* between a rotation and its being stored: no refresh spends a token that   *)
(* another has rotated away.                                                   *)
StoredTokenIsCurrent ==
  (lapses = 0 /\ ~tokenLost) =>
    \/ storedToken = issued
    \/ \E c \in Clients : client[c].pc = "persist" /\ client[c].new = issued

(* And then no account is made to reauthenticate for a token that a peer had   *)
(* merely rotated.                                                             *)
NoFalseDemand == (lapses = 0 /\ ~tokenLost) => ~demanded

(* Refreshing is safe: overlaps are bounded, the stored token stays good and  *)
(* no account is demanded for nothing.                                         *)
RefreshIsSafe == OverlapIsBounded /\ StoredTokenIsCurrent /\ NoFalseDemand

(* Every refresh settles, the joined ones with the one they joined, whichever  *)
(* of them loses the lock, fails or dies.                                      *)
RefreshSettles == \A c \in Clients : []<>(client[c].pc = "idle")
=============================================================================
