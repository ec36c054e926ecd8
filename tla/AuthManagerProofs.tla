--------------------------- MODULE AuthManagerProofs ---------------------------
(* What holds of the tokens and keys for any number of processes, requests,     *)
(* sessions, refreshes and faults, and for every state of the keychain and the  *)
(* key file.  The invariant is built in layers, each proved with the ones below *)
(* it: types, who refreshes (Alone), whose tokens are where (Owned), and which  *)
(* key is used (KeyAgreed).  What becomes of a session follows: it lasts until a *)
(* fault or a logout (Rotating), and a clean logout is its end (Ended).          *)
EXTENDS AuthManager, TLAPS, FiniteSetTheorems

(* Who refreshes: one caller of a process at a time, the startup of one that is *)
(* starting; only a process that is up has requests on their way.               *)
AloneAt(p) ==
    /\ \A c, d \in Callers : Busy(p, c) /\ Busy(p, d) => c = d
    /\ \A c \in Callers : Busy(p, c) =>
           /\ proc[p].state # "down"
           /\ proc[p].state = "up" => proc[p].isRefreshing
           /\ proc[p].state = "starting" => c = "startup"
    /\ \A r \in Requests : request[p][r].step # "idle" => proc[p].state = "up"

Alone == \A p \in Procs : AloneAt(p)

(* Whose tokens are where: what anyone holds was given out by the server, a call *)
(* is about the session of its process, and what is being saved is what the     *)
(* process holds.                                                               *)
Given(t) == t.uid \in Sessions /\ 1 <= t.gen /\ t.gen <= server[t.uid].gen

OwnedAt(p) ==
    /\ proc[p].state # "down" => Given(proc[p].tokens)
    /\ \A c \in Callers : Busy(p, c) =>
           /\ Given(call[p][c].tokens)
           /\ call[p][c].tokens.uid = proc[p].tokens.uid
           /\ call[p][c].step = "save" => call[p][c].tokens = proc[p].tokens
    /\ proc[p].logout # "no" =>
           /\ proc[p].state = "up"
           /\ proc[p].revoking.uid = proc[p].tokens.uid
           /\ server[proc[p].revoking.uid].out

VaultGiven == vault # NoVault => Given(vault.tokens)

Alive == \A s \in Sessions : server[s].live \/ server[s].revoked => server[s].gen >= 1

Owned == VaultGiven /\ (\A p \in Procs : OwnedAt(p)) /\ Alive

(* A process that is not down found the key that every process finds. *)
KeyAgreed == \A p \in Procs : proc[p].state # "down" =>
    Usable(proc[p].cachedKey) /\ proc[p].cachedKey = getVaultKey(None).key

-----------------------------------------------------------------------------
(* The keys a look at the sources can give *)
LEMMA KeyTypes ==
    ASSUME keychain \in KeychainValues, keyFile \in KeyFileValues, NEW cached \in Keys
    PROVE  /\ getVaultKey(cached).key \in Keys
           /\ getVaultKey(cached).cached \in Keys
           /\ KeyToWrite(cached).key \in Keys
           /\ KeyToWrite(cached).cached \in Keys
           /\ KeyToWrite(cached).stored \in KeychainValues
<1>1. \A k \in Keys : getVaultKey(k).key \in Keys /\ getVaultKey(k).cached \in Keys
  BY DEF getVaultKey, Look, InKeychain, Keys, KeychainValues, KeyFileValues, None, Bad, Off
<1>2. \A k \in Keys : /\ ensureVaultKey(k).key \in Keys
                      /\ ensureVaultKey(k).cached \in Keys
                      /\ ensureVaultKey(k).stored \in KeychainValues
  BY <1>1 DEF ensureVaultKey, Keys, KeychainValues, None, Bad, Off
<1> QED  BY <1>1, <1>2 DEF KeyToWrite

(* What a write of the vault leaves *)
LEMMA WriteTypes ==
    ASSUME TypeOK, NEW tokens \in Tokens, NEW cached \in Keys, writeVault(tokens, cached)
    PROVE  /\ vault' \in [tokens : Tokens, key : Keys \ {None, Bad}] \cup {NoVault}
           /\ keychain' \in KeychainValues /\ keyFile' \in KeyFileValues
<1>1. KeyToWrite(cached).key \in Keys /\ KeyToWrite(cached).stored \in KeychainValues
  BY KeyTypes DEF TypeOK
<1> QED  BY <1>1 DEF TypeOK, writeVault, Usable

-----------------------------------------------------------------------------
(* Types.  The parts of TypeOK, so that a step need only speak of what it changes *)
VaultType == vault \in [tokens : Tokens, key : Keys \ {None, Bad}] \cup {NoVault}
KeysType == keychain \in KeychainValues /\ keyFile \in KeyFileValues
Session == [gen : 0..MaxGen, live : BOOLEAN, late : BOOLEAN,
            revoked : BOOLEAN, refreshable : BOOLEAN, out : BOOLEAN]
Process == [state : {"down", "starting", "up"}, tokens : Tokens, api : Tokens,
            isRefreshing : BOOLEAN, timer : BOOLEAN, cachedKey : Keys,
            logout : {"no", "revoke", "delete", "clean", "dirty"}, revoking : Tokens]
Call == [step : {"none", "fetch", "denied", "answered", "save"}, tokens : Tokens]
Request == [step : {"idle", "sent", "denied", "again"}, cred : Tokens]
CallsType == call \in [Procs -> [Callers -> Call]]
RequestsType == request \in [Procs -> [Requests -> Request]]

LEMMA TypeParts ==
    TypeOK <=> /\ VaultType /\ KeysType
               /\ server \in [Sessions -> Session]
               /\ proc \in [Procs -> Process]
               /\ CallsType /\ RequestsType
               /\ faults \in 0..Faults
BY DEF TypeOK, VaultType, KeysType, Session, Process, Call, Request, CallsType, RequestsType

LEMMA Constants == NoTokens \in Tokens /\ Off_ \in Process /\ NoCall \in Call
                   /\ NoRequest \in Request /\ Requests \subseteq Callers
<1>1. NoTokens \in Tokens  BY AuthBounds DEF NoTokens, Tokens
<1> QED  BY <1>1 DEF Off_, Process, NoCall, Call, NoRequest, Request, Callers, Keys, None

LEMMA SessionTypes ==
    /\ NoSession \in Session
    /\ \A cookie \in BOOLEAN : [NewSession EXCEPT !.refreshable = cookie] \in Session
<1>1. 0 \in 0..MaxGen /\ 1 \in 0..MaxGen  BY AuthBounds
<1>2. NewSession \in Session  BY <1>1 DEF NewSession, Session
<1>3. NoSession \in Session  BY <1>1, <1>2 DEF NoSession, Session
<1> QED  BY <1>2, <1>3 DEF Session

LEMMA AfterRefreshType ==
    ASSUME RequestsType, NEW p \in Procs, NEW c \in Callers, NEW ok \in BOOLEAN,
           NEW tokens \in Tokens
    PROVE  AfterRefresh(p, c, ok, tokens) \in [Procs -> [Requests -> Request]]
<1>1. (IF ok THEN [step |-> "again", cred |-> tokens] ELSE NoRequest) \in Request
  BY Constants DEF Request
<1> QED  BY <1>1 DEF AfterRefresh, RequestsType

LEMMA DownType ==
    ASSUME TypeOK, NEW p \in Procs, Down(p)
    PROVE  proc' \in [Procs -> Process] /\ CallsType' /\ RequestsType'
<1>1. /\ [c \in Callers |-> NoCall] \in [Callers -> Call]
      /\ [r \in Requests |-> NoRequest] \in [Requests -> Request]
  BY Constants
<1> QED  BY <1>1, Constants, TypeParts DEF Down, CallsType, RequestsType

LEMMA FinishType ==
    ASSUME TypeOK, NEW p \in Procs, NEW c \in Callers, NEW ok \in BOOLEAN,
           NEW changed \in Process, Finish(p, c, ok, changed)
    PROVE  proc' \in [Procs -> Process] /\ CallsType' /\ RequestsType'
<1>1. changed.tokens \in Tokens  BY DEF Process
<1>2. RequestsType'
  BY <1>1, AfterRefreshType, TypeParts DEF Finish, RequestsType
<1>3. CallsType'  BY TypeParts, Constants DEF Finish, CallsType
<1>4. [changed EXCEPT !.isRefreshing = FALSE, !.api = IF ok THEN changed.tokens ELSE @] \in Process
  BY <1>1 DEF Process
<1> QED  BY <1>2, <1>3, <1>4, TypeParts DEF Finish

LEMMA RefreshNowType ==
    ASSUME TypeOK, NEW p \in Procs, NEW c \in Callers, refreshNow(p, c)
    PROVE  proc' \in [Procs -> Process] /\ CallsType' /\ RequestsType'
<1>0. proc \in [Procs -> Process] /\ CallsType /\ RequestsType  BY TypeParts
<1>1. proc[p] \in Process /\ proc[p].tokens \in Tokens /\ proc[p].api \in Tokens
  BY <1>0 DEF Process
<1>2. /\ AfterRefresh(p, c, TRUE, proc[p].tokens) \in [Procs -> [Requests -> Request]]
      /\ AfterRefresh(p, c, FALSE, NoTokens) \in [Procs -> [Requests -> Request]]
  BY <1>0, <1>1, AfterRefreshType, Constants
<1>3. CASE proc[p].isRefreshing
  <2>1. ApiAfter(p, c, proc[p].tokens) \in Tokens  BY <1>1 DEF ApiAfter
  <2>2. proc' = [proc EXCEPT ![p].api = ApiAfter(p, c, proc[p].tokens)]
    BY <1>3 DEF refreshNow
  <2>3. [proc[p] EXCEPT !.api = ApiAfter(p, c, proc[p].tokens)] \in Process
    BY <1>1, <2>1 DEF Process
  <2>4. proc' \in [Procs -> Process]  BY <1>0, <2>2, <2>3
  <2> QED  BY <1>0, <1>2, <1>3, <2>4 DEF refreshNow, CallsType, RequestsType
<1>4. CASE ~proc[p].isRefreshing
  <2>1. BeginRefresh(p, c)  BY <1>4 DEF refreshNow
  <2>2. CASE canRefresh(proc[p].tokens)
    <3>1. [step |-> "fetch", tokens |-> proc[p].tokens] \in Call  BY <1>1 DEF Call
    <3>2. [proc[p] EXCEPT !.isRefreshing = TRUE] \in Process  BY <1>1 DEF Process
    <3>3. proc' \in [Procs -> Process]  BY <1>0, <2>1, <2>2, <3>2 DEF BeginRefresh
    <3>4. CallsType'  BY <1>0, <2>1, <2>2, <3>1, SMTT(20) DEF BeginRefresh, CallsType
    <3>5. RequestsType'  BY <1>0, <2>1, <2>2 DEF BeginRefresh, RequestsType
    <3> QED  BY <3>3, <3>4, <3>5
  <2>3. CASE ~canRefresh(proc[p].tokens)
    <3>1. request' = AfterRefresh(p, c, FALSE, NoTokens) /\ UNCHANGED <<proc, call>>
      BY <2>1, <2>3 DEF BeginRefresh
    <3> QED  BY <1>0, <1>2, <3>1 DEF RequestsType, CallsType
  <2> QED  BY <2>2, <2>3
<1> QED  BY <1>3, <1>4

-----------------------------------------------------------------------------
LEMMA InitTypes == Init => TypeOK
<1> SUFFICES ASSUME Init PROVE TypeOK
  OBVIOUS
<1>1. VaultType  BY DEF Init, VaultType
<1>2. KeysType  BY AuthBounds DEF Init, KeysType
<1>3. server \in [Sessions -> Session]
  <2>1. NoSession \in Session  BY SessionTypes
  <2> QED  BY <2>1 DEF Init
<1>4. proc \in [Procs -> Process] /\ CallsType /\ RequestsType
  BY Constants DEF Init, CallsType, RequestsType
<1>5. faults \in 0..Faults  BY AuthBounds DEF Init
<1> QED  BY <1>1, <1>2, <1>3, <1>4, <1>5, TypeParts

LEMMA NextTypes == TypeOK /\ [Next]_vars => TypeOK'
<1> SUFFICES ASSUME TypeOK, [Next]_vars PROVE TypeOK'
  OBVIOUS
<1>1. /\ VaultType /\ KeysType /\ server \in [Sessions -> Session]
      /\ proc \in [Procs -> Process] /\ CallsType /\ RequestsType /\ faults \in 0..Faults
  BY TypeParts
<1>2. ASSUME VaultType', KeysType', server' \in [Sessions -> Session],
             proc' \in [Procs -> Process], CallsType', RequestsType', faults' \in 0..Faults
      PROVE  TypeOK'
  BY <1>2 DEF TypeOK, VaultType, KeysType, Session, Process, Call, Request, CallsType, RequestsType
<1>3. ASSUME UNCHANGED <<vaultVars, faults>>
      PROVE  VaultType' /\ KeysType' /\ faults' \in 0..Faults
  BY <1>1, <1>3 DEF vaultVars, VaultType, KeysType
<1>4. ASSUME NEW p \in Procs, NEW c \in Callers
      PROVE  /\ proc[p] \in Process /\ proc[p].tokens \in Tokens
             /\ call[p][c] \in Call /\ call[p][c].tokens \in Tokens
  BY <1>1 DEF Process, CallsType, Call
<1>5. ASSUME UNCHANGED call PROVE CallsType'
  BY <1>1, <1>5 DEF CallsType
<1>6. ASSUME UNCHANGED request PROVE RequestsType'
  BY <1>1, <1>6 DEF RequestsType
<1>7. ASSUME faults > 0, faults' = faults - 1 PROVE faults' \in 0..Faults
  BY <1>1, <1>7, AuthBounds
<1>8. ASSUME UNCHANGED vaultVars PROVE VaultType' /\ KeysType'
  BY <1>1, <1>8 DEF vaultVars, VaultType, KeysType
<1>9. {"timer", "manual", "startup"} \subseteq Callers /\ Requests \subseteq Callers
  BY DEF Callers
<1>10. ASSUME NEW s \in Sessions, Expire(s) PROVE TypeOK'
  <2>1. server' \in [Sessions -> Session]
    <3>1. [server[s] EXCEPT !.live = FALSE, !.late = TRUE] \in Session
      BY <1>1 DEF Session
    <3> QED  BY <1>1, <1>10, <3>1 DEF Expire
  <2> QED  BY <1>1, <1>2, <1>3, <1>5, <1>6, <1>10, <2>1 DEF Expire
<1>11. ASSUME NEW s \in Sessions, runAuthCommand(s) PROVE TypeOK'
  <2>1. server' \in [Sessions -> Session]
    <3>1. PICK cookie \in BOOLEAN : server' = [server EXCEPT ![s] = [NewSession EXCEPT !.refreshable = cookie]]
      BY <1>11 DEF runAuthCommand
    <3>2. [NewSession EXCEPT !.refreshable = cookie] \in Session
      BY SessionTypes
    <3> QED  BY <1>1, <3>1, <3>2
  <2>2. [uid |-> s, gen |-> 1] \in Tokens  BY AuthBounds DEF Tokens, Sessions
  <2>3. getVaultKey(None).cached \in Keys  BY KeyTypes DEF TypeOK, Keys
  <2>4. VaultType' /\ KeysType'
    BY <1>11, <2>2, <2>3, WriteTypes DEF runAuthCommand, VaultType, KeysType
  <2> QED  BY <1>1, <1>2, <1>5, <1>6, <1>11, <2>1, <2>4 DEF runAuthCommand
<1>12. ASSUME NEW p \in Procs, create(p) PROVE TypeOK'
  <2> DEFINE tokens == vault.tokens
             key == getVaultKey(None).cached
  <2>1. tokens \in Tokens /\ key \in Keys
    <3>1. vault # NoVault  BY <1>12 DEF create, Readable
    <3>2. tokens \in Tokens  BY <1>1, <3>1 DEF VaultType
    <3> QED  BY <3>2, KeyTypes DEF TypeOK, Keys
  <2> HIDE DEF tokens, key
  <2>2. initializeAuth(p, tokens, key) \in Process
    BY <2>1, Constants DEF initializeAuth, Process, Off_
  <2>3. [Off_ EXCEPT !.state = "starting", !.tokens = tokens, !.cachedKey = key] \in Process
    BY <2>1, Constants DEF Process, Off_
  <2>4. [step |-> "fetch", tokens |-> tokens] \in Call  BY <2>1 DEF Call
  <2>5. \/ /\ proc' = [proc EXCEPT ![p] = [Off_ EXCEPT !.state = "starting",
                                                  !.tokens = tokens, !.cachedKey = key]]
           /\ call' = [call EXCEPT ![p]["startup"] = [step |-> "fetch", tokens |-> tokens]]
        \/ proc' = [proc EXCEPT ![p] = initializeAuth(p, tokens, key)] /\ UNCHANGED call
    BY <1>12 DEF create, tokens, key
  <2>6. proc' \in [Procs -> Process] /\ CallsType'
    <3>1. CASE /\ proc' = [proc EXCEPT ![p] = [Off_ EXCEPT !.state = "starting",
                                                  !.tokens = tokens, !.cachedKey = key]]
               /\ call' = [call EXCEPT ![p]["startup"] = [step |-> "fetch", tokens |-> tokens]]
      <4>1. proc' \in [Procs -> Process]  BY <1>1, <2>3, <3>1
      <4>2. CallsType'  BY <1>1, <1>9, <2>4, <3>1 DEF CallsType
      <4> QED  BY <4>1, <4>2
    <3>2. CASE proc' = [proc EXCEPT ![p] = initializeAuth(p, tokens, key)] /\ UNCHANGED call
      BY <1>1, <1>5, <2>2, <3>2
    <3> QED  BY <2>5, <3>1, <3>2
  <2> QED  BY <1>1, <1>2, <1>3, <1>6, <1>12, <2>6 DEF create
<1>13. ASSUME NEW p \in Procs, Crash(p) PROVE TypeOK'
  BY <1>1, <1>2, <1>7, <1>8, <1>13, DownType DEF Crash
<1>14. ASSUME NEW p \in Procs, Exit(p) PROVE TypeOK'
  BY <1>1, <1>2, <1>3, <1>14, DownType DEF Exit
<1>15. ASSUME NEW p \in Procs, startAutoRefresh(p) PROVE TypeOK'
  BY <1>1, <1>2, <1>3, <1>9, <1>15, RefreshNowType DEF startAutoRefresh
<1>16. ASSUME NEW p \in Procs, manualRefresh(p) PROVE TypeOK'
  BY <1>1, <1>2, <1>3, <1>9, <1>16, RefreshNowType DEF manualRefresh
<1>17. ASSUME NEW p \in Procs, logout(p) PROVE TypeOK'
  <2>1. proc' \in [Procs -> Process]  BY <1>1, <1>17 DEF logout, Process
  <2>2. server' \in [Sessions -> Session]  BY <1>1, <1>17 DEF logout, Session
  <2> QED  BY <1>1, <1>2, <1>3, <1>5, <1>6, <1>17, <2>1, <2>2 DEF logout
<1>18. ASSUME NEW p \in Procs, revokeSession(p) PROVE TypeOK'
  <2>1. proc' \in [Procs -> Process]  BY <1>1, <1>18 DEF revokeSession, Process
  <2>2. server' \in [Sessions -> Session]
    <3> DEFINE t == proc[p].revoking
    <3>1. CASE Accepts(t)
      <4>1. server' = [server EXCEPT ![t.uid].revoked = TRUE, ![t.uid].live = FALSE]
        BY <1>18, <3>1 DEF revokeSession
      <4> HIDE DEF t
      <4> QED  BY <1>1, <4>1 DEF Session
    <3>2. CASE ~Accepts(t)  BY <1>1, <1>18, <3>2 DEF revokeSession
    <3> QED  BY <3>1, <3>2
  <2> QED  BY <1>1, <1>2, <1>3, <1>5, <1>6, <1>18, <2>1, <2>2 DEF revokeSession
<1>19. ASSUME NEW p \in Procs, deleteTokenCache(p) PROVE TypeOK'
  <2>1. proc' \in [Procs -> Process]  BY <1>1, <1>19 DEF deleteTokenCache, Process
  <2>2. VaultType' /\ KeysType'
    BY <1>1, <1>19 DEF deleteTokenCache, deleteVault, VaultType, KeysType
  <2> QED  BY <1>1, <1>2, <1>5, <1>6, <1>19, <2>1, <2>2 DEF deleteTokenCache
<1>20. ASSUME NEW p \in Procs, NEW c \in Callers, authRefresh(p, c) PROVE TypeOK'
  <2>1. CASE ~Exchanges(call[p][c].tokens)
    <3>1. [call[p][c] EXCEPT !.step = "denied"] \in Call  BY <1>4 DEF Call
    <3>2. call' = [call EXCEPT ![p][c].step = "denied"]  BY <1>20, <2>1 DEF authRefresh
    <3>3. CallsType'  BY <1>1, <3>1, <3>2 DEF CallsType
    <3>4. UNCHANGED server  BY <1>20, <2>1 DEF authRefresh
    <3> QED  BY <1>1, <1>2, <1>3, <1>6, <1>20, <3>3, <3>4 DEF authRefresh
  <2>2. CASE Exchanges(call[p][c].tokens)
    <3> DEFINE t == call[p][c].tokens
    <3>1. t \in Tokens  BY <1>4
    <3> HIDE DEF t
    <3>2. /\ t.gen < MaxGen
          /\ server' = [server EXCEPT ![t.uid].gen = t.gen + 1, ![t.uid].live = TRUE,
                                      ![t.uid].late = FALSE]
          /\ call' = [call EXCEPT ![p][c] = [step |-> "answered", tokens |-> [t EXCEPT !.gen = t.gen + 1]]]
      BY <1>20, <2>2 DEF authRefresh, t
    <3>3. t.gen + 1 \in 0..MaxGen  BY <3>1, <3>2, AuthBounds DEF Tokens
    <3>4. [t EXCEPT !.gen = t.gen + 1] \in Tokens  BY <3>1, <3>3 DEF Tokens
    <3>5. [step |-> "answered", tokens |-> [t EXCEPT !.gen = t.gen + 1]] \in Call
      BY <3>4 DEF Call
    <3>6. CallsType'  BY <1>1, <3>2, <3>5 DEF CallsType
    <3>7. server' \in [Sessions -> Session]
      <4>1. t.uid \in Sessions  BY <2>2 DEF Exchanges, Known, t
      <4> DEFINE row == [server[t.uid] EXCEPT !.gen = t.gen + 1, !.live = TRUE, !.late = FALSE]
      <4>2. server[t.uid] \in Session  BY <1>1, <4>1
      <4>3. row \in Session  BY <3>3, <4>2 DEF Session
      <4>4. server' = [server EXCEPT ![t.uid] = row]  BY <1>1, <3>2, <4>1, <4>2 DEF Session
      <4> HIDE DEF row
      <4> QED  BY <1>1, <4>3, <4>4
    <3> QED  BY <1>1, <1>2, <1>3, <1>6, <1>20, <3>6, <3>7 DEF authRefresh
  <2> QED  BY <2>1, <2>2
<1>21. ASSUME NEW p \in Procs, NEW c \in Callers, LoseAnswer(p, c) PROVE TypeOK'
  <2>1. CallsType'  BY <1>1, <1>21 DEF LoseAnswer, CallsType, Call
  <2> QED  BY <1>1, <1>2, <1>6, <1>7, <1>8, <1>21, <2>1 DEF LoseAnswer
<1>22. ASSUME NEW p \in Procs, NEW c \in Callers, refreshFailed(p, c) PROVE TypeOK'
  <2>1. proc' \in [Procs -> Process] /\ CallsType' /\ RequestsType'
    BY <1>4, <1>22, DownType, FinishType DEF refreshFailed
  <2> QED  BY <1>1, <1>2, <1>3, <1>22, <2>1 DEF refreshFailed
<1>23. ASSUME NEW p \in Procs, NEW c \in Callers, refresh(p, c) PROVE TypeOK'
  <2>1. CallsType'  BY <1>1, <1>23, SMTT(20) DEF refresh, CallsType, Call
  <2>2. proc' \in [Procs -> Process]  BY <1>1, <1>4, <1>23 DEF refresh, Process
  <2> QED  BY <1>1, <1>2, <1>3, <1>6, <1>23, <2>1, <2>2 DEF refresh
<1>24. ASSUME NEW p \in Procs, NEW c \in Callers, saveTokensToVault(p, c) PROVE TypeOK'
  <2>1. proc[p].cachedKey \in Keys  BY <1>4 DEF Process
  <2>2. VaultType' /\ KeysType'
    BY <1>4, <1>24, <2>1, WriteTypes DEF saveTokensToVault, VaultType, KeysType
  <2> DEFINE changed == [proc[p] EXCEPT !.cachedKey = KeyToWrite(@).cached]
  <2>3. changed \in Process
    <3>1. KeyToWrite(proc[p].cachedKey).cached \in Keys  BY <2>1, KeyTypes DEF TypeOK
    <3> QED  BY <1>4, <3>1 DEF Process
  <2>4. Ready(p, c, changed)  BY <1>24 DEF saveTokensToVault
  <2> HIDE DEF changed
  <2>5. proc' \in [Procs -> Process] /\ CallsType' /\ RequestsType'
    <3>1. CASE c # "startup"  BY <2>3, <2>4, <3>1, FinishType DEF Ready
    <3>2. CASE c = "startup"
      <4>1. initializeAuth(p, changed.tokens, changed.cachedKey) \in Process
        BY <2>3, Constants DEF initializeAuth, Process, Off_
      <4> QED  BY <1>1, <1>6, <2>4, <3>2, <4>1, Constants DEF Ready, CallsType
    <3> QED  BY <3>1, <3>2
  <2> QED  BY <1>1, <1>2, <1>24, <2>2, <2>5 DEF saveTokensToVault
<1>25. ASSUME NEW p \in Procs, NEW c \in Callers, SaveFails(p, c) PROVE TypeOK'
  <2>1. proc' \in [Procs -> Process] /\ CallsType' /\ RequestsType'
    BY <1>4, <1>25, DownType, FinishType DEF SaveFails
  <2> QED  BY <1>1, <1>2, <1>7, <1>8, <1>25, <2>1 DEF SaveFails
<1>26. ASSUME NEW p \in Procs, NEW r \in Requests, makeRequest(p, r) PROVE TypeOK'
  <2>1. [step |-> "sent", cred |-> proc[p].api] \in Request  BY <1>1 DEF Process, Request
  <2>2. RequestsType'  BY <1>1, <1>26, <2>1 DEF makeRequest, RequestsType
  <2> QED  BY <1>1, <1>2, <1>3, <1>5, <1>26, <2>2 DEF makeRequest
<1>27. ASSUME NEW p \in Procs, NEW r \in Requests, Answer(p, r) PROVE TypeOK'
  <2>3. request[p][r] \in Request  BY <1>1 DEF RequestsType
  <2>1. /\ NoRequest \in Request
        /\ [request[p][r] EXCEPT !.step = "denied"] \in Request
    BY <2>3, Constants DEF Request
  <2>2. RequestsType'  BY <1>1, <1>27, <2>1 DEF Answer, RequestsType
  <2> QED  BY <1>1, <1>2, <1>3, <1>5, <1>27, <2>2 DEF Answer
<1>28. ASSUME NEW p \in Procs, NEW r \in Requests, handleAuthError(p, r) PROVE TypeOK'
  BY <1>1, <1>2, <1>3, <1>9, <1>28, RefreshNowType DEF handleAuthError
<1>29. CASE UNCHANGED vars
  BY <1>1, <1>2, <1>3, <1>5, <1>6, <1>29 DEF vars, authVars
<1> QED
  BY <1>10, <1>11, <1>12, <1>13, <1>14, <1>15, <1>16, <1>17, <1>18, <1>19, <1>20, <1>21,
     <1>22, <1>23, <1>24, <1>25, <1>26, <1>27, <1>28, <1>29 DEF Next

(* Every field keeps its type: generations stay within their bound, and no key  *)
(* of the wrong length ever gets into the vault.                                *)
THEOREM TypeCorrect == Spec => []TypeOK
<1> QED  BY InitTypes, NextTypes, PTL DEF Spec

-----------------------------------------------------------------------------
(* Who refreshes *)

(* The steps that neither begin nor end a refresh, and leave the process up *)
LEMMA AloneKept ==
    ASSUME Alone,
           \A p \in Procs : /\ proc'[p].state = proc[p].state
                            /\ proc'[p].isRefreshing = proc[p].isRefreshing,
           \A p \in Procs, c \in Callers : Busy(p, c)' => Busy(p, c),
           \A p \in Procs, r \in Requests :
               request'[p][r].step # "idle" => request[p][r].step # "idle" \/ proc[p].state = "up"
    PROVE  Alone'
BY DEF Alone, AloneAt

(* One process changes: it is up, and only c may be refreshing. *)
LEMMA AloneChanged ==
    ASSUME Alone, NEW p \in Procs,
           \A q \in Procs \ {p} : proc'[q] = proc[q] /\ call'[q] = call[q] /\ request'[q] = request[q],
           AloneAt(p)'
    PROVE  Alone'
BY DEF Alone, AloneAt, Busy

LEMMA DownAlone ==
    ASSUME TypeOK, Alone, NEW p \in Procs, Down(p)
    PROVE  Alone'
<1>1. /\ \A q \in Procs \ {p} : proc'[q] = proc[q] /\ call'[q] = call[q] /\ request'[q] = request[q]
      /\ call'[p] = [c \in Callers |-> NoCall]
      /\ request'[p] = [r \in Requests |-> NoRequest]
  BY DEF Down, TypeOK
<1>2. AloneAt(p)'
  BY <1>1 DEF AloneAt, Busy, NoCall, NoRequest
<1> QED  BY <1>1, <1>2, AloneChanged

LEMMA RefreshNowAlone ==
    ASSUME TypeOK, Alone, NEW p \in Procs, NEW c \in Callers, proc[p].state = "up",
           refreshNow(p, c)
    PROVE  Alone'
<1>0. proc \in [Procs -> Process] /\ CallsType /\ RequestsType  BY TypeParts
<1>1. \A q \in Procs \ {p} : proc'[q] = proc[q] /\ call'[q] = call[q] /\ request'[q] = request[q]
  BY <1>0 DEF refreshNow, BeginRefresh, AfterRefresh, CallsType, RequestsType
<1>2. AloneAt(p)  BY DEF Alone
<1>3. CASE proc[p].isRefreshing
  <2>1. /\ proc'[p].state = "up" /\ proc'[p].isRefreshing = proc[p].isRefreshing
        /\ call' = call
    BY <1>0, <1>3 DEF refreshNow, Process
  <2> QED  BY <1>1, <1>2, <2>1, AloneChanged DEF AloneAt, Busy
<1>4. CASE ~proc[p].isRefreshing
  <2>1. BeginRefresh(p, c)  BY <1>4 DEF refreshNow
  <2>2. \A d \in Callers : ~Busy(p, d)  BY <1>2, <1>4 DEF AloneAt
  <2>3. CASE canRefresh(proc[p].tokens)
    <3>1. /\ proc'[p].state = "up" /\ proc'[p].isRefreshing
          /\ \A d \in Callers \ {c} : call'[p][d] = call[p][d]
      BY <1>0, <2>1, <2>3 DEF BeginRefresh, Process, CallsType
    <3>2. \A d \in Callers : Busy(p, d)' => d = c  BY <2>2, <3>1 DEF Busy
    <3> QED  BY <1>1, <3>1, <3>2, AloneChanged DEF AloneAt
  <2>4. CASE ~canRefresh(proc[p].tokens)
    <3>1. UNCHANGED <<proc, call>>  BY <2>1, <2>4 DEF BeginRefresh
    <3> QED  BY <1>1, <1>2, <2>2, <3>1, AloneChanged DEF AloneAt, Busy
  <2> QED  BY <2>3, <2>4
<1> QED  BY <1>3, <1>4

LEMMA FinishAlone ==
    ASSUME TypeOK, Alone, NEW p \in Procs, NEW c \in Callers, NEW ok, NEW changed,
           changed \in Process, changed.state = proc[p].state, Busy(p, c), c # "startup",
           Finish(p, c, ok, changed)
    PROVE  Alone'
<1>0. proc \in [Procs -> Process] /\ CallsType /\ RequestsType  BY TypeParts
<1>1. \A q \in Procs \ {p} : proc'[q] = proc[q] /\ call'[q] = call[q] /\ request'[q] = request[q]
  BY <1>0 DEF Finish, AfterRefresh, CallsType, RequestsType
<1>2. AloneAt(p)  BY DEF Alone
<1>3. proc'[p].state = proc[p].state  BY <1>0 DEF Finish, Process
<1>4. proc[p].state = "up"  BY <1>0, <1>2 DEF AloneAt, Process
<1>5. \A d \in Callers : ~Busy(p, d)'
  <2>1. call' = [call EXCEPT ![p][c] = NoCall]  BY DEF Finish
  <2>2. \A d \in Callers : call'[p][d] = IF d = c THEN NoCall ELSE call[p][d]
    BY <1>0, <2>1 DEF CallsType
  <2> QED  BY <1>2, <2>2 DEF AloneAt, Busy, NoCall
<1> QED  BY <1>1, <1>3, <1>4, <1>5, AloneChanged DEF AloneAt

LEMMA InitAlone == Init => Alone
BY DEF Init, Alone, AloneAt, Busy, NoCall, NoRequest

LEMMA NextAlone == TypeOK /\ Alone /\ [Next]_vars => Alone'
<1> SUFFICES ASSUME TypeOK, Alone, [Next]_vars PROVE Alone'
  OBVIOUS
<1>1. proc \in [Procs -> Process] /\ CallsType /\ RequestsType  BY TypeParts
<1>2. {"timer", "manual", "startup"} \subseteq Callers /\ Requests \subseteq Callers
  BY DEF Callers
<1>3. ASSUME UNCHANGED <<call, request>>,
             \A p \in Procs : /\ proc'[p].state = proc[p].state
                              /\ proc'[p].isRefreshing = proc[p].isRefreshing
      PROVE  Alone'
  BY <1>3, AloneKept DEF Busy
<1>4. ASSUME UNCHANGED <<proc, request>>,
             \A p \in Procs, c \in Callers : Busy(p, c)' => Busy(p, c)
      PROVE  Alone'
  BY <1>4, AloneKept
<1>5. ASSUME UNCHANGED <<proc, call>>,
             \A p \in Procs, r \in Requests :
                 request'[p][r].step # "idle" => request[p][r].step # "idle" \/ proc[p].state = "up"
      PROVE  Alone'
  BY <1>5, AloneKept DEF Busy
<1>6. ASSUME NEW p \in Procs, NEW c \in Callers, Busy(p, c), NEW ok, NEW changed \in Process,
             changed.state = proc[p].state,
             IF c = "startup" THEN Down(p) ELSE Finish(p, c, ok, changed)
      PROVE  Alone'
  BY <1>6, DownAlone, FinishAlone
<1>10. ASSUME NEW s \in Sessions, Expire(s) PROVE Alone'
  BY <1>3, <1>10 DEF Expire
<1>11. ASSUME NEW s \in Sessions, runAuthCommand(s) PROVE Alone'
  BY <1>3, <1>11 DEF runAuthCommand
<1>12. ASSUME NEW p \in Procs, create(p) PROVE Alone'
  <2>1. /\ proc[p].state = "down"
        /\ \A q \in Procs \ {p} : proc'[q] = proc[q] /\ call'[q] = call[q] /\ request'[q] = request[q]
        /\ request'[p] = request[p]
    BY <1>1, <1>12 DEF create, CallsType
  <2>2. /\ \A c \in Callers : ~Busy(p, c)
        /\ \A r \in Requests : request[p][r].step = "idle"
    BY <2>1 DEF Alone, AloneAt
  <2>3. \A c \in Callers \ {"startup"} : call'[p][c] = call[p][c]
    BY <1>1, <1>2, <1>12 DEF create, CallsType
  <2>4. proc'[p].state = "up" => call' = call
    BY <1>1, <1>12 DEF create, Off_
  <2>5. proc'[p].state \in {"starting", "up"}
    BY <1>1, <1>12 DEF create, initializeAuth, Off_
  <2>6. \A c \in Callers : Busy(p, c)' => c = "startup" /\ proc'[p].state # "up"
    BY <2>2, <2>3, <2>4 DEF Busy
  <2>7. AloneAt(p)'  BY <2>1, <2>2, <2>5, <2>6 DEF AloneAt
  <2> QED  BY <2>1, <2>7, AloneChanged
<1>13. ASSUME NEW p \in Procs, Crash(p) PROVE Alone'
  BY <1>13, DownAlone DEF Crash
<1>14. ASSUME NEW p \in Procs, Exit(p) PROVE Alone'
  BY <1>14, DownAlone DEF Exit
<1>15. ASSUME NEW p \in Procs, startAutoRefresh(p) PROVE Alone'
  BY <1>2, <1>15, RefreshNowAlone DEF startAutoRefresh, Up
<1>16. ASSUME NEW p \in Procs, manualRefresh(p) PROVE Alone'
  BY <1>2, <1>16, RefreshNowAlone DEF manualRefresh, Up
<1>17. ASSUME NEW p \in Procs, logout(p) PROVE Alone'
  BY <1>1, <1>3, <1>17 DEF logout, Process
<1>18. ASSUME NEW p \in Procs, revokeSession(p) PROVE Alone'
  BY <1>1, <1>3, <1>18 DEF revokeSession, Process
<1>19. ASSUME NEW p \in Procs, deleteTokenCache(p) PROVE Alone'
  BY <1>1, <1>3, <1>19 DEF deleteTokenCache, Process
<1>20. ASSUME NEW p \in Procs, NEW c \in Callers, authRefresh(p, c) PROVE Alone'
  <2>2. \E new : call' = [call EXCEPT ![p][c] = new]
    BY <1>20 DEF authRefresh
  <2>3. Busy(p, c)  BY <1>20 DEF authRefresh, Busy
  <2>1. \A q \in Procs, d \in Callers : Busy(q, d)' => Busy(q, d)
    BY <1>1, <2>2, <2>3 DEF Busy, CallsType
  <2> QED  BY <1>4, <1>20, <2>1 DEF authRefresh
<1>21. ASSUME NEW p \in Procs, NEW c \in Callers, LoseAnswer(p, c) PROVE Alone'
  <2>1. \A q \in Procs, d \in Callers : Busy(q, d)' => Busy(q, d)
    BY <1>1, <1>21 DEF LoseAnswer, Busy, CallsType, Call
  <2> QED  BY <1>4, <1>21, <2>1 DEF LoseAnswer
<1>22. ASSUME NEW p \in Procs, NEW c \in Callers, refreshFailed(p, c) PROVE Alone'
  BY <1>1, <1>6, <1>22 DEF refreshFailed, Busy
<1>23. ASSUME NEW p \in Procs, NEW c \in Callers, refresh(p, c) PROVE Alone'
  <2>1. \A q \in Procs, d \in Callers : Busy(q, d)' => Busy(q, d)
    BY <1>1, <1>23 DEF refresh, Busy, CallsType, Call
  <2>2. \A q \in Procs : /\ proc'[q].state = proc[q].state
                         /\ proc'[q].isRefreshing = proc[q].isRefreshing
    BY <1>1, <1>23 DEF refresh, Process
  <2> QED  BY <1>23, <2>1, <2>2, AloneKept DEF refresh
<1>24. ASSUME NEW p \in Procs, NEW c \in Callers, saveTokensToVault(p, c) PROVE Alone'
  <2> DEFINE changed == [proc[p] EXCEPT !.cachedKey = KeyToWrite(@).cached]
  <2>1. Busy(p, c) /\ Ready(p, c, changed)  BY <1>24 DEF saveTokensToVault, Busy
  <2>2. changed \in Process /\ changed.state = proc[p].state
    <3>1. proc[p] \in Process /\ proc[p].cachedKey \in Keys  BY <1>1 DEF Process
    <3>2. KeyToWrite(proc[p].cachedKey).cached \in Keys  BY <3>1, KeyTypes DEF TypeOK
    <3> QED  BY <3>1, <3>2 DEF Process
  <2> HIDE DEF changed
  <2>3. CASE c # "startup"  BY <2>1, <2>2, <2>3, FinishAlone DEF Ready
  <2>4. CASE c = "startup"
    <3>1. /\ proc' = [proc EXCEPT ![p] = initializeAuth(p, changed.tokens, changed.cachedKey)]
          /\ call' = [call EXCEPT ![p][c] = NoCall]
          /\ request' = request
      BY <2>1, <2>4 DEF Ready
    <3>2. /\ \A q \in Procs \ {p} : proc'[q] = proc[q] /\ call'[q] = call[q] /\ request'[q] = request[q]
          /\ proc'[p].state = "up"
      BY <1>1, <3>1 DEF initializeAuth, Off_, CallsType
    <3>3. \A d \in Callers : call'[p][d] = IF d = c THEN NoCall ELSE call[p][d]
      BY <1>1, <3>1 DEF CallsType
    <3>4. \A d \in Callers : ~Busy(p, d)'
      BY <2>1, <3>3 DEF Alone, AloneAt, Busy, NoCall
    <3> QED  BY <3>2, <3>4, AloneChanged DEF AloneAt
  <2> QED  BY <2>3, <2>4
<1>25. ASSUME NEW p \in Procs, NEW c \in Callers, SaveFails(p, c) PROVE Alone'
  BY <1>1, <1>6, <1>25 DEF SaveFails, Busy
<1>26. ASSUME NEW p \in Procs, NEW r \in Requests, makeRequest(p, r) PROVE Alone'
  BY <1>1, <1>5, <1>26 DEF makeRequest, Up, RequestsType
<1>27. ASSUME NEW p \in Procs, NEW r \in Requests, Answer(p, r) PROVE Alone'
  <2>1. request[p][r].step # "idle"  BY <1>27 DEF Answer
  <2>2. \A q \in Procs, d \in Requests :
            request'[q][d].step # "idle" => request[q][d].step # "idle"
    BY <1>1, <1>27, <2>1 DEF Answer, RequestsType
  <2> QED  BY <1>5, <1>27, <2>2 DEF Answer
<1>28. ASSUME NEW p \in Procs, NEW r \in Requests, handleAuthError(p, r) PROVE Alone'
  <2>1. proc[p].state = "up"  BY <1>28 DEF handleAuthError, Alone, AloneAt
  <2> QED  BY <1>2, <1>28, <2>1, RefreshNowAlone DEF handleAuthError
<1>29. CASE UNCHANGED vars
  BY <1>3, <1>29 DEF vars, authVars
<1> QED
  BY <1>10, <1>11, <1>12, <1>13, <1>14, <1>15, <1>16, <1>17, <1>18, <1>19, <1>20, <1>21,
     <1>22, <1>23, <1>24, <1>25, <1>26, <1>27, <1>28, <1>29 DEF Next

(* One refresh at a time in a process, whoever asks: the guard of refreshNow is *)
(* enough although the flag is cleared by the callers, because a starting       *)
(* process has no requests whose 401 could ask for a second one.                *)
THEOREM RefreshesAlone == Spec => []OneRefresh
<1>1. ASSUME Alone PROVE OneRefresh
  <2> SUFFICES ASSUME NEW p \in Procs
               PROVE  Cardinality({c \in Callers : Busy(p, c)}) <= 1
    BY DEF OneRefresh
  <2>1. CASE \A c \in Callers : ~Busy(p, c)
    <3>1. {c \in Callers : Busy(p, c)} = {}  BY <2>1
    <3> QED  BY <3>1, FS_EmptySet
  <2>2. CASE \E c \in Callers : Busy(p, c)
    <3>1. PICK c \in Callers : Busy(p, c)  BY <2>2
    <3>2. {d \in Callers : Busy(p, d)} = {c}  BY <1>1, <3>1 DEF Alone, AloneAt
    <3> QED  BY <3>2, FS_Singleton
  <2> QED  BY <2>1, <2>2
<1> QED  BY <1>1, InitTypes, NextTypes, InitAlone, NextAlone, PTL DEF Spec

-----------------------------------------------------------------------------
(* Whose tokens are where *)

(* Two steps reset a session or move its generation; none takes back what was   *)
(* given.                                                                       *)
Grows == \A s \in Sessions : server[s].gen >= 1 =>
    /\ server'[s].gen >= server[s].gen
    /\ server[s].out => server'[s].out

LEMMA NextGrows == TypeOK /\ Owned /\ [Next]_vars => Grows
<1> SUFFICES ASSUME TypeOK, Owned, [Next]_vars PROVE Grows
  OBVIOUS
<1>1. server \in [Sessions -> Session]  BY TypeParts
<1>2. \A s \in Sessions : server[s].gen \in Nat
  BY <1>1, AuthBounds DEF Session
<1>3. ASSUME UNCHANGED server PROVE Grows
  BY <1>2, <1>3 DEF Grows
<1>4. ASSUME NEW s \in Sessions, Expire(s) PROVE Grows
  BY <1>1, <1>2, <1>4 DEF Expire, Grows, Session
<1>5. ASSUME NEW s \in Sessions, runAuthCommand(s) PROVE Grows
  <2>1. server[s].gen = 0  BY <1>5, <1>2 DEF runAuthCommand, Sessions
  <2>2. \A e \in Sessions \ {s} : server'[e] = server[e]
    BY <1>1, <1>5 DEF runAuthCommand
  <2> QED  BY <1>2, <2>1, <2>2 DEF Grows
<1>6. ASSUME NEW p \in Procs, NEW c \in Callers, authRefresh(p, c) PROVE Grows
  <2> DEFINE t == call[p][c].tokens
  <2>1. CASE Exchanges(t)
    <3>0. t.uid \in Sessions /\ t.gen = server[t.uid].gen
      BY <1>6, <2>1 DEF authRefresh, Exchanges, Known
    <3>1. server' = [server EXCEPT ![t.uid].gen = t.gen + 1, ![t.uid].live = TRUE,
                                   ![t.uid].late = FALSE]
      BY <1>6, <2>1 DEF authRefresh
    <3> HIDE DEF t
    <3>2. server'[t.uid].gen = server[t.uid].gen + 1 /\ server'[t.uid].out = server[t.uid].out
      BY <1>1, <3>0, <3>1 DEF Session
    <3>3. \A e \in Sessions \ {t.uid} : server'[e] = server[e]
      BY <1>1, <3>0, <3>1 DEF Session
    <3>4. \A e \in Sessions : server'[e].gen >= server[e].gen
      <4> SUFFICES ASSUME NEW e \in Sessions PROVE server'[e].gen >= server[e].gen
        OBVIOUS
      <4>1. CASE e = t.uid
        <5>1. server'[t.uid].gen = server[t.uid].gen + 1  BY <3>2
        <5>2. server[t.uid].gen \in Nat  BY <1>2, <3>0
        <5> QED  BY <4>1, <5>1, <5>2
      <4>2. CASE e # t.uid
        <5>1. server'[e].gen = server[e].gen  BY <3>3, <4>2
        <5> QED  BY <1>2, <5>1
      <4> QED  BY <4>1, <4>2
    <3>5. \A e \in Sessions : server[e].out => server'[e].out
      BY <3>1, <3>2, <3>3
    <3> QED  BY <3>4, <3>5 DEF Grows
  <2>2. CASE ~Exchanges(t)
    BY <1>3, <1>6, <2>2 DEF authRefresh
  <2> QED  BY <2>1, <2>2
<1>7. ASSUME NEW p \in Procs, logout(p) PROVE Grows
  BY <1>1, <1>2, <1>7 DEF logout, Grows, Session
<1>8. ASSUME NEW p \in Procs, revokeSession(p) PROVE Grows
  <2> DEFINE t == proc[p].revoking
  <2>1. \/ server' = [server EXCEPT ![t.uid].revoked = TRUE, ![t.uid].live = FALSE]
        \/ server' = server
    BY <1>8 DEF revokeSession
  <2> HIDE DEF t
  <2>2. CASE server' = [server EXCEPT ![t.uid].revoked = TRUE, ![t.uid].live = FALSE]
    <3>1. ASSUME NEW e \in Sessions
          PROVE  server'[e].gen = server[e].gen /\ server'[e].out = server[e].out
      BY <1>1, <2>2 DEF Session
    <3> QED  BY <1>2, <3>1 DEF Grows
  <2> QED  BY <1>3, <2>1, <2>2
<1>9. ASSUME NEW p \in Procs,
             \/ create(p) \/ Crash(p) \/ Exit(p) \/ startAutoRefresh(p) \/ manualRefresh(p)
             \/ deleteTokenCache(p)
      PROVE  Grows
  BY <1>3, <1>9 DEF create, Crash, Exit, startAutoRefresh, manualRefresh, deleteTokenCache
<1>10. ASSUME NEW p \in Procs, NEW c \in Callers,
              \/ LoseAnswer(p, c) \/ refreshFailed(p, c) \/ refresh(p, c)
              \/ saveTokensToVault(p, c) \/ SaveFails(p, c)
       PROVE  Grows
  BY <1>3, <1>10 DEF LoseAnswer, refreshFailed, refresh, saveTokensToVault, SaveFails
<1>11. ASSUME NEW p \in Procs, NEW r \in Requests,
              makeRequest(p, r) \/ Answer(p, r) \/ handleAuthError(p, r)
       PROVE  Grows
  BY <1>3, <1>11 DEF makeRequest, Answer, handleAuthError
<1>12. CASE UNCHANGED vars
  BY <1>3, <1>12 DEF vars, authVars
<1> QED  BY <1>4, <1>5, <1>6, <1>7, <1>8, <1>9, <1>10, <1>11, <1>12 DEF Next

(* What was given stays given. *)
LEMMA GivenKept ==
    ASSUME TypeOK, TypeOK', Grows, NEW t \in Tokens, Given(t)
    PROVE  Given(t)'
<1>1. t.gen \in Nat  BY AuthBounds DEF Tokens
<1>2. server[t.uid].gen \in Nat /\ server'[t.uid].gen \in Nat
  BY AuthBounds DEF TypeOK, Given
<1> QED  BY <1>1, <1>2 DEF Given, Grows

(* The process p is where a step happens; for the others only the server moved. *)
LEMMA OwnedOthers ==
    ASSUME TypeOK, TypeOK', Grows, Owned, NEW q \in Procs,
           proc'[q] = proc[q], call'[q] = call[q]
    PROVE  OwnedAt(q)'
<1>1. OwnedAt(q)  BY DEF Owned
<1>2. proc \in [Procs -> Process] /\ CallsType  BY TypeParts
<1>3. proc[q].tokens \in Tokens /\ \A c \in Callers : call[q][c].tokens \in Tokens
  BY <1>2 DEF Process, CallsType, Call
<1>4. proc[q].state # "down" => Given(proc[q].tokens)'
  BY <1>1, <1>3, GivenKept DEF OwnedAt
<1>5. \A c \in Callers : Busy(q, c) => Given(call[q][c].tokens)'
  BY <1>1, <1>3, GivenKept DEF OwnedAt
<1>6. proc[q].logout # "no" => server'[proc[q].revoking.uid].out
  <2> SUFFICES ASSUME proc[q].logout # "no" PROVE server'[proc[q].revoking.uid].out
    OBVIOUS
  <2>1. /\ Given(proc[q].tokens) /\ proc[q].revoking.uid = proc[q].tokens.uid
        /\ server[proc[q].revoking.uid].out
    BY <1>1 DEF OwnedAt
  <2>2. server[proc[q].tokens.uid].gen >= 1
    BY <1>2, <1>3, <2>1, AuthBounds DEF Given, Tokens, TypeOK
  <2> QED  BY <2>1, <2>2 DEF Grows, Given
<1> QED  BY <1>1, <1>4, <1>5, <1>6 DEF OwnedAt, Busy

LEMMA DownOwned ==
    ASSUME TypeOK, TypeOK', Grows, Owned, NEW p \in Procs, Down(p)
    PROVE  \A q \in Procs : OwnedAt(q)'
<1>1. /\ \A q \in Procs \ {p} : proc'[q] = proc[q] /\ call'[q] = call[q]
      /\ proc'[p] = Off_ /\ call'[p] = [c \in Callers |-> NoCall]
  BY DEF Down, TypeOK
<1>2. OwnedAt(p)'  BY <1>1 DEF OwnedAt, Busy, NoCall, Off_
<1> QED  BY <1>1, <1>2, OwnedOthers

LEMMA RefreshNowOwned ==
    ASSUME TypeOK, TypeOK', Grows, Owned, UNCHANGED server, NEW p \in Procs, NEW c \in Callers,
           proc[p].state = "up", refreshNow(p, c)
    PROVE  \A q \in Procs : OwnedAt(q)'
<1>0. proc \in [Procs -> Process] /\ CallsType /\ RequestsType  BY TypeParts
<1>1. \A q \in Procs \ {p} : proc'[q] = proc[q] /\ call'[q] = call[q]
  BY <1>0 DEF refreshNow, BeginRefresh, CallsType
<1>2. /\ proc'[p].tokens = proc[p].tokens /\ proc'[p].state = proc[p].state
      /\ proc'[p].logout = proc[p].logout /\ proc'[p].revoking = proc[p].revoking
  <2>1. \/ proc' = proc
        \/ proc' = [proc EXCEPT ![p].api = ApiAfter(p, c, proc[p].tokens)]
        \/ proc' = [proc EXCEPT ![p].isRefreshing = TRUE]
    BY DEF refreshNow, BeginRefresh
  <2> QED  BY <1>0, <2>1 DEF Process
<1>3. \A d \in Callers :
         call'[p][d] = call[p][d] \/ call'[p][d] = [step |-> "fetch", tokens |-> proc[p].tokens]
  <2>1. \/ call' = call
        \/ call' = [call EXCEPT ![p][c] = [step |-> "fetch", tokens |-> proc[p].tokens]]
    BY DEF refreshNow, BeginRefresh
  <2> QED  BY <1>0, <2>1 DEF CallsType
<1>4. OwnedAt(p)  BY DEF Owned
<1>5. Given(proc[p].tokens)  BY <1>4 DEF OwnedAt
<1>6. \A t : Given(t) => t.uid \in Sessions /\ 1 <= t.gen /\ t.gen <= server'[t.uid].gen
  BY DEF Given
<1>7. \A d \in Callers : Busy(p, d)' =>
         /\ Given(call'[p][d].tokens)
         /\ call'[p][d].tokens.uid = proc'[p].tokens.uid
         /\ call'[p][d].step = "save" => call'[p][d].tokens = proc'[p].tokens
  BY <1>2, <1>3, <1>4, <1>5 DEF OwnedAt, Busy
<1>8. OwnedAt(p)'
  BY <1>2, <1>4, <1>5, <1>6, <1>7 DEF OwnedAt, Given
<1> QED  BY <1>1, <1>8, OwnedOthers

LEMMA FinishOwned ==
    ASSUME TypeOK, TypeOK', Grows, Owned, UNCHANGED server, NEW p \in Procs, NEW c \in Callers,
           NEW ok, NEW changed \in Process,
           changed.state = proc[p].state, changed.tokens = proc[p].tokens,
           changed.logout = proc[p].logout, changed.revoking = proc[p].revoking,
           Finish(p, c, ok, changed)
    PROVE  \A q \in Procs : OwnedAt(q)'
<1>0. proc \in [Procs -> Process] /\ CallsType  BY TypeParts
<1>1. \A q \in Procs \ {p} : proc'[q] = proc[q] /\ call'[q] = call[q]
  BY <1>0 DEF Finish, CallsType
<1>2. /\ proc'[p].tokens = proc[p].tokens /\ proc'[p].state = proc[p].state
      /\ proc'[p].logout = proc[p].logout /\ proc'[p].revoking = proc[p].revoking
  BY <1>0 DEF Finish, Process
<1>3. \A d \in Callers : call'[p][d] = call[p][d] \/ call'[p][d] = NoCall
  BY <1>0 DEF Finish, CallsType
<1>4. OwnedAt(p)  BY DEF Owned
<1>5. \A t : Given(t) => t.uid \in Sessions /\ 1 <= t.gen /\ t.gen <= server'[t.uid].gen
  BY DEF Given
<1>6. OwnedAt(p)'
  BY <1>2, <1>3, <1>4, <1>5, SMTT(20) DEF OwnedAt, Given, Busy, NoCall
<1> QED  BY <1>1, <1>6, OwnedOthers

LEMMA InitOwned == Init => Owned
<1> SUFFICES ASSUME Init PROVE Owned
  OBVIOUS
<1>1. \A s \in Sessions : ~server[s].live /\ ~server[s].revoked
  BY DEF Init, NoSession, NewSession
<1>2. \A p \in Procs : OwnedAt(p)
  BY DEF Init, OwnedAt, Busy, NoCall, Off_
<1> QED  BY <1>1, <1>2 DEF Init, Owned, VaultGiven, Alive

LEMMA NextAlive == TypeOK /\ Alive /\ [Next]_vars => Alive'
<1> SUFFICES ASSUME TypeOK, Alive, [Next]_vars PROVE Alive'
  OBVIOUS
<1>1. server \in [Sessions -> Session]  BY TypeParts
<1>2. \A s \in Sessions : server[s].gen \in Nat
  BY <1>1, AuthBounds DEF Session
<1>3. ASSUME UNCHANGED server PROVE Alive'
  BY <1>3 DEF Alive
<1>4. ASSUME NEW s \in Sessions, Expire(s) PROVE Alive'
  <2>1. \A e \in Sessions : /\ server'[e].gen = server[e].gen
                            /\ server'[e].live => server[e].live
                            /\ server'[e].revoked => server[e].revoked
    BY <1>1, <1>4 DEF Expire, Session
  <2> QED  BY <2>1 DEF Alive
<1>5. ASSUME NEW s \in Sessions, runAuthCommand(s) PROVE Alive'
  <2>1. \A e \in Sessions \ {s} : server'[e] = server[e]
    BY <1>1, <1>5 DEF runAuthCommand
  <2>2. server'[s].gen = 1
    BY <1>1, <1>5 DEF runAuthCommand, NewSession
  <2> QED  BY <2>1, <2>2 DEF Alive
<1>6. ASSUME NEW p \in Procs, NEW c \in Callers, authRefresh(p, c) PROVE Alive'
  <2> DEFINE t == call[p][c].tokens
  <2>1. CASE Exchanges(t)
    <3>1. t.uid \in Sessions /\ t.gen = server[t.uid].gen
      BY <2>1 DEF Exchanges, Known
    <3>2. server' = [server EXCEPT ![t.uid].gen = t.gen + 1, ![t.uid].live = TRUE,
                                   ![t.uid].late = FALSE]
      BY <1>6, <2>1 DEF authRefresh
    <3> HIDE DEF t
    <3>3. server'[t.uid].gen = server[t.uid].gen + 1
      BY <1>1, <3>1, <3>2 DEF Session
    <3>4. server'[t.uid].gen >= 1  BY <1>2, <3>1, <3>3
    <3>5. \A e \in Sessions \ {t.uid} : server'[e] = server[e]
      BY <1>1, <3>1, <3>2 DEF Session
    <3> QED  BY <3>4, <3>5 DEF Alive
  <2>2. CASE ~Exchanges(t)
    BY <1>3, <1>6, <2>2 DEF authRefresh
  <2> QED  BY <2>1, <2>2
<1>7. ASSUME NEW p \in Procs, logout(p) PROVE Alive'
  <2>1. \A e \in Sessions : /\ server'[e].gen = server[e].gen
                            /\ server'[e].live => server[e].live
                            /\ server'[e].revoked => server[e].revoked
    BY <1>1, <1>7 DEF logout, Session
  <2> QED  BY <2>1 DEF Alive
<1>8. ASSUME NEW p \in Procs, revokeSession(p) PROVE Alive'
  <2> DEFINE t == proc[p].revoking
  <2>1. CASE Accepts(t)
    <3>1. t.uid \in Sessions /\ server[t.uid].live  BY <2>1 DEF Accepts, Known
    <3>2. server' = [server EXCEPT ![t.uid].revoked = TRUE, ![t.uid].live = FALSE]
      BY <1>8, <2>1 DEF revokeSession
    <3> HIDE DEF t
    <3>3. server'[t.uid].gen = server[t.uid].gen  BY <1>1, <3>1, <3>2 DEF Session
    <3>4. \A e \in Sessions \ {t.uid} : server'[e] = server[e]
      BY <1>1, <3>1, <3>2 DEF Session
    <3> QED  BY <3>1, <3>3, <3>4 DEF Alive
  <2>2. CASE ~Accepts(t)
    BY <1>3, <1>8, <2>2 DEF revokeSession
  <2> QED  BY <2>1, <2>2
<1>9. ASSUME NEW p \in Procs,
             \/ create(p) \/ Crash(p) \/ Exit(p) \/ startAutoRefresh(p) \/ manualRefresh(p)
             \/ deleteTokenCache(p)
      PROVE  Alive'
  BY <1>3, <1>9 DEF create, Crash, Exit, startAutoRefresh, manualRefresh, deleteTokenCache
<1>10. ASSUME NEW p \in Procs, NEW c \in Callers,
              \/ LoseAnswer(p, c) \/ refreshFailed(p, c) \/ refresh(p, c)
              \/ saveTokensToVault(p, c) \/ SaveFails(p, c)
       PROVE  Alive'
  BY <1>3, <1>10 DEF LoseAnswer, refreshFailed, refresh, saveTokensToVault, SaveFails
<1>11. ASSUME NEW p \in Procs, NEW r \in Requests,
              makeRequest(p, r) \/ Answer(p, r) \/ handleAuthError(p, r)
       PROVE  Alive'
  BY <1>3, <1>11 DEF makeRequest, Answer, handleAuthError
<1>12. CASE UNCHANGED vars
  BY <1>3, <1>12 DEF vars, authVars
<1> QED  BY <1>4, <1>5, <1>6, <1>7, <1>8, <1>9, <1>10, <1>11, <1>12 DEF Next

LEMMA NextVaultGiven == TypeOK /\ TypeOK' /\ Alone /\ Owned /\ Grows /\ [Next]_vars => VaultGiven'
<1> SUFFICES ASSUME TypeOK, TypeOK', Alone, Owned, Grows, [Next]_vars PROVE VaultGiven'
  OBVIOUS
<1>1. /\ VaultType /\ server \in [Sessions -> Session]
      /\ proc \in [Procs -> Process] /\ CallsType
  BY TypeParts
<1>2. ASSUME vault' = vault PROVE VaultGiven'
  BY <1>1, <1>2, GivenKept DEF VaultGiven, Owned, VaultType
<1>3. ASSUME NEW s \in Sessions, runAuthCommand(s) PROVE VaultGiven'
  <2>1. vault' = vault \/ vault'.tokens = [uid |-> s, gen |-> 1]
    BY <1>3 DEF runAuthCommand, writeVault
  <2>2. server'[s].gen = 1
    BY <1>1, <1>3 DEF runAuthCommand, NewSession
  <2> QED  BY <1>2, <2>1, <2>2 DEF VaultGiven, Given
<1>4. ASSUME NEW p \in Procs, deleteTokenCache(p) PROVE VaultGiven'
  BY <1>4 DEF deleteTokenCache, deleteVault, VaultGiven
<1>5. ASSUME NEW p \in Procs, NEW c \in Callers, saveTokensToVault(p, c) PROVE VaultGiven'
  <2>1. vault' = vault \/ vault'.tokens = proc[p].tokens
    BY <1>5 DEF saveTokensToVault, writeVault
  <2>2. Given(proc[p].tokens)
    <3>1. Busy(p, c)  BY <1>5 DEF saveTokensToVault, Busy
    <3> QED  BY <3>1 DEF Alone, AloneAt, Owned, OwnedAt
  <2>3. server' = server  BY <1>5 DEF saveTokensToVault
  <2> QED  BY <1>2, <2>1, <2>2, <2>3 DEF VaultGiven, Given
<1>6. ASSUME UNCHANGED vaultVars PROVE VaultGiven'
  BY <1>2, <1>6 DEF vaultVars
<1>7. ASSUME NEW s \in Sessions, Expire(s) PROVE VaultGiven'
  BY <1>6, <1>7 DEF Expire
<1>8. ASSUME NEW p \in Procs,
             \/ create(p) \/ Crash(p) \/ Exit(p) \/ startAutoRefresh(p) \/ manualRefresh(p)
             \/ logout(p) \/ revokeSession(p)
      PROVE  VaultGiven'
  BY <1>6, <1>8 DEF create, Crash, Exit, startAutoRefresh, manualRefresh, logout, revokeSession
<1>9. ASSUME NEW p \in Procs, NEW c \in Callers,
             \/ authRefresh(p, c) \/ LoseAnswer(p, c) \/ refreshFailed(p, c) \/ refresh(p, c)
             \/ SaveFails(p, c)
      PROVE  VaultGiven'
  BY <1>6, <1>9 DEF authRefresh, LoseAnswer, refreshFailed, refresh, SaveFails
<1>10. ASSUME NEW p \in Procs, NEW r \in Requests,
              makeRequest(p, r) \/ Answer(p, r) \/ handleAuthError(p, r)
       PROVE  VaultGiven'
  BY <1>6, <1>10 DEF makeRequest, Answer, handleAuthError
<1>11. CASE UNCHANGED vars
  BY <1>6, <1>11 DEF vars
<1> QED  BY <1>3, <1>4, <1>5, <1>7, <1>8, <1>9, <1>10, <1>11 DEF Next

LEMMA NextOwned == TypeOK /\ TypeOK' /\ Alone /\ Owned /\ [Next]_vars => Owned'
<1> SUFFICES ASSUME TypeOK, TypeOK', Alone, Owned, [Next]_vars PROVE Owned'
  OBVIOUS
<1> DEFINE Kept == \A q \in Procs : OwnedAt(q)'
<1>1. /\ VaultType /\ server \in [Sessions -> Session]
      /\ proc \in [Procs -> Process] /\ CallsType
  BY TypeParts
<1>2. Grows  BY NextGrows
<1>3. VaultGiven' /\ Alive'
  BY <1>2, NextVaultGiven, NextAlive DEF Owned
<1>4. {"timer", "manual", "startup"} \subseteq Callers /\ Requests \subseteq Callers
  BY DEF Callers
<1>5. ASSUME UNCHANGED <<proc, call>> PROVE Kept
  BY <1>2, <1>5, OwnedOthers
<1>6. ASSUME NEW p \in Procs, OwnedAt(p)',
             \A q \in Procs \ {p} : proc'[q] = proc[q] /\ call'[q] = call[q]
      PROVE  Kept
  BY <1>2, <1>6, OwnedOthers
<1>7. ASSUME NEW p \in Procs, NEW c \in Callers, UNCHANGED server,
             IF c = "startup" THEN Down(p) ELSE Finish(p, c, FALSE, proc[p])
      PROVE  Kept
  BY <1>1, <1>2, <1>7, DownOwned, FinishOwned
<1>8. \A p \in Procs : OwnedAt(p)  BY DEF Owned
<1>9. \A t \in Tokens : Given(t) => t.uid \in Sessions /\ 1 <= t.gen /\ t.gen <= server'[t.uid].gen
  BY <1>2, GivenKept DEF Given
<1>10. ASSUME NEW s \in Sessions, Expire(s) \/ runAuthCommand(s) PROVE Kept
  BY <1>5, <1>10 DEF Expire, runAuthCommand
<1>12. ASSUME NEW p \in Procs, create(p) PROVE Kept
  <2>1. /\ Given(vault.tokens)
        /\ proc[p].state = "down" /\ UNCHANGED server
        /\ \A q \in Procs \ {p} : proc'[q] = proc[q] /\ call'[q] = call[q]
    BY <1>1, <1>12 DEF create, Readable, Owned, VaultGiven, CallsType
  <2>2. proc'[p].tokens = vault.tokens /\ proc'[p].logout = "no"
    <3>1. \/ proc' = [proc EXCEPT ![p] = [Off_ EXCEPT !.state = "starting", !.tokens = vault.tokens,
                                                     !.cachedKey = getVaultKey(None).cached]]
          \/ proc' = [proc EXCEPT ![p] = initializeAuth(p, vault.tokens, getVaultKey(None).cached)]
      BY <1>12 DEF create
    <3> QED  BY <1>1, <3>1 DEF initializeAuth, Off_
  <2>3. \A c \in Callers : \/ call'[p][c] = call[p][c]
                           \/ call'[p][c] = [step |-> "fetch", tokens |-> vault.tokens]
    BY <1>1, <1>12 DEF create, CallsType
  <2>4. \A c \in Callers : ~Busy(p, c)
    BY <2>1 DEF Alone, AloneAt
  <2>6. OwnedAt(p)'
    BY <2>1, <2>2, <2>3, <2>4 DEF OwnedAt, Given, Busy
  <2> QED  BY <1>6, <2>1, <2>6
<1>13. ASSUME NEW p \in Procs, Crash(p) \/ Exit(p) PROVE Kept
  BY <1>2, <1>13, DownOwned DEF Crash, Exit
<1>15. ASSUME NEW p \in Procs, startAutoRefresh(p) \/ manualRefresh(p) PROVE Kept
  BY <1>2, <1>4, <1>15, RefreshNowOwned DEF startAutoRefresh, manualRefresh, Up
<1>17. ASSUME NEW p \in Procs, logout(p) PROVE Kept
  <2>1. /\ \A q \in Procs \ {p} : proc'[q] = proc[q]
        /\ call' = call /\ proc[p].state = "up"
        /\ proc'[p].state = proc[p].state /\ proc'[p].tokens = proc[p].tokens
        /\ proc'[p].revoking = proc[p].tokens
    BY <1>1, <1>17 DEF logout, Up, Process
  <2>2. Given(proc[p].tokens) /\ proc[p].tokens \in Tokens
    BY <1>1, <1>8, <2>1 DEF OwnedAt, Process
  <2>3. server'[proc[p].tokens.uid].out
    BY <1>1, <1>17, <2>2 DEF logout, Given, Session
  <2>4. \A c \in Callers : call[p][c].tokens \in Tokens
    BY <1>1 DEF CallsType, Call
  <2>5. OwnedAt(p)'
    BY <1>8, <1>9, <2>1, <2>2, <2>3, <2>4, SMTT(20) DEF OwnedAt, Given, Busy
  <2> QED  BY <1>6, <2>1, <2>5
<1>18. ASSUME NEW p \in Procs, revokeSession(p) \/ deleteTokenCache(p) PROVE Kept
  <2>1. /\ \A q \in Procs \ {p} : proc'[q] = proc[q]
        /\ call' = call /\ proc[p].logout # "no"
        /\ proc'[p].state = proc[p].state /\ proc'[p].tokens = proc[p].tokens
        /\ proc'[p].revoking = proc[p].revoking
    BY <1>1, <1>18 DEF revokeSession, deleteTokenCache, Process
  <2>2. /\ Given(proc[p].tokens) /\ proc[p].tokens \in Tokens
        /\ proc[p].revoking.uid = proc[p].tokens.uid /\ proc[p].state = "up"
        /\ server[proc[p].tokens.uid].out
    BY <1>1, <1>8, <2>1 DEF OwnedAt, Process
  <2>3. server'[proc[p].tokens.uid].out
    <3>1. server[proc[p].tokens.uid].gen >= 1
      BY <1>1, <2>2, AuthBounds DEF Given, Tokens, Session
    <3> QED  BY <1>2, <2>2, <3>1 DEF Grows, Given
  <2>4. \A c \in Callers : call[p][c].tokens \in Tokens
    BY <1>1 DEF CallsType, Call
  <2>5. OwnedAt(p)'
    BY <1>8, <1>9, <2>1, <2>2, <2>3, <2>4, SMTT(20) DEF OwnedAt, Given, Busy
  <2> QED  BY <1>6, <2>1, <2>5
<1>20. ASSUME NEW p \in Procs, NEW c \in Callers, authRefresh(p, c) \/ LoseAnswer(p, c) PROVE Kept
  <2> DEFINE t == call[p][c].tokens
             new == call'[p][c]
  <2>1. /\ proc' = proc
        /\ \A q \in Procs \ {p} : call'[q] = call[q]
        /\ \A d \in Callers \ {c} : call'[p][d] = call[p][d]
    <3>1. proc' = proc  BY <1>20 DEF authRefresh, LoseAnswer
    <3>2. PICK changed : call' = [call EXCEPT ![p][c] = changed]
      <4>1. CASE authRefresh(p, c)  BY <4>1 DEF authRefresh
      <4>2. CASE LoseAnswer(p, c)  BY <4>2 DEF LoseAnswer
      <4> QED  BY <1>20, <4>1, <4>2
    <3> QED  BY <1>1, <3>1, <3>2 DEF CallsType
  <2>2. Busy(p, c)  BY <1>20 DEF authRefresh, LoseAnswer, Busy
  <2>3. Given(t) /\ t \in Tokens /\ t.uid = proc[p].tokens.uid
    BY <1>1, <1>8, <2>2 DEF OwnedAt, CallsType, Call
  <2>4. /\ new.step # "save" /\ new.tokens.uid = t.uid
        /\ 1 <= new.tokens.gen /\ new.tokens.gen <= server'[t.uid].gen
    <3>1. CASE authRefresh(p, c) /\ Exchanges(t)
      <4>1. new = [step |-> "answered", tokens |-> [t EXCEPT !.gen = t.gen + 1]]
        <5>1. call' = [call EXCEPT ![p][c] = [step |-> "answered",
                                              tokens |-> [t EXCEPT !.gen = t.gen + 1]]]
          BY <3>1 DEF authRefresh
        <5> HIDE DEF t
        <5> QED  BY <1>1, <5>1 DEF CallsType
      <4>2. server'[t.uid].gen = t.gen + 1
        <5>1. server' = [server EXCEPT ![t.uid].gen = t.gen + 1, ![t.uid].live = TRUE,
                                       ![t.uid].late = FALSE]
          BY <3>1 DEF authRefresh
        <5>2. t.uid \in Sessions  BY <2>3 DEF Given
        <5> HIDE DEF t
        <5> QED  BY <1>1, <5>1, <5>2 DEF Session
      <4> HIDE DEF t, new
      <4>3. new.step = "answered" /\ new.tokens.uid = t.uid /\ new.tokens.gen = t.gen + 1
        BY <2>3, <4>1 DEF Tokens
      <4>4. t.gen \in Nat  BY <2>3, AuthBounds DEF Tokens
      <4> QED  BY <4>2, <4>3, <4>4
    <3>2. CASE (authRefresh(p, c) /\ ~Exchanges(t)) \/ LoseAnswer(p, c)
      <4>1. new.step = "denied" /\ new.tokens = t
        <5>1. call' = [call EXCEPT ![p][c].step = "denied"]
          <6>1. CASE authRefresh(p, c) /\ ~Exchanges(t)  BY <6>1 DEF authRefresh
          <6>2. CASE LoseAnswer(p, c)  BY <6>2 DEF LoseAnswer
          <6> QED  BY <3>2, <6>1, <6>2
        <5> QED  BY <1>1, <5>1 DEF CallsType, Call
      <4> HIDE DEF t, new
      <4> QED  BY <1>9, <2>3, <4>1
    <3> QED  BY <1>20, <3>1, <3>2
  <2>5. /\ proc[p].tokens \in Tokens
        /\ \A d \in Callers : call[p][d].tokens \in Tokens
    BY <1>1 DEF Process, CallsType, Call
  <2>6. \A d \in Callers : call'[p][d].step # "none" =>
           /\ call'[p][d].tokens.uid \in Sessions
           /\ 1 <= call'[p][d].tokens.gen
           /\ call'[p][d].tokens.gen <= server'[call'[p][d].tokens.uid].gen
           /\ call'[p][d].tokens.uid = proc[p].tokens.uid
           /\ call'[p][d].step = "save" => call'[p][d].tokens = proc[p].tokens
    <3> SUFFICES ASSUME NEW d \in Callers, call'[p][d].step # "none"
                 PROVE  /\ call'[p][d].tokens.uid \in Sessions
                        /\ 1 <= call'[p][d].tokens.gen
                        /\ call'[p][d].tokens.gen <= server'[call'[p][d].tokens.uid].gen
                        /\ call'[p][d].tokens.uid = proc[p].tokens.uid
                        /\ call'[p][d].step = "save" => call'[p][d].tokens = proc[p].tokens
      OBVIOUS
    <3>1. CASE d = c
      <4>1. t.uid \in Sessions  BY <2>3 DEF Given
      <4>2. call'[p][d] = new  BY <3>1
      <4> HIDE DEF t, new
      <4> QED  BY <2>3, <2>4, <4>1, <4>2
    <3>2. CASE d # c
      <4>1. call'[p][d] = call[p][d] /\ Busy(p, d)  BY <2>1, <3>2 DEF Busy
      <4>2. /\ Given(call[p][d].tokens) /\ call[p][d].tokens.uid = proc[p].tokens.uid
            /\ call[p][d].step = "save" => call[p][d].tokens = proc[p].tokens
        BY <1>8, <4>1 DEF OwnedAt
      <4> QED  BY <1>9, <2>5, <4>1, <4>2
    <3> QED  BY <3>1, <3>2
  <2>7. proc[p].logout # "no" => server'[proc[p].revoking.uid].out
    <3>1. \A u \in Sessions : server[u].out /\ server[u].gen >= 1 => server'[u].out
      BY <1>2 DEF Grows
    <3> SUFFICES ASSUME proc[p].logout # "no" PROVE server'[proc[p].revoking.uid].out
      OBVIOUS
    <3>2. /\ Given(proc[p].tokens) /\ proc[p].revoking.uid = proc[p].tokens.uid
          /\ server[proc[p].tokens.uid].out
      BY <1>8 DEF OwnedAt
    <3>3. server[proc[p].tokens.uid].gen >= 1
      BY <1>1, <2>5, <3>2, AuthBounds DEF Given, Tokens, Session
    <3> QED  BY <3>1, <3>2, <3>3 DEF Given
  <2>8. /\ proc[p].state # "down" =>
              /\ proc[p].tokens.uid \in Sessions /\ 1 <= proc[p].tokens.gen
              /\ proc[p].tokens.gen <= server'[proc[p].tokens.uid].gen
        /\ proc[p].logout # "no" => proc[p].state = "up" /\ proc[p].revoking.uid = proc[p].tokens.uid
    BY <1>8, <1>9, <2>5 DEF OwnedAt
  <2>9. OwnedAt(p)'
    BY <2>1, <2>6, <2>7, <2>8 DEF OwnedAt, Given, Busy
  <2> QED  BY <1>6, <2>1, <2>9
<1>22. ASSUME NEW p \in Procs, NEW c \in Callers, refreshFailed(p, c) \/ SaveFails(p, c) PROVE Kept
  BY <1>7, <1>22 DEF refreshFailed, SaveFails
<1>23. ASSUME NEW p \in Procs, NEW c \in Callers, refresh(p, c) PROVE Kept
  <2> DEFINE t == call[p][c].tokens
  <2>1. /\ UNCHANGED server
        /\ \A q \in Procs \ {p} : call'[q] = call[q] /\ proc'[q] = proc[q]
        /\ \A d \in Callers \ {c} : call'[p][d] = call[p][d]
        /\ call'[p][c].tokens = t
        /\ proc'[p].tokens = t /\ proc'[p].state = proc[p].state
        /\ proc'[p].logout = proc[p].logout /\ proc'[p].revoking = proc[p].revoking
    BY <1>1, <1>23 DEF refresh, CallsType, Call, Process
  <2>2. Busy(p, c)  BY <1>23 DEF refresh, Busy
  <2>3. \A d \in Callers \ {c} : ~Busy(p, d)  BY <2>2 DEF Alone, AloneAt
  <2>4. Given(t) /\ t.uid = proc[p].tokens.uid
    BY <1>8, <2>2 DEF OwnedAt
  <2> HIDE DEF t
  <2>5. Given(t)'  BY <2>1, <2>4 DEF Given, t
  <2>6. OwnedAt(p)'
    BY <1>8, <2>1, <2>3, <2>4, SMTT(20) DEF OwnedAt, Given, Busy
  <2> QED  BY <1>6, <2>1, <2>6
<1>24. ASSUME NEW p \in Procs, NEW c \in Callers, saveTokensToVault(p, c) PROVE Kept
  <2> DEFINE changed == [proc[p] EXCEPT !.cachedKey = KeyToWrite(@).cached]
  <2>1. Ready(p, c, changed) /\ UNCHANGED server  BY <1>24 DEF saveTokensToVault
  <2>2. /\ changed \in Process /\ changed.state = proc[p].state
        /\ changed.tokens = proc[p].tokens /\ changed.logout = proc[p].logout
        /\ changed.revoking = proc[p].revoking
    <3>1. proc[p] \in Process /\ proc[p].cachedKey \in Keys  BY <1>1 DEF Process
    <3>2. KeyToWrite(proc[p].cachedKey).cached \in Keys  BY <3>1, KeyTypes DEF TypeOK
    <3> QED  BY <3>1, <3>2 DEF Process
  <2> HIDE DEF changed
  <2>3. CASE c # "startup"  BY <1>2, <2>1, <2>2, <2>3, FinishOwned DEF Ready
  <2>4. CASE c = "startup"
    <3>1. /\ proc' = [proc EXCEPT ![p] = initializeAuth(p, changed.tokens, changed.cachedKey)]
          /\ call' = [call EXCEPT ![p][c] = NoCall]
      BY <2>1, <2>4 DEF Ready
    <3>2. /\ \A q \in Procs \ {p} : proc'[q] = proc[q] /\ call'[q] = call[q]
          /\ proc'[p].tokens = proc[p].tokens /\ proc'[p].logout = "no"
      BY <1>1, <2>2, <3>1 DEF initializeAuth, Off_, CallsType
    <3>3. \A d \in Callers : call'[p][d] = IF d = c THEN NoCall ELSE call[p][d]
      BY <1>1, <3>1 DEF CallsType
    <3>4. Busy(p, c)  BY <1>24 DEF saveTokensToVault, Busy
    <3>5. Given(proc[p].tokens) /\ \A d \in Callers : ~Busy(p, d)'
      BY <1>8, <3>3, <3>4 DEF Alone, AloneAt, OwnedAt, Busy, NoCall
    <3>6. OwnedAt(p)'
      BY <2>1, <3>2, <3>5 DEF OwnedAt, Given
    <3> QED  BY <1>6, <3>2, <3>6
  <2> QED  BY <2>3, <2>4
<1>26. ASSUME NEW p \in Procs, NEW r \in Requests, makeRequest(p, r) \/ Answer(p, r) PROVE Kept
  BY <1>5, <1>26 DEF makeRequest, Answer
<1>28. ASSUME NEW p \in Procs, NEW r \in Requests, handleAuthError(p, r) PROVE Kept
  <2>1. proc[p].state = "up"  BY <1>28 DEF handleAuthError, Alone, AloneAt
  <2> QED  BY <1>2, <1>4, <1>28, <2>1, RefreshNowOwned DEF handleAuthError
<1>29. ASSUME UNCHANGED vars PROVE Kept
  BY <1>5, <1>29 DEF vars, authVars
<1> HIDE DEF Kept
<1>30. Kept
  BY <1>10, <1>12, <1>13, <1>15, <1>17, <1>18, <1>20, <1>22, <1>23, <1>24, <1>26, <1>28, <1>29
  DEF Next
<1> QED  BY <1>3, <1>30 DEF Owned, Kept

-----------------------------------------------------------------------------
(* Which key is used *)

KeysKept == \A p \in Procs : proc'[p].state # "down" =>
    proc[p].state # "down" /\ proc'[p].cachedKey = proc[p].cachedKey

(* A login looks at the sources afresh: either nothing is written, or the vault *)
(* is under the key that the next look finds, and a key is generated only when  *)
(* there was none.                                                              *)
LEMMA LoginKeys ==
    ASSUME TypeOK, NEW tokens, writeVault(tokens, getVaultKey(None).cached)
    PROVE  \/ UNCHANGED vaultVars
           \/ /\ vault'.key = getVaultKey(None).key'
              /\ UNCHANGED <<keychain, keyFile>> \/ getVaultKey(None).key = None
<1> DEFINE found == getVaultKey(None)
           with == KeyToWrite(found.cached)
<1>1. KeysType  BY TypeParts
<1>2. /\ keychain' = with.stored /\ keyFile' = keyFile
      /\ vault' = IF Usable(with.key) THEN [tokens |-> tokens, key |-> with.key] ELSE vault
  BY DEF writeVault
<1>3. CASE found.key # None
  <2>1. found.cached = found.key /\ found.key # Bad
    BY <1>1, <1>3 DEF KeysType, getVaultKey, Look, InKeychain, Usable, None, Bad, Off,
       KeychainValues, KeyFileValues
  <2>2. with = [key |-> found.key, cached |-> found.key, stored |-> keychain]
    BY <1>3, <2>1 DEF KeyToWrite, getVaultKey
  <2> HIDE DEF with
  <2>3. keychain' = keychain /\ vault'.key = found.key
    BY <1>2, <1>3, <2>1, <2>2 DEF Usable
  <2>4. getVaultKey(None).key' = found.key
    BY <1>2, <2>3 DEF getVaultKey, Look, InKeychain, Usable
  <2> QED  BY <1>2, <2>3, <2>4
<1>4. CASE found.key = None
  <2>1. found.cached \in {None, Bad}
    BY <1>1, <1>4 DEF KeysType, getVaultKey, Look, InKeychain, Usable, None, Bad, Off,
       KeychainValues, KeyFileValues
  <2>2. CASE found.cached = Bad
    <3>1. with = [key |-> Bad, cached |-> Bad, stored |-> keychain]
      BY <2>2 DEF KeyToWrite, getVaultKey, None, Bad
    <3> HIDE DEF with
    <3> QED  BY <1>2, <3>1 DEF Usable, vaultVars
  <2>3. CASE found.cached = None
    <3>1. with = ensureVaultKey(None)  BY <1>4, <2>3 DEF KeyToWrite
    <3>2. CASE isKeychainAvailable
      <4>1. with = [key |-> "generated", cached |-> "generated", stored |-> "generated"]
        BY <1>4, <3>1, <3>2 DEF ensureVaultKey
      <4> HIDE DEF with
      <4>2. keychain' = "generated" /\ vault'.key = "generated"
        BY <1>2, <4>1 DEF Usable, None, Bad
      <4>3. getVaultKey(None).key' = "generated"
        BY <4>2 DEF getVaultKey, Look, InKeychain, Usable, None, Bad, Off
      <4> QED  BY <1>4, <4>2, <4>3
    <3>3. CASE ~isKeychainAvailable
      <4>1. with.key = None /\ with.stored = keychain
        BY <1>4, <3>1, <3>3 DEF ensureVaultKey
      <4> HIDE DEF with
      <4> QED  BY <1>2, <4>1 DEF Usable, vaultVars
    <3> QED  BY <3>2, <3>3
  <2> QED  BY <2>1, <2>2, <2>3
<1> QED  BY <1>3, <1>4

LEMMA NextKeys == TypeOK /\ Alone /\ VaultReadable /\ KeyAgreed /\ [Next]_vars
                      => VaultReadable' /\ KeyAgreed'
<1> SUFFICES ASSUME TypeOK, Alone, VaultReadable, KeyAgreed, [Next]_vars
             PROVE  VaultReadable' /\ KeyAgreed'
  OBVIOUS
<1> DEFINE Good == VaultReadable' /\ KeyAgreed'
<1>1. proc \in [Procs -> Process] /\ VaultType /\ KeysType /\ CallsType
  BY TypeParts
<1>2. ASSUME UNCHANGED <<keychain, keyFile>> PROVE getVaultKey(None)' = getVaultKey(None)
  BY <1>2 DEF getVaultKey, Look, InKeychain, Usable
<1>3. ASSUME UNCHANGED vaultVars, KeysKept PROVE Good
  BY <1>2, <1>3 DEF VaultReadable, Readable, KeyAgreed, KeysKept, vaultVars, Usable
<1>4. ASSUME UNCHANGED proc PROVE KeysKept
  BY <1>4 DEF KeysKept
<1>5. ASSUME NEW p \in Procs, Down(p) PROVE KeysKept
  BY <1>1, <1>5 DEF Down, Off_, KeysKept
<1>6. ASSUME NEW p \in Procs, NEW c \in Callers, NEW ok, Busy(p, c), Finish(p, c, ok, proc[p])
      PROVE  KeysKept
  <2>1. proc' = [proc EXCEPT ![p] = [proc[p] EXCEPT !.isRefreshing = FALSE,
                                          !.api = IF ok THEN proc[p].tokens ELSE @]]
    BY <1>6 DEF Finish
  <2> QED  BY <1>1, <2>1 DEF KeysKept, Process
<1>7. ASSUME NEW p \in Procs, NEW c \in Callers, refreshNow(p, c) PROVE KeysKept
  <2>1. CASE proc[p].isRefreshing
    <3>1. proc' = [proc EXCEPT ![p].api = ApiAfter(p, c, proc[p].tokens)]
      BY <1>7, <2>1 DEF refreshNow
    <3> QED  BY <1>1, <3>1 DEF Process, KeysKept
  <2>2. CASE ~proc[p].isRefreshing
    <3>1. proc' = [proc EXCEPT ![p].isRefreshing = TRUE] \/ proc' = proc
      BY <1>7, <2>2 DEF refreshNow, BeginRefresh
    <3> QED  BY <1>1, <3>1 DEF Process, KeysKept
  <2> QED  BY <2>1, <2>2
<1>8. ASSUME NEW s \in Sessions, Expire(s) PROVE Good
  BY <1>3, <1>4, <1>8 DEF Expire
<1>9. ASSUME NEW s \in Sessions, runAuthCommand(s) PROVE Good
  <2>1. /\ UNCHANGED proc
        /\ \/ UNCHANGED vaultVars
           \/ /\ vault'.key = getVaultKey(None).key'
              /\ UNCHANGED <<keychain, keyFile>> \/ getVaultKey(None).key = None
    BY <1>9, LoginKeys DEF runAuthCommand
  <2>2. CASE UNCHANGED vaultVars  BY <1>3, <1>4, <2>1, <2>2
  <2>3. CASE vault'.key = getVaultKey(None).key' /\ UNCHANGED <<keychain, keyFile>>
    BY <1>2, <2>1, <2>3 DEF VaultReadable, Readable, KeyAgreed, Usable
  <2>4. CASE vault'.key = getVaultKey(None).key' /\ getVaultKey(None).key = None
    BY <2>1, <2>4 DEF VaultReadable, Readable, KeyAgreed, Usable
  <2> QED  BY <2>1, <2>2, <2>3, <2>4
<1>10. ASSUME NEW p \in Procs, create(p) PROVE Good
  <2>1. UNCHANGED vaultVars /\ Readable(None)  BY <1>10 DEF create
  <2>2. Usable(getVaultKey(None).key)
    BY <1>1, <2>1 DEF Readable, VaultType, Usable
  <2>3. getVaultKey(None).cached = getVaultKey(None).key
    BY <1>1, <2>2 DEF KeysType, getVaultKey, Look, InKeychain, Usable, None, Bad, Off,
       KeychainValues, KeyFileValues
  <2>4. \/ proc' = [proc EXCEPT ![p] = [Off_ EXCEPT !.state = "starting", !.tokens = vault.tokens,
                                                   !.cachedKey = getVaultKey(None).cached]]
        \/ proc' = [proc EXCEPT ![p] = initializeAuth(p, vault.tokens, getVaultKey(None).cached)]
    BY <1>10 DEF create
  <2>5. \A q \in Procs : proc'[q] = proc[q] \/ proc'[q].cachedKey = getVaultKey(None).key
    BY <1>1, <2>3, <2>4 DEF initializeAuth, Off_
  <2> QED  BY <1>2, <2>1, <2>2, <2>5 DEF VaultReadable, Readable, KeyAgreed, vaultVars, Usable
<1>11. ASSUME NEW p \in Procs, Crash(p) \/ Exit(p) PROVE Good
  BY <1>3, <1>5, <1>11 DEF Crash, Exit
<1>12. ASSUME NEW p \in Procs, startAutoRefresh(p) PROVE Good
  BY <1>3, <1>7, <1>12 DEF startAutoRefresh, Callers
<1>13. ASSUME NEW p \in Procs, manualRefresh(p) PROVE Good
  BY <1>3, <1>7, <1>13 DEF manualRefresh, Callers
<1>14. ASSUME NEW p \in Procs, logout(p) \/ revokeSession(p) PROVE Good
  <2>1. KeysKept  BY <1>1, <1>14 DEF logout, revokeSession, KeysKept, Process
  <2> QED  BY <1>3, <1>14, <2>1 DEF logout, revokeSession
<1>15. ASSUME NEW p \in Procs, deleteTokenCache(p) PROVE Good
  <2>1. KeysKept  BY <1>1, <1>15 DEF deleteTokenCache, KeysKept, Process
  <2>2. vault' = NoVault /\ UNCHANGED <<keychain, keyFile>>
    BY <1>15 DEF deleteTokenCache, deleteVault
  <2> QED  BY <1>2, <2>1, <2>2 DEF VaultReadable, KeyAgreed, KeysKept, Usable
<1>16. ASSUME NEW p \in Procs, NEW c \in Callers, authRefresh(p, c) \/ LoseAnswer(p, c) PROVE Good
  BY <1>3, <1>4, <1>16 DEF authRefresh, LoseAnswer
<1>17. ASSUME NEW p \in Procs, NEW c \in Callers, refreshFailed(p, c) \/ SaveFails(p, c) PROVE Good
  BY <1>3, <1>5, <1>6, <1>17 DEF refreshFailed, SaveFails, Busy
<1>18. ASSUME NEW p \in Procs, NEW c \in Callers, refresh(p, c) PROVE Good
  <2>1. KeysKept  BY <1>1, <1>18 DEF refresh, KeysKept, Process
  <2> QED  BY <1>3, <1>18, <2>1 DEF refresh
<1>19. ASSUME NEW p \in Procs, NEW c \in Callers, saveTokensToVault(p, c) PROVE Good
  <2> DEFINE key == proc[p].cachedKey
             changed == [proc[p] EXCEPT !.cachedKey = KeyToWrite(@).cached]
  <2>1. proc[p].state # "down"
    <3>1. Busy(p, c)  BY <1>19 DEF saveTokensToVault, Busy
    <3> QED  BY <3>1 DEF Alone, AloneAt
  <2>2. Usable(key) /\ key = getVaultKey(None).key  BY <2>1 DEF KeyAgreed
  <2>3. KeyToWrite(key) = [key |-> key, cached |-> key, stored |-> keychain]
    <3> HIDE DEF key
    <3> QED  BY <2>2 DEF KeyToWrite, getVaultKey, Usable
  <2>4. UNCHANGED <<keychain, keyFile>> /\ vault'.key = key
    BY <1>19, <2>2, <2>3 DEF saveTokensToVault, writeVault
  <2>5. Ready(p, c, changed)  BY <1>19 DEF saveTokensToVault
  <2>6. changed \in Process /\ changed.cachedKey = key  BY <1>1, <2>3 DEF Process
  <2> HIDE DEF changed
  <2>7. \/ proc' = [proc EXCEPT ![p] = [changed EXCEPT !.isRefreshing = FALSE,
                                                      !.api = IF TRUE THEN changed.tokens ELSE @]]
        \/ proc' = [proc EXCEPT ![p] = initializeAuth(p, changed.tokens, changed.cachedKey)]
    BY <2>5 DEF Ready, Finish
  <2>8. \A q \in Procs : proc'[q] = proc[q] \/ proc'[q].cachedKey = key
    <3>1. PICK new : proc' = [proc EXCEPT ![p] = new] /\ new.cachedKey = changed.cachedKey
      <4>1. initializeAuth(p, changed.tokens, changed.cachedKey).cachedKey = changed.cachedKey
        BY DEF initializeAuth, Off_
      <4>2. [changed EXCEPT !.isRefreshing = FALSE,
                            !.api = IF TRUE THEN changed.tokens ELSE @].cachedKey = changed.cachedKey
        BY <2>6 DEF Process
      <4> QED  BY <2>7, <4>1, <4>2
    <3> QED  BY <1>1, <2>6, <3>1
  <2> QED  BY <1>2, <2>2, <2>4, <2>8 DEF VaultReadable, Readable, KeyAgreed, Usable
<1>20. ASSUME NEW p \in Procs, NEW r \in Requests, makeRequest(p, r) \/ Answer(p, r) PROVE Good
  BY <1>3, <1>4, <1>20 DEF makeRequest, Answer
<1>21. ASSUME NEW p \in Procs, NEW r \in Requests, handleAuthError(p, r) PROVE Good
  BY <1>3, <1>7, <1>21 DEF handleAuthError, Callers
<1>22. ASSUME UNCHANGED vars PROVE Good
  BY <1>3, <1>4, <1>22 DEF vars, authVars
<1> HIDE DEF Good
<1>23. Good
  BY <1>8, <1>9, <1>10, <1>11, <1>12, <1>13, <1>14, <1>15, <1>16, <1>17, <1>18, <1>19, <1>20,
     <1>21, <1>22 DEF Next
<1> QED  BY <1>23 DEF Good

(* Whatever the keychain and the key file hold at the start, a key of the wrong *)
(* length and a missing keychain included, what a login or a refresh wrote to   *)
(* the vault is opened by the key that a later start finds.                     *)
THEOREM VaultsOpen == Spec => []VaultReadable
<1>1. Init => VaultReadable /\ KeyAgreed
  BY DEF Init, VaultReadable, KeyAgreed, Off_
<1> QED
  BY <1>1, InitTypes, NextTypes, InitAlone, NextAlone, NextKeys, PTL DEF Spec

-----------------------------------------------------------------------------
(* What becomes of a session                                                    *)

(* Tokens that were answered and are not saved yet are the session's current     *)
(* ones, and nobody else has them.                                              *)
Has(p, t) ==
    \/ proc[p].state # "down" /\ proc[p].tokens = t
    \/ \E c \in Callers : Busy(p, c) /\ call[p][c].tokens = t

InVault(t) == vault # NoVault /\ vault.tokens = t

Sole(p, t) ==
    /\ server[t.uid].gen = t.gen
    /\ ~InVault(t)
    /\ \A q \in Procs \ {p} : ~Has(q, t)

Rotating == \A p \in Procs, c \in Callers :
    call[p][c].step \in {"answered", "save"} => Sole(p, call[p][c].tokens)

(* A session that is over: it is revoked, no answer to a refresh of it waits to  *)
(* be taken over or saved, and the vault does not hold its tokens.              *)
Over(s) == Quiet(s) /\ (vault = NoVault \/ vault.tokens.uid # s)

(* A clean logout left its session like that. *)
Ended == \A p \in Procs : proc[p].logout = "clean" => Over(proc[p].revoking.uid)

-----------------------------------------------------------------------------
(* What a logout leaves *)

(* No step but an exchange puts an answer on its way. *)
NoNewAnswer == \A p \in Procs, c \in Callers :
    call'[p][c].step \in {"answered", "save"} =>
        /\ call[p][c].step \in {"answered", "save"}
        /\ call'[p][c].tokens = call[p][c].tokens

LEMMA DownAnswers == ASSUME TypeOK, NEW p \in Procs, Down(p) PROVE NoNewAnswer
<1>1. CallsType  BY TypeParts
<1>2. call' = [call EXCEPT ![p] = [c \in Callers |-> NoCall]]  BY DEF Down
<1> QED  BY <1>1, <1>2 DEF NoNewAnswer, NoCall, CallsType

LEMMA FinishAnswers ==
    ASSUME TypeOK, NEW p \in Procs, NEW c \in Callers, NEW ok, NEW changed,
           Finish(p, c, ok, changed)
    PROVE  NoNewAnswer
<1>1. CallsType  BY TypeParts
<1>2. call' = [call EXCEPT ![p][c] = NoCall]  BY DEF Finish
<1> QED  BY <1>1, <1>2 DEF NoNewAnswer, NoCall, CallsType

LEMMA RefreshNowAnswers ==
    ASSUME TypeOK, NEW p \in Procs, NEW c \in Callers, refreshNow(p, c)
    PROVE  NoNewAnswer
<1>1. CallsType  BY TypeParts
<1>2. \/ call' = call
      \/ call' = [call EXCEPT ![p][c] = [step |-> "fetch", tokens |-> proc[p].tokens]]
  BY DEF refreshNow, BeginRefresh
<1> QED  BY <1>1, <1>2 DEF NoNewAnswer, CallsType

(* A session that is over stays so: a refresh of it is refused, what is saved is *)
(* of another session, and a login makes a session of its own.                  *)
LEMMA OverKept == TypeOK /\ Owned /\ [Next]_vars => \A s \in Sessions : Over(s) => Over(s)'
<1> SUFFICES ASSUME TypeOK, Owned, [Next]_vars, NEW s \in Sessions, Over(s) PROVE Over(s)'
  OBVIOUS
<1>1. server \in [Sessions -> Session] /\ CallsType
  BY TypeParts
<1>2. /\ server[s].revoked
      /\ \A q \in Procs, c \in Callers :
             call[q][c].step \in {"answered", "save"} => call[q][c].tokens.uid # s
      /\ vault = NoVault \/ vault.tokens.uid # s
  BY DEF Over, Quiet
<1>3. ASSUME server'[s].revoked, NoNewAnswer, vault' = NoVault \/ vault'.tokens.uid # s
      PROVE  Over(s)'
  BY <1>2, <1>3 DEF Over, Quiet, NoNewAnswer
<1>4. ASSUME UNCHANGED call PROVE NoNewAnswer
  BY <1>4 DEF NoNewAnswer
<1>5. ASSUME UNCHANGED <<vaultVars, server>>, NoNewAnswer PROVE Over(s)'
  BY <1>2, <1>3, <1>5 DEF vaultVars
<1>6. ASSUME NEW e \in Sessions, Expire(e) PROVE Over(s)'
  <2>1. server'[s].revoked  BY <1>1, <1>2, <1>6 DEF Expire, Session
  <2> QED  BY <1>2, <1>3, <1>4, <1>6, <2>1 DEF Expire, vaultVars
<1>7. ASSUME NEW e \in Sessions, runAuthCommand(e) PROVE Over(s)'
  <2>1. server[e].gen = 0  BY <1>1, <1>7, AuthBounds DEF runAuthCommand, Sessions, Session
  <2>2. server[s].gen >= 1  BY <1>2 DEF Owned, Alive
  <2>3. e # s  BY <2>1, <2>2
  <2>4. server'[s].revoked  BY <1>1, <1>2, <1>7, <2>3 DEF runAuthCommand
  <2>5. vault' = vault \/ vault'.tokens.uid = e
    BY <1>7 DEF runAuthCommand, writeVault
  <2> QED  BY <1>2, <1>3, <1>4, <1>7, <2>3, <2>4, <2>5 DEF runAuthCommand
<1>8. ASSUME NEW p \in Procs, create(p) PROVE Over(s)'
  <2>1. NoNewAnswer
    <3>1. \/ call' = call
          \/ call' = [call EXCEPT ![p]["startup"] = [step |-> "fetch", tokens |-> vault.tokens]]
      BY <1>8 DEF create
    <3> QED  BY <1>1, <3>1 DEF NoNewAnswer, CallsType
  <2> QED  BY <1>5, <1>8, <2>1 DEF create
<1>9. ASSUME NEW p \in Procs, Crash(p) \/ Exit(p) PROVE Over(s)'
  BY <1>5, <1>9, DownAnswers DEF Crash, Exit
<1>10. ASSUME NEW p \in Procs, startAutoRefresh(p) PROVE Over(s)'
  BY <1>5, <1>10, RefreshNowAnswers DEF startAutoRefresh, Callers
<1>11. ASSUME NEW p \in Procs, manualRefresh(p) PROVE Over(s)'
  BY <1>5, <1>11, RefreshNowAnswers DEF manualRefresh, Callers
<1>12. ASSUME NEW p \in Procs, logout(p) PROVE Over(s)'
  <2>1. server'[s].revoked  BY <1>1, <1>2, <1>12 DEF logout, Session
  <2> QED  BY <1>2, <1>3, <1>4, <1>12, <2>1 DEF logout, vaultVars
<1>13. ASSUME NEW p \in Procs, revokeSession(p) PROVE Over(s)'
  <2>1. server'[s].revoked  BY <1>1, <1>2, <1>13 DEF revokeSession, Session
  <2> QED  BY <1>2, <1>3, <1>4, <1>13, <2>1 DEF revokeSession, vaultVars
<1>14. ASSUME NEW p \in Procs, deleteTokenCache(p) PROVE Over(s)'
  BY <1>2, <1>3, <1>4, <1>14 DEF deleteTokenCache, deleteVault
<1>15. ASSUME NEW p \in Procs, NEW c \in Callers, authRefresh(p, c) PROVE Over(s)'
  <2> DEFINE t == call[p][c].tokens
  <2>1. CASE Exchanges(t)
    <3>1. t.uid \in Sessions \ {s}  BY <1>2, <2>1 DEF Exchanges, Known
    <3>2. server' = [server EXCEPT ![t.uid].gen = t.gen + 1, ![t.uid].live = TRUE,
                                   ![t.uid].late = FALSE]
      BY <1>15, <2>1 DEF authRefresh
    <3>3. call' = [call EXCEPT ![p][c] = [step |-> "answered",
                                          tokens |-> [t EXCEPT !.gen = t.gen + 1]]]
      BY <1>15, <2>1 DEF authRefresh
    <3>4. t \in Tokens  BY <1>1 DEF CallsType, Call
    <3> HIDE DEF t
    <3>5. server'[s] = server[s]  BY <1>1, <3>1, <3>2
    <3>6. [t EXCEPT !.gen = t.gen + 1].uid # s  BY <3>1, <3>4 DEF Tokens
    <3>7. \A q \in Procs, d \in Callers :
              \/ call'[q][d] = call[q][d]
              \/ call'[q][d].tokens.uid # s
      BY <1>1, <3>3, <3>6 DEF CallsType
    <3>8. vault' = vault  BY <1>15 DEF authRefresh, vaultVars
    <3> QED  BY <1>2, <3>5, <3>7, <3>8 DEF Over, Quiet
  <2>2. CASE ~Exchanges(t)
    <3>1. call' = [call EXCEPT ![p][c].step = "denied"]  BY <1>15, <2>2 DEF authRefresh
    <3>2. NoNewAnswer  BY <1>1, <3>1 DEF NoNewAnswer, CallsType, Call
    <3> QED  BY <1>5, <1>15, <2>2, <3>2 DEF authRefresh
  <2> QED  BY <2>1, <2>2
<1>16. ASSUME NEW p \in Procs, NEW c \in Callers, LoseAnswer(p, c) PROVE Over(s)'
  <2>1. NoNewAnswer  BY <1>1, <1>16 DEF LoseAnswer, NoNewAnswer, CallsType, Call
  <2> QED  BY <1>5, <1>16, <2>1 DEF LoseAnswer
<1>17. ASSUME NEW p \in Procs, NEW c \in Callers, refreshFailed(p, c) \/ SaveFails(p, c)
       PROVE  Over(s)'
  BY <1>5, <1>17, DownAnswers, FinishAnswers DEF refreshFailed, SaveFails
<1>18. ASSUME NEW p \in Procs, NEW c \in Callers, refresh(p, c) PROVE Over(s)'
  <2>1. NoNewAnswer  BY <1>1, <1>18 DEF refresh, NoNewAnswer, CallsType, Call
  <2> QED  BY <1>5, <1>18, <2>1 DEF refresh
<1>19. ASSUME NEW p \in Procs, NEW c \in Callers, saveTokensToVault(p, c) PROVE Over(s)'
  <2>1. call[p][c].step = "save" /\ Busy(p, c)  BY <1>19 DEF saveTokensToVault, Busy
  <2>2. proc[p].tokens.uid # s  BY <1>2, <2>1 DEF Owned, OwnedAt
  <2>3. vault' = vault \/ vault'.tokens = proc[p].tokens
    BY <1>19 DEF saveTokensToVault, writeVault
  <2>4. NoNewAnswer
    <3>1. call' = [call EXCEPT ![p][c] = NoCall]
      BY <1>19 DEF saveTokensToVault, Ready, Finish
    <3> QED  BY <1>1, <3>1 DEF NoNewAnswer, NoCall, CallsType
  <2> QED  BY <1>2, <1>3, <1>19, <2>2, <2>3, <2>4 DEF saveTokensToVault
<1>20. ASSUME NEW p \in Procs, NEW r \in Requests, makeRequest(p, r) \/ Answer(p, r)
       PROVE  Over(s)'
  BY <1>4, <1>5, <1>20 DEF makeRequest, Answer
<1>21. ASSUME NEW p \in Procs, NEW r \in Requests, handleAuthError(p, r) PROVE Over(s)'
  BY <1>5, <1>21, RefreshNowAnswers DEF handleAuthError, Callers
<1>22. ASSUME UNCHANGED vars PROVE Over(s)'
  BY <1>4, <1>5, <1>22 DEF vars, authVars
<1> QED
  BY <1>6, <1>7, <1>8, <1>9, <1>10, <1>11, <1>12, <1>13, <1>14, <1>15, <1>16, <1>17, <1>18,
     <1>19, <1>20, <1>21, <1>22 DEF Next

(* A logout becomes clean in one step only, and nothing else changes which      *)
(* session it is about.                                                         *)
LEMMA CleanOnce ==
    ASSUME TypeOK, Alone, [Next]_vars, NEW p \in Procs, proc'[p].logout = "clean"
    PROVE  \/ proc[p].logout = "clean" /\ proc'[p].revoking = proc[p].revoking
           \/ deleteTokenCache(p)
<1> DEFINE Same == /\ proc'[p].logout \in {"no", proc[p].logout}
                   /\ proc'[p].revoking = proc[p].revoking \/ proc'[p].logout = "no"
<1>1. proc \in [Procs -> Process]  BY TypeParts
<1>2. ASSUME UNCHANGED proc PROVE Same
  BY <1>2
<1>3. ASSUME NEW q \in Procs, NEW new, proc' = [proc EXCEPT ![q] = new],
             \/ new.logout = proc[q].logout /\ new.revoking = proc[q].revoking
             \/ new.logout = "no"
      PROVE  Same
  BY <1>1, <1>3
<1>4. ASSUME NEW q \in Procs, Down(q) PROVE Same
  BY <1>3, <1>4 DEF Down, Off_
<1>5. ASSUME NEW q \in Procs, NEW c \in Callers, NEW ok, NEW changed \in Process,
             changed.logout = proc[q].logout, changed.revoking = proc[q].revoking,
             Finish(q, c, ok, changed)
      PROVE  Same
  <2> DEFINE new == [changed EXCEPT !.isRefreshing = FALSE,
                                    !.api = IF ok THEN changed.tokens ELSE @]
  <2>1. proc' = [proc EXCEPT ![q] = new]  BY <1>5 DEF Finish
  <2>2. new.logout = proc[q].logout /\ new.revoking = proc[q].revoking
    BY <1>5 DEF Process
  <2> HIDE DEF new
  <2> QED  BY <1>3, <2>1, <2>2
<1>6. ASSUME NEW q \in Procs, NEW c \in Callers, refreshNow(q, c) PROVE Same
  <2>1. proc[q] \in Process  BY <1>1
  <2>2. CASE proc[q].isRefreshing
    <3>1. proc' = [proc EXCEPT ![q].api = ApiAfter(q, c, proc[q].tokens)]
      BY <1>6, <2>2 DEF refreshNow
    <3> QED  BY <1>1, <3>1 DEF Process
  <2>3. CASE ~proc[q].isRefreshing
    <3>1. proc' = [proc EXCEPT ![q].isRefreshing = TRUE] \/ proc' = proc
      BY <1>6, <2>3 DEF refreshNow, BeginRefresh
    <3> QED  BY <1>1, <3>1 DEF Process
  <2> QED  BY <2>2, <2>3
<1>7. ASSUME NEW s \in Sessions, Expire(s) \/ runAuthCommand(s) PROVE Same
  BY <1>2, <1>7 DEF Expire, runAuthCommand
<1>8. ASSUME NEW q \in Procs, create(q) PROVE Same
  <2>1. \/ proc' = [proc EXCEPT ![q] = [Off_ EXCEPT !.state = "starting", !.tokens = vault.tokens,
                                                   !.cachedKey = getVaultKey(None).cached]]
        \/ proc' = [proc EXCEPT ![q] = initializeAuth(q, vault.tokens, getVaultKey(None).cached)]
    BY <1>8 DEF create
  <2> QED  BY <1>3, <2>1 DEF initializeAuth, Off_
<1>9. ASSUME NEW q \in Procs, Crash(q) \/ Exit(q) PROVE Same
  BY <1>4, <1>9 DEF Crash, Exit
<1>10. ASSUME NEW q \in Procs, startAutoRefresh(q) PROVE Same
  BY <1>6, <1>10 DEF startAutoRefresh, Callers
<1>11. ASSUME NEW q \in Procs, manualRefresh(q) PROVE Same
  BY <1>6, <1>11 DEF manualRefresh, Callers
<1>12. ASSUME NEW q \in Procs, logout(q) PROVE Same \/ proc'[p].logout # "clean"
  BY <1>1, <1>12 DEF logout, Process
<1>13. ASSUME NEW q \in Procs, revokeSession(q) PROVE Same \/ proc'[p].logout # "clean"
  BY <1>1, <1>13 DEF revokeSession, Process
<1>14. ASSUME NEW q \in Procs, deleteTokenCache(q) PROVE Same \/ deleteTokenCache(p)
  <2>1. CASE q # p
    <3>1. proc'[p] = proc[p]  BY <1>1, <1>14, <2>1 DEF deleteTokenCache
    <3> QED  BY <3>1
  <2> QED  BY <1>14, <2>1
<1>15. ASSUME NEW q \in Procs, NEW c \in Callers, authRefresh(q, c) \/ LoseAnswer(q, c) PROVE Same
  BY <1>2, <1>15 DEF authRefresh, LoseAnswer
<1>16. ASSUME NEW q \in Procs, NEW c \in Callers, refreshFailed(q, c) \/ SaveFails(q, c) PROVE Same
  BY <1>1, <1>4, <1>5, <1>16 DEF refreshFailed, SaveFails
<1>17. ASSUME NEW q \in Procs, NEW c \in Callers, refresh(q, c) PROVE Same
  BY <1>1, <1>17 DEF refresh, Process
<1>18. ASSUME NEW q \in Procs, NEW c \in Callers, saveTokensToVault(q, c) PROVE Same
  <2> DEFINE changed == [proc[q] EXCEPT !.cachedKey = KeyToWrite(@).cached]
  <2>1. Ready(q, c, changed)  BY <1>18 DEF saveTokensToVault
  <2>2. /\ changed \in Process
        /\ changed.logout = proc[q].logout /\ changed.revoking = proc[q].revoking
    <3>1. proc[q] \in Process /\ proc[q].cachedKey \in Keys  BY <1>1 DEF Process
    <3>2. KeyToWrite(proc[q].cachedKey).cached \in Keys  BY <3>1, KeyTypes DEF TypeOK
    <3> QED  BY <3>1, <3>2 DEF Process
  <2> HIDE DEF changed
  <2>3. CASE c # "startup"  BY <1>5, <2>1, <2>2, <2>3 DEF Ready
  <2>4. CASE c = "startup"
    BY <1>3, <2>1, <2>4 DEF Ready, initializeAuth, Off_
  <2> QED  BY <2>3, <2>4
<1>19. ASSUME NEW q \in Procs, NEW r \in Requests, makeRequest(q, r) \/ Answer(q, r) PROVE Same
  BY <1>2, <1>19 DEF makeRequest, Answer
<1>20. ASSUME NEW q \in Procs, NEW r \in Requests, handleAuthError(q, r) PROVE Same
  BY <1>6, <1>20 DEF handleAuthError, Callers
<1>21. ASSUME UNCHANGED vars PROVE Same
  BY <1>2, <1>21 DEF vars, authVars
<1> HIDE DEF Same
<1>22. Same \/ deleteTokenCache(p)
  BY <1>7, <1>8, <1>9, <1>10, <1>11, <1>12, <1>13, <1>14, <1>15, <1>16, <1>17, <1>18, <1>19,
     <1>20, <1>21 DEF Next
<1> QED  BY <1>22 DEF Same

LEMMA NextEnded == TypeOK /\ Alone /\ Owned /\ Ended /\ [Next]_vars => Ended'
<1> SUFFICES ASSUME TypeOK, Alone, Owned, Ended, [Next]_vars,
                    NEW p \in Procs, proc'[p].logout = "clean",
                    NEW s, s = proc'[p].revoking.uid
             PROVE  Over(s)'
  BY DEF Ended, Over, Quiet
<1>1. proc \in [Procs -> Process] /\ CallsType
  BY TypeParts
<1>2. CASE proc[p].logout = "clean" /\ proc'[p].revoking = proc[p].revoking
  <2>1. s \in Sessions
    BY <1>2 DEF Owned, OwnedAt, Given
  <2>2. Over(s)  BY <1>2 DEF Ended
  <2> QED  BY <2>1, <2>2, OverKept
<1>3. CASE deleteTokenCache(p)
  <2>1. /\ UNCHANGED <<server, call>> /\ vault' = NoVault
        /\ s = proc[p].revoking.uid
        /\ Quiet(s)
    BY <1>1, <1>3 DEF deleteTokenCache, deleteVault, Process
  <2> QED  BY <2>1 DEF Over, Quiet
<1> QED  BY <1>2, <1>3, CleanOnce

(* After a clean logout no step, of whatever process and in whatever order,     *)
(* writes the session's tokens back to the vault.                               *)
THEOREM CleanLogoutsLast == Spec => []LogoutSticks
<1>1. Init => Ended  BY DEF Init, Ended, Off_
<1>2. Ended => LogoutSticks  BY DEF Ended, Over, LogoutSticks
<1> QED
  BY <1>1, <1>2, InitTypes, NextTypes, InitAlone, NextAlone, InitOwned, NextOwned, NextEnded,
     PTL DEF Spec

-----------------------------------------------------------------------------
(* What a session needs to go on *)

(* The vault changes in three steps. *)
LEMMA NextVault ==
    ASSUME TypeOK, [Next]_vars
    PROVE  \/ vault' = vault \/ vault' = NoVault
           \/ \E s \in Sessions : runAuthCommand(s) /\ vault'.tokens = [uid |-> s, gen |-> 1]
           \/ \E p \in Procs, c \in Callers :
                  saveTokensToVault(p, c) /\ vault'.tokens = proc[p].tokens
<1> DEFINE Told == \/ vault' = vault \/ vault' = NoVault
                   \/ \E s \in Sessions : runAuthCommand(s) /\ vault'.tokens = [uid |-> s, gen |-> 1]
                   \/ \E p \in Procs, c \in Callers :
                          saveTokensToVault(p, c) /\ vault'.tokens = proc[p].tokens
<1>1. ASSUME UNCHANGED vaultVars PROVE Told
  BY <1>1 DEF vaultVars
<1>2. ASSUME NEW s \in Sessions, runAuthCommand(s) PROVE Told
  BY <1>2 DEF runAuthCommand, writeVault
<1>3. ASSUME NEW p \in Procs, deleteTokenCache(p) PROVE Told
  BY <1>3 DEF deleteTokenCache, deleteVault
<1>4. ASSUME NEW p \in Procs, NEW c \in Callers, saveTokensToVault(p, c) PROVE Told
  BY <1>4 DEF saveTokensToVault, writeVault
<1>5. ASSUME NEW s \in Sessions, Expire(s) PROVE Told
  BY <1>1, <1>5 DEF Expire
<1>6. ASSUME NEW p \in Procs,
             \/ create(p) \/ Crash(p) \/ Exit(p) \/ startAutoRefresh(p) \/ manualRefresh(p)
             \/ logout(p) \/ revokeSession(p)
      PROVE  Told
  BY <1>1, <1>6 DEF create, Crash, Exit, startAutoRefresh, manualRefresh, logout, revokeSession
<1>7. ASSUME NEW p \in Procs, NEW c \in Callers,
             \/ authRefresh(p, c) \/ LoseAnswer(p, c) \/ refreshFailed(p, c) \/ refresh(p, c)
             \/ SaveFails(p, c)
      PROVE  Told
  BY <1>1, <1>7 DEF authRefresh, LoseAnswer, refreshFailed, refresh, SaveFails
<1>8. ASSUME NEW p \in Procs, NEW r \in Requests,
             makeRequest(p, r) \/ Answer(p, r) \/ handleAuthError(p, r)
      PROVE  Told
  BY <1>1, <1>8 DEF makeRequest, Answer, handleAuthError
<1>9. ASSUME UNCHANGED vars PROVE Told
  BY <1>1, <1>9 DEF vars
<1> HIDE DEF Told
<1>10. Told
  BY <1>2, <1>3, <1>4, <1>5, <1>6, <1>7, <1>8, <1>9 DEF Next
<1> QED  BY <1>10 DEF Told

(* The generation of a session moves in one step only. *)
LEMMA NextGeneration ==
    ASSUME TypeOK, [Next]_vars, NEW s \in Sessions, server[s].gen >= 1
    PROVE  \/ server'[s].gen = server[s].gen
           \/ \E p \in Procs, c \in Callers : /\ authRefresh(p, c)
                                              /\ Exchanges(call[p][c].tokens)
                                              /\ call[p][c].tokens.uid = s
<1> DEFINE Told == \/ server'[s].gen = server[s].gen
                   \/ \E p \in Procs, c \in Callers : /\ authRefresh(p, c)
                                                      /\ Exchanges(call[p][c].tokens)
                                                      /\ call[p][c].tokens.uid = s
<1>1. server \in [Sessions -> Session] /\ server[s].gen \in Nat
  BY TypeParts, AuthBounds DEF Session
<1>2. ASSUME UNCHANGED server PROVE Told
  BY <1>2
<1>3. ASSUME NEW e \in Sessions, Expire(e) PROVE Told
  BY <1>1, <1>3 DEF Expire, Session
<1>4. ASSUME NEW e \in Sessions, runAuthCommand(e) PROVE Told
  <2>1. server[e].gen = 0  BY <1>4, <1>1 DEF runAuthCommand, Sessions
  <2>2. e # s  BY <2>1
  <2> QED  BY <1>1, <1>4, <2>2 DEF runAuthCommand
<1>5. ASSUME NEW p \in Procs, NEW c \in Callers, authRefresh(p, c) PROVE Told
  <2> DEFINE t == call[p][c].tokens
  <2>1. CASE Exchanges(t) /\ t.uid = s  BY <1>5, <2>1
  <2>2. CASE Exchanges(t) /\ t.uid # s
    <3>1. server' = [server EXCEPT ![t.uid].gen = t.gen + 1, ![t.uid].live = TRUE,
                                   ![t.uid].late = FALSE]
      BY <1>5, <2>2 DEF authRefresh
    <3> HIDE DEF t
    <3>2. server'[s] = server[s]  BY <1>1, <2>2, <3>1
    <3> QED  BY <3>2
  <2>3. CASE ~Exchanges(t)  BY <1>2, <1>5, <2>3 DEF authRefresh
  <2> QED  BY <2>1, <2>2, <2>3
<1>6. ASSUME NEW p \in Procs, logout(p) PROVE Told
  BY <1>1, <1>6 DEF logout, Session
<1>7. ASSUME NEW p \in Procs, revokeSession(p) PROVE Told
  BY <1>1, <1>7 DEF revokeSession, Session
<1>8. ASSUME NEW p \in Procs,
             \/ create(p) \/ Crash(p) \/ Exit(p) \/ startAutoRefresh(p) \/ manualRefresh(p)
             \/ deleteTokenCache(p)
      PROVE  Told
  BY <1>2, <1>8 DEF create, Crash, Exit, startAutoRefresh, manualRefresh, deleteTokenCache
<1>9. ASSUME NEW p \in Procs, NEW c \in Callers,
             \/ LoseAnswer(p, c) \/ refreshFailed(p, c) \/ refresh(p, c)
             \/ saveTokensToVault(p, c) \/ SaveFails(p, c)
      PROVE  Told
  BY <1>2, <1>9 DEF LoseAnswer, refreshFailed, refresh, saveTokensToVault, SaveFails
<1>10. ASSUME NEW p \in Procs, NEW r \in Requests,
              makeRequest(p, r) \/ Answer(p, r) \/ handleAuthError(p, r)
       PROVE  Told
  BY <1>2, <1>10 DEF makeRequest, Answer, handleAuthError
<1>11. ASSUME UNCHANGED vars PROVE Told
  BY <1>2, <1>11 DEF vars, authVars
<1> HIDE DEF Told
<1>12. Told
  BY <1>3, <1>4, <1>5, <1>6, <1>7, <1>8, <1>9, <1>10, <1>11 DEF Next
<1> QED  BY <1>12 DEF Told

(* An exchange, seen from the caller that asked for it *)
LEMMA Exchanged ==
    ASSUME TypeOK, NEW p \in Procs, NEW c \in Callers, authRefresh(p, c),
           Exchanges(call[p][c].tokens)
    PROVE  LET t == call[p][c].tokens
           IN  /\ t.uid \in Sessions /\ t.gen = server[t.uid].gen
               /\ server'[t.uid].gen = t.gen + 1
               /\ call'[p][c] = [step |-> "answered", tokens |-> [uid |-> t.uid, gen |-> t.gen + 1]]
<1> DEFINE t == call[p][c].tokens
<1>1. server \in [Sessions -> Session] /\ CallsType /\ t \in Tokens
  BY TypeParts DEF CallsType, Call
<1>2. t.uid \in Sessions /\ t.gen = server[t.uid].gen  BY DEF Exchanges, Known
<1>3. server' = [server EXCEPT ![t.uid].gen = t.gen + 1, ![t.uid].live = TRUE,
                               ![t.uid].late = FALSE]
  BY DEF authRefresh
<1>4. call' = [call EXCEPT ![p][c] = [step |-> "answered",
                                      tokens |-> [t EXCEPT !.gen = t.gen + 1]]]
  BY DEF authRefresh
<1> HIDE DEF t
<1>5. server'[t.uid].gen = t.gen + 1  BY <1>1, <1>2, <1>3 DEF Session
<1>6. call'[p][c] = [step |-> "answered", tokens |-> [uid |-> t.uid, gen |-> t.gen + 1]]
  BY <1>1, <1>4 DEF CallsType, Tokens
<1> QED  BY <1>2, <1>5, <1>6 DEF t

(* Only an exchange makes an answer. *)
LEMMA NextAnswers ==
    ASSUME TypeOK, [Next]_vars
    PROVE  \/ NoNewAnswer
           \/ \E p \in Procs, c \in Callers : authRefresh(p, c) /\ Exchanges(call[p][c].tokens)
<1> DEFINE Told == \/ NoNewAnswer
                   \/ \E p \in Procs, c \in Callers :
                          authRefresh(p, c) /\ Exchanges(call[p][c].tokens)
<1>1. CallsType  BY TypeParts
<1>2. ASSUME UNCHANGED call PROVE Told
  BY <1>2 DEF NoNewAnswer
<1>3. ASSUME NEW p \in Procs, NEW c \in Callers, call' = [call EXCEPT ![p][c].step = "denied"]
      PROVE  Told
  BY <1>1, <1>3 DEF NoNewAnswer, CallsType, Call
<1>4. ASSUME NEW s \in Sessions, Expire(s) \/ runAuthCommand(s) PROVE Told
  BY <1>2, <1>4 DEF Expire, runAuthCommand
<1>5. ASSUME NEW p \in Procs, create(p) PROVE Told
  <2>1. \/ call' = call
        \/ call' = [call EXCEPT ![p]["startup"] = [step |-> "fetch", tokens |-> vault.tokens]]
    BY <1>5 DEF create
  <2> QED  BY <1>1, <2>1 DEF NoNewAnswer, CallsType
<1>6. ASSUME NEW p \in Procs, Crash(p) \/ Exit(p) PROVE Told
  BY <1>6, DownAnswers DEF Crash, Exit
<1>7. ASSUME NEW p \in Procs, startAutoRefresh(p) PROVE Told
  BY <1>7, RefreshNowAnswers DEF startAutoRefresh, Callers
<1>8. ASSUME NEW p \in Procs, manualRefresh(p) PROVE Told
  BY <1>8, RefreshNowAnswers DEF manualRefresh, Callers
<1>9. ASSUME NEW p \in Procs, logout(p) \/ revokeSession(p) \/ deleteTokenCache(p) PROVE Told
  BY <1>2, <1>9 DEF logout, revokeSession, deleteTokenCache
<1>10. ASSUME NEW p \in Procs, NEW c \in Callers, authRefresh(p, c) PROVE Told
  <2>1. CASE Exchanges(call[p][c].tokens)  BY <1>10, <2>1
  <2>2. CASE ~Exchanges(call[p][c].tokens)  BY <1>3, <1>10, <2>2 DEF authRefresh
  <2> QED  BY <2>1, <2>2
<1>11. ASSUME NEW p \in Procs, NEW c \in Callers, LoseAnswer(p, c) PROVE Told
  BY <1>3, <1>11 DEF LoseAnswer
<1>12. ASSUME NEW p \in Procs, NEW c \in Callers, refreshFailed(p, c) \/ SaveFails(p, c) PROVE Told
  BY <1>12, DownAnswers, FinishAnswers DEF refreshFailed, SaveFails
<1>13. ASSUME NEW p \in Procs, NEW c \in Callers, refresh(p, c) PROVE Told
  BY <1>1, <1>13 DEF refresh, NoNewAnswer, CallsType, Call
<1>14. ASSUME NEW p \in Procs, NEW c \in Callers, saveTokensToVault(p, c) PROVE Told
  <2>1. call' = [call EXCEPT ![p][c] = NoCall]
    BY <1>14 DEF saveTokensToVault, Ready, Finish
  <2> QED  BY <1>1, <2>1 DEF NoNewAnswer, NoCall, CallsType
<1>15. ASSUME NEW p \in Procs, NEW r \in Requests, makeRequest(p, r) \/ Answer(p, r) PROVE Told
  BY <1>2, <1>15 DEF makeRequest, Answer
<1>16. ASSUME NEW p \in Procs, NEW r \in Requests, handleAuthError(p, r) PROVE Told
  BY <1>16, RefreshNowAnswers DEF handleAuthError, Callers
<1>17. ASSUME UNCHANGED vars PROVE Told
  BY <1>2, <1>17 DEF vars, authVars
<1> HIDE DEF Told
<1>18. Told
  BY <1>4, <1>5, <1>6, <1>7, <1>8, <1>9, <1>10, <1>11, <1>12, <1>13, <1>14, <1>15, <1>16,
     <1>17 DEF Next
<1> QED  BY <1>18 DEF Told

(* Without a fault an answer that is not saved yet stays until it is saved, or  *)
(* its process ends after a logout.                                             *)
LEMMA AnswersStay ==
    ASSUME TypeOK, Alone, [Next]_vars, faults' = faults,
           NEW p \in Procs, NEW c \in Callers, call[p][c].step \in {"answered", "save"}
    PROVE  \/ call'[p][c].step \in {"answered", "save"} /\ call'[p][c].tokens = call[p][c].tokens
           \/ saveTokensToVault(p, c) \/ Exit(p)
<1> DEFINE Stays == call'[p][c].step \in {"answered", "save"}
                        /\ call'[p][c].tokens = call[p][c].tokens
           Told == Stays \/ saveTokensToVault(p, c) \/ Exit(p)
<1>1. CallsType /\ faults \in Nat  BY TypeParts, AuthBounds
<1>2. Busy(p, c) /\ \A d \in Callers : Busy(p, d) => d = c
  BY DEF Busy, Alone, AloneAt
<1>3. ASSUME call'[p][c] = call[p][c] PROVE Told
  BY <1>3
<1>4. ASSUME faults' = faults - 1 PROVE FALSE
  BY <1>1, <1>4
<1>5. ASSUME NEW q \in Procs, NEW d \in Callers, refreshNow(q, d), ~Busy(q, d) PROVE Told
  <2>1. \/ call' = call
        \/ call' = [call EXCEPT ![q][d] = [step |-> "fetch", tokens |-> proc[q].tokens]]
    BY <1>5 DEF refreshNow, BeginRefresh
  <2>2. q # p \/ d # c  BY <1>2, <1>5
  <2>3. call'[p][c] = call[p][c]  BY <1>1, <2>1, <2>2 DEF CallsType
  <2> QED  BY <1>3, <2>3
<1>6. ASSUME NEW s \in Sessions, Expire(s) \/ runAuthCommand(s) PROVE Told
  BY <1>3, <1>6 DEF Expire, runAuthCommand
<1>7. ASSUME NEW q \in Procs, create(q) PROVE Told
  <2>1. q # p  BY <1>2, <1>7 DEF create, Alone, AloneAt
  <2>2. \/ call' = call
        \/ call' = [call EXCEPT ![q]["startup"] = [step |-> "fetch", tokens |-> vault.tokens]]
    BY <1>7 DEF create
  <2>3. call'[p][c] = call[p][c]  BY <1>1, <2>1, <2>2 DEF CallsType
  <2> QED  BY <1>3, <2>3
<1>8. ASSUME NEW q \in Procs, Crash(q) PROVE Told
  BY <1>4, <1>8 DEF Crash
<1>9. ASSUME NEW q \in Procs, Exit(q) PROVE Told
  <2>1. CASE q # p
    <3>1. call'[p][c] = call[p][c]  BY <1>1, <1>9, <2>1 DEF Exit, Down, CallsType
    <3> QED  BY <1>3, <3>1
  <2> QED  BY <1>9, <2>1
<1>10. ASSUME NEW q \in Procs, startAutoRefresh(q) PROVE Told
  BY <1>5, <1>10 DEF startAutoRefresh, Callers
<1>11. ASSUME NEW q \in Procs, manualRefresh(q) PROVE Told
  BY <1>5, <1>11 DEF manualRefresh, Callers
<1>12. ASSUME NEW q \in Procs, logout(q) \/ revokeSession(q) \/ deleteTokenCache(q) PROVE Told
  BY <1>3, <1>12 DEF logout, revokeSession, deleteTokenCache
<1>13. ASSUME NEW q \in Procs, NEW d \in Callers, authRefresh(q, d) PROVE Told
  <2>1. PICK new : call' = [call EXCEPT ![q][d] = new]
    <3>1. CASE Exchanges(call[q][d].tokens)  BY <1>13, <3>1 DEF authRefresh
    <3>2. CASE ~Exchanges(call[q][d].tokens)  BY <1>13, <3>2 DEF authRefresh
    <3> QED  BY <3>1, <3>2
  <2>2. q # p \/ d # c  BY <1>13 DEF authRefresh
  <2>3. call'[p][c] = call[p][c]  BY <1>1, <2>1, <2>2 DEF CallsType
  <2> QED  BY <1>3, <2>3
<1>14. ASSUME NEW q \in Procs, NEW d \in Callers, LoseAnswer(q, d) \/ SaveFails(q, d) PROVE Told
  BY <1>4, <1>14 DEF LoseAnswer, SaveFails
<1>15. ASSUME NEW q \in Procs, NEW d \in Callers, refreshFailed(q, d) PROVE Told
  <2>1. q # p
    <3>1. Busy(q, d) /\ call[q][d].step = "denied"  BY <1>15 DEF refreshFailed, Busy
    <3> QED  BY <1>2, <3>1
  <2>2. call' = [call EXCEPT ![q] = [e \in Callers |-> NoCall]]
        \/ call' = [call EXCEPT ![q][d] = NoCall]
    BY <1>15 DEF refreshFailed, Down, Finish
  <2>3. call'[p][c] = call[p][c]  BY <1>1, <2>1, <2>2 DEF CallsType
  <2> QED  BY <1>3, <2>3
<1>16. ASSUME NEW q \in Procs, NEW d \in Callers, refresh(q, d) PROVE Told
  <2>1. call' = [call EXCEPT ![q][d].step = "save"]  BY <1>16 DEF refresh
  <2>2. Stays  BY <1>1, <2>1 DEF CallsType, Call
  <2> QED  BY <2>2
<1>17. ASSUME NEW q \in Procs, NEW d \in Callers, saveTokensToVault(q, d) PROVE Told
  <2>1. CASE q # p \/ d # c
    <3>1. call' = [call EXCEPT ![q][d] = NoCall]
      BY <1>17 DEF saveTokensToVault, Ready, Finish
    <3>2. call'[p][c] = call[p][c]  BY <1>1, <2>1, <3>1 DEF CallsType
    <3> QED  BY <1>3, <3>2
  <2>2. CASE q = p /\ d = c  BY <1>17, <2>2
  <2> QED  BY <2>1, <2>2
<1>18. ASSUME NEW q \in Procs, NEW r \in Requests, makeRequest(q, r) \/ Answer(q, r) PROVE Told
  BY <1>3, <1>18 DEF makeRequest, Answer
<1>19. ASSUME NEW q \in Procs, NEW r \in Requests, handleAuthError(q, r) PROVE Told
  BY <1>5, <1>19 DEF handleAuthError, Callers
<1>20. ASSUME UNCHANGED vars PROVE Told
  BY <1>3, <1>20 DEF vars, authVars
<1> HIDE DEF Told
<1>21. Told
  BY <1>6, <1>7, <1>8, <1>9, <1>10, <1>11, <1>12, <1>13, <1>14, <1>15, <1>16, <1>17, <1>18,
     <1>19, <1>20 DEF Next
<1> QED  BY <1>21 DEF Told

(* A process comes to tokens that were given before only from the vault. *)
LEMMA NextHas ==
    ASSUME TypeOK, Alone, Owned, [Next]_vars, NEW q \in Procs, NEW t \in Tokens, Given(t),
           Has(q, t)'
    PROVE  Has(q, t) \/ InVault(t)
<1> DEFINE Told == Has(q, t) \/ InVault(t)
<1>1. proc \in [Procs -> Process] /\ CallsType  BY TypeParts
<1>2. ASSUME proc'[q].state # "down" => proc[q].state # "down" /\ proc'[q].tokens = proc[q].tokens,
             \A c \in Callers : call'[q][c].step # "none" =>
                 \/ call[q][c].step # "none" /\ call'[q][c].tokens = call[q][c].tokens
                 \/ proc[q].state # "down" /\ call'[q][c].tokens = proc[q].tokens
      PROVE  Told
  BY <1>2 DEF Has, Busy
<1>3. ASSUME proc'[q] = proc[q], call'[q] = call[q] PROVE Told
  BY <1>2, <1>3
<1>4. ASSUME NEW p \in Procs, Down(p) PROVE Told
  <2>1. /\ p # q => proc'[q] = proc[q] /\ call'[q] = call[q]
        /\ p = q => proc'[q] = Off_ /\ call'[q] = [c \in Callers |-> NoCall]
    BY <1>1, <1>4 DEF Down, CallsType
  <2> QED  BY <1>2, <1>3, <2>1 DEF Off_, NoCall
<1>5. ASSUME NEW p \in Procs, NEW c \in Callers, NEW ok, NEW changed \in Process,
             changed.state = proc[p].state, changed.tokens = proc[p].tokens,
             Finish(p, c, ok, changed)
      PROVE  Told
  <2>1. /\ proc' = [proc EXCEPT ![p] = [changed EXCEPT !.isRefreshing = FALSE,
                                          !.api = IF ok THEN changed.tokens ELSE @]]
        /\ call' = [call EXCEPT ![p][c] = NoCall]
    BY <1>5 DEF Finish
  <2>2. proc'[q].state = proc[q].state /\ proc'[q].tokens = proc[q].tokens
    BY <1>1, <1>5, <2>1 DEF Process
  <2>3. \A d \in Callers : call'[q][d] \in {call[q][d], NoCall}
    BY <1>1, <2>1 DEF CallsType
  <2> QED  BY <1>2, <2>2, <2>3 DEF NoCall
<1>6. ASSUME NEW p \in Procs, NEW c \in Callers, refreshNow(p, c), proc[p].state # "down"
      PROVE  Told
  <2>1. \/ call' = call
        \/ call' = [call EXCEPT ![p][c] = [step |-> "fetch", tokens |-> proc[p].tokens]]
    BY <1>6 DEF refreshNow, BeginRefresh
  <2>2. \/ proc' = proc
        \/ proc' = [proc EXCEPT ![p].api = ApiAfter(p, c, proc[p].tokens)]
        \/ proc' = [proc EXCEPT ![p].isRefreshing = TRUE]
    BY <1>6 DEF refreshNow, BeginRefresh
  <2>3. proc'[q].state = proc[q].state /\ proc'[q].tokens = proc[q].tokens
    BY <1>1, <2>2 DEF Process
  <2>4. \A d \in Callers : \/ call'[q][d] = call[q][d]
                           \/ p = q /\ call'[q][d].tokens = proc[q].tokens
    BY <1>1, <2>1 DEF CallsType
  <2> QED  BY <1>2, <1>6, <2>3, <2>4
<1>7. ASSUME NEW s \in Sessions, Expire(s) \/ runAuthCommand(s) PROVE Told
  BY <1>3, <1>7 DEF Expire, runAuthCommand
<1>8. ASSUME NEW p \in Procs, create(p) PROVE Told
  <2>1. CASE p # q
    BY <1>1, <1>3, <1>8, <2>1 DEF create, CallsType
  <2>2. CASE p = q
    <3>1. vault # NoVault /\ proc'[q].tokens = vault.tokens
      BY <1>1, <1>8, <2>2 DEF create, Readable, initializeAuth, Off_
    <3>2. \A c \in Callers : ~Busy(q, c)  BY <1>8, <2>2 DEF create, Alone, AloneAt
    <3>3. \/ call' = call
          \/ call' = [call EXCEPT ![q]["startup"] = [step |-> "fetch", tokens |-> vault.tokens]]
      BY <1>8, <2>2 DEF create
    <3>4. \A c \in Callers : call'[q][c] = call[q][c] \/ call'[q][c].tokens = vault.tokens
      BY <1>1, <3>3 DEF CallsType
    <3> QED  BY <3>1, <3>2, <3>4 DEF Has, InVault, Busy
  <2> QED  BY <2>1, <2>2
<1>9. ASSUME NEW p \in Procs, Crash(p) \/ Exit(p) PROVE Told
  BY <1>4, <1>9 DEF Crash, Exit
<1>10. ASSUME NEW p \in Procs, startAutoRefresh(p) PROVE Told
  BY <1>6, <1>10 DEF startAutoRefresh, Up, Callers
<1>11. ASSUME NEW p \in Procs, manualRefresh(p) PROVE Told
  BY <1>6, <1>11 DEF manualRefresh, Up, Callers
<1>12. ASSUME NEW p \in Procs, logout(p) PROVE Told
  BY <1>1, <1>2, <1>12 DEF logout, Process
<1>13. ASSUME NEW p \in Procs, revokeSession(p) \/ deleteTokenCache(p) PROVE Told
  BY <1>1, <1>2, <1>13 DEF revokeSession, deleteTokenCache, Process
<1>14. ASSUME NEW p \in Procs, NEW c \in Callers, authRefresh(p, c) PROVE Told
  <2>1. CASE Exchanges(call[p][c].tokens)
    <3> DEFINE old == call[p][c].tokens
               new == [uid |-> old.uid, gen |-> old.gen + 1]
    <3>1. /\ old.gen = server[old.uid].gen
          /\ call'[p][c] = [step |-> "answered", tokens |-> new]
      BY <1>14, <2>1, Exchanged
    <3>2. /\ proc' = proc
          /\ \A d \in Callers : <<q, d>> # <<p, c>> => call'[q][d] = call[q][d]
      <4>1. PICK v : call' = [call EXCEPT ![p][c] = v]
        BY <1>14, <2>1 DEF authRefresh
      <4>2. proc' = proc  BY <1>14 DEF authRefresh
      <4> HIDE DEF old, new
      <4> QED  BY <1>1, <4>1, <4>2 DEF CallsType
    <3>3. old \in Tokens  BY <1>1 DEF CallsType, Call
    <3> HIDE DEF old
    <3>4. new # t
      <4>1. t.gen \in Nat /\ old.gen \in Nat  BY <3>3, AuthBounds DEF Tokens
      <4>2. t.gen <= server[t.uid].gen  BY DEF Given
      <4> QED  BY <3>1, <4>1, <4>2
    <3> HIDE DEF new
    <3>5. \A d \in Callers : \/ call'[q][d] = call[q][d]
                             \/ call'[q][d].tokens # t
      BY <3>1, <3>2, <3>4
    <3> QED  BY <3>2, <3>5 DEF Has, Busy
  <2>2. CASE ~Exchanges(call[p][c].tokens)
    <3>1. proc' = proc /\ call' = [call EXCEPT ![p][c].step = "denied"]
          /\ call[p][c].step = "fetch"
      BY <1>14, <2>2 DEF authRefresh
    <3> QED  BY <1>1, <1>2, <3>1 DEF CallsType, Call
  <2> QED  BY <2>1, <2>2
<1>15. ASSUME NEW p \in Procs, NEW c \in Callers, LoseAnswer(p, c) PROVE Told
  BY <1>1, <1>2, <1>15 DEF LoseAnswer, CallsType, Call
<1>16. ASSUME NEW p \in Procs, NEW c \in Callers, refreshFailed(p, c) \/ SaveFails(p, c) PROVE Told
  BY <1>1, <1>4, <1>5, <1>16 DEF refreshFailed, SaveFails
<1>17. ASSUME NEW p \in Procs, NEW c \in Callers, refresh(p, c) PROVE Told
  <2>1. CASE p # q
    BY <1>1, <1>3, <1>17, <2>1 DEF refresh, CallsType
  <2>2. CASE p = q
    <3>1. Busy(q, c)  BY <1>17, <2>2 DEF refresh, Busy
    <3>2. proc'[q].tokens = call[q][c].tokens
      BY <1>1, <1>17, <2>2 DEF refresh, Process
    <3>3. \A d \in Callers : Busy(q, d)' => Busy(q, d) /\ call'[q][d].tokens = call[q][d].tokens
      BY <1>1, <1>17, <2>2 DEF refresh, CallsType, Call, Busy
    <3> QED  BY <3>1, <3>2, <3>3 DEF Has, Busy
  <2> QED  BY <2>1, <2>2
<1>18. ASSUME NEW p \in Procs, NEW c \in Callers, saveTokensToVault(p, c) PROVE Told
  <2> DEFINE changed == [proc[p] EXCEPT !.cachedKey = KeyToWrite(@).cached]
  <2>1. Ready(p, c, changed)  BY <1>18 DEF saveTokensToVault
  <2>2. /\ changed \in Process
        /\ changed.state = proc[p].state /\ changed.tokens = proc[p].tokens
    <3>1. proc[p] \in Process /\ proc[p].cachedKey \in Keys  BY <1>1 DEF Process
    <3>2. KeyToWrite(proc[p].cachedKey).cached \in Keys  BY <3>1, KeyTypes DEF TypeOK
    <3> QED  BY <3>1, <3>2 DEF Process
  <2> HIDE DEF changed
  <2>3. CASE c # "startup"  BY <1>5, <2>1, <2>2, <2>3 DEF Ready
  <2>4. CASE c = "startup"
    <3>1. /\ proc' = [proc EXCEPT ![p] = initializeAuth(p, changed.tokens, changed.cachedKey)]
          /\ call' = [call EXCEPT ![p][c] = NoCall]
      BY <2>1, <2>4 DEF Ready
    <3>2. proc[p].state # "down"
      <4>1. Busy(p, c)  BY <1>18 DEF saveTokensToVault, Busy
      <4> QED  BY <4>1 DEF Alone, AloneAt
    <3>3. proc'[q].tokens = proc[q].tokens /\ (proc'[q] = proc[q] \/ p = q)
      BY <1>1, <2>2, <3>1 DEF initializeAuth, Off_
    <3>4. \A d \in Callers : call'[q][d] \in {call[q][d], NoCall}
      BY <1>1, <3>1 DEF CallsType
    <3> QED  BY <1>2, <3>2, <3>3, <3>4 DEF NoCall
  <2> QED  BY <2>3, <2>4
<1>19. ASSUME NEW p \in Procs, NEW r \in Requests, makeRequest(p, r) \/ Answer(p, r) PROVE Told
  BY <1>3, <1>19 DEF makeRequest, Answer
<1>20. ASSUME NEW p \in Procs, NEW r \in Requests, handleAuthError(p, r) PROVE Told
  <2>1. proc[p].state # "down"  BY <1>20 DEF handleAuthError, Alone, AloneAt
  <2> QED  BY <1>6, <1>20, <2>1 DEF handleAuthError, Callers
<1>21. ASSUME UNCHANGED vars PROVE Told
  BY <1>3, <1>21 DEF vars, authVars
<1> HIDE DEF Told
<1>22. Told
  BY <1>7, <1>8, <1>9, <1>10, <1>11, <1>12, <1>13, <1>14, <1>15, <1>16, <1>17, <1>18, <1>19,
     <1>20, <1>21 DEF Next
<1> QED  BY <1>22 DEF Told

(* Tokens that were given come to the vault only from a process that saves them. *)
LEMMA NextInVault ==
    ASSUME TypeOK, Alone, Owned, [Next]_vars, NEW t \in Tokens, Given(t), InVault(t)'
    PROVE  \/ InVault(t)
           \/ \E p \in Procs, c \in Callers : saveTokensToVault(p, c) /\ proc[p].tokens = t
<1>1. \A s \in Sessions : runAuthCommand(s) => [uid |-> s, gen |-> 1] # t
  <2> SUFFICES ASSUME NEW s \in Sessions, runAuthCommand(s), t = [uid |-> s, gen |-> 1]
               PROVE  FALSE
    OBVIOUS
  <2>1. server[s].gen = 0
    BY TypeParts, AuthBounds DEF runAuthCommand, Sessions, Session
  <2>2. t.uid = s /\ t.gen = 1  OBVIOUS
  <2> HIDE DEF Given
  <2>3. 1 <= server[s].gen  BY <2>2 DEF Given
  <2> QED  BY <2>1, <2>3
<1> QED  BY <1>1, NextVault DEF InVault

LEMMA NextRotating ==
    TypeOK /\ Alone /\ Owned /\ Rotating /\ [Next]_vars => Rotating'
<1> SUFFICES ASSUME TypeOK, Alone, Owned, Rotating, [Next]_vars,
                    NEW p \in Procs, NEW c \in Callers,
                    call'[p][c].step \in {"answered", "save"},
                    NEW t, t = call'[p][c].tokens
             PROVE  Sole(p, t)'
  BY DEF Rotating, Sole, InVault, Has, Busy
<1>1. server \in [Sessions -> Session] /\ proc \in [Procs -> Process] /\ CallsType /\ VaultType
  BY TypeParts
<1>2. CASE call[p][c].step \in {"answered", "save"} /\ t = call[p][c].tokens
  <2>1. Sole(p, t) /\ Busy(p, c)  BY <1>2 DEF Rotating, Busy
  <2>2. t \in Tokens /\ Given(t)
    BY <1>1, <1>2, <2>1 DEF Owned, OwnedAt, CallsType, Call
  <2>3. \A d \in Callers : Busy(p, d) => d = c  BY <2>1 DEF Alone, AloneAt
  <2>4. server'[t.uid].gen = t.gen
    <3>1. server[t.uid].gen = t.gen /\ server[t.uid].gen >= 1 /\ t.uid \in Sessions
      BY <2>1, <2>2 DEF Sole, Given
    <3>2. ASSUME NEW q \in Procs, NEW d \in Callers, authRefresh(q, d),
                 Exchanges(call[q][d].tokens), call[q][d].tokens.uid = t.uid
          PROVE  FALSE
      <4>1. Busy(q, d)  BY <3>2 DEF authRefresh, Busy
      <4>2. call[q][d].tokens = t
        <5>1. call[q][d].tokens \in Tokens  BY <1>1 DEF CallsType, Call
        <5>2. call[q][d].tokens.gen = server[t.uid].gen  BY <3>2 DEF Exchanges
        <5> QED  BY <2>2, <3>1, <3>2, <5>1, <5>2 DEF Tokens
      <4>3. q = p  BY <2>1, <4>1, <4>2 DEF Sole, Has
      <4>4. d = c  BY <2>3, <4>1, <4>3
      <4> QED  BY <1>2, <3>2, <4>3, <4>4 DEF authRefresh
    <3>3. server'[t.uid].gen = server[t.uid].gen  BY <3>1, <3>2, NextGeneration
    <3> QED  BY <3>1, <3>3
  <2>5. ~InVault(t)'
    <3> SUFFICES ASSUME InVault(t)' PROVE FALSE  OBVIOUS
    <3>1. ~InVault(t)  BY <2>1 DEF Sole
    <3>2. PICK q \in Procs, d \in Callers : saveTokensToVault(q, d) /\ proc[q].tokens = t
      BY <2>2, <3>1, NextInVault
    <3>3. Busy(q, d)  BY <3>2 DEF saveTokensToVault, Busy
    <3>4. proc[q].state # "down"  BY <3>3 DEF Alone, AloneAt
    <3>5. q = p  BY <2>1, <3>2, <3>4 DEF Sole, Has
    <3>6. d = c  BY <2>3, <3>3, <3>5
    <3>7. call' = [call EXCEPT ![p][c] = NoCall]
      BY <3>2, <3>5, <3>6 DEF saveTokensToVault, Ready, Finish
    <3> QED  BY <1>1, <3>7 DEF CallsType, NoCall
  <2>6. \A q \in Procs \ {p} : ~Has(q, t)'
    <3> SUFFICES ASSUME NEW q \in Procs \ {p}, Has(q, t)' PROVE FALSE  OBVIOUS
    <3>1. Has(q, t) \/ InVault(t)  BY <2>2, NextHas
    <3> QED  BY <2>1, <3>1 DEF Sole
  <2> QED  BY <2>4, <2>5, <2>6 DEF Sole
<1>3. CASE authRefresh(p, c) /\ Exchanges(call[p][c].tokens)
  <2> DEFINE old == call[p][c].tokens
  <2>1. /\ old.uid \in Sessions /\ old.gen = server[old.uid].gen
        /\ server'[old.uid].gen = old.gen + 1
        /\ t = [uid |-> old.uid, gen |-> old.gen + 1]
    <3>1. /\ old.uid \in Sessions /\ old.gen = server[old.uid].gen
          /\ server'[old.uid].gen = old.gen + 1
          /\ call'[p][c] = [step |-> "answered", tokens |-> [uid |-> old.uid, gen |-> old.gen + 1]]
      BY <1>3, Exchanged
    <3> HIDE DEF old
    <3> QED  BY <3>1
  <2>2. old \in Tokens /\ server[old.uid].gen \in Nat
    BY <1>1, <2>1, AuthBounds DEF CallsType, Call, Session
  <2> HIDE DEF old
  <2>3. t.uid = old.uid /\ t.gen = old.gen + 1  BY <2>1
  <2>4. ~(t.gen <= server[t.uid].gen)  BY <2>1, <2>2, <2>3
  <2>5. ~Given(t)  BY <2>4 DEF Given
  <2>6. ~InVault(t)'
    <3>1. vault' = vault  BY <1>3 DEF authRefresh, vaultVars
    <3> QED  BY <2>5, <3>1 DEF InVault, Owned, VaultGiven
  <2>7. \A q \in Procs \ {p} : ~Has(q, t)'
    <3> SUFFICES ASSUME NEW q \in Procs \ {p} PROVE ~Has(q, t)'  OBVIOUS
    <3>1. proc'[q] = proc[q] /\ call'[q] = call[q]
      BY <1>1, <1>3 DEF authRefresh, CallsType
    <3>2. ~Has(q, t)  BY <2>5 DEF Has, Owned, OwnedAt
    <3> QED  BY <3>1, <3>2 DEF Has, Busy
  <2> QED  BY <2>1, <2>3, <2>6, <2>7 DEF Sole
<1>4. ASSUME NEW q \in Procs, NEW d \in Callers, authRefresh(q, d), Exchanges(call[q][d].tokens),
             <<q, d>> # <<p, c>>
      PROVE  call[p][c].step \in {"answered", "save"} /\ t = call[p][c].tokens
  <2>1. call'[p][c] = call[p][c]
    <3>1. PICK v : call' = [call EXCEPT ![q][d] = v]
      BY <1>4 DEF authRefresh
    <3>2. q # p \/ d # c  BY <1>4
    <3> QED  BY <1>1, <3>1, <3>2 DEF CallsType
  <2> QED  BY <2>1
<1>5. CASE NoNewAnswer
  <2>1. call[p][c].step \in {"answered", "save"} /\ t = call[p][c].tokens
    BY <1>5 DEF NoNewAnswer
  <2> QED  BY <1>2, <2>1
<1> QED  BY <1>2, <1>3, <1>4, <1>5, NextAnswers

(* The invariant behind SessionKept is the property itself. *)
LEMMA NextSession ==
    TypeOK /\ TypeOK' /\ Alone /\ Owned /\ Rotating /\ SessionKept /\ [Next]_vars => SessionKept'
<1> SUFFICES ASSUME TypeOK, TypeOK', Alone, Owned, Rotating, SessionKept, [Next]_vars,
                    faults' = Faults, vault' # NoVault, NEW s, s = vault'.tokens.uid
             PROVE  \/ server'[s].out
                    \/ vault'.tokens.gen = server'[s].gen
                    \/ \E p \in Procs, c \in Callers :
                           /\ call'[p][c].step \in {"answered", "save"}
                           /\ call'[p][c].tokens = [uid |-> s, gen |-> server'[s].gen]
  BY DEF SessionKept
<1>1. /\ server \in [Sessions -> Session] /\ proc \in [Procs -> Process]
      /\ CallsType /\ VaultType /\ faults \in Nat /\ faults <= Faults /\ Faults \in Nat
  BY TypeParts, AuthBounds
<1>2. Grows  BY NextGrows
<1>3. ASSUME NEW e \in Sessions, runAuthCommand(e), vault'.tokens = [uid |-> e, gen |-> 1]
      PROVE  vault'.tokens.gen = server'[s].gen
  <2>1. s = e /\ vault'.tokens.gen = 1  BY <1>3
  <2>2. server'[e].gen = 1  BY <1>1, <1>3 DEF runAuthCommand, NewSession
  <2> QED  BY <2>1, <2>2
<1>4. ASSUME NEW p \in Procs, NEW c \in Callers, saveTokensToVault(p, c)
      PROVE  vault'.tokens.gen = server'[s].gen
  <2>1. /\ call[p][c].step = "save" /\ server' = server
        /\ vault'.tokens = proc[p].tokens
    BY <1>4 DEF saveTokensToVault, writeVault, Writable
  <2>2. Busy(p, c)  BY <2>1 DEF Busy
  <2>3. call[p][c].tokens = proc[p].tokens  BY <2>1, <2>2 DEF Owned, OwnedAt
  <2>4. server[proc[p].tokens.uid].gen = proc[p].tokens.gen
    BY <2>1, <2>3 DEF Rotating, Sole
  <2> QED  BY <2>1, <2>4
<1>5. CASE vault' = vault /\ \A p \in Procs, c \in Callers : ~saveTokensToVault(p, c)
  <2>1. s \in Sessions /\ s = vault.tokens.uid /\ vault # NoVault
    BY <1>5 DEF Owned, VaultGiven, Given
  <2>2. server[s].gen \in Nat /\ server[s].gen >= 1
    <3>1. Given(vault.tokens) /\ vault.tokens \in Tokens
      BY <1>1, <2>1 DEF Owned, VaultGiven, VaultType
    <3>2. server[s].gen \in Nat /\ vault.tokens.gen \in Nat
      BY <1>1, <2>1, <3>1, AuthBounds DEF Session, Tokens
    <3>3. 1 <= vault.tokens.gen /\ vault.tokens.gen <= server[s].gen
      BY <2>1, <3>1 DEF Given
    <3> QED  BY <3>2, <3>3
  <2>3. faults' = faults
    <3>1. faults' \in {faults, faults - 1}
      <4>1. ASSUME NEW p \in Procs, Crash(p) PROVE faults' = faults - 1  BY <4>1 DEF Crash
      <4>2. ASSUME NEW p \in Procs, NEW c \in Callers, LoseAnswer(p, c) \/ SaveFails(p, c)
            PROVE  faults' = faults - 1
        BY <4>2 DEF LoseAnswer, SaveFails
      <4>3. ASSUME NEW e \in Sessions, Expire(e) \/ runAuthCommand(e) PROVE faults' = faults
        BY <4>3 DEF Expire, runAuthCommand
      <4>4. ASSUME NEW p \in Procs,
                   \/ create(p) \/ Exit(p) \/ startAutoRefresh(p) \/ manualRefresh(p)
                   \/ logout(p) \/ revokeSession(p) \/ deleteTokenCache(p)
            PROVE  faults' = faults
        BY <4>4 DEF create, Exit, startAutoRefresh, manualRefresh, logout, revokeSession,
           deleteTokenCache
      <4>5. ASSUME NEW p \in Procs, NEW c \in Callers,
                   \/ authRefresh(p, c) \/ refreshFailed(p, c) \/ refresh(p, c)
                   \/ saveTokensToVault(p, c)
            PROVE  faults' = faults
        BY <4>5 DEF authRefresh, refreshFailed, refresh, saveTokensToVault
      <4>6. ASSUME NEW p \in Procs, NEW r \in Requests,
                   makeRequest(p, r) \/ Answer(p, r) \/ handleAuthError(p, r)
            PROVE  faults' = faults
        BY <4>6 DEF makeRequest, Answer, handleAuthError
      <4>7. ASSUME UNCHANGED vars PROVE faults' = faults  BY <4>7 DEF vars, authVars
      <4> QED  BY <4>1, <4>2, <4>3, <4>4, <4>5, <4>6, <4>7 DEF Next
    <3> QED  BY <1>1, <3>1
  <2>4. CASE server[s].out
    BY <1>2, <2>1, <2>2, <2>4 DEF Grows
  <2>5. CASE server'[s].gen # server[s].gen
    <3>1. PICK p \in Procs, c \in Callers : /\ authRefresh(p, c)
                                            /\ Exchanges(call[p][c].tokens)
                                            /\ call[p][c].tokens.uid = s
      BY <2>1, <2>2, <2>5, NextGeneration
    <3>2. /\ call'[p][c].step = "answered"
          /\ call'[p][c].tokens = [uid |-> s, gen |-> server'[s].gen]
      <4> DEFINE t == call[p][c].tokens
      <4>1. /\ server'[t.uid].gen = t.gen + 1
            /\ call'[p][c] = [step |-> "answered", tokens |-> [uid |-> t.uid, gen |-> t.gen + 1]]
        BY <3>1, Exchanged
      <4>2. t.uid = s  BY <3>1
      <4> HIDE DEF t
      <4> QED  BY <4>1, <4>2
    <3> QED  BY <3>2
  <2>6. CASE server'[s].gen = server[s].gen /\ vault.tokens.gen = server[s].gen
    BY <1>5, <2>6
  <2>7. ASSUME server'[s].gen = server[s].gen, NEW p \in Procs, NEW c \in Callers,
               call[p][c].step \in {"answered", "save"},
               call[p][c].tokens = [uid |-> s, gen |-> server[s].gen]
        PROVE  \/ server'[s].out
               \/ \E q \in Procs, d \in Callers :
                      /\ call'[q][d].step \in {"answered", "save"}
                      /\ call'[q][d].tokens = [uid |-> s, gen |-> server'[s].gen]
    <3>1. CASE Exit(p)
      <4>1. proc[p].logout # "no" /\ Busy(p, c)  BY <2>7, <3>1 DEF Exit, Busy
      <4>2. server[proc[p].revoking.uid].out /\ proc[p].revoking.uid = proc[p].tokens.uid
            /\ call[p][c].tokens.uid = proc[p].tokens.uid
        BY <4>1 DEF Owned, OwnedAt
      <4>3. server[s].out  BY <2>7, <4>2
      <4> QED  BY <1>2, <2>1, <2>2, <4>3 DEF Grows
    <3>2. CASE call'[p][c].step \in {"answered", "save"} /\ call'[p][c].tokens = call[p][c].tokens
      BY <2>7, <3>2
    <3> QED  BY <1>5, <2>3, <2>7, <3>1, <3>2, AnswersStay
  <2>8. \/ server[s].out \/ vault.tokens.gen = server[s].gen
        \/ \E p \in Procs, c \in Callers :
               /\ call[p][c].step \in {"answered", "save"}
               /\ call[p][c].tokens = [uid |-> s, gen |-> server[s].gen]
    BY <2>1, <2>3 DEF SessionKept
  <2> QED  BY <2>4, <2>5, <2>6, <2>7, <2>8
<1> QED  BY <1>3, <1>4, <1>5, NextVault

(* A refresh token works once.  As long as nothing fails and nobody logs out,   *)
(* the session can be refreshed from the vault, or the tokens that can are on   *)
(* their way to it: also with several processes that refresh the same session,  *)
(* and whoever asks for a refresh in each of them.                              *)
THEOREM SessionsLast == Spec => []SessionKept
<1>1. Init => Rotating /\ SessionKept
  BY DEF Init, Rotating, SessionKept, NoCall
<1> QED
  BY <1>1, InitTypes, NextTypes, InitAlone, NextAlone, InitOwned, NextOwned, NextRotating,
     NextSession, PTL DEF Spec

-----------------------------------------------------------------------------
(* The tokens the API sends *)

(* The API is behind its manager: a refresh was answered and not saved.         *)
Behind(p) == Up(p) /\ proc[p].api # proc[p].tokens

(* Nobody else has the tokens, so nobody else can bring them to the vault. *)
Private(p, t) == ~InVault(t) /\ \A q \in Procs \ {p} : ~Has(q, t)

BehindAlone == \A p \in Procs : Behind(p) => Private(p, proc[p].tokens)

(* Tokens of a process that does not save them stay its own. *)
LEMMA PrivateKept ==
    ASSUME TypeOK, Alone, Owned, [Next]_vars, NEW p \in Procs, NEW t \in Tokens, Given(t),
           Private(p, t), \A c \in Callers : ~saveTokensToVault(p, c)
    PROVE  Private(p, t)'
<1>1. ~InVault(t)'
  <2> SUFFICES ASSUME InVault(t)' PROVE FALSE  OBVIOUS
  <2>1. PICK q \in Procs, c \in Callers : saveTokensToVault(q, c) /\ proc[q].tokens = t
    BY NextInVault DEF Private
  <2>2. proc[q].state # "down"  BY <2>1 DEF saveTokensToVault, Busy, Alone, AloneAt
  <2>3. q = p  BY <2>1, <2>2 DEF Private, Has
  <2> QED  BY <2>1, <2>3
<1>2. \A q \in Procs \ {p} : ~Has(q, t)'
  BY NextHas DEF Private
<1> QED  BY <1>1, <1>2 DEF Private

(* A process falls behind only when it takes an answer over, and no longer is   *)
(* when it has saved.                                                           *)
LEMMA NextBehind ==
    ASSUME TypeOK, Alone, [Next]_vars, NEW p \in Procs, Behind(p)'
    PROVE  \/ \E c \in Callers : refresh(p, c)
           \/ /\ Behind(p) /\ proc'[p].tokens = proc[p].tokens
              /\ \A c \in Callers : ~saveTokensToVault(p, c)
<1> DEFINE Told == \/ \E c \in Callers : refresh(p, c)
                   \/ /\ Behind(p) /\ proc'[p].tokens = proc[p].tokens
                      /\ \A c \in Callers : ~saveTokensToVault(p, c)
<1>1. proc \in [Procs -> Process] /\ CallsType  BY TypeParts
<1>2. ASSUME NEW c \in Callers, saveTokensToVault(p, c) PROVE FALSE
  <2> DEFINE changed == [proc[p] EXCEPT !.cachedKey = KeyToWrite(@).cached]
  <2>1. CASE c = "startup"
    <3>1. proc' = [proc EXCEPT ![p] = initializeAuth(p, changed.tokens, changed.cachedKey)]
      BY <1>2, <2>1 DEF saveTokensToVault, Ready
    <3>2. proc'[p] = initializeAuth(p, changed.tokens, changed.cachedKey)
      BY <1>1, <3>1
    <3>3. proc'[p].api = proc'[p].tokens
      BY <3>2 DEF initializeAuth, Off_
    <3> QED  BY <3>3 DEF Behind
  <2>2. CASE c # "startup"
    <3>1. Finish(p, c, TRUE, changed)
      BY <1>2, <2>2 DEF saveTokensToVault, Ready
    <3>2. changed \in [state : {"down", "starting", "up"}, tokens : Tokens, api : Tokens,
                       isRefreshing : BOOLEAN, timer : BOOLEAN,
                       cachedKey : {KeyToWrite(proc[p].cachedKey).cached},
                       logout : {"no", "revoke", "delete", "clean", "dirty"},
                       revoking : Tokens]
      BY <1>1 DEF Process
    <3> HIDE DEF changed
    <3>3. proc'[p] = [changed EXCEPT !.isRefreshing = FALSE, !.api = changed.tokens]
      BY <1>1, <3>1 DEF Finish
    <3>4. proc'[p].api = proc'[p].tokens
      BY <3>2, <3>3
    <3> QED  BY <3>4 DEF Behind
  <2> QED  BY <2>1, <2>2
<1>3. ASSUME proc'[p] = proc[p] PROVE Told
  BY <1>2, <1>3 DEF Behind, Up
<1>4. ASSUME proc'[p].api = proc'[p].tokens \/ proc'[p].state # "up" PROVE Told
  BY <1>4 DEF Behind, Up
<1>5. ASSUME NEW q \in Procs, q # p,
             \/ \E v : proc' = [proc EXCEPT ![q] = v]
             \/ proc' = proc
      PROVE  Told
  BY <1>1, <1>3, <1>5
<1>6. ASSUME proc'[p].state = proc[p].state, proc'[p].tokens = proc[p].tokens,
             proc'[p].api = proc[p].api
      PROVE  Told
  BY <1>2, <1>6 DEF Behind, Up
<1>7. ASSUME NEW q \in Procs, Down(q) PROVE Told
  <2>1. proc' = [proc EXCEPT ![q] = Off_]  BY <1>7 DEF Down
  <2>2. q = p => proc'[p].state # "up"  BY <1>1, <2>1 DEF Off_
  <2> QED  BY <1>4, <1>5, <2>1, <2>2
<1>8. ASSUME NEW q \in Procs, NEW c \in Callers, refreshNow(q, c) PROVE Told
  <2>1. CASE q # p
    <3>1. (\E v : proc' = [proc EXCEPT ![q] = v]) \/ proc' = proc
      BY <1>8 DEF refreshNow, BeginRefresh
    <3> QED  BY <1>5, <2>1, <3>1
  <2>2. CASE q = p
    <3>1. \/ proc' = [proc EXCEPT ![p].api = proc[p].tokens]
          \/ proc' = [proc EXCEPT ![p].api = proc[p].api]
          \/ proc' = [proc EXCEPT ![p].isRefreshing = TRUE]
          \/ proc' = proc
      BY <1>8, <2>2 DEF refreshNow, BeginRefresh, ApiAfter
    <3>2. \/ proc'[p].api = proc'[p].tokens
          \/ /\ proc'[p].state = proc[p].state /\ proc'[p].tokens = proc[p].tokens
             /\ proc'[p].api = proc[p].api
      BY <1>1, <3>1 DEF Process
    <3> QED  BY <1>4, <1>6, <3>2
  <2> QED  BY <2>1, <2>2
<1>9. ASSUME NEW q \in Procs, NEW c \in Callers, Finish(q, c, FALSE, proc[q]) PROVE Told
  <2>1. proc' = [proc EXCEPT ![q] = [proc[q] EXCEPT !.isRefreshing = FALSE, !.api = proc[q].api]]
    BY <1>1, <1>9 DEF Finish, Process
  <2>2. q = p => /\ proc'[p].state = proc[p].state /\ proc'[p].tokens = proc[p].tokens
                 /\ proc'[p].api = proc[p].api
    BY <1>1, <2>1 DEF Process
  <2> QED  BY <1>5, <1>6, <2>1, <2>2
<1>10. ASSUME NEW q \in Procs, create(q) PROVE Told
  <2> DEFINE starting == [Off_ EXCEPT !.state = "starting", !.tokens = vault.tokens,
                                      !.cachedKey = getVaultKey(None).cached]
             started == initializeAuth(q, vault.tokens, getVaultKey(None).cached)
  <2>1. proc' = [proc EXCEPT ![q] = starting] \/ proc' = [proc EXCEPT ![q] = started]
    BY <1>10, Zenon DEF create
  <2>2. starting.state = "starting" /\ started.api = started.tokens
    BY DEF initializeAuth, Off_
  <2> HIDE DEF starting, started
  <2>3. q = p => proc'[p] = starting \/ proc'[p] = started
    BY <1>1, <2>1
  <2>4. \E v : proc' = [proc EXCEPT ![q] = v]  BY <2>1
  <2> QED  BY <1>4, <1>5, <2>2, <2>3, <2>4
<1>11. ASSUME NEW q \in Procs,
              \/ proc' = [proc EXCEPT ![q].timer = FALSE, ![q].logout = "revoke",
                                      ![q].revoking = proc[q].tokens]
              \/ proc' = [proc EXCEPT ![q].logout = "delete"]
              \/ proc' = [proc EXCEPT ![q].logout = IF Quiet(proc[q].revoking.uid)
                                                    THEN "clean" ELSE "dirty"]
       PROVE  Told
  <2>1. q = p => /\ proc'[p].state = proc[p].state /\ proc'[p].tokens = proc[p].tokens
                 /\ proc'[p].api = proc[p].api
    BY <1>1, <1>11 DEF Process
  <2>2. \E v : proc' = [proc EXCEPT ![q] = v]  BY <1>11
  <2> QED  BY <1>5, <1>6, <2>1, <2>2
<1>12. ASSUME NEW q \in Procs, NEW c \in Callers, refresh(q, c) \/ saveTokensToVault(q, c)
       PROVE  Told
  <2>1. CASE q = p  BY <1>2, <1>12, <2>1
  <2>2. CASE q # p
    <3>1. \E v : proc' = [proc EXCEPT ![q] = v]
      BY <1>12 DEF refresh, saveTokensToVault, Ready, Finish
    <3> QED  BY <1>5, <2>2, <3>1
  <2> QED  BY <2>1, <2>2
<1>13. ASSUME UNCHANGED proc PROVE Told
  BY <1>3, <1>13
<1>14. ASSUME NEW s \in Sessions, Expire(s) \/ runAuthCommand(s) PROVE Told
  BY <1>13, <1>14 DEF Expire, runAuthCommand
<1>15. ASSUME NEW q \in Procs, Crash(q) \/ Exit(q) PROVE Told
  BY <1>7, <1>15 DEF Crash, Exit
<1>16. ASSUME NEW q \in Procs, startAutoRefresh(q) \/ manualRefresh(q) PROVE Told
  BY <1>8, <1>16 DEF startAutoRefresh, manualRefresh, Callers
<1>17. ASSUME NEW q \in Procs, logout(q) \/ revokeSession(q) \/ deleteTokenCache(q) PROVE Told
  BY <1>11, <1>17 DEF logout, revokeSession, deleteTokenCache
<1>18. ASSUME NEW q \in Procs, NEW c \in Callers, authRefresh(q, c) \/ LoseAnswer(q, c)
       PROVE  Told
  BY <1>13, <1>18 DEF authRefresh, LoseAnswer
<1>19. ASSUME NEW q \in Procs, NEW c \in Callers, refreshFailed(q, c) \/ SaveFails(q, c)
       PROVE  Told
  BY <1>7, <1>9, <1>19 DEF refreshFailed, SaveFails
<1>20. ASSUME NEW q \in Procs, NEW r \in Requests, makeRequest(q, r) \/ Answer(q, r) PROVE Told
  BY <1>13, <1>20 DEF makeRequest, Answer
<1>21. ASSUME NEW q \in Procs, NEW r \in Requests, handleAuthError(q, r) PROVE Told
  BY <1>8, <1>21 DEF handleAuthError, Callers
<1>22. ASSUME UNCHANGED vars PROVE Told
  BY <1>13, <1>22 DEF vars, authVars
<1> HIDE DEF Told
<1>23. Told
  BY <1>10, <1>12, <1>14, <1>15, <1>16, <1>17, <1>18, <1>19, <1>20, <1>21, <1>22 DEF Next
<1> QED  BY <1>23 DEF Told

LEMMA NextBehindAlone ==
    TypeOK /\ Alone /\ Owned /\ Rotating /\ BehindAlone /\ [Next]_vars => BehindAlone'
<1> SUFFICES ASSUME TypeOK, Alone, Owned, Rotating, BehindAlone, [Next]_vars,
                    NEW p \in Procs, Behind(p)', NEW t, t = proc'[p].tokens
             PROVE  Private(p, t)'
  BY DEF BehindAlone, Private, InVault, Has, Busy
<1>1. proc \in [Procs -> Process] /\ CallsType  BY TypeParts
<1>2. CASE Behind(p) /\ t = proc[p].tokens /\ \A c \in Callers : ~saveTokensToVault(p, c)
  <2>1. t \in Tokens /\ Given(t)
    BY <1>1, <1>2 DEF Process, Behind, Up, Owned, OwnedAt
  <2>2. Private(p, t)  BY <1>2 DEF BehindAlone
  <2> QED  BY <1>2, <2>1, <2>2, PrivateKept
<1>3. ASSUME NEW c \in Callers, refresh(p, c) PROVE Private(p, t)'
  <2>1. Sole(p, call[p][c].tokens)  BY <1>3 DEF refresh, Rotating
  <2>2. t = call[p][c].tokens  BY <1>1, <1>3 DEF refresh, Process
  <2>3. \A q \in Procs \ {p} : proc'[q] = proc[q] /\ call'[q] = call[q]
    BY <1>1, <1>3 DEF refresh, CallsType
  <2>4. vault' = vault  BY <1>3 DEF refresh, vaultVars
  <2> QED  BY <2>1, <2>2, <2>3, <2>4 DEF Sole, Private, InVault, Has, Busy
<1> QED  BY <1>2, <1>3, NextBehind

(* ApiMatchesVault: a running process whose tokens are those of the vault sends  *)
(* its requests with them, whatever refreshes were skipped, failed or not saved, *)
(* in any number of processes (manager.ts:126-147).                              *)
THEOREM SavedTokensAreUsed == Spec => []ApiMatchesVault
<1>1. Init => Rotating /\ BehindAlone
  BY DEF Init, Rotating, BehindAlone, Behind, Up, NoCall, Off_
<1>2. BehindAlone => ApiMatchesVault
  BY DEF BehindAlone, Behind, Private, InVault, ApiMatchesVault
<1> QED
  BY <1>1, <1>2, InitTypes, NextTypes, InitAlone, NextAlone, InitOwned, NextOwned,
     NextRotating, NextBehindAlone, PTL DEF Spec
=============================================================================
