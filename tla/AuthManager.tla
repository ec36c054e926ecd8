----------------------------- MODULE AuthManager -----------------------------
(* Tokens from login to logout: AuthManager (src/auth/manager.ts), AuthProvider *)
(* (src/auth/providers/), the 401 handling of createProtonApi                   *)
(* (src/auth/api-factory.ts) and performLogout (src/auth/logout.ts), in several *)
(* processes (a server and a terminal client) that share one vault.             *)
(* A token set is [uid, gen]: the session and how often it was refreshed; the   *)
(* access and the refresh token of one set come and go together.                *)
EXTENDS Vault, Naturals, FiniteSets

CONSTANTS Procs,        \* processes of the program on one machine
          Requests,     \* concurrent API calls of a process
          Uses,         \* bound: who refreshes in which process (Callers below)
          MaxSessions,  \* logins
          MaxGen,       \* refreshes of a session
          KeySources,   \* pairs: the keychain at the start, and the key file
          Faults        \* crashes, lost answers and failed writes, together

ASSUME AuthBounds == /\ MaxSessions \in Nat \ {0} /\ MaxGen \in Nat \ {0}
                     /\ KeySources \subseteq KeychainValues \X KeyFileValues
                     /\ Faults \in Nat

VARIABLES
    server,     \* per session: its current generation, and what it accepts
    proc,       \* per process: what the manager and the provider hold
    call,       \* per process and caller: its refreshNow
    request,    \* per process and API call
    faults      \* faults left

authVars == <<server, proc, call, request, faults>>
vars == <<vaultVars, authVars>>

Sessions == 1..MaxSessions
Callers == Requests \cup {"timer", "manual", "startup"}
Tokens == [uid : 0..MaxSessions, gen : 0..MaxGen]
NoTokens == [uid |-> 0, gen |-> 0]

Off_ == [state |-> "down", tokens |-> NoTokens, api |-> NoTokens, isRefreshing |-> FALSE,
         timer |-> FALSE, cachedKey |-> None, logout |-> "no", revoking |-> NoTokens]

TypeOK ==
    /\ vault \in [tokens : Tokens, key : Keys \ {None, Bad}] \cup {NoVault}
    /\ keychain \in KeychainValues /\ keyFile \in KeyFileValues
    /\ server \in [Sessions -> [gen : 0..MaxGen, live : BOOLEAN, late : BOOLEAN,
                                revoked : BOOLEAN, refreshable : BOOLEAN, out : BOOLEAN]]
    /\ proc \in [Procs -> [state : {"down", "starting", "up"}, tokens : Tokens, api : Tokens,
                           isRefreshing : BOOLEAN, timer : BOOLEAN,
                           cachedKey : Keys,
                           logout : {"no", "revoke", "delete", "clean", "dirty"},
                           revoking : Tokens]]
    /\ call \in [Procs -> [Callers -> [step : {"none", "fetch", "denied", "answered", "save"},
                                       tokens : Tokens]]]
    /\ request \in [Procs -> [Requests -> [step : {"idle", "sent", "denied", "again"},
                                           cred : Tokens]]]
    /\ faults \in 0..Faults

-----------------------------------------------------------------------------
(* Proton's session service, as the code uses it ("out" is not its own: it      *)
(* records that some process began to log this session out)                     *)

NewSession == [gen |-> 1, live |-> TRUE, late |-> FALSE, revoked |-> FALSE, refreshable |-> TRUE,
               out |-> FALSE]
NoSession == [NewSession EXCEPT !.gen = 0, !.live = FALSE]

Known(t) == t.uid \in Sessions
Accepts(t) == Known(t) /\ server[t.uid].live /\ server[t.uid].gen = t.gen
Exchanges(t) == Known(t) /\ ~server[t.uid].revoked /\ server[t.uid].gen = t.gen

(* Whether expiresAt has passed: either, for a set that has been replaced *)
isExpired(t) == IF server[t.uid].gen > t.gen THEN BOOLEAN ELSE {server[t.uid].late}

(* canRefreshWithToken: a browser session without a REFRESH cookie has none *)
canRefresh(t) == Known(t) /\ server[t.uid].refreshable

(* Time passes: the access token is refused from now on *)
Expire(s) ==
    /\ server[s].live
    /\ server' = [server EXCEPT ![s].live = FALSE, ![s].late = TRUE]
    /\ UNCHANGED <<vaultVars, proc, call, request, faults>>

-----------------------------------------------------------------------------
NoCall == [step |-> "none", tokens |-> NoTokens]
NoRequest == [step |-> "idle", cred |-> NoTokens]

Up(p) == proc[p].state = "up"
Busy(p, c) == call[p][c].step # "none"

(* What a caller does with the result of its refreshNow: a request goes on with *)
(* the provider's tokens or gives up; the timer and a manual refresh only       *)
(* report it (the counters of getHealth are left out).                          *)
AfterRefresh(p, c, ok, tokens) ==
    IF c \notin Requests THEN request
    ELSE [request EXCEPT ![p][c] = IF ok THEN [step |-> "again", cred |-> tokens] ELSE NoRequest]

(* The request's own assignment of new credentials to the API's uid and token *)
ApiAfter(p, c, tokens) == IF c \in Requests THEN tokens ELSE proc[p].api

(* The call of provider.refresh fails before it sends anything, or its POST is  *)
(* under way.                                                                   *)
BeginRefresh(p, c) ==
    IF canRefresh(proc[p].tokens)
    THEN /\ proc' = [proc EXCEPT ![p].isRefreshing = TRUE]
         /\ call' = [call EXCEPT ![p][c] = [step |-> "fetch", tokens |-> proc[p].tokens]]
         /\ UNCHANGED request
    ELSE /\ request' = AfterRefresh(p, c, FALSE, NoTokens)
         /\ UNCHANGED <<proc, call>>

(* two refreshes overlap *)
refreshNow_Unguarded(p, c) == BeginRefresh(p, c)

(* refreshNow returns at once while another refresh is under way, and its       *)
(* caller takes that for a success.                                             *)
refreshNow(p, c) ==
    IF proc[p].isRefreshing
    THEN /\ proc' = [proc EXCEPT ![p].api = ApiAfter(p, c, proc[p].tokens)]
         /\ request' = AfterRefresh(p, c, TRUE, proc[p].tokens)
         /\ UNCHANGED call
    ELSE BeginRefresh(p, c)

(* the API's credentials are left to the callers *)
Finish_ApiForgotten(p, c, ok, changed) ==
    /\ proc' = [proc EXCEPT ![p] =
                    [changed EXCEPT !.isRefreshing = FALSE,
                                    !.api = IF ok /\ c \in Requests THEN changed.tokens ELSE @]]
    /\ call' = [call EXCEPT ![p][c] = NoCall]
    /\ request' = AfterRefresh(p, c, ok, changed.tokens)

(* The finally block and the caller's continuation *)
Finish(p, c, ok, changed) ==
    /\ proc' = [proc EXCEPT ![p] =
                    [changed EXCEPT !.isRefreshing = FALSE,
                                    !.api = IF ok THEN changed.tokens ELSE @]]
    /\ call' = [call EXCEPT ![p][c] = NoCall]
    /\ request' = AfterRefresh(p, c, ok, changed.tokens)

-----------------------------------------------------------------------------
(* Starting and stopping *)

(* Application.initializeAuth once the tokens are valid: manager, API, timer *)
initializeAuth(p, tokens, key) ==
    [Off_ EXCEPT !.state = "up", !.tokens = tokens, !.api = tokens, !.timer = TRUE,
                 !.cachedKey = key]

(* AuthProvider.create: read the vault, and refresh when the tokens expired.    *)
(* Without a vault, or with one it cannot read, the process ends.               *)
create(p) ==
    /\ proc[p].state = "down"
    /\ Readable(None)
    /\ LET tokens == vault.tokens
           key == getVaultKey(None).cached
       IN  \E expired \in isExpired(tokens) :
               IF expired
               THEN /\ canRefresh(tokens)
                    /\ proc' = [proc EXCEPT ![p] = [Off_ EXCEPT !.state = "starting",
                                                    !.tokens = tokens, !.cachedKey = key]]
                    /\ call' = [call EXCEPT ![p]["startup"] = [step |-> "fetch", tokens |-> tokens]]
               ELSE /\ proc' = [proc EXCEPT ![p] = initializeAuth(p, tokens, key)]
                    /\ UNCHANGED call
    /\ UNCHANGED <<vaultVars, server, request, faults>>

Down(p) ==
    /\ proc' = [proc EXCEPT ![p] = Off_]
    /\ call' = [call EXCEPT ![p] = [c \in Callers |-> NoCall]]
    /\ request' = [request EXCEPT ![p] = [r \in Requests |-> NoRequest]]

(* The process is killed, or stopped by a signal *)
Crash(p) ==
    /\ proc[p].state # "down" /\ faults > 0
    /\ faults' = faults - 1
    /\ Down(p)
    /\ UNCHANGED <<vaultVars, server>>

(* tamer auth: a new session, written by a process of its own *)
runAuthCommand(s) ==
    /\ \A e \in Sessions : server[e].gen = 0 <=> e >= s
    /\ \E cookie \in BOOLEAN :
           server' = [server EXCEPT ![s] = [NewSession EXCEPT !.refreshable = cookie]]
    /\ writeVault([uid |-> s, gen |-> 1], getVaultKey(None).cached)
    /\ UNCHANGED <<proc, call, request, faults>>

-----------------------------------------------------------------------------
(* Refreshing *)

(* setInterval's callback *)
startAutoRefresh(p) ==
    /\ Up(p) /\ proc[p].timer /\ "timer" \in Uses[p] /\ ~Busy(p, "timer")
    /\ refreshNow(p, "timer")
    /\ UNCHANGED <<vaultVars, server, faults>>

(* POST /v1/auth/refresh and /refreshtokens *)
manualRefresh(p) ==
    /\ Up(p) /\ "manual" \in Uses[p] /\ ~Busy(p, "manual")
    /\ refreshNow(p, "manual")
    /\ UNCHANGED <<vaultVars, server, faults>>

(* The refresh endpoint: the presented token is used up by the exchange *)
authRefresh(p, c) ==
    LET t == call[p][c].tokens
    IN  /\ call[p][c].step = "fetch"
        /\ IF Exchanges(t)
           THEN /\ t.gen < MaxGen
                /\ server' = [server EXCEPT ![t.uid].gen = t.gen + 1, ![t.uid].live = TRUE,
                                            ![t.uid].late = FALSE]
                /\ call' = [call EXCEPT ![p][c] = [step |-> "answered",
                                                   tokens |-> [t EXCEPT !.gen = t.gen + 1]]]
           ELSE /\ call' = [call EXCEPT ![p][c].step = "denied"]
                /\ UNCHANGED server
        /\ UNCHANGED <<vaultVars, proc, request, faults>>

(* The answer, or the request itself, is lost *)
LoseAnswer(p, c) ==
    /\ call[p][c].step \in {"fetch", "answered"} /\ faults > 0
    /\ faults' = faults - 1
    /\ call' = [call EXCEPT ![p][c].step = "denied"]
    /\ UNCHANGED <<vaultVars, server, proc, request>>

(* provider.refresh throws: a starting process ends, a running one goes on *)
refreshFailed(p, c) ==
    /\ call[p][c].step = "denied"
    /\ IF c = "startup" THEN Down(p) ELSE Finish(p, c, FALSE, proc[p])
    /\ UNCHANGED <<vaultVars, server, faults>>

(* refresh: the tokens are taken over before they are saved *)
refresh(p, c) ==
    /\ call[p][c].step = "answered"
    /\ proc' = [proc EXCEPT ![p].tokens = call[p][c].tokens]
    /\ call' = [call EXCEPT ![p][c].step = "save"]
    /\ UNCHANGED <<vaultVars, server, request, faults>>

Ready(p, c, changed) ==
    IF c # "startup" THEN Finish(p, c, TRUE, changed)
    ELSE /\ proc' = [proc EXCEPT ![p] = initializeAuth(p, changed.tokens, changed.cachedKey)]
         /\ call' = [call EXCEPT ![p][c] = NoCall]
         /\ UNCHANGED request

(* the new tokens are kept in memory only *)
saveTokensToVault_NotSaved(p, c) ==
    /\ call[p][c].step = "save"
    /\ Ready(p, c, proc[p])
    /\ UNCHANGED <<vaultVars, server, faults>>

(* saveTokensToVault writes whatever the provider holds by then *)
saveTokensToVault(p, c) ==
    /\ call[p][c].step = "save"
    /\ Writable(proc[p].cachedKey)
    /\ writeVault(proc[p].tokens, proc[p].cachedKey)
    /\ Ready(p, c, [proc[p] EXCEPT !.cachedKey = KeyToWrite(@).cached])
    /\ UNCHANGED <<server, faults>>

(* The write fails (a full disk, a read-only mount): the tokens stay in memory  *)
SaveFails(p, c) ==
    /\ call[p][c].step = "save" /\ faults > 0
    /\ faults' = faults - 1
    /\ IF c = "startup" THEN Down(p) ELSE Finish(p, c, FALSE, proc[p])
    /\ UNCHANGED <<vaultVars, server>>

-----------------------------------------------------------------------------
(* API calls *)

(* makeRequest with the API's current uid and token *)
makeRequest(p, r) ==
    /\ Up(p) /\ r \in Uses[p] /\ request[p][r].step = "idle"
    /\ request' = [request EXCEPT ![p][r] = [step |-> "sent", cred |-> proc[p].api]]
    /\ UNCHANGED <<vaultVars, server, proc, call, faults>>

(* The first answer: only a 401 is handled here.  The second one is final.      *)
Answer(p, r) ==
    /\ request[p][r].step \in {"sent", "again"}
    /\ request' = [request EXCEPT ![p][r] =
                       IF Accepts(@.cred) \/ @.step = "again" THEN NoRequest
                       ELSE [@ EXCEPT !.step = "denied"]]
    /\ UNCHANGED <<vaultVars, server, proc, call, faults>>

handleAuthError(p, r) ==
    /\ request[p][r].step = "denied" /\ ~Busy(p, r)
    /\ refreshNow(p, r)
    /\ UNCHANGED <<vaultVars, server, faults>>

-----------------------------------------------------------------------------
(* Logout: the timer stops, the session is revoked with the tokens of that      *)
(* moment, then the vault is deleted                                            *)

logout(p) ==
    /\ Up(p) /\ proc[p].logout = "no"
    /\ proc' = [proc EXCEPT ![p].timer = FALSE, ![p].logout = "revoke",
                            ![p].revoking = proc[p].tokens]
    /\ server' = [server EXCEPT ![proc[p].tokens.uid].out = TRUE]
    /\ UNCHANGED <<vaultVars, call, request, faults>>

(* A refused or failed revocation is logged and forgotten *)
revokeSession(p) ==
    LET t == proc[p].revoking
    IN  /\ proc[p].logout = "revoke"
        /\ proc' = [proc EXCEPT ![p].logout = "delete"]
        /\ server' = IF Accepts(t)
                     THEN [server EXCEPT ![t.uid].revoked = TRUE, ![t.uid].live = FALSE]
                     ELSE server
        /\ UNCHANGED <<vaultVars, call, request, faults>>

(* "clean" records that nothing could write these tokens again when the logout  *)
(* ended: the session is revoked and no answer to a refresh is on its way.      *)
Quiet(s) ==
    /\ server[s].revoked
    /\ \A q \in Procs, c \in Callers :
           call[q][c].step \in {"answered", "save"} => call[q][c].tokens.uid # s

(* only a file with the tokens of this process is deleted *)
deleteTokenCache_OwnOnly(p) ==
    /\ proc[p].logout = "delete"
    /\ IF vault # NoVault /\ vault.tokens # proc[p].revoking
       THEN UNCHANGED vaultVars ELSE deleteVault
    /\ proc' = [proc EXCEPT ![p].logout = IF Quiet(proc[p].revoking.uid) THEN "clean" ELSE "dirty"]
    /\ UNCHANGED <<server, call, request, faults>>

deleteTokenCache(p) ==
    /\ proc[p].logout = "delete"
    /\ deleteVault
    /\ proc' = [proc EXCEPT ![p].logout = IF Quiet(proc[p].revoking.uid) THEN "clean" ELSE "dirty"]
    /\ UNCHANGED <<server, call, request, faults>>

(* The route exits when its answer is out, the command 500 ms later *)
Exit(p) ==
    /\ proc[p].logout \in {"clean", "dirty"}
    /\ Down(p)
    /\ UNCHANGED <<vaultVars, server, faults>>

-----------------------------------------------------------------------------
Init ==
    /\ vault = NoVault
    /\ \E sources \in KeySources : keychain = sources[1] /\ keyFile = sources[2]
    /\ server = [s \in Sessions |-> NoSession]
    /\ proc = [p \in Procs |-> Off_]
    /\ call = [p \in Procs |-> [c \in Callers |-> NoCall]]
    /\ request = [p \in Procs |-> [r \in Requests |-> NoRequest]]
    /\ faults = Faults

Next ==
    \/ \E s \in Sessions : Expire(s) \/ runAuthCommand(s)
    \/ \E p \in Procs :
           \/ create(p) \/ Crash(p) \/ Exit(p)
           \/ startAutoRefresh(p) \/ manualRefresh(p)
           \/ logout(p) \/ revokeSession(p) \/ deleteTokenCache(p)
           \/ \E c \in Callers :
                  \/ authRefresh(p, c) \/ LoseAnswer(p, c) \/ refreshFailed(p, c)
                  \/ refresh(p, c) \/ saveTokensToVault(p, c) \/ SaveFails(p, c)
           \/ \E r \in Requests : makeRequest(p, r) \/ Answer(p, r) \/ handleAuthError(p, r)

Spec == Init /\ [][Next]_vars

-----------------------------------------------------------------------------
(* At most one refresh of a process is under way, whoever asked for it: a       *)
(* refresh token works once, so a second exchange would fail and be counted as  *)
(* the end of the session.                                                      *)
OneRefresh ==
    \A p \in Procs : Cardinality({c \in Callers : Busy(p, c)}) <= 1

(* As long as nothing crashes, is lost or logs out, the refresh token in the vault is the *)
(* one Proton accepts next, or the one that replaces it is on its way to the    *)
(* vault: the next start needs no login, also when two processes refresh.       *)
SessionKept ==
    faults = Faults /\ vault # NoVault =>
        LET s == vault.tokens.uid
        IN  \/ server[s].out
            \/ vault.tokens.gen = server[s].gen
            \/ \E p \in Procs, c \in Callers :
                   /\ call[p][c].step \in {"answered", "save"}
                   /\ call[p][c].tokens = [uid |-> s, gen |-> server[s].gen]

(* Between refreshes the API sends the tokens that are in the vault, if the     *)
(* vault holds this process's: a refresh that was saved reached the API too.    *)
ApiMatchesVault ==
    \A p \in Procs :
        Up(p) /\ vault # NoVault /\ (\A c \in Callers : ~Busy(p, c)) =>
            (vault.tokens = proc[p].tokens => proc[p].api = proc[p].tokens)

(* Whatever was written, with a key found or generated on the way, a process    *)
(* that starts later finds the same key.                                        *)
VaultReadable == vault # NoVault => Readable(None)

(* After a logout that revoked the session and met no refresh under way, the    *)
(* tokens of that session never come back to the vault.                         *)
LogoutSticks ==
    \A p \in Procs : proc[p].logout = "clean" =>
        vault = NoVault \/ vault.tokens.uid # proc[p].revoking.uid
=============================================================================
