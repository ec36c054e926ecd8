----------------------------- MODULE BrowserLogin -----------------------------
(* What tamer auth browser takes from a browser: extractBrowserTokens of        *)
(* src/auth/browser/authenticate.ts, as a function of the cookies and the       *)
(* storage found there and of which of its requests succeed.  A session is      *)
(* named after the account it belongs to; NoAccount stands for undefined.       *)
EXTENDS Sequences, Naturals, FiniteSets, SequencesExt

CONSTANTS Accounts,   \* accounts the browser may be logged in to, in localID order
          NoAccount

Names == Range(Accounts)

ASSUME AccountsAssumption == Accounts \in Seq(Names) /\ NoAccount \notin Names

Listings == {SetToSeq(S) : S \in SUBSET Names} \cup {Reverse(SetToSeq(S)) : S \in SUBSET Names}

(* active: sessionStorage's ua_uid.  lumo, account: the AUTH cookies of the two *)
(* domains, in the browser's order.  page, lumoStore, accountStore: persisted   *)
(* sessions (ps- items) of the page and of the saved state of the two origins.   *)
(* The rest: whether the requests and the decryption work.                      *)
Browsers == [active : Names \cup {NoAccount}, lumo : Listings, account : Listings,
             page : SUBSET Names, lumoStore : SUBSET Names, accountStore : SUBSET Names,
             clientKey : BOOLEAN, users : BOOLEAN, masters : BOOLEAN]

FirstOf(cookies) == IF cookies = <<>> THEN NoAccount ELSE Head(cookies)
Or(a, b) == IF a # NoAccount THEN a ELSE b
CookieOf(cookies, s) == IF s \in Range(cookies) THEN s ELSE NoAccount

(* The session of lowest localID, or the one asked for *)
extractPersistedSession(stored, target) ==
    IF target # NoAccount THEN IF target \in stored THEN target ELSE NoAccount
    ELSE FirstOf(SelectSeq(Accounts, LAMBDA s : s \in stored))

InStores(b, target) ==
    Or(extractPersistedSession(b.page, target),
       Or(extractPersistedSession(b.lumoStore, target),
          extractPersistedSession(b.accountStore, target)))

(* The active session's, else any *)
persistedSession(b) ==
    Or(IF b.active # NoAccount THEN InStores(b, b.active) ELSE NoAccount,
       InStores(b, NoAccount))

primaryLumoAuthCookie(b) ==
    IF b.active # NoAccount THEN CookieOf(b.lumo, b.active) ELSE FirstOf(b.lumo)
primaryAccountAuthCookie(b) ==
    IF b.active # NoAccount THEN CookieOf(b.account, b.active) ELSE FirstOf(b.account)

(* The cookie that matches the persisted session, the account domain's first,   *)
(* else the active session's *)
MatchingAuth(b, session) ==
    Or(CookieOf(b.account, session),
       Or(CookieOf(b.lumo, session),
          Or(primaryAccountAuthCookie(b), primaryLumoAuthCookie(b))))

(* fetchClientKey and decryptPersistedSession: a client key opens the blob of   *)
(* its own session only *)
keyPassword(b) ==
    LET session == persistedSession(b)
    IN  IF session # NoAccount /\ b.clientKey /\ MatchingAuth(b, session) = session
        THEN session ELSE NoAccount

(* fetchUserInfo and fetchMasterKeys, asked once there is a key password.       *)
(* Master keys are a lumo endpoint: only a cookie of that domain will do.       *)
userKeys(b) ==
    IF keyPassword(b) # NoAccount /\ b.users THEN MatchingAuth(b, persistedSession(b))
    ELSE NoAccount

masterKeys(b) ==
    IF keyPassword(b) # NoAccount /\ b.masters
    THEN Or(CookieOf(b.lumo, persistedSession(b)), primaryLumoAuthCookie(b))
    ELSE NoAccount

(* whatever the browser's active session is, it is the one saved *)
outputUid_Active(b) == primaryLumoAuthCookie(b)

(* The session whose tokens are saved *)
outputUid(b) ==
    Or(IF persistedSession(b) # NoAccount THEN CookieOf(b.lumo, persistedSession(b)) ELSE NoAccount,
       primaryLumoAuthCookie(b))

Succeeds(b) == primaryLumoAuthCookie(b) # NoAccount

extractBrowserTokens(b, fetchPersistenceKeys) ==
    [uid |-> outputUid(b),
     keyPassword |-> IF fetchPersistenceKeys THEN keyPassword(b) ELSE NoAccount,
     userKeys |-> IF fetchPersistenceKeys THEN userKeys(b) ELSE NoAccount,
     masterKeys |-> IF fetchPersistenceKeys THEN masterKeys(b) ELSE NoAccount]

Extractions ==
    [sync \in BOOLEAN |-> {extractBrowserTokens(b, sync) : b \in {c \in Browsers : Succeeds(c)}}]
=============================================================================
