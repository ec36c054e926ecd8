-------------------------------- MODULE Login --------------------------------
(* Which keys a login leaves in the vault and what the program makes of them    *)
(* when it starts: tamer auth by browser, rclone or login                       *)
(* (src/auth/browser, rclone, login), KeyManager                                *)
(* (src/conversations/key-manager.ts), and the choice of a store and of sync    *)
(* (src/conversations/index.ts).                                                *)
EXTENDS BrowserLogin

CONSTANTS NoVault,
          MaxPasswords,   \* versions of an account's password
          MaxLocal        \* key sets generated on this machine

(* The id of a key generated here is not an account's. *)
ASSUME LoginBounds == /\ MaxPasswords \in Nat \ {0} /\ MaxLocal \in Nat
                      /\ (Names \cup {NoAccount}) \cap 1..MaxLocal = {}

VARIABLES
    password,   \* per account: the version of its password
    vault,      \* NoVault, or what the saved tokens say about keys
    generated,  \* key sets generated so far
    config,     \* enableSync and useFallbackStore
    app,        \* the running program: its store, and with which key
    db          \* per database name: the master key its rows are encrypted with

vars == <<password, vault, generated, config, app, db>>

(* A user key is a PGP key pair, identified by its id; its armored private key  *)
(* opens with the key password of one version.  Local ones are 1..MaxLocal.     *)
KeyIds == Names \cup 1..MaxLocal
NoKey == [id |-> NoAccount, acc |-> NoAccount, pw |-> 0]
NoPassword == [acc |-> NoAccount, pw |-> 0]
Absent == <<>>

(* Master keys: the pair each is encrypted to, and the fields initialize        *)
(* compares.  An account here has an old and a latest one, listed in any order; *)
(* a generated set has one.                                                     *)
MasterKey(id, latest) ==
    [of |-> id, IsLatest |-> latest, Version |-> IF latest THEN 2 ELSE 1]
MasterLists(id) ==
    {<<MasterKey(id, TRUE), MasterKey(id, FALSE)>>, <<MasterKey(id, FALSE), MasterKey(id, TRUE)>>}
NoMaster == [of |-> NoAccount, IsLatest |-> FALSE, Version |-> 0]

Stopped == [store |-> "none", sync |-> FALSE, uid |-> NoAccount, key |-> NoMaster, name |-> NoAccount]

MasterKeyType == [of : KeyIds \cup {NoAccount}, IsLatest : BOOLEAN, Version : 0..2]

TypeOK ==
    /\ password \in [Names -> 1..MaxPasswords]
    /\ vault = NoVault \/
           /\ vault.method \in {"browser", "rclone", "login"}
           /\ vault.uid \in Names
           /\ vault.keyPassword \in [acc : Names \cup {NoAccount}, pw : 0..MaxPasswords]
           /\ vault.userKey \in [id : KeyIds \cup {NoAccount}, acc : Names \cup {NoAccount},
                                 pw : 0..MaxPasswords]
           /\ vault.masterKeys \in Seq(MasterKeyType)
    /\ generated \in 0..MaxLocal
    /\ config \in [enableSync : BOOLEAN, useFallbackStore : BOOLEAN]
    /\ app \in [store : {"none", "primary", "fallback"}, sync : BOOLEAN,
                uid : Names \cup {NoAccount}, key : MasterKeyType,
                name : KeyIds \cup {NoAccount}]
    /\ db \in [KeyIds -> MasterKeyType]

Running == app.store # "none"

-----------------------------------------------------------------------------
(* tamer auth *)

PasswordOf(a) == IF a = NoAccount THEN NoPassword ELSE [acc |-> a, pw |-> password[a]]
KeyOf(a) == IF a = NoAccount THEN NoKey ELSE [id |-> a, acc |-> a, pw |-> password[a]]

runBrowserAuthentication ==
    \E t \in Extractions[config.enableSync] :
    \E masters \in IF t.masterKeys = NoAccount THEN {Absent} ELSE MasterLists(t.masterKeys) :
        /\ vault' = [method |-> "browser", uid |-> t.uid,
                     keyPassword |-> PasswordOf(t.keyPassword),
                     userKey |-> KeyOf(t.userKeys), masterKeys |-> masters]
        /\ UNCHANGED <<password, generated, config, app, db>>

Nothing == [userKey |-> NoKey, masterKeys |-> Absent]

(* the pair is kept and the master keys are not *)
existing_UserKeysOnly(read) == IF vault = NoVault \/ ~read THEN Nothing
                               ELSE [userKey |-> vault.userKey, masterKeys |-> Absent]

(* What the existing vault holds is kept.  A vault that cannot be read, because *)
(* the keychain is locked, the key is another or the file is damaged, is taken  *)
(* for none.                                                                    *)
existing(read) == IF vault = NoVault \/ ~read THEN Nothing
                  ELSE [userKey |-> vault.userKey, masterKeys |-> vault.masterKeys]

generateLocalKeys(kp, n) ==
    [userKey |-> [id |-> n, acc |-> kp.acc, pw |-> kp.pw],
     masterKeys |-> <<[of |-> n, IsLatest |-> TRUE, Version |-> 1]>>]

(* login and rclone: a key password always comes with the tokens, so keys are   *)
(* generated when the vault had none; the vault is written over in any case     *)
runLocalAuthentication(method, kp) == \E read \in BOOLEAN :
    LET generate == existing(read).userKey = NoKey
        keys == IF generate THEN generateLocalKeys(kp, generated + 1) ELSE existing(read)
    IN  /\ generate => generated < MaxLocal
        /\ vault' = [method |-> method, uid |-> kp.acc, keyPassword |-> kp,
                     userKey |-> keys.userKey, masterKeys |-> keys.masterKeys]
        /\ generated' = IF generate THEN generated + 1 ELSE generated
        /\ UNCHANGED <<password, config, app, db>>

runLoginAuthentication(a) == runLocalAuthentication("login", PasswordOf(a))

(* The pasted section was written by rclone at some time: the key password in   *)
(* it is of any version so far.                                                 *)
runRcloneAuthentication(a) ==
    \E v \in 1..password[a] : runLocalAuthentication("rclone", [acc |-> a, pw |-> v])

-----------------------------------------------------------------------------
(* What the provider says of the vault *)

supportsPersistence == vault.userKey # NoKey /\ vault.masterKeys # Absent
supportsFullApi == vault.method = "browser"
getUserId == vault.userKey.id

getConversationStoreWarning ==
    ~config.useFallbackStore /\ (~supportsPersistence \/ vault.keyPassword = NoPassword)
getSyncWarning == ~supportsFullApi \/ vault.keyPassword = NoPassword

-----------------------------------------------------------------------------
(* KeyManager.initialize *)

(* the first one listed *)
masterKeyEntry_First(list) == Head(list)

(* The reduce over the master keys *)
Better(best, current) ==
    \/ current.IsLatest /\ ~best.IsLatest
    \/ current.Version > best.Version
masterKeyEntry(list) ==
    FoldLeft(LAMBDA best, current : IF Better(best, current) THEN current ELSE best,
             Head(list), Tail(list))

(* The key password opens the private key, and that one the master key *)
Opens(kp, key, list) ==
    /\ key # NoKey /\ key.acc = kp.acc /\ key.pw = kp.pw
    /\ list # Absent /\ masterKeyEntry(list).of = key.id

(* What is not cached is fetched with the session's tokens; the fetch may fail. *)
UserKeySources == IF vault.userKey # NoKey THEN {vault.userKey} ELSE {NoKey, KeyOf(vault.uid)}
MasterKeySources ==
    IF vault.masterKeys # Absent THEN {vault.masterKeys}
    ELSE {Absent} \cup MasterLists(vault.uid)

-----------------------------------------------------------------------------
(* The program's start *)

(* initializePrimaryStore: only with cached keys, and only if they open *)
PrimaryStarts ==
    /\ ~config.useFallbackStore /\ ~getConversationStoreWarning
    /\ Opens(vault.keyPassword, vault.userKey, vault.masterKeys)

(* The database is named after the user key; its rows are written with the      *)
(* master key of the program that created them.                                 *)
initializePrimaryStore ==
    LET key == masterKeyEntry(vault.masterKeys)
    IN  /\ app' = [store |-> "primary", sync |-> supportsFullApi, uid |-> vault.uid,
                   key |-> key, name |-> getUserId]
        /\ db' = [db EXCEPT ![getUserId] = IF @ = NoMaster THEN key ELSE @]

(* initializeSync beside the fallback store *)
initializeSync ==
    /\ UNCHANGED db
    /\ \E key \in UserKeySources, list \in MasterKeySources :
           LET on == /\ config.enableSync /\ ~getSyncWarning
                     /\ Opens(vault.keyPassword, key, list)
           IN  app' = [store |-> "fallback", sync |-> on, uid |-> vault.uid,
                       key |-> IF on THEN masterKeyEntry(list) ELSE NoMaster,
                       name |-> NoAccount]

Start ==
    /\ ~Running /\ vault # NoVault
    /\ IF PrimaryStarts THEN initializePrimaryStore ELSE initializeSync
    /\ UNCHANGED <<password, vault, generated, config>>

Stop == Running /\ app' = Stopped /\ UNCHANGED <<password, vault, generated, config, db>>

(* logout: the vault goes, and with it the keys that were generated here *)
Logout == Running /\ app' = Stopped /\ vault' = NoVault
          /\ UNCHANGED <<password, generated, config, db>>

(* The user edits config.yaml, or changes the password of an account: Proton    *)
(* then encrypts the same private key under the new one.                        *)
Configure ==
    /\ ~Running
    /\ config' \in [enableSync : BOOLEAN, useFallbackStore : BOOLEAN]
    /\ UNCHANGED <<password, vault, generated, app, db>>

ChangePassword(a) ==
    /\ password[a] < MaxPasswords
    /\ password' = [password EXCEPT ![a] = @ + 1]
    /\ UNCHANGED <<vault, generated, config, app, db>>

Init ==
    /\ password = [a \in Names |-> 1]
    /\ vault = NoVault
    /\ generated = 0
    /\ config \in [enableSync : BOOLEAN, useFallbackStore : BOOLEAN]
    /\ app = Stopped
    /\ db = [id \in KeyIds |-> NoMaster]

Next ==
    \/ runBrowserAuthentication
    \/ \E a \in Names : \/ runLoginAuthentication(a) \/ runRcloneAuthentication(a)
                        \/ ChangePassword(a)
    \/ Start \/ Stop \/ Logout \/ Configure

Spec == Init /\ [][Next]_vars

-----------------------------------------------------------------------------
(* Whenever the program sends conversations to Proton, they are encrypted under *)
(* the master key of the account whose session sends them: not one generated    *)
(* here, nor that of another account the browser knew, nor an outdated one.     *)
SyncKeysAreTheAccounts ==
    app.sync => app.key.of = app.uid /\ app.key.IsLatest

(* The primary store opens a database only with the master key its rows were    *)
(* written under, through any sequence of logins, logouts and restarts.         *)
LocalDataReadable ==
    app.store = "primary" => db[app.name] = app.key

StoreOpens(v) ==
    v # NoVault /\ v.keyPassword # NoPassword /\ Opens(v.keyPassword, v.userKey, v.masterKeys)

(* A new login or rclone authentication of the same account, with the same      *)
(* password, leaves a vault that opens a store able to open one: the same       *)
(* database, or, if keys had to be generated because the vault could not be     *)
(* read, one that nothing was ever written to; never the old database with      *)
(* other keys, nor keys of which one is old and one is new.                     *)
ReloginOpensStore ==
    [][vault # NoVault /\ vault' # NoVault /\ vault'.method # "browser" /\ StoreOpens(vault)
       /\ vault'.keyPassword = vault.keyPassword
           => /\ StoreOpens(vault')
              /\ IF generated' = generated
                 THEN vault'.userKey = vault.userKey /\ vault'.masterKeys = vault.masterKeys
                 ELSE vault'.userKey # vault.userKey /\ db[vault'.userKey.id] = NoMaster]_vars
=============================================================================
