---------------------------- MODULE MCAuthManager ----------------------------
EXTENDS AuthManager, TLC

CONSTANTS Server, Cli

(* the server has its timer and an API call, the terminal its /refreshtokens *)
MCUses == Server :> ({"timer"} \cup Requests) @@ Cli :> {"manual"}

(* a desktop's first use, a spoilt keychain beside a key file, nothing usable *)
MCKeySources == {<<None, None>>, <<Bad, "file">>, <<Off, Bad>>}
=============================================================================
