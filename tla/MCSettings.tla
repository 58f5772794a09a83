----------------------------- MODULE MCSettings -----------------------------
EXTENDS Settings
CONSTANTS t1

Sets(values) == [k \in Keys |-> IF k \in DOMAIN values THEN values[k] ELSE None]
Nothing == [k \in {} |-> None]

\* An empty deployment; one that asks to sign in and binds the path, in each
\* mode, the environment over the file.
Login == [auth_enabled |-> "on", auth_username |-> "name", auth_password |-> "secret"]
MCDeployments ==
    {[mode |-> "ui", yaml |-> Sets(Nothing), env |-> Sets([abs_api_token |-> Blank])],
     [mode |-> "ui", yaml |-> Sets([output_root |-> "/other"]), env |-> Sets(Login)],
     [mode |-> "locked", yaml |-> Sets([auth_username |-> "name", auth_enabled |-> "on"]),
      env |-> Sets([auth_enabled |-> "off"])]}

\* Signing in is turned on with a password typed now, or with one stored before
\* while a token and another path are given, or turned off with the name blank.
MCForms ==
    {[enabled |-> TRUE,  username |-> "name", password |-> TRUE,  token |-> FALSE, root |-> "/books"],
     [enabled |-> TRUE,  username |-> "name", password |-> FALSE, token |-> TRUE,  root |-> "/other"],
     [enabled |-> FALSE, username |-> Blank,  password |-> FALSE, token |-> FALSE, root |-> "/books"]}

\* The job of a worker and a pool thread read the same rows and key file and share
\* nothing else: they are not looked at together.
Apart == count.jobs > 0 => \A t \in Threads : load[t].at = "out"
=============================================================================
