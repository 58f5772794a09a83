------------------------------ MODULE Settings ------------------------------
(***************************************************************************)
(* The settings of ReelDock: the layers they are merged from, the cache of *)
(* the web process and the threads that share it, the Settings page that   *)
(* saves and resets overrides, the key that encrypts the secrets, and the  *)
(* jobs that load their settings when they start (src/app/config.py,       *)
(* src/app/secret_store.py, src/app/csrf.py, src/app/routes/pages.py).     *)
(*                                                                         *)
(* The web process answers pages on one event loop; a dependency like      *)
(* Depends(get_settings) runs on a thread of a pool.  Both read and write  *)
(* the module globals of config.py, so a load is cut where another thread  *)
(* can see its assignments.  The table of settings stands for five of its  *)
(* kind: a switch and a name that must agree, two secrets and one key that *)
(* the deployment binds.                                                   *)
(***************************************************************************)
EXTENDS Naturals

CONSTANTS Threads,      \* threads of the pool that runs sync dependencies
          Loop,         \* the thread of the event loop
          Deployments,  \* [mode, yaml, env] a site can be deployed with
          Forms,        \* what a visitor can post to the Settings page
          MaxSaves,     \* saves and resets that begin
          MaxJobs,      \* jobs that begin
          MaxKeys,      \* instance keys ever generated
          MaxFaults     \* crashes, lost keys, failed reads and writes

ASSUME BoundsAreNumbers ==
    MaxSaves \in Nat /\ MaxJobs \in Nat /\ MaxKeys \in Nat /\ MaxFaults \in Nat

ASSUME LoopIsNoPoolThread == Loop \notin Threads

----------------------------------------------------------------------------
(* The settings and their layers *)

Keys == {"auth_enabled", "auth_username", "auth_password", "abs_api_token", "output_root"}
Secrets == {"auth_password", "abs_api_token"}
BoundKeys == {"output_root"}      \* DEPLOYMENT_BOUND_KEYS
Blank == ""
Values == {Blank, "on", "off", "name", "secret", "/books", "/other"}

Default == [auth_enabled |-> "off", auth_username |-> Blank, auth_password |-> Blank,
            abs_api_token |-> Blank, output_root |-> "/books"]

None == "none"
Layer == [Keys -> Values \cup {None}]
NoLayer == [k \in Keys |-> None]
SettingsValues == [Keys -> Values]
NotLoaded == [loaded |-> FALSE, is |-> Default]
Cached(s) == [loaded |-> TRUE, is |-> s]

\* A blank value of a file or of the environment is no value.
NonBlank(layer) == [k \in Keys |-> IF layer[k] = Blank THEN None ELSE layer[k]]

Over(top, below) == [k \in Keys |-> IF top[k] # None THEN top[k] ELSE below[k]]

Bootstrap(d) == Over(NonBlank(d.env), NonBlank(d.yaml))

\* What the deployment locks: everything it sets in the locked mode, the
\* bound keys in either.
Pinned(d) == {k \in Keys : Bootstrap(d)[k] # None /\ (d.mode = "locked" \/ k \in BoundKeys)}

Merge(d, boot, map) ==
    IF d.mode = "locked"
    THEN Over(boot, map)
    ELSE [k \in Keys |-> IF k \in Pinned(d) /\ map[k] # None /\ boot[k] # None
                         THEN boot[k] ELSE Over(map, boot)[k]]

\* validate_auth_credentials
Valid(layer) ==
    LET s == Over(layer, Default)
    IN s["auth_enabled"] = "on" => s["auth_username"] # Blank /\ s["auth_password"] # Blank

ASSUME DeploymentsStart ==
    \A d \in Deployments :
        /\ d.mode \in {"ui", "locked"} /\ d.yaml \in Layer /\ d.env \in Layer
        /\ Valid(Bootstrap(d))

\* A form: the switch, the name, whether each secret was typed, the path.
ASSUME FormsAreForms ==
    Forms \subseteq [enabled : BOOLEAN, username : {Blank, "name"}, password : BOOLEAN,
                     token : BOOLEAN, root : {"/books", "/other"}]

----------------------------------------------------------------------------
VARIABLES
    deployment, \* the mode, the YAML file and the environment
    rows,       \* app_settings: the override of each key, a secret with its key
    keyFile,    \* the key file: missing, empty (being written) or a key
    minted,     \* number of keys generated so far
    cache,      \* _settings of the web process
    bootstrap,  \* _bootstrap_values of the web process
    load,       \* where each of its threads is in get_settings
    page,       \* where the event loop is in a save, and what it saves
    job,        \* the job of the worker, the settings it runs with, whether the
                \* table was read, and the key of the file then
    count,      \* bounds: saves, jobs and faults so far
    lost,       \* history: the key file was removed from outside
    disturbed   \* history: the last reload met another load or a failed read

vars == <<deployment, rows, keyFile, minted, cache, bootstrap, load, page, job,
          count, lost, disturbed>>

KeyIds == 1 .. MaxKeys
NoKey == 0
NoKeyFile == [is |-> "missing", id |-> NoKey]
EmptyKeyFile == [is |-> "empty", id |-> NoKey]
KeyFile(k) == [is |-> "key", id |-> k]
Rows == [Keys -> [value : Values \cup {None}, key : {NoKey} \cup KeyIds]]
NoRow == [value |-> None, key |-> NoKey]
Tasks == Threads \cup {Loop}
Away == [at |-> "out", map |-> NoLayer]

Fault == count.faults < MaxFaults /\ count' = [count EXCEPT !.faults = @ + 1]

Idle == [at |-> "idle", set |-> NoLayer, clear |-> {}, key |-> NoKey, read |-> FALSE, known |-> FALSE]
Down == [Idle EXCEPT !.at = "down"]
NoJob == [at |-> "none", tables |-> {}, settings |-> Default, whole |-> FALSE, key |-> NoKey]

Init ==
    /\ deployment \in Deployments
    /\ rows = [k \in Keys |-> NoRow]
    /\ keyFile = NoKeyFile
    /\ minted = 0
    /\ cache = NotLoaded
    /\ bootstrap = NoLayer
    /\ load = [t \in Tasks |-> Away]
    /\ page = Down
    /\ job = NoJob
    /\ count = [saves |-> 0, jobs |-> 0, faults |-> 0]
    /\ lost = FALSE
    /\ disturbed = FALSE

----------------------------------------------------------------------------
(* The key of the instance and the secrets *)

Encrypted(r) == {k \in Keys : r[k].key # NoKey}

\* Mutant of Unreadable: a key that is not the one of the secrets goes unnoticed.
UnreadableIfMissing == Encrypted(rows) # {} /\ keyFile.is # "key"

\* decrypt_secret raises: the key is missing, empty or another one.
Unreadable == \E k \in Encrypted(rows) : keyFile # KeyFile(rows[k].key)

\* Mutant of CreateKeyFile: the file is written over.
CreateKeyFileAgain ==
    /\ page.at = "idle"
    /\ minted < MaxKeys
    /\ keyFile' = EmptyKeyFile
    /\ page' = [page EXCEPT !.at = "mint"]
    /\ UNCHANGED <<deployment, rows, minted, cache, bootstrap, load, job, count, lost, disturbed>>

\* A page that needs a CSRF token or a pairing code, and a save with a secret,
\* generate the key when there is no file, in two steps: the file is opened,
\* then written.
CreateKeyFile ==
    /\ page.at \in {"idle", "encrypt"}
    /\ page.at = "encrypt" => \E k \in Secrets : page.set[k] # None
    /\ keyFile = NoKeyFile
    /\ minted < MaxKeys
    /\ keyFile' = EmptyKeyFile
    /\ page' = [page EXCEPT !.at = IF @ = "idle" THEN "mint" ELSE "mint for save"]
    /\ UNCHANGED <<deployment, rows, minted, cache, bootstrap, load, job, count, lost, disturbed>>

WriteKeyFile ==
    /\ page.at \in {"mint", "mint for save"}
    /\ minted' = minted + 1
    /\ keyFile' = KeyFile(minted')
    /\ page' = [page EXCEPT !.at = IF @ = "mint" THEN "idle" ELSE "encrypt"]
    /\ UNCHANGED <<deployment, rows, cache, bootstrap, load, job, count, lost, disturbed>>

\* The volume of the key file is lost, or a key is restored from a backup, when
\* no save is under way.
LoseKey ==
    /\ Fault
    /\ page.at \in {"idle", "down"}
    /\ keyFile # NoKeyFile
    /\ keyFile' = NoKeyFile
    /\ lost' = TRUE
    /\ UNCHANGED <<deployment, rows, minted, cache, bootstrap, load, page, job, disturbed>>

RestoreKey ==
    /\ lost
    /\ page.at \in {"idle", "down"}
    /\ \E k \in 1 .. minted : keyFile # KeyFile(k) /\ keyFile' = KeyFile(k)
    /\ UNCHANGED <<deployment, rows, minted, cache, bootstrap, load, page, job, count,
                   lost, disturbed>>

----------------------------------------------------------------------------
(* get_settings, by the event loop and by the threads of the pool *)

RowMap == [k \in Keys |-> rows[k].value]

At(t, at) == load' = [load EXCEPT ![t].at = at]

\* get_settings returns or raises.  The event loop goes on with its page; a web
\* process whose first load raises does not start.
Returns(t, ok) ==
    /\ load' = [load EXCEPT ![t] = Away]
    /\ page' = IF t # Loop THEN page ELSE IF page.at = "start" /\ ~ok THEN Down ELSE Idle

\* A request runs get_settings on a thread of the pool and finds no settings.
BeginLoad(t) ==
    /\ t \in Threads
    /\ page.at \notin {"down", "start"}
    /\ load[t].at = "out"
    /\ ~cache.loaded
    /\ At(t, "boot")
    /\ disturbed' = TRUE
    /\ UNCHANGED <<deployment, rows, keyFile, minted, cache, bootstrap, page, job, count, lost>>

\* The deployment's values are put in the cache before the table is read.
LoadBootstrap(t) ==
    /\ load[t].at = "boot"
    /\ bootstrap' = Bootstrap(deployment)
    /\ cache' = Cached(Over(Bootstrap(deployment), Default))
    /\ At(t, "read")
    /\ UNCHANGED <<deployment, rows, keyFile, minted, page, job, count, lost, disturbed>>

LoadRows(t) ==
    /\ load[t].at = "read"
    /\ ~Unreadable
    /\ load' = [load EXCEPT ![t] = [at |-> "merge", map |-> RowMap]]
    /\ UNCHANGED <<deployment, rows, keyFile, minted, cache, bootstrap, page, job, count,
                   lost, disturbed>>

\* Any other failure of the read counts as an empty table.
LoadNoRows(t) ==
    /\ Fault
    /\ load[t].at = "read"
    /\ load' = [load EXCEPT ![t] = [at |-> "merge", map |-> NoLayer]]
    /\ disturbed' = TRUE
    /\ UNCHANGED <<deployment, rows, keyFile, minted, cache, bootstrap, page, job, lost>>

\* The deployment's values stay in the cache.
LoadRaises(t) ==
    /\ load[t].at = "read"
    /\ Unreadable
    /\ Returns(t, FALSE)
    /\ disturbed' = TRUE
    /\ UNCHANGED <<deployment, rows, keyFile, minted, cache, bootstrap, job, count, lost>>

Merged(t) == Merge(deployment, Bootstrap(deployment), load[t].map)

\* Mutant of LoadMerge: a setting nobody gave has no value.
LoadMergeBare(t) ==
    /\ load[t].at = "merge"
    /\ Valid(Merged(t))
    /\ cache' = Cached(Merged(t))
    /\ Returns(t, TRUE)
    /\ UNCHANGED <<deployment, rows, keyFile, minted, bootstrap, job, count, lost, disturbed>>

LoadMerge(t) ==
    /\ load[t].at = "merge"
    /\ Valid(Merged(t))
    /\ cache' = Cached(Over(Merged(t), Default))
    /\ Returns(t, TRUE)
    /\ UNCHANGED <<deployment, rows, keyFile, minted, bootstrap, job, count, lost, disturbed>>

LoadRefused(t) ==
    /\ load[t].at = "merge"
    /\ ~Valid(Merged(t))
    /\ Returns(t, FALSE)
    /\ disturbed' = TRUE
    /\ UNCHANGED <<deployment, rows, keyFile, minted, cache, bootstrap, job, count, lost>>

----------------------------------------------------------------------------
(* The web process starts and stops *)

\* create_app, then lifespan: the settings are loaded before a request is served.
Start ==
    /\ page.at = "down"
    /\ page' = [Idle EXCEPT !.at = "start"]
    /\ At(Loop, "boot")
    /\ disturbed' = FALSE
    /\ UNCHANGED <<deployment, rows, keyFile, minted, cache, bootstrap, job, count, lost>>

Crash ==
    /\ Fault
    /\ page.at # "down"
    /\ page' = Down
    /\ load' = [t \in Tasks |-> Away]
    /\ cache' = NotLoaded
    /\ bootstrap' = NoLayer
    /\ UNCHANGED <<deployment, rows, keyFile, minted, job, lost, disturbed>>

----------------------------------------------------------------------------
(* The Settings page *)

\* What the form overrides: every unlocked setting, a secret only if typed.
Overrides(f) ==
    LET posted == [auth_enabled  |-> IF f.enabled THEN "on" ELSE "off",
                   auth_username |-> f.username,
                   auth_password |-> IF f.password THEN "secret" ELSE None,
                   abs_api_token |-> IF f.token THEN "secret" ELSE None,
                   output_root   |-> f.root]
    IN [k \in Keys |-> IF k \in Pinned(deployment) THEN None ELSE posted[k]]

\* Signing in needs a name in the form and a password, typed now or known.
FormIsComplete(f) ==
    LET set == Overrides(f)
    IN set["auth_enabled"] = "on" =>
          /\ set["auth_username"] = "name"
          /\ set["auth_password"] # None \/ cache.is["auth_password"] # Blank

BeginSave(set, clear) ==
    /\ page.at = "idle"
    /\ keyFile.is = "key"            \* the CSRF token was signed with it
    /\ count.saves < MaxSaves
    /\ count' = [count EXCEPT !.saves = @ + 1]
    /\ page' = [Idle EXCEPT !.at = "preview", !.set = set, !.clear = clear \ Pinned(deployment)]
    /\ UNCHANGED <<deployment, rows, keyFile, minted, cache, bootstrap, load, job, lost, disturbed>>

PostSettings(f) == FormIsComplete(f) /\ BeginSave(Overrides(f), {})

ResetSetting(k) == BeginSave(NoLayer, {k})

\* Mutant of Saved: the overrides that a reset clears are validated too.
SavedKeepsCleared(map) == Over(page.set, map)

\* The overrides as the save would leave them.
Saved(map) == Over(page.set, [k \in Keys |-> IF k \in page.clear THEN None ELSE map[k]])

Accepts(map) == Valid(Merge(deployment, bootstrap, Saved(map)))

\* The merged settings are validated before anything is written.
Preview ==
    /\ page.at = "preview"
    /\ ~Unreadable
    /\ page' = IF Accepts(RowMap)
               THEN [page EXCEPT !.at = "encrypt", !.read = TRUE,
                                 !.known = (bootstrap = Bootstrap(deployment))]
               ELSE Idle
    /\ UNCHANGED <<deployment, rows, keyFile, minted, cache, bootstrap, load, job, count,
                   lost, disturbed>>

PreviewNoRows ==
    /\ Fault
    /\ page.at = "preview"
    /\ page' = IF Accepts(NoLayer) THEN [page EXCEPT !.at = "encrypt", !.read = FALSE] ELSE Idle
    /\ UNCHANGED <<deployment, rows, keyFile, minted, cache, bootstrap, load, job, lost, disturbed>>

PreviewRaises ==
    /\ page.at = "preview"
    /\ Unreadable
    /\ page' = Idle
    /\ UNCHANGED <<deployment, rows, keyFile, minted, cache, bootstrap, load, job, count,
                   lost, disturbed>>

\* The secrets are encrypted with the key of the file; without secrets the file
\* is not read.
Encrypt ==
    /\ page.at = "encrypt"
    /\ (\E k \in Secrets : page.set[k] # None) => keyFile.is = "key"
    /\ page' = [page EXCEPT !.at = "commit", !.key = keyFile.id]
    /\ UNCHANGED <<deployment, rows, keyFile, minted, cache, bootstrap, load, job, count,
                   lost, disturbed>>

Stored(k) ==
    IF page.set[k] = None THEN IF k \in page.clear THEN NoRow ELSE rows[k]
    ELSE [value |-> page.set[k], key |-> IF k \in Secrets THEN page.key ELSE NoKey]

\* One transaction.
Commit ==
    /\ page.at = "commit"
    /\ rows' = [k \in Keys |-> Stored(k)]
    /\ page' = [page EXCEPT !.at = "committed"]
    /\ job' = IF job.at = "load" THEN [job EXCEPT !.tables = @ \cup {rows'}] ELSE job
    /\ disturbed' = (\E t \in Threads : load[t].at # "out")
    /\ UNCHANGED <<deployment, keyFile, minted, cache, bootstrap, load, count, lost>>

CommitFails ==
    /\ Fault
    /\ page.at = "commit"
    /\ page' = Idle
    /\ UNCHANGED <<deployment, rows, keyFile, minted, cache, bootstrap, load, job, lost, disturbed>>

\* Mutant of DropCache: the cache is kept.
KeepCache(from, to) ==
    /\ page.at = from
    /\ page' = [page EXCEPT !.at = to]
    /\ UNCHANGED <<deployment, rows, keyFile, minted, cache, bootstrap, load, job, count,
                   lost, disturbed>>

\* save_settings drops the cache, then reload_settings drops it again.
DropCache(from, to) ==
    /\ page.at = from
    /\ cache' = NotLoaded
    /\ page' = [page EXCEPT !.at = to]
    /\ UNCHANGED <<deployment, rows, keyFile, minted, bootstrap, load, job, count, lost, disturbed>>

Invalidate == DropCache("committed", "invalidated")
Reload == DropCache("invalidated", "reload")

ForgetBootstrap ==
    /\ page.at = "reload"
    /\ bootstrap' = NoLayer
    /\ page' = [page EXCEPT !.at = "get"]
    /\ UNCHANGED <<deployment, rows, keyFile, minted, cache, load, job, count, lost, disturbed>>

\* The page loads the settings, unless another thread's are in the cache.
GetSettings ==
    /\ page.at = "get"
    /\ IF cache.loaded
       THEN page' = Idle /\ UNCHANGED load
       ELSE page' = [page EXCEPT !.at = "load"] /\ At(Loop, "boot")
    /\ UNCHANGED <<deployment, rows, keyFile, minted, cache, bootstrap, job, count, lost, disturbed>>

----------------------------------------------------------------------------
(* A job of the worker loads the settings afresh, in its own process *)

StartJob ==
    /\ job.at = "none"
    /\ count.jobs < MaxJobs
    /\ count' = [count EXCEPT !.jobs = @ + 1]
    /\ job' = [NoJob EXCEPT !.at = "load", !.tables = {rows}]
    /\ UNCHANGED <<deployment, rows, keyFile, minted, cache, bootstrap, load, page, lost, disturbed>>

Runs(map, whole) ==
    LET merged == Merge(deployment, Bootstrap(deployment), map)
    IN job' = IF Valid(merged)
              THEN [job EXCEPT !.at = "run", !.settings = Over(merged, Default),
                               !.whole = whole, !.key = keyFile.id]
              ELSE NoJob

JobLoads ==
    /\ job.at = "load"
    /\ ~Unreadable
    /\ Runs(RowMap, TRUE)
    /\ UNCHANGED <<deployment, rows, keyFile, minted, cache, bootstrap, load, page, count,
                   lost, disturbed>>

JobLoadsNoRows ==
    /\ Fault
    /\ job.at = "load"
    /\ Runs(NoLayer, FALSE)
    /\ UNCHANGED <<deployment, rows, keyFile, minted, cache, bootstrap, load, page, lost, disturbed>>

\* The task fails before it touches the job.
JobLoadRaises ==
    /\ job.at = "load"
    /\ Unreadable
    /\ job' = NoJob
    /\ UNCHANGED <<deployment, rows, keyFile, minted, cache, bootstrap, load, page, count,
                   lost, disturbed>>

EndJob ==
    /\ job.at = "run"
    /\ job' = NoJob
    /\ UNCHANGED <<deployment, rows, keyFile, minted, cache, bootstrap, load, page, count,
                   lost, disturbed>>

----------------------------------------------------------------------------
LoadStep(t) ==
    \/ BeginLoad(t) \/ LoadBootstrap(t) \/ LoadRows(t) \/ LoadNoRows(t)
    \/ LoadRaises(t) \/ LoadMerge(t) \/ LoadRefused(t)

PageStep ==
    \/ \E f \in Forms : PostSettings(f)
    \/ \E k \in Keys : ResetSetting(k)
    \/ Preview \/ PreviewNoRows \/ PreviewRaises
    \/ Encrypt \/ Commit \/ CommitFails
    \/ Invalidate \/ Reload \/ ForgetBootstrap \/ GetSettings

JobStep == StartJob \/ JobLoads \/ JobLoadsNoRows \/ JobLoadRaises \/ EndJob

Next ==
    \/ \E t \in Tasks : LoadStep(t)
    \/ PageStep
    \/ JobStep
    \/ CreateKeyFile \/ WriteKeyFile \/ LoseKey \/ RestoreKey
    \/ Start \/ Crash

Spec == Init /\ [][Next]_vars

----------------------------------------------------------------------------
(* Properties *)

Pages == {"down", "start", "idle", "mint", "mint for save", "preview", "encrypt", "commit",
          "committed", "invalidated", "reload", "get", "load"}

\* Every variable has its type: the globals, the rows, the threads and the page.
TypeOK ==
    /\ deployment \in Deployments
    /\ rows \in Rows
    /\ keyFile \in {NoKeyFile, EmptyKeyFile} \cup {KeyFile(k) : k \in KeyIds}
    /\ minted \in 0 .. MaxKeys
    /\ cache \in [loaded : BOOLEAN, is : SettingsValues]
    /\ bootstrap \in Layer
    /\ load \in [Tasks -> [at : {"out", "boot", "read", "merge"}, map : Layer]]
    /\ page \in [at : Pages, set : Layer, clear : SUBSET Keys,
                 key : {NoKey} \cup KeyIds, read : BOOLEAN, known : BOOLEAN]
    /\ job \in [at : {"none", "load", "run"}, tables : SUBSET Rows,
                settings : SettingsValues, whole : BOOLEAN, key : {NoKey} \cup KeyIds]
    /\ count \in [saves : 0 .. MaxSaves, jobs : 0 .. MaxJobs, faults : 0 .. MaxFaults]
    /\ lost \in BOOLEAN
    /\ disturbed \in BOOLEAN

\* Without a loss from outside the key file opens every stored secret: the key
\* is written before the first secret is committed, whatever step a crash cuts,
\* and is generated once.
SecretsReadable == ~lost => \A k \in Encrypted(rows) : keyFile = KeyFile(rows[k].key)

\* A save whose preview read the rows leaves secrets of one key only, though the
\* key file was lost, and pages generated others, since they were stored: the
\* preview stops it instead.
OneKey ==
    [][rows' # rows /\ page.read =>
           \A j, k \in Encrypted(rows') : rows'[j].key = rows'[k].key]_vars

\* What the documentation promises of the layers: in the ui mode an override of
\* the page wins, but over a bound key; in the locked mode the deployment wins.
Promised(r) ==
    [k \in Keys |->
        LET fixed == Bootstrap(deployment)[k]
            wins  == deployment.mode = "locked" \/ k \in BoundKeys
        IN IF fixed # None /\ (wins \/ r[k].value = None) THEN fixed
           ELSE IF r[k].value # None THEN r[k].value ELSE Default[k]]

\* Between saves the web process works with the layers of the committed table,
\* unless the last reload met another thread's load or a failed read; that
\* holds after a crash anywhere in a save and after saves that were refused.
SavesTakeEffect ==
    page.at = "idle" /\ ~disturbed => cache = Cached(Promised(rows))

\* A job runs with every override of one table, the one committed when it
\* started or one of a save that came while it was loading, and never with a
\* mixture; every secret of that table was encrypted with the key the job read.
\* If the read fails otherwise it runs with the deployment's values alone,
\* whatever is stored (config.py:468-470).
JobsSeeSaved ==
    job.at = "run" =>
        IF job.whole
        THEN \E r \in job.tables :
                 /\ job.settings = Promised(r)
                 /\ \A k \in Encrypted(r) : r[k].key = job.key
        ELSE job.settings = Over(Bootstrap(deployment), Default)

\* A save or a reset whose preview had the deployment's values and the rows never
\* leaves a table with which the next start of the process is refused.
SavesCanStart == [][rows' # rows /\ page.read /\ page.known => Valid(Promised(rows'))]_vars
=============================================================================
