--------------------------- MODULE SettingsProofs ---------------------------
(***************************************************************************)
(* Proofs about Settings, for any number of threads, deployments, forms,   *)
(* saves, jobs, keys and faults.                                           *)
(***************************************************************************)
EXTENDS Settings, TLAPS

(* The layers *)

LEMMA DefaultIsGiven ==
    /\ DOMAIN Default = Keys
    /\ \A k \in Keys : Default[k] \in {Blank, "off", "/books"}
<1>1. DOMAIN Default = Keys
    BY DEF Default, Keys
<1>2. /\ Default["auth_enabled"] = "off" /\ Default["output_root"] = "/books"
      /\ Default["auth_username"] = Blank /\ Default["auth_password"] = Blank
      /\ Default["abs_api_token"] = Blank
    BY DEF Default
<1> QED
    BY <1>1, <1>2 DEF Keys

LEMMA LayersAreLayers ==
    /\ Default \in SettingsValues
    /\ NoLayer \in Layer
    /\ \A t, b \in Layer : Over(t, b) \in Layer
    /\ \A t \in Layer : Over(t, Default) \in SettingsValues
    /\ \A l \in Layer : NonBlank(l) \in Layer
<1>1. Default \in SettingsValues
    <2>1. Default = [k \in Keys |-> Default[k]]
        BY DefaultIsGiven DEF Default, Keys
    <2>2. \A k \in Keys : Default[k] \in Values
        BY DefaultIsGiven DEF Values
    <2> QED
        BY <2>1, <2>2 DEF SettingsValues
<1>2. NoLayer \in Layer
    BY DEF NoLayer, Layer
<1>3. \A t, b \in Layer : Over(t, b) \in Layer
    BY DEF Over, Layer
<1>4. \A t \in Layer : Over(t, Default) \in SettingsValues
    BY <1>1 DEF Over, Layer, SettingsValues
<1>5. \A l \in Layer : NonBlank(l) \in Layer
    BY DEF NonBlank, Layer
<1> QED
    BY <1>1, <1>2, <1>3, <1>4, <1>5

LEMMA DeploymentsAreLayers ==
    ASSUME NEW d \in Deployments
    PROVE  /\ Bootstrap(d) \in Layer
           /\ \A b, m \in Layer : Merge(d, b, m) \in Layer
<1>1. d.yaml \in Layer /\ d.env \in Layer
    BY DeploymentsStart
<1>2. NonBlank(d.yaml) \in Layer /\ NonBlank(d.env) \in Layer
    BY <1>1, LayersAreLayers
<1>3. Bootstrap(d) \in Layer
    BY <1>2, LayersAreLayers DEF Bootstrap
<1>4. ASSUME NEW b \in Layer, NEW m \in Layer
      PROVE  Merge(d, b, m) \in Layer
    <2>1. Over(b, m) \in Layer /\ Over(m, b) \in Layer
        BY LayersAreLayers
    <2>2. CASE d.mode = "locked"
        BY <2>1, <2>2 DEF Merge
    <2>3. CASE d.mode # "locked"
        BY <2>1, <2>3 DEF Merge, Layer
    <2> QED
        BY <2>2, <2>3
<1> QED
    BY <1>3, <1>4

LEMMA RowsAreLayers ==
    ASSUME NEW r \in Rows
    PROVE  [k \in Keys |-> r[k].value] \in Layer
BY DEF Rows, Layer

\* The code merges two maps of the settings; what the documentation promises of
\* the layers is the same.
LEMMA MergeIsPromised ==
    ASSUME TypeOK, NEW r \in Rows
    PROVE  Over(Merge(deployment, Bootstrap(deployment), [k \in Keys |-> r[k].value]), Default)
               = Promised(r)
<1> DEFINE boot == Bootstrap(deployment)
           map  == [k \in Keys |-> r[k].value]
<1>1. deployment \in Deployments /\ deployment.mode \in {"ui", "locked"}
    BY DeploymentsStart DEF TypeOK
<1>2. ASSUME NEW k \in Keys
      PROVE  Over(Merge(deployment, boot, map), Default)[k] = Promised(r)[k]
    <2>1. map[k] = r[k].value
        OBVIOUS
    <2>2. CASE deployment.mode = "locked"
        <3>1. Merge(deployment, boot, map)[k] = IF boot[k] # None THEN boot[k] ELSE map[k]
            BY <2>2 DEF Merge, Over
        <3>2. Over(Merge(deployment, boot, map), Default)[k] =
                  IF boot[k] # None THEN boot[k]
                  ELSE IF map[k] # None THEN map[k] ELSE Default[k]
            BY <3>1 DEF Over
        <3> HIDE DEF boot, map
        <3> QED
            BY <3>2, <2>1, <2>2 DEF Promised, boot
    <2>3. CASE deployment.mode = "ui"
        <3>1. k \in Pinned(deployment) <=> boot[k] # None /\ k \in BoundKeys
            BY <2>3 DEF Pinned
        <3>2. Merge(deployment, boot, map)[k] =
                  IF boot[k] # None /\ k \in BoundKeys /\ map[k] # None THEN boot[k]
                  ELSE IF map[k] # None THEN map[k] ELSE boot[k]
            BY <2>3, <3>1 DEF Merge, Over
        <3>3. Over(Merge(deployment, boot, map), Default)[k] =
                  IF Merge(deployment, boot, map)[k] # None THEN Merge(deployment, boot, map)[k]
                  ELSE Default[k]
            BY DEF Over
        <3> HIDE DEF boot, map
        <3> QED
            BY <3>2, <3>3, <2>1, <2>3 DEF Promised, boot
    <2> QED
        BY <1>1, <2>2, <2>3
<1> HIDE DEF boot, map
<1>3. /\ Over(Merge(deployment, boot, map), Default)
            = [k \in Keys |-> Over(Merge(deployment, boot, map), Default)[k]]
      /\ Promised(r) = [k \in Keys |-> Promised(r)[k]]
    BY DEF Over, Promised
<1> QED
    BY <1>2, <1>3 DEF boot, map

LEMMA NoneIsNoDefault ==
    \A k \in Keys : Default[k] # None
BY DefaultIsGiven DEF Blank, None

\* What is valid as layers is valid as settings.
LEMMA ValidIsValid ==
    ASSUME NEW l \in Layer
    PROVE  Valid(Over(l, Default)) <=> Valid(l)
<1>1. Over(Over(l, Default), Default) = Over(l, Default)
    BY NoneIsNoDefault DEF Over
<1> QED
    BY <1>1 DEF Valid

----------------------------------------------------------------------------
(* Types *)

LEMMA PagesArePages ==
    /\ "down" \in Pages /\ "start" \in Pages /\ "idle" \in Pages /\ "mint" \in Pages
    /\ "mint for save" \in Pages /\ "preview" \in Pages /\ "encrypt" \in Pages
    /\ "commit" \in Pages /\ "committed" \in Pages /\ "invalidated" \in Pages
    /\ "reload" \in Pages /\ "get" \in Pages /\ "load" \in Pages
BY DEF Pages

PageType == [at : Pages, set : Layer, clear : SUBSET Keys, key : {NoKey} \cup KeyIds,
             read : BOOLEAN, known : BOOLEAN]
LoadType == [at : {"out", "boot", "read", "merge"}, map : Layer]
JobType == [at : {"none", "load", "run"}, tables : SUBSET Rows, settings : SettingsValues,
            whole : BOOLEAN, key : {NoKey} \cup KeyIds]
KeyFileType == {NoKeyFile, EmptyKeyFile} \cup {KeyFile(k) : k \in KeyIds}

LEMMA RecordsAreTyped ==
    /\ Idle \in PageType /\ Down \in PageType /\ [Idle EXCEPT !.at = "start"] \in PageType
    /\ Away \in LoadType
    /\ NoJob \in JobType
    /\ NotLoaded \in [loaded : BOOLEAN, is : SettingsValues]
    /\ \A s \in SettingsValues : Cached(s) \in [loaded : BOOLEAN, is : SettingsValues]
<1>1. NoLayer \in Layer /\ Default \in SettingsValues
    BY LayersAreLayers
<1>2. Idle \in PageType /\ Down \in PageType /\ [Idle EXCEPT !.at = "start"] \in PageType
    BY <1>1, PagesArePages DEF Idle, Down, PageType
<1>3. Away \in LoadType
    BY <1>1 DEF Away, LoadType
<1>4. NoJob \in JobType
    BY <1>1 DEF NoJob, JobType
<1>5. /\ NotLoaded \in [loaded : BOOLEAN, is : SettingsValues]
      /\ \A s \in SettingsValues : Cached(s) \in [loaded : BOOLEAN, is : SettingsValues]
    BY <1>1 DEF NotLoaded, Cached
<1> QED
    BY <1>2, <1>3, <1>4, <1>5

LEMMA KeyFilesAreTyped ==
    ASSUME TypeOK
    PROVE  /\ keyFile.id \in {NoKey} \cup KeyIds
           /\ keyFile.is \in {"missing", "empty", "key"}
           /\ keyFile.is = "key" => keyFile = KeyFile(keyFile.id) /\ keyFile.id # NoKey
           /\ keyFile \in KeyFileType
BY BoundsAreNumbers DEF TypeOK, NoKeyFile, EmptyKeyFile, KeyFile, KeyIds, NoKey, KeyFileType

LEMMA TypeInit == Init => TypeOK
<1> SUFFICES ASSUME Init PROVE TypeOK
    OBVIOUS
<1>1. rows \in Rows
    BY DEF Init, Rows, NoRow, NoKey
<1>2. load \in [Tasks -> LoadType] /\ page \in PageType /\ job \in JobType
    BY RecordsAreTyped DEF Init
<1>3. bootstrap \in Layer /\ cache \in [loaded : BOOLEAN, is : SettingsValues]
    BY RecordsAreTyped, LayersAreLayers DEF Init
<1>4. count \in [saves : 0 .. MaxSaves, jobs : 0 .. MaxJobs, faults : 0 .. MaxFaults]
    BY BoundsAreNumbers DEF Init
<1>5. minted \in 0 .. MaxKeys
    BY BoundsAreNumbers DEF Init
<1>7. lost \in BOOLEAN /\ disturbed \in BOOLEAN
    BY DEF Init
<1>6. /\ deployment \in Deployments
      /\ keyFile \in {NoKeyFile, EmptyKeyFile} \cup {KeyFile(k) : k \in KeyIds}
    BY DEF Init
<1> QED
    BY <1>1, <1>2, <1>3, <1>4, <1>5, <1>6, <1>7 DEF TypeOK, LoadType, PageType, JobType

LEMMA FaultTypes ==
    ASSUME TypeOK, Fault
    PROVE  count' \in [saves : 0 .. MaxSaves, jobs : 0 .. MaxJobs, faults : 0 .. MaxFaults]
BY BoundsAreNumbers DEF TypeOK, Fault

LEMMA ReturnTypes ==
    ASSUME TypeOK, NEW t \in Tasks, NEW ok \in BOOLEAN, Returns(t, ok)
    PROVE  load' \in [Tasks -> LoadType] /\ page' \in PageType
<1>1. load' = [load EXCEPT ![t] = Away]
    BY DEF Returns
<1>2. page' \in {page, Down, Idle}
    BY DEF Returns
<1> QED
    BY <1>1, <1>2, RecordsAreTyped DEF TypeOK, LoadType, PageType

LEMMA AtTypes ==
    ASSUME TypeOK, NEW t \in Tasks, NEW at \in {"boot", "read"}, At(t, at)
    PROVE  load' \in [Tasks -> LoadType]
BY DEF TypeOK, At, LoadType

\* A thread inside get_settings.
LEMMA TypeLoad ==
    ASSUME TypeOK, NEW t \in Tasks, LoadStep(t)
    PROVE  TypeOK'
<1>1. deployment \in Deployments /\ rows \in Rows
    BY DEF TypeOK
<1>2. Bootstrap(deployment) \in Layer /\ load[t].map \in Layer /\ RowMap \in Layer
    BY <1>1, DeploymentsAreLayers, RowsAreLayers DEF TypeOK, RowMap
<1>3. Merged(t) \in Layer
    BY <1>1, <1>2, DeploymentsAreLayers DEF Merged
<1>4. CASE BeginLoad(t)
    BY <1>4, AtTypes DEF BeginLoad, TypeOK, LoadType
<1>5. CASE LoadBootstrap(t)
    <2>1. cache' \in [loaded : BOOLEAN, is : SettingsValues] /\ bootstrap' \in Layer
        BY <1>2, <1>5, RecordsAreTyped, LayersAreLayers DEF LoadBootstrap
    <2> QED
        BY <1>5, <2>1, AtTypes DEF LoadBootstrap, TypeOK, LoadType
<1>6. CASE LoadRows(t)
    <2>1. load' \in [Tasks -> LoadType]
        BY <1>2, <1>6 DEF LoadRows, TypeOK, LoadType
    <2> QED
        BY <1>6, <2>1 DEF LoadRows, TypeOK, LoadType
<1>7. CASE LoadNoRows(t)
    <2>1. load' \in [Tasks -> LoadType]
        BY <1>7, LayersAreLayers DEF LoadNoRows, TypeOK, LoadType
    <2> QED
        BY <1>7, <2>1, FaultTypes DEF LoadNoRows, TypeOK, LoadType
<1>8. CASE LoadRaises(t)
    BY <1>8, ReturnTypes DEF LoadRaises, TypeOK, LoadType, PageType
<1>9. CASE LoadMerge(t)
    <2>1. cache' \in [loaded : BOOLEAN, is : SettingsValues]
        BY <1>3, <1>9, RecordsAreTyped, LayersAreLayers DEF LoadMerge
    <2> QED
        BY <1>9, <2>1, ReturnTypes DEF LoadMerge, TypeOK, LoadType, PageType
<1>10. CASE LoadRefused(t)
    BY <1>10, ReturnTypes DEF LoadRefused, TypeOK, LoadType, PageType
<1> QED
    BY <1>4, <1>5, <1>6, <1>7, <1>8, <1>9, <1>10 DEF LoadStep

\* The page.
LEMMA BeginSaveTypes ==
    ASSUME TypeOK, NEW set \in Layer, NEW clear \in SUBSET Keys, BeginSave(set, clear)
    PROVE  TypeOK'
<1>1. page' \in PageType
    BY RecordsAreTyped, PagesArePages DEF BeginSave, PageType
<1>2. count' \in [saves : 0 .. MaxSaves, jobs : 0 .. MaxJobs, faults : 0 .. MaxFaults]
    BY BoundsAreNumbers DEF BeginSave, TypeOK
<1> QED
    BY <1>1, <1>2 DEF BeginSave, TypeOK, PageType

LEMMA OverridesAreLayers ==
    ASSUME NEW f \in Forms
    PROVE  Overrides(f) \in Layer
<1> DEFINE posted == [auth_enabled  |-> IF f.enabled THEN "on" ELSE "off",
                      auth_username |-> f.username,
                      auth_password |-> IF f.password THEN "secret" ELSE None,
                      abs_api_token |-> IF f.token THEN "secret" ELSE None,
                      output_root   |-> f.root]
<1>1. /\ posted["auth_enabled"] \in {"on", "off"}
      /\ posted["auth_username"] \in {Blank, "name"}
      /\ posted["auth_password"] \in {"secret", None}
      /\ posted["abs_api_token"] \in {"secret", None}
      /\ posted["output_root"] \in {"/books", "/other"}
    BY FormsAreForms
<1> HIDE DEF posted
<1>2. \A k \in Keys : posted[k] \in Values \cup {None}
    BY <1>1 DEF Keys, Values
<1>3. Overrides(f) = [k \in Keys |-> IF k \in Pinned(deployment) THEN None ELSE posted[k]]
    BY DEF Overrides, posted
<1> QED
    BY <1>2, <1>3 DEF Layer

LEMMA TypePage ==
    ASSUME TypeOK, PageStep
    PROVE  TypeOK'
<1>1. page \in PageType /\ rows \in Rows /\ load \in [Tasks -> LoadType] /\ job \in JobType
    BY DEF TypeOK, PageType, LoadType, JobType
<1>2. ASSUME NEW f \in Forms, PostSettings(f) PROVE TypeOK'
    BY <1>2, OverridesAreLayers, BeginSaveTypes DEF PostSettings
<1>3. ASSUME NEW k \in Keys, ResetSetting(k) PROVE TypeOK'
    BY <1>3, LayersAreLayers, BeginSaveTypes DEF ResetSetting
<1>4. CASE Preview
    <2>1. page' \in PageType
        BY <1>1, <1>4, RecordsAreTyped, PagesArePages DEF Preview, PageType
    <2> QED
        BY <1>4, <2>1 DEF Preview, TypeOK, PageType
<1>5. CASE PreviewNoRows
    <2>1. page' \in PageType
        BY <1>1, <1>5, RecordsAreTyped, PagesArePages DEF PreviewNoRows, PageType
    <2> QED
        BY <1>5, <2>1, FaultTypes DEF PreviewNoRows, TypeOK, PageType
<1>6. CASE PreviewRaises
    BY <1>6, RecordsAreTyped DEF PreviewRaises, TypeOK, PageType
<1>7. CASE Encrypt
    <2>1. page' \in PageType
        BY <1>1, <1>7, KeyFilesAreTyped, PagesArePages DEF Encrypt, PageType
    <2> QED
        BY <1>7, <2>1 DEF Encrypt, TypeOK, PageType
<1>8. CASE Commit
    <2>1. \A k \in Keys : Stored(k) \in [value : Values \cup {None}, key : {NoKey} \cup KeyIds]
        BY <1>1 DEF Stored, Rows, NoRow, PageType, Layer
    <2>2. rows' \in Rows
        BY <1>8, <2>1 DEF Commit, Rows
    <2>3. page' \in PageType
        BY <1>1, <1>8, PagesArePages DEF Commit, PageType
    <2>4. job' \in JobType
        <3>1. CASE job.at = "load"
            <4>1. job' = [job EXCEPT !.tables = @ \cup {rows'}]
                BY <1>8, <3>1 DEF Commit
            <4> QED
                BY <1>1, <2>2, <4>1 DEF JobType
        <3>2. CASE job.at # "load"
            BY <1>1, <1>8, <3>2 DEF Commit
        <3> QED
            BY <3>1, <3>2
    <2>5. disturbed' \in BOOLEAN
        BY <1>8 DEF Commit
    <2> QED
        BY <1>8, <2>2, <2>3, <2>4, <2>5 DEF Commit, TypeOK, PageType, JobType
<1>9. CASE CommitFails
    BY <1>9, RecordsAreTyped, FaultTypes DEF CommitFails, TypeOK, PageType
<1>10. CASE Invalidate \/ Reload
    <2>1. page' \in PageType
        BY <1>1, <1>10, PagesArePages DEF Invalidate, Reload, DropCache, PageType
    <2>2. cache' \in [loaded : BOOLEAN, is : SettingsValues]
        BY <1>10, RecordsAreTyped DEF Invalidate, Reload, DropCache
    <2> QED
        BY <1>10, <2>1, <2>2 DEF Invalidate, Reload, DropCache, TypeOK, PageType
<1>11. CASE ForgetBootstrap
    <2>1. page' \in PageType
        BY <1>1, <1>11, PagesArePages DEF ForgetBootstrap, PageType
    <2> QED
        BY <1>11, <2>1, LayersAreLayers DEF ForgetBootstrap, TypeOK, PageType
<1>12. CASE GetSettings
    <2>1. page' \in PageType
        BY <1>1, <1>12, RecordsAreTyped, PagesArePages DEF GetSettings, PageType
    <2>2. load' \in [Tasks -> LoadType]
        BY <1>1, <1>12, AtTypes DEF GetSettings, Tasks
    <2> QED
        BY <1>12, <2>1, <2>2 DEF GetSettings, TypeOK, PageType, LoadType
<1> QED
    BY <1>2, <1>3, <1>4, <1>5, <1>6, <1>7, <1>8, <1>9, <1>10, <1>11, <1>12 DEF PageStep

\* The worker.
LEMMA TypeJob ==
    ASSUME TypeOK, JobStep
    PROVE  TypeOK'
<1>1. job \in JobType /\ rows \in Rows /\ deployment \in Deployments
    BY DEF TypeOK, JobType
<1>7. keyFile.id \in {NoKey} \cup KeyIds
    BY DEF TypeOK, NoKeyFile, EmptyKeyFile, KeyFile
<1>2. ASSUME NEW map \in Layer, NEW whole \in BOOLEAN, Runs(map, whole)
      PROVE  job' \in JobType
    <2> DEFINE merged == Merge(deployment, Bootstrap(deployment), map)
    <2>1. merged \in Layer
        BY <1>1, DeploymentsAreLayers
    <2>2. Over(merged, Default) \in SettingsValues
        BY <2>1, LayersAreLayers
    <2>3. job' = IF Valid(merged)
                 THEN [job EXCEPT !.at = "run", !.settings = Over(merged, Default),
                                  !.whole = whole, !.key = keyFile.id]
                 ELSE NoJob
        BY <1>2 DEF Runs
    <2> HIDE DEF merged
    <2>4. [job EXCEPT !.at = "run", !.settings = Over(merged, Default),
                      !.whole = whole, !.key = keyFile.id] \in JobType
        BY <1>1, <1>7, <2>2 DEF JobType
    <2> QED
        BY <2>3, <2>4, RecordsAreTyped
<1>3. CASE StartJob
    <2>1. job' \in JobType
        BY <1>1, <1>3, RecordsAreTyped DEF StartJob, JobType
    <2>2. count' \in [saves : 0 .. MaxSaves, jobs : 0 .. MaxJobs, faults : 0 .. MaxFaults]
        BY <1>3, BoundsAreNumbers DEF StartJob, TypeOK
    <2> QED
        BY <1>3, <2>1, <2>2 DEF StartJob, TypeOK, JobType
<1>4. CASE JobLoads
    <2>1. RowMap \in Layer
        BY <1>1, RowsAreLayers DEF RowMap
    <2> QED
        BY <1>2, <1>4, <2>1 DEF JobLoads, TypeOK, JobType
<1>5. CASE JobLoadsNoRows
    BY <1>2, <1>5, LayersAreLayers, FaultTypes DEF JobLoadsNoRows, TypeOK, JobType
<1>6. CASE JobLoadRaises \/ EndJob
    BY <1>6, RecordsAreTyped DEF JobLoadRaises, EndJob, TypeOK, JobType
<1> QED
    BY <1>3, <1>4, <1>5, <1>6 DEF JobStep

\* While a key is being written the file is empty, and the key is a new one.
Minting == {"mint", "mint for save"}
MintInv == page.at \in Minting => keyFile = EmptyKeyFile /\ minted < MaxKeys

LEMMA TypeKeyFile ==
    ASSUME TypeOK, MintInv, CreateKeyFile \/ WriteKeyFile \/ LoseKey \/ RestoreKey
    PROVE  TypeOK'
<1>1. page \in PageType /\ minted \in 0 .. MaxKeys
    BY DEF TypeOK, PageType
<1>2. CASE CreateKeyFile
    <2>1. page' \in PageType
        BY <1>1, <1>2, PagesArePages DEF CreateKeyFile, PageType
    <2> QED
        BY <1>2, <2>1 DEF CreateKeyFile, TypeOK, PageType
<1>3. CASE WriteKeyFile
    <2>1. page' \in PageType
        BY <1>1, <1>3, PagesArePages DEF WriteKeyFile, PageType
    <2>2. minted' = minted + 1 /\ minted < MaxKeys
        BY <1>3 DEF WriteKeyFile, MintInv, Minting
    <2>3. minted' \in KeyIds /\ minted' \in 0 .. MaxKeys
        BY <1>1, <2>2, BoundsAreNumbers DEF KeyIds
    <2> QED
        BY <1>3, <2>1, <2>3 DEF WriteKeyFile, TypeOK, PageType
<1>4. CASE LoseKey
    BY <1>4, FaultTypes DEF LoseKey, TypeOK
<1>5. CASE RestoreKey
    <2>1. PICK k \in 1 .. minted : keyFile' = KeyFile(k)
        BY <1>5 DEF RestoreKey
    <2>2. k \in KeyIds
        BY <1>1, <2>1, BoundsAreNumbers DEF KeyIds
    <2> QED
        BY <1>5, <2>1, <2>2 DEF RestoreKey, TypeOK
<1> QED
    BY <1>2, <1>3, <1>4, <1>5

LEMMA TypeWeb ==
    ASSUME TypeOK, Start \/ Crash
    PROVE  TypeOK'
<1>1. CASE Start
    <2>1. page' \in PageType /\ load' \in [Tasks -> LoadType]
        BY <1>1, RecordsAreTyped, AtTypes DEF Start, Tasks
    <2> QED
        BY <1>1, <2>1 DEF Start, TypeOK, PageType, LoadType
<1>2. CASE Crash
    <2>1. /\ page' \in PageType /\ load' \in [Tasks -> LoadType] /\ bootstrap' \in Layer
          /\ cache' \in [loaded : BOOLEAN, is : SettingsValues]
        BY <1>2, RecordsAreTyped, LayersAreLayers DEF Crash
    <2> QED
        BY <1>2, <2>1, FaultTypes DEF Crash, TypeOK, PageType, LoadType
<1> QED
    BY <1>1, <1>2

LEMMA MintNext ==
    ASSUME TypeOK, MintInv, [Next]_vars
    PROVE  MintInv'
<1>1. page \in PageType
    BY DEF TypeOK, PageType
<1>2. ASSUME page'.at \in Minting => page' = page, UNCHANGED <<keyFile, minted>>
      PROVE  MintInv'
    BY <1>2 DEF MintInv
<1>3. ASSUME NEW t \in Tasks, LoadStep(t) PROVE MintInv'
    <2>1. page' \in {page, Down, Idle}
        BY <1>3 DEF LoadStep, BeginLoad, LoadBootstrap, LoadRows, LoadNoRows, LoadRaises,
                    LoadMerge, LoadRefused, Returns
    <2>2. UNCHANGED <<keyFile, minted>>
        BY <1>3 DEF LoadStep, BeginLoad, LoadBootstrap, LoadRows, LoadNoRows, LoadRaises,
                    LoadMerge, LoadRefused
    <2>3. Down.at \notin Minting /\ Idle.at \notin Minting
        BY DEF Down, Idle, Minting
    <2> QED
        BY <1>2, <2>1, <2>2, <2>3
<1>4. CASE PageStep
    <2>1. UNCHANGED <<keyFile, minted>>
        BY <1>4 DEF PageStep, PostSettings, ResetSetting, BeginSave, Preview, PreviewNoRows,
                    PreviewRaises, Encrypt, Commit, CommitFails, Invalidate, Reload, DropCache,
                    ForgetBootstrap, GetSettings
    <2>2. page'.at \notin Minting
        <3>1. Idle.at \notin Minting
            BY DEF Idle, Minting
        <3>2. ASSUME NEW set, NEW clear, BeginSave(set, clear) PROVE page'.at \notin Minting
            BY <3>2 DEF BeginSave, Idle, Minting
        <3>3. CASE Preview
            BY <1>1, <3>1, <3>3 DEF Preview, PageType, Minting
        <3>4. CASE PreviewNoRows
            BY <1>1, <3>1, <3>4 DEF PreviewNoRows, PageType, Minting
        <3>5. CASE PreviewRaises \/ CommitFails
            BY <3>1, <3>5 DEF PreviewRaises, CommitFails
        <3>6. CASE Encrypt \/ Commit
            BY <1>1, <3>6 DEF Encrypt, Commit, PageType, Minting
        <3>7. CASE Invalidate \/ Reload \/ ForgetBootstrap
            BY <1>1, <3>7 DEF Invalidate, Reload, DropCache, ForgetBootstrap, PageType, Minting
        <3>8. CASE GetSettings
            BY <1>1, <3>1, <3>8 DEF GetSettings, PageType, Minting
        <3> QED
            BY <1>4, <3>2, <3>3, <3>4, <3>5, <3>6, <3>7, <3>8
            DEF PageStep, PostSettings, ResetSetting
    <2> QED
        BY <2>2 DEF MintInv, Minting
<1>5. CASE JobStep
    BY <1>2, <1>5 DEF JobStep, StartJob, JobLoads, JobLoadsNoRows, JobLoadRaises, EndJob
<1>6. CASE CreateKeyFile
    BY <1>6 DEF CreateKeyFile, MintInv
<1>7. CASE WriteKeyFile
    <2>1. page'.at \notin Minting
        BY <1>1, <1>7 DEF WriteKeyFile, PageType, Minting
    <2> QED
        BY <2>1 DEF MintInv
<1>8. CASE LoseKey \/ RestoreKey
    BY <1>8 DEF LoseKey, RestoreKey, MintInv, Minting
<1>9. CASE Start \/ Crash
    BY <1>2, <1>9 DEF Start, Crash, Down, Idle, Minting
<1>10. CASE UNCHANGED vars
    BY <1>2, <1>10 DEF vars
<1> QED
    BY <1>3, <1>4, <1>5, <1>6, <1>7, <1>8, <1>9, <1>10 DEF Next

LEMMA TypeNext ==
    ASSUME TypeOK, MintInv, [Next]_vars
    PROVE  TypeOK'
<1>1. CASE UNCHANGED vars
    BY <1>1 DEF vars, TypeOK
<1> QED
    BY <1>1, TypeLoad, TypePage, TypeJob, TypeKeyFile, TypeWeb DEF Next

LEMMA MintInit == Init => MintInv
BY DEF Init, MintInv, Down, Idle, Minting

\* Every variable has its type, whatever the threads, the page and the worker do.
THEOREM TypeCorrect == Spec => []TypeOK
<1>1. Init => TypeOK /\ MintInv
    BY TypeInit, MintInit
<1>2. TypeOK /\ MintInv /\ [Next]_vars => (TypeOK /\ MintInv)'
    BY TypeNext, MintNext
<1> QED
    BY <1>1, <1>2, PTL DEF Spec

----------------------------------------------------------------------------
(* What a step leaves alone *)

KeyFileStep == CreateKeyFile \/ WriteKeyFile \/ LoseKey \/ RestoreKey

LEMMA Frames ==
    ASSUME [Next]_vars
    PROVE  /\ deployment' = deployment
           /\ Commit \/ UNCHANGED rows
           /\ KeyFileStep \/ UNCHANGED <<keyFile, lost>>
<1>1. ASSUME NEW t \in Tasks, LoadStep(t)
      PROVE  UNCHANGED <<deployment, rows, keyFile, lost>>
    BY <1>1 DEF LoadStep, BeginLoad, LoadBootstrap, LoadRows, LoadNoRows, LoadRaises,
                LoadMerge, LoadRefused
<1>2. CASE PageStep
    <2>1. CASE Commit
        BY <2>1 DEF Commit
    <2>2. CASE ~Commit
        BY <1>2, <2>2 DEF PageStep, PostSettings, ResetSetting, BeginSave, Preview, PreviewNoRows,
            PreviewRaises, Encrypt, CommitFails, Invalidate, Reload, DropCache,
            ForgetBootstrap, GetSettings
    <2> QED
        BY <2>1, <2>2
<1>3. CASE JobStep
    BY <1>3 DEF JobStep, StartJob, JobLoads, JobLoadsNoRows, JobLoadRaises, EndJob
<1>4. CASE KeyFileStep
    BY <1>4 DEF KeyFileStep, CreateKeyFile, WriteKeyFile, LoseKey, RestoreKey
<1>5. CASE Start \/ Crash
    BY <1>5 DEF Start, Crash
<1>6. CASE UNCHANGED vars
    BY <1>6 DEF vars
<1> QED
    BY <1>1, <1>2, <1>3, <1>4, <1>5, <1>6 DEF Next, KeyFileStep

\* A save between its preview and its commit.
Saving == {"encrypt", "mint for save", "commit"}

SavingStep == Preview \/ PreviewNoRows \/ Encrypt \/ CreateKeyFile \/ WriteKeyFile

LEMMA SavingFrames ==
    ASSUME TypeOK, [Next]_vars, page'.at \in Saving, page' # page
    PROVE  SavingStep
<1>1. page \in PageType
    BY DEF TypeOK, PageType
<1>2. Idle.at \notin Saving /\ Down.at \notin Saving
    BY DEF Idle, Down, Saving
<1>3. ASSUME NEW t \in Tasks, LoadStep(t) PROVE FALSE
    <2>1. page' \in {page, Down, Idle}
        BY <1>3 DEF LoadStep, BeginLoad, LoadBootstrap, LoadRows, LoadNoRows, LoadRaises,
                    LoadMerge, LoadRefused, Returns
    <2> QED
        BY <2>1, <1>2
<1>4. CASE PageStep
    <2>1. ASSUME NEW set, NEW clear, BeginSave(set, clear) PROVE FALSE
        BY <2>1 DEF BeginSave, Idle, Saving
    <2>2. CASE PreviewRaises \/ CommitFails
        BY <1>2, <2>2 DEF PreviewRaises, CommitFails
    <2>3. CASE Commit \/ Invalidate \/ Reload \/ ForgetBootstrap
        BY <1>1, <2>3 DEF Commit, Invalidate, Reload, DropCache, ForgetBootstrap, PageType, Saving
    <2>4. CASE GetSettings
        BY <1>1, <1>2, <2>4 DEF GetSettings, PageType, Saving
    <2> QED
        BY <1>4, <2>1, <2>2, <2>3, <2>4 DEF PageStep, PostSettings, ResetSetting, SavingStep
<1>5. CASE JobStep
    BY <1>5 DEF JobStep, StartJob, JobLoads, JobLoadsNoRows, JobLoadRaises, EndJob
<1>6. CASE LoseKey \/ RestoreKey
    BY <1>6 DEF LoseKey, RestoreKey
<1>7. CASE Start \/ Crash
    BY <1>2, <1>7 DEF Start, Crash, Idle, Saving
<1>8. CASE UNCHANGED vars
    BY <1>8 DEF vars
<1> QED
    BY <1>3, <1>4, <1>5, <1>6, <1>7, <1>8 DEF Next, SavingStep

LEMMA KeyFilesDiffer ==
    \A k : KeyFile(k) # NoKeyFile /\ KeyFile(k) # EmptyKeyFile
BY DEF KeyFile, NoKeyFile, EmptyKeyFile

LEMMA KeyFilesAreKeys ==
    \A j, k : KeyFile(j) = KeyFile(k) => j = k
BY DEF KeyFile

\* The key of a save with a secret is the one of the file.
SaveKeyInv ==
    page.at = "commit" /\ (\E k \in Secrets : page.set[k] # None) => keyFile = KeyFile(page.key)

LEMMA SaveKeyNext ==
    ASSUME TypeOK, SaveKeyInv, [Next]_vars
    PROVE  SaveKeyInv'
<1> SUFFICES ASSUME page'.at = "commit", \E k \in Secrets : page'.set[k] # None
             PROVE  keyFile' = KeyFile(page'.key)
    BY DEF SaveKeyInv
<1>1. page \in PageType
    BY DEF TypeOK, PageType
<1>2. CASE page' = page
    <2>1. page.at = "commit" /\ keyFile = KeyFile(page.key)
        BY <1>2 DEF SaveKeyInv
    <2>2. ~KeyFileStep
        BY <2>1, <1>2 DEF KeyFileStep, CreateKeyFile, WriteKeyFile, LoseKey, RestoreKey
    <2> QED
        BY <2>1, <2>2, <1>2, Frames
<1>3. CASE page' # page
    <2>1. SavingStep
        BY <1>3, SavingFrames DEF Saving
    <2>2. CASE Encrypt
        <3>1. page'.set = page.set /\ page'.key = keyFile.id
            BY <1>1, <2>2 DEF Encrypt, PageType
        <3>2. keyFile.is = "key" /\ keyFile' = keyFile
            BY <2>2, <3>1 DEF Encrypt
        <3>3. keyFile = KeyFile(keyFile.id)
            BY <3>2, KeyFilesAreTyped
        <3> QED
            BY <3>1, <3>2, <3>3
    <2>3. CASE Preview \/ PreviewNoRows
        <3>1. Idle.at # "commit"
            BY DEF Idle
        <3>2. page' = Idle \/ page'.at = "encrypt"
            BY <1>1, <2>3 DEF Preview, PreviewNoRows, PageType
        <3> QED
            BY <3>1, <3>2
    <2>4. CASE CreateKeyFile \/ WriteKeyFile
        BY <1>1, <2>4 DEF CreateKeyFile, WriteKeyFile, PageType
    <2> QED
        BY <2>1, <2>2, <2>3, <2>4 DEF SavingStep
<1> QED
    BY <1>2, <1>3

LEMMA CommitRows ==
    ASSUME TypeOK, SaveKeyInv, Commit, NEW k \in Encrypted(rows')
    PROVE  /\ k \in Keys
           /\ \/ keyFile = KeyFile(rows'[k].key)
              \/ k \in Encrypted(rows) /\ rows'[k].key = rows[k].key
<1>1. k \in Keys /\ rows'[k].key # NoKey /\ rows'[k] = Stored(k)
    BY DEF Encrypted, Commit
<1>2. CASE page.set[k] = None
    BY <1>1, <1>2 DEF Stored, NoRow, Encrypted
<1>3. CASE page.set[k] # None
    BY <1>1, <1>3 DEF Stored, SaveKeyInv, Commit
<1> QED
    BY <1>1, <1>2, <1>3

LEMMA ReadableNext ==
    ASSUME TypeOK, MintInv, SaveKeyInv, SecretsReadable, [Next]_vars
    PROVE  SecretsReadable'
<1> SUFFICES ASSUME ~lost', NEW k \in Encrypted(rows')
             PROVE  keyFile' = KeyFile(rows'[k].key)
    BY DEF SecretsReadable
<1>1. CASE Commit
    <2>1. keyFile' = keyFile /\ lost' = lost
        BY <1>1 DEF Commit
    <2> QED
        BY <1>1, <2>1, CommitRows DEF SecretsReadable
<1>2. CASE ~Commit
    <2>1. rows' = rows
        BY <1>2, Frames
    <2>2. CASE KeyFileStep
        <3>1. ~LoseKey /\ ~RestoreKey
            <4>1. ~LoseKey
                BY Zenon DEF LoseKey
            <4>2. RestoreKey => lost /\ lost' = lost
                BY DEF RestoreKey
            <4> QED
                BY <4>1, <4>2
        <3>2. ~lost
            BY <2>2, <3>1, Zenon DEF KeyFileStep, CreateKeyFile, WriteKeyFile
        <3>3. keyFile = KeyFile(rows[k].key)
            BY <2>1, <3>2 DEF SecretsReadable
        <3>4. CASE CreateKeyFile
            BY <3>3, <3>4, KeyFilesDiffer DEF CreateKeyFile
        <3>5. CASE WriteKeyFile
            BY <3>3, <3>5, KeyFilesDiffer DEF WriteKeyFile, MintInv, Minting
        <3> QED
            BY <2>2, <3>1, <3>2, <3>4, <3>5 DEF KeyFileStep
    <2>3. CASE ~KeyFileStep
        BY <2>1, <2>3, Frames DEF SecretsReadable
    <2> QED
        BY <2>2, <2>3
<1> QED
    BY <1>1, <1>2

LEMMA KeyInit == Init => SaveKeyInv /\ SecretsReadable
<1> SUFFICES ASSUME Init PROVE SaveKeyInv /\ SecretsReadable
    OBVIOUS
<1>1. Encrypted(rows) = {}
    BY DEF Init, Encrypted, NoRow
<1> QED
    BY <1>1 DEF Init, SaveKeyInv, SecretsReadable, Down, Idle

\* Without a loss from outside the key file opens every stored secret.
THEOREM SecretsStayReadable == Spec => []SecretsReadable
<1> DEFINE KInv == TypeOK /\ MintInv /\ SaveKeyInv /\ SecretsReadable
<1>1. Init => KInv
    BY TypeInit, MintInit, KeyInit
<1>2. KInv /\ [Next]_vars => KInv'
    BY TypeNext, MintNext, SaveKeyNext, ReadableNext
<1> QED
    BY <1>1, <1>2, PTL DEF Spec

----------------------------------------------------------------------------
(* The rows that a preview read *)

\* Until the commit the key of the file is the one of every stored secret.
ReadKeyInv ==
    page.at \in Saving /\ page.read => \A k \in Encrypted(rows) : keyFile = KeyFile(rows[k].key)

\* Until the commit the save would leave valid settings.
ReadValidInv ==
    page.at \in Saving /\ page.read /\ page.known =>
        Valid(Merge(deployment, Bootstrap(deployment), Saved(RowMap)))

\* A save is read by Preview only.
LEMMA ReadFrames ==
    ASSUME TypeOK, [Next]_vars, page'.at \in Saving, page'.read, ~Preview
    PROVE  /\ page.at \in Saving /\ page.read /\ page'.known = page.known
           /\ page'.set = page.set /\ page'.clear = page.clear
           /\ rows' = rows
<1>1. page \in PageType
    BY DEF TypeOK, PageType
<1>2. ~Commit
    BY <1>1 DEF Commit, PageType, Saving
<1>3. rows' = rows
    BY <1>2, Frames
<1>4. CASE page' = page
    BY <1>3, <1>4
<1>5. CASE page' # page
    <2>1. SavingStep
        BY <1>5, SavingFrames
    <2>2. ~PreviewNoRows
        <3>1. Idle.at \notin Saving
            BY DEF Idle, Saving
        <3>2. SUFFICES ASSUME PreviewNoRows PROVE FALSE
            OBVIOUS
        <3>3. page.at = "preview" /\ page' = [page EXCEPT !.at = "encrypt", !.read = FALSE]
            BY <3>1, <3>2 DEF PreviewNoRows
        <3> QED
            BY <3>3, <1>1 DEF PageType
    <2>3. CASE Encrypt
        BY <1>1, <1>3, <2>3 DEF Encrypt, PageType, Saving
    <2>4. CASE CreateKeyFile
        BY <1>1, <1>3, <2>4 DEF CreateKeyFile, PageType, Saving
    <2>5. CASE WriteKeyFile
        BY <1>1, <1>3, <2>5 DEF WriteKeyFile, PageType, Saving
    <2> QED
        BY <2>1, <2>2, <2>3, <2>4, <2>5 DEF SavingStep
<1> QED
    BY <1>4, <1>5

LEMMA ReadKeyNext ==
    ASSUME TypeOK, MintInv, ReadKeyInv, [Next]_vars
    PROVE  ReadKeyInv'
<1> SUFFICES ASSUME page'.at \in Saving, page'.read, NEW k \in Encrypted(rows')
             PROVE  keyFile' = KeyFile(rows'[k].key)
    BY DEF ReadKeyInv, Saving
<1>1. CASE Preview
    <2>1. ~Unreadable /\ keyFile' = keyFile /\ rows' = rows
        BY <1>1 DEF Preview
    <2> QED
        BY <2>1 DEF Unreadable
<1>2. CASE ~Preview
    <2>1. rows' = rows /\ page.at \in Saving /\ keyFile = KeyFile(rows[k].key)
        BY <1>2, ReadFrames DEF ReadKeyInv
    <2>2. ~CreateKeyFile
        BY <2>1, KeyFilesDiffer DEF CreateKeyFile
    <2>3. ~WriteKeyFile
        BY <2>1, KeyFilesDiffer DEF WriteKeyFile, MintInv, Minting
    <2>4. ~LoseKey /\ ~RestoreKey
        BY <2>1 DEF LoseKey, RestoreKey, Saving
    <2> QED
        BY <2>1, <2>2, <2>3, <2>4, Frames DEF KeyFileStep
<1> QED
    BY <1>1, <1>2

LEMMA OneKeyStep ==
    ASSUME TypeOK, SaveKeyInv, ReadKeyInv, [Next]_vars, rows' # rows, page.read,
           NEW j \in Encrypted(rows'), NEW k \in Encrypted(rows')
    PROVE  rows'[j].key = rows'[k].key
<1>1. Commit
    BY Frames
<1>2. page.at \in Saving
    BY <1>1 DEF Commit, Saving
<1>3. \A i \in Encrypted(rows') : keyFile = KeyFile(rows'[i].key)
    BY <1>1, <1>2, CommitRows DEF ReadKeyInv
<1> QED
    BY <1>3, KeyFilesAreKeys

LEMMA ReadInit == Init => ReadKeyInv /\ ReadValidInv
BY DEF Init, ReadKeyInv, ReadValidInv, Down, Idle, Saving

\* A save whose preview read the rows leaves secrets of one key only.
THEOREM SecretsHaveOneKey == Spec => OneKey
<1> DEFINE RInv == TypeOK /\ MintInv /\ SaveKeyInv /\ ReadKeyInv
<1>1. Init => RInv
    BY TypeInit, MintInit, KeyInit, ReadInit
<1>2. RInv /\ [Next]_vars => RInv'
    BY TypeNext, MintNext, SaveKeyNext, ReadKeyNext
<1>3. RInv /\ [Next]_vars
          => [rows' # rows /\ page.read =>
                  \A j, k \in Encrypted(rows') : rows'[j].key = rows'[k].key]_vars
    BY OneKeyStep
<1> QED
    BY <1>1, <1>2, <1>3, PTL DEF Spec, OneKey

LEMMA ReadValidNext ==
    ASSUME TypeOK, ReadValidInv, [Next]_vars
    PROVE  ReadValidInv'
<1> SUFFICES ASSUME page'.at \in Saving, page'.read, page'.known
             PROVE  Valid(Merge(deployment', Bootstrap(deployment'), Saved(RowMap)'))
    BY DEF ReadValidInv, Saving
<1>1. deployment' = deployment
    BY Frames
<1>2. page \in PageType
    BY DEF TypeOK, PageType
<1>3. CASE Preview
    <2>1. Idle.at \notin Saving
        BY DEF Idle, Saving
    <2>2. /\ Accepts(RowMap) /\ rows' = rows
          /\ page' = [page EXCEPT !.at = "encrypt", !.read = TRUE,
                                  !.known = (bootstrap = Bootstrap(deployment))]
        BY <1>3, <2>1 DEF Preview
    <2>3. bootstrap = Bootstrap(deployment) /\ page'.set = page.set /\ page'.clear = page.clear
        BY <1>2, <2>2 DEF PageType
    <2>4. Saved(RowMap)' = Saved(RowMap)
        BY <2>2, <2>3 DEF Saved, RowMap
    <2> QED
        BY <1>1, <2>2, <2>3, <2>4 DEF Accepts
<1>4. CASE ~Preview
    <2>1. /\ page.at \in Saving /\ page.read /\ page.known /\ rows' = rows
          /\ page'.set = page.set /\ page'.clear = page.clear
        BY <1>4, ReadFrames
    <2>2. Saved(RowMap)' = Saved(RowMap)
        BY <2>1 DEF Saved, RowMap
    <2> QED
        BY <1>1, <2>1, <2>2 DEF ReadValidInv
<1> QED
    BY <1>3, <1>4

LEMMA CanStartStep ==
    ASSUME TypeOK, TypeOK', ReadValidInv, [Next]_vars, rows' # rows, page.read, page.known
    PROVE  Valid(Promised(rows'))
<1>1. Commit /\ deployment' = deployment
    BY Frames
<1>2. page.at \in Saving /\ rows' = [k \in Keys |-> Stored(k)]
    BY <1>1 DEF Commit, Saving
<1>3. \A k \in Keys : Stored(k).value = Saved(RowMap)[k]
    BY DEF Stored, Saved, RowMap, Over, NoRow
<1>4. [k \in Keys |-> rows'[k].value] = Saved(RowMap)
    BY <1>2, <1>3 DEF Saved, Over
<1>5. rows' \in Rows /\ deployment \in Deployments
    BY DEF TypeOK
<1>6. Over(Merge(deployment, Bootstrap(deployment), Saved(RowMap)), Default) = Promised(rows')
    BY <1>4, <1>5, MergeIsPromised
<1>7. Saved(RowMap) \in Layer
    BY <1>4, <1>5, RowsAreLayers
<1>8. Merge(deployment, Bootstrap(deployment), Saved(RowMap)) \in Layer
    BY <1>5, <1>7, DeploymentsAreLayers
<1>9. Valid(Merge(deployment, Bootstrap(deployment), Saved(RowMap)))
    BY <1>2 DEF ReadValidInv
<1> QED
    BY <1>6, <1>8, <1>9, ValidIsValid

\* A save whose preview had the deployment's values and the rows never leaves a
\* table with which the next start of the process is refused.
THEOREM SavesKeepItStarting == Spec => SavesCanStart
<1> DEFINE VInv == TypeOK /\ MintInv /\ ReadValidInv
<1>1. Init => VInv
    BY TypeInit, MintInit, ReadInit
<1>2. VInv /\ [Next]_vars => VInv'
    BY TypeNext, MintNext, ReadValidNext
<1>3. VInv /\ VInv' /\ [Next]_vars
          => [rows' # rows /\ page.read /\ page.known => Valid(Promised(rows'))]_vars
    BY CanStartStep
<1> QED
    BY <1>1, <1>2, <1>3, PTL DEF Spec, SavesCanStart

----------------------------------------------------------------------------
(* The settings of a job *)

\* A loading job counts the committed rows among those it may see.
JobInv == job.at = "load" => rows \in job.tables

LEMMA JobNext ==
    ASSUME TypeOK, JobInv, JobsSeeSaved, [Next]_vars
    PROVE  JobInv' /\ JobsSeeSaved'
<1>1. deployment' = deployment /\ job \in JobType /\ rows \in Rows
    BY Frames DEF TypeOK, JobType
<1>2. \A r : Promised(r)' = Promised(r')
    BY <1>1 DEF Promised
<1>11. ASSUME UNCHANGED job PROVE JobsSeeSaved'
    BY <1>1, <1>2, <1>11 DEF JobsSeeSaved
<1>3. ASSUME UNCHANGED <<job, rows>> PROVE JobInv' /\ JobsSeeSaved'
    BY <1>3, <1>11 DEF JobInv
<1>4. ASSUME job' = NoJob PROVE JobInv' /\ JobsSeeSaved'
    BY <1>4 DEF JobInv, JobsSeeSaved, NoJob
<1>5. CASE Commit
    <2>1. CASE job.at = "load"
        <3>1. job' = [job EXCEPT !.tables = @ \cup {rows'}]
            BY <1>5, <2>1 DEF Commit
        <3>2. job'.at = "load" /\ rows' \in job'.tables
            BY <1>1, <2>1, <3>1 DEF JobType
        <3> QED
            BY <3>2 DEF JobInv, JobsSeeSaved
    <2>2. CASE job.at # "load"
        <3>1. job' = job
            BY <1>5, <2>2 DEF Commit
        <3> QED
            BY <1>11, <2>2, <3>1 DEF JobInv
    <2> QED
        BY <2>1, <2>2
<1>6. CASE StartJob
    BY <1>6 DEF StartJob, NoJob, JobInv, JobsSeeSaved
<1>7. CASE JobLoads
    <2> DEFINE merged == Merge(deployment, Bootstrap(deployment), RowMap)
    <2>1. rows \in job.tables
        BY <1>7 DEF JobLoads, JobInv
    <2>2. Over(merged, Default) = Promised(rows)
        BY <1>1, MergeIsPromised DEF RowMap
    <2>3. job' = IF Valid(merged)
                 THEN [job EXCEPT !.at = "run", !.settings = Over(merged, Default),
                                  !.whole = TRUE, !.key = keyFile.id]
                 ELSE NoJob
        BY <1>7 DEF JobLoads, Runs
    <2> HIDE DEF merged
    <2>4. CASE Valid(merged)
        <3>1. /\ job'.at = "run" /\ job'.settings = Promised(rows) /\ job'.tables = job.tables
              /\ job'.whole /\ job'.key = keyFile.id
            BY <1>1, <2>2, <2>3, <2>4 DEF JobType
        <3>2. \A k \in Encrypted(rows) : rows[k].key = keyFile.id
            BY <1>7 DEF JobLoads, Unreadable, KeyFile
        <3> QED
            BY <1>2, <2>1, <3>1, <3>2 DEF JobInv, JobsSeeSaved
    <2>5. CASE ~Valid(merged)
        BY <1>4, <2>3, <2>5
    <2> QED
        BY <2>4, <2>5
<1>8. CASE JobLoadsNoRows
    <2> DEFINE merged == Merge(deployment, Bootstrap(deployment), NoLayer)
    <2>1. job' = IF Valid(merged)
                 THEN [job EXCEPT !.at = "run", !.settings = Over(merged, Default),
                                  !.whole = FALSE, !.key = keyFile.id]
                 ELSE NoJob
        BY <1>8 DEF JobLoadsNoRows, Runs
    <2>3. Over(merged, Default) = Over(Bootstrap(deployment), Default)
        BY <1>1, DeploymentsAreLayers DEF Merge, Over, NoLayer, Layer
    <2> HIDE DEF merged
    <2>2. CASE Valid(merged)
        <3>1. /\ job'.at = "run" /\ ~job'.whole
              /\ job'.settings = Over(Bootstrap(deployment), Default)
            BY <1>1, <2>1, <2>2, <2>3 DEF JobType
        <3> QED
            BY <1>1, <3>1 DEF JobInv, JobsSeeSaved
    <2> QED
        BY <1>4, <2>1, <2>2
<1>9. CASE JobLoadRaises \/ EndJob
    BY <1>4, <1>9 DEF JobLoadRaises, EndJob
<1>10. CASE ~JobStep /\ ~Commit
    <2>1. rows' = rows
        BY <1>10, Frames
    <2>2. ASSUME NEW t \in Tasks, LoadStep(t) PROVE job' = job
        BY <2>2 DEF LoadStep, BeginLoad, LoadBootstrap, LoadRows, LoadNoRows, LoadRaises,
                    LoadMerge, LoadRefused
    <2>3. PageStep => job' = job
        BY <1>10 DEF PageStep, PostSettings, ResetSetting, BeginSave, Preview, PreviewNoRows,
            PreviewRaises, Encrypt, CommitFails, Invalidate, Reload, DropCache,
            ForgetBootstrap, GetSettings
    <2>4. CreateKeyFile \/ WriteKeyFile \/ LoseKey \/ RestoreKey \/ Start \/ Crash => job' = job
        BY DEF CreateKeyFile, WriteKeyFile, LoseKey, RestoreKey, Start, Crash
    <2>5. UNCHANGED vars => job' = job
        BY DEF vars
    <2> QED
        BY <1>3, <1>10, <2>1, <2>2, <2>3, <2>4, <2>5 DEF Next
<1> QED
    BY <1>5, <1>6, <1>7, <1>8, <1>9, <1>10 DEF JobStep

LEMMA JobInit == Init => JobInv /\ JobsSeeSaved
BY DEF Init, JobInv, JobsSeeSaved, NoJob

\* For any deployments, forms, saves, keys and faults: a job runs with the overrides
\* of one table, committed when it started or while it was loading, whose secrets
\* were encrypted with the key it read; or, if the read failed, with the values of
\* the deployment alone.
THEOREM JobsAlwaysSeeSaved == Spec => []JobsSeeSaved
<1> DEFINE JInv == TypeOK /\ MintInv /\ JobInv /\ JobsSeeSaved
<1>1. Init => JInv
    BY TypeInit, MintInit, JobInit
<1>2. JInv /\ [Next]_vars => JInv'
    BY TypeNext, MintNext, JobNext
<1> QED
    BY <1>1, <1>2, PTL DEF Spec

----------------------------------------------------------------------------
(* The cache of the web process *)

\* Only the event loop's own page, or the start, is inside a load of the loop; no
\* request is served while the process is down or starts.
LoadsInv ==
    /\ load[Loop].at # "out" <=> page.at \in {"start", "load"}
    /\ page.at \in {"down", "start"} => \A t \in Threads : load[t].at = "out"

\* Before a commit the cache is the table's; after it the cache is empty until
\* the loop has read the rows again.
Settled == {"idle", "mint", "preview", "encrypt", "mint for save", "commit"}
EffectInv ==
    ~disturbed =>
        /\ \A t \in Threads : load[t].at = "out"
        /\ page.at \in Settled => cache = Cached(Promised(rows))
        /\ page.at \in {"invalidated", "reload", "get"} => ~cache.loaded
        /\ load[Loop].at = "merge" => load[Loop].map = RowMap

WebInv == LoadsInv /\ EffectInv

LEMMA WebInit == Init => WebInv
<1> SUFFICES ASSUME Init PROVE WebInv
    OBVIOUS
<1>1. \A t \in Tasks : load[t].at = "out"
    BY DEF Init, Away
<1>2. page.at = "down"
    BY DEF Init, Down, Idle
<1> QED
    BY <1>1, <1>2 DEF WebInv, LoadsInv, EffectInv, Settled, Tasks

LEMMA WebLoad ==
    ASSUME TypeOK, WebInv, NEW t \in Tasks, LoadStep(t)
    PROVE  WebInv'
<1>1. /\ page \in PageType /\ load \in [Tasks -> LoadType]
      /\ deployment \in Deployments /\ rows \in Rows
    BY DEF TypeOK, PageType, LoadType
<1>2. Loop \in Tasks /\ (\A u \in Threads : u \in Tasks /\ u # Loop)
    BY LoopIsNoPoolThread DEF Tasks
<1>3. t \in Threads \/ t = Loop
    BY DEF Tasks
<1>4. deployment' = deployment /\ rows' = rows
    BY DEF LoadStep, BeginLoad, LoadBootstrap, LoadRows, LoadNoRows, LoadRaises, LoadMerge,
           LoadRefused
<1>5. Promised(rows)' = Promised(rows) /\ RowMap' = RowMap
    BY <1>4 DEF Promised, RowMap
<1>6. Idle.at = "idle" /\ Down.at = "down" /\ Away.at = "out"
    BY DEF Idle, Down, Away
<1>7. CASE BeginLoad(t)
    <2>1. t \in Threads /\ page' = page /\ disturbed' /\ page.at \notin {"down", "start"}
        BY <1>7 DEF BeginLoad
    <2>2. load'[Loop] = load[Loop]
        BY <1>1, <1>2, <1>7, <2>1 DEF BeginLoad, At
    <2> QED
        BY <2>1, <2>2 DEF WebInv, LoadsInv, EffectInv
<1>8. CASE LoadBootstrap(t)
    <2>1. load' = [load EXCEPT ![t].at = "read"] /\ page' = page /\ disturbed' = disturbed
        BY <1>8 DEF LoadBootstrap, At
    <2>2. load[t].at = "boot"
        BY <1>8 DEF LoadBootstrap
    <2>3. CASE t = Loop
        <3>1. page.at \in {"start", "load"} /\ load'[Loop].at = "read"
            BY <1>1, <1>2, <2>1, <2>2, <2>3 DEF WebInv, LoadsInv, LoadType
        <3>2. \A u \in Threads : load'[u] = load[u]
            BY <1>1, <1>2, <2>1, <2>3
        <3> QED
            BY <2>1, <3>1, <3>2 DEF WebInv, LoadsInv, EffectInv, Settled
    <2>4. CASE t \in Threads
        <3>1. disturbed /\ page.at \notin {"down", "start"}
            BY <2>2, <2>4 DEF WebInv, LoadsInv, EffectInv
        <3>2. load'[Loop] = load[Loop]
            BY <1>1, <1>2, <2>1, <2>4
        <3> QED
            BY <2>1, <3>1, <3>2 DEF WebInv, LoadsInv, EffectInv
    <2> QED
        BY <1>3, <2>3, <2>4
<1>9. CASE LoadRows(t) \/ LoadNoRows(t)
    <2>1. /\ load[t].at = "read" /\ page' = page /\ load'[t].at = "merge"
          /\ \A u \in Tasks : u # t => load'[u] = load[u]
        BY <1>1, <1>9 DEF LoadRows, LoadNoRows
    <2>2. LoadsInv'
        BY <1>2, <1>3, <2>1 DEF WebInv, LoadsInv
    <2>3. disturbed' \/ (disturbed' = disturbed /\ load'[t].map = RowMap /\ cache' = cache)
        BY <1>1, <1>9 DEF LoadRows, LoadNoRows
    <2>4. CASE t = Loop
        <3>1. page.at \notin Settled /\ page.at \notin {"invalidated", "reload", "get"}
            BY <2>1, <2>4 DEF WebInv, LoadsInv, Settled
        <3> QED
            BY <1>2, <1>5, <2>1, <2>2, <2>3, <2>4, <3>1 DEF WebInv, EffectInv
    <2>5. CASE t \in Threads
        BY <2>1, <2>2, <2>3, <2>5 DEF WebInv, EffectInv
    <2> QED
        BY <1>3, <2>4, <2>5
<1>10. CASE LoadRaises(t) \/ LoadMerge(t) \/ LoadRefused(t)
    <2>1. /\ load[t].at # "out" /\ load'[t].at = "out"
          /\ \A u \in Tasks : u # t => load'[u] = load[u]
        BY <1>1, <1>6, <1>10 DEF LoadRaises, LoadMerge, LoadRefused, Returns
    <2>2. CASE t \in Threads
        <3>1. page' = page /\ load'[Loop] = load[Loop] /\ disturbed /\ disturbed'
            BY <1>2, <1>10, <2>1, <2>2
            DEF LoadRaises, LoadMerge, LoadRefused, Returns, WebInv, EffectInv
        <3> QED
            BY <1>2, <2>1, <2>2, <3>1 DEF WebInv, LoadsInv, EffectInv
    <2>3. CASE t = Loop
        <3>1. page'.at \in {"down", "idle"} /\ (page'.at = "down" => page.at = "start")
            BY <1>6, <1>10, <2>3 DEF LoadRaises, LoadMerge, LoadRefused, Returns
        <3>2. LoadsInv'
            BY <1>2, <2>1, <2>3, <3>1 DEF WebInv, LoadsInv
        <3>3. CASE disturbed'
            BY <3>2, <3>3 DEF WebInv, EffectInv
        <3>4. CASE ~disturbed'
            <4>1. LoadMerge(t) /\ ~disturbed
                <5>1. ~LoadRaises(t) /\ ~LoadRefused(t)
                    BY <3>4, Zenon DEF LoadRaises, LoadRefused
                <5>2. LoadMerge(t) => disturbed' = disturbed
                    BY DEF LoadMerge
                <5> QED
                    BY <1>10, <3>4, <5>1, <5>2
            <4>2. load[Loop].map = RowMap
                BY <2>3, <4>1 DEF LoadMerge, WebInv, EffectInv
            <4>3. Over(Merged(t), Default) = Promised(rows)
                BY <1>1, <2>3, <4>2, MergeIsPromised DEF Merged, RowMap
            <4>4. cache' = Cached(Promised(rows))
                BY <4>1, <4>3 DEF LoadMerge
            <4>5. \A u \in Threads : load'[u].at = "out"
                BY <1>2, <2>1, <2>3, <4>1 DEF WebInv, EffectInv
            <4> QED
                BY <1>4, <1>5, <2>1, <2>3, <3>1, <3>2, <4>4, <4>5 DEF WebInv, EffectInv, Cached
        <3> QED
            BY <3>3, <3>4
    <2> QED
        BY <1>3, <2>2, <2>3
<1> QED
    BY <1>7, <1>8, <1>9, <1>10 DEF LoadStep

LEMMA WebPage ==
    ASSUME TypeOK, WebInv, PageStep
    PROVE  WebInv'
<1>1. page \in PageType /\ load \in [Tasks -> LoadType]
    BY DEF TypeOK, PageType, LoadType
<1>2. Loop \in Tasks /\ (\A u \in Threads : u \in Tasks /\ u # Loop)
    BY LoopIsNoPoolThread DEF Tasks
<1>3. Idle.at = "idle"
    BY DEF Idle
<1>4. ASSUME page.at \in Settled, page'.at \in Settled,
             UNCHANGED <<deployment, rows, cache, load, disturbed>>
      PROVE  WebInv'
    <2>1. Promised(rows)' = Promised(rows) /\ RowMap' = RowMap
        BY <1>4 DEF Promised, RowMap
    <2> QED
        BY <1>4, <2>1 DEF WebInv, LoadsInv, EffectInv, Settled
<1>5. ASSUME NEW set, NEW clear, BeginSave(set, clear) PROVE WebInv'
    <2>1. page.at = "idle" /\ page'.at = "preview"
        BY <1>5 DEF BeginSave, Idle
    <2> QED
        BY <1>4, <1>5, <2>1 DEF BeginSave, Settled
<1>6. CASE Preview
    <2>1. page.at = "preview" /\ page'.at \in {"encrypt", "idle"}
        BY <1>1, <1>3, <1>6 DEF Preview, PageType
    <2> QED
        BY <1>4, <1>6, <2>1 DEF Preview, Settled
<1>7. CASE PreviewNoRows
    <2>1. page.at = "preview" /\ page'.at \in {"encrypt", "idle"}
        BY <1>1, <1>3, <1>7 DEF PreviewNoRows, PageType
    <2> QED
        BY <1>4, <1>7, <2>1 DEF PreviewNoRows, Settled
<1>8. CASE PreviewRaises \/ CommitFails
    BY <1>3, <1>4, <1>8 DEF PreviewRaises, CommitFails, Settled
<1>9. CASE Encrypt
    <2>1. page.at = "encrypt" /\ page'.at = "commit"
        BY <1>1, <1>9 DEF Encrypt, PageType
    <2> QED
        BY <1>4, <1>9, <2>1 DEF Encrypt, Settled
<1>10. CASE Commit
    <2>1. page.at = "commit" /\ page'.at = "committed"
        BY <1>1, <1>10 DEF Commit, PageType
    <2>2. load' = load /\ load[Loop].at = "out"
        BY <1>10, <2>1 DEF Commit, WebInv, LoadsInv
    <2>3. ~disturbed' => \A t \in Threads : load[t].at = "out"
        BY <1>10 DEF Commit
    <2> QED
        BY <2>1, <2>2, <2>3 DEF WebInv, LoadsInv, EffectInv, Settled
<1>11. CASE Invalidate \/ Reload
    <2>1. page.at \in {"committed", "invalidated"} /\ page'.at \in {"invalidated", "reload"}
        BY <1>1, <1>11 DEF Invalidate, Reload, DropCache, PageType
    <2>2. ~cache'.loaded /\ UNCHANGED <<load, rows, disturbed>>
        BY <1>11 DEF Invalidate, Reload, DropCache, NotLoaded
    <2> QED
        BY <2>1, <2>2 DEF WebInv, LoadsInv, EffectInv, Settled, RowMap
<1>12. CASE ForgetBootstrap
    <2>1. page.at = "reload" /\ page'.at = "get"
        BY <1>1, <1>12 DEF ForgetBootstrap, PageType
    <2>2. UNCHANGED <<cache, load, rows, disturbed>>
        BY <1>12 DEF ForgetBootstrap
    <2> QED
        BY <2>1, <2>2 DEF WebInv, LoadsInv, EffectInv, Settled, RowMap
<1>13. CASE GetSettings
    <2>1. page.at = "get" /\ UNCHANGED <<cache, rows, disturbed>>
        BY <1>13 DEF GetSettings
    <2>2. CASE cache.loaded
        <3>1. page'.at = "idle" /\ load' = load /\ disturbed
            BY <1>3, <1>13, <2>1, <2>2 DEF GetSettings, WebInv, EffectInv
        <3> QED
            BY <2>1, <3>1 DEF WebInv, LoadsInv, EffectInv
    <2>3. CASE ~cache.loaded
        <3>1. page'.at = "load" /\ load' = [load EXCEPT ![Loop].at = "boot"]
            BY <1>1, <1>13, <2>3 DEF GetSettings, At, PageType
        <3>2. load'[Loop].at = "boot" /\ \A t \in Threads : load'[t] = load[t]
            BY <1>1, <1>2, <3>1 DEF LoadType
        <3> QED
            BY <2>1, <3>1, <3>2 DEF WebInv, LoadsInv, EffectInv, Settled
    <2> QED
        BY <2>2, <2>3
<1> QED
    BY <1>5, <1>6, <1>7, <1>8, <1>9, <1>10, <1>11, <1>12, <1>13
    DEF PageStep, PostSettings, ResetSetting

LEMMA WebOther ==
    ASSUME TypeOK, WebInv, JobStep \/ KeyFileStep \/ Start \/ Crash \/ UNCHANGED vars
    PROVE  WebInv'
<1>1. page \in PageType /\ load \in [Tasks -> LoadType]
    BY DEF TypeOK, PageType, LoadType
<1>2. Loop \in Tasks /\ (\A u \in Threads : u \in Tasks /\ u # Loop)
    BY LoopIsNoPoolThread DEF Tasks
<1>3. ASSUME \/ page'.at = page.at
             \/ page.at \in {"idle", "encrypt"} /\ page'.at \in Minting
             \/ page.at \in Minting /\ page'.at \in {"idle", "encrypt"},
             UNCHANGED <<deployment, rows, cache, load, disturbed>>
      PROVE  WebInv'
    <2>1. Promised(rows)' = Promised(rows) /\ RowMap' = RowMap
        BY <1>3 DEF Promised, RowMap
    <2> QED
        BY <1>3, <2>1 DEF WebInv, LoadsInv, EffectInv, Settled, Minting
<1>4. CASE JobStep
    BY <1>3, <1>4 DEF JobStep, StartJob, JobLoads, JobLoadsNoRows, JobLoadRaises, EndJob
<1>5. CASE CreateKeyFile
    <2>1. page.at \in {"idle", "encrypt"} /\ page'.at \in Minting
        BY <1>1, <1>5 DEF CreateKeyFile, PageType, Minting
    <2> QED
        BY <1>3, <1>5, <2>1 DEF CreateKeyFile
<1>6. CASE WriteKeyFile
    <2>1. page.at \in Minting /\ page'.at \in {"idle", "encrypt"}
        BY <1>1, <1>6 DEF WriteKeyFile, PageType, Minting
    <2> QED
        BY <1>3, <1>6, <2>1 DEF WriteKeyFile
<1>7. CASE LoseKey \/ RestoreKey
    BY <1>3, <1>7 DEF LoseKey, RestoreKey
<1>8. CASE UNCHANGED vars
    BY <1>3, <1>8 DEF vars
<1>9. CASE Start
    <2>1. page.at = "down" /\ page'.at = "start" /\ load' = [load EXCEPT ![Loop].at = "boot"]
        BY <1>9 DEF Start, At, Idle
    <2>2. load'[Loop].at = "boot" /\ \A t \in Threads : load'[t] = load[t]
        BY <1>1, <1>2, <2>1 DEF LoadType
    <2> QED
        BY <2>1, <2>2 DEF WebInv, LoadsInv, EffectInv, Settled
<1>10. CASE Crash
    <2>1. page'.at = "down" /\ \A t \in Tasks : load'[t].at = "out"
        BY <1>10 DEF Crash, Down, Idle, Away
    <2> QED
        BY <1>2, <2>1 DEF WebInv, LoadsInv, EffectInv, Settled
<1> QED
    BY <1>4, <1>5, <1>6, <1>7, <1>8, <1>9, <1>10 DEF KeyFileStep

\* Between saves the web process works with the layers of the committed table,
\* unless the last reload met another thread's load or a failed read.
THEOREM SavesAlwaysTakeEffect == Spec => []SavesTakeEffect
<1> DEFINE EInv == TypeOK /\ MintInv /\ WebInv
<1>1. Init => EInv
    BY TypeInit, MintInit, WebInit
<1>2. EInv /\ [Next]_vars => EInv'
    <2>1. TypeOK /\ WebInv /\ [Next]_vars => WebInv'
        BY WebLoad, WebPage, WebOther DEF Next, KeyFileStep
    <2> QED
        BY <2>1, TypeNext, MintNext
<1>3. EInv => SavesTakeEffect
    BY DEF WebInv, EffectInv, Settled, SavesTakeEffect
<1> QED
    BY <1>1, <1>2, <1>3, PTL DEF Spec
=============================================================================
