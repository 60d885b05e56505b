---------------------------- MODULE Settings_proofs ----------------------------
(***************************************************************************)
(* Proofs about Settings for any configurations, environments, edits and   *)
(* runs.                                                                   *)
(***************************************************************************)
EXTENDS Settings, SequenceTheorems, TLAPS

-------------------------------------------------------------------------------
\* Configurations.

LEMMA Constants ==
  /\ Pref \subseteq Keys /\ UpdateKey \subseteq Keys /\ OtherKey \subseteq Keys
  /\ {"true", "false", "y", "n", "Y", "", "arg", "now"} \subseteq Values
  /\ Included \in Config
  /\ MaxEdits \in Nat /\ MaxRuns \in Nat
  /\ Env # {} /\ EnvOf \in [Env -> [Pref -> Word]]
  /\ Initial \subseteq Config
  /\ OtherEdits \subseteq Scopes \X Keys \X Seq(Values)
BY SettingsAssumption, ConfigAssumption DEF SettingsAssumption, ConfigAssumption

LEMMA Bounds == MaxEdits \in Nat /\ MaxRuns \in Nat
BY Constants

\* A change of one key of one scope changes this key only.
LEMMA PutOne ==
  ASSUME NEW c \in Config, NEW s \in Scopes, NEW k \in Keys, NEW vals \in Seq(Values)
  PROVE  /\ Put(c, s, k, vals) \in Config
         /\ Put(c, s, k, vals)[s][k] = vals
         /\ \A s2 \in Scopes, k2 \in Keys :
              <<s2, k2>> # <<s, k>> => Put(c, s, k, vals)[s2][k2] = c[s2][k2]
<1>1. c \in [Scopes -> [Keys -> Seq(Values)]] /\ c[s] \in [Keys -> Seq(Values)]
  BY DEF Config
<1>2. [c[s] EXCEPT ![k] = vals] \in [Keys -> Seq(Values)]
  BY <1>1
<1>3. Put(c, s, k, vals) \in Config
  BY <1>1, <1>2 DEF Put, Config
<1>4. Put(c, s, k, vals)[s][k] = vals
  BY <1>1 DEF Put
<1>5. ASSUME NEW s2 \in Scopes, NEW k2 \in Keys, <<s2, k2>> # <<s, k>>
      PROVE  Put(c, s, k, vals)[s2][k2] = c[s2][k2]
  <2>1. CASE s2 = s
    <3>1. k2 # k
      BY <1>5, <2>1
    <3> QED
      BY <1>1, <2>1, <3>1 DEF Put
  <2>2. CASE s2 # s
    BY <1>1, <2>2 DEF Put
  <2> QED
    BY <2>1, <2>2
<1> QED
  BY <1>3, <1>4, <1>5

LEMMA SingleConcat == \A v : <<v>> \o <<>> = <<v>>
OBVIOUS

\* A single value put in its place.
LEMMA PutSingle ==
  ASSUME NEW c \in Config, NEW s \in Scopes, NEW k \in Keys, NEW v \in Values
  PROVE  /\ Put(c, s, k, <<v>>) \in Config
         /\ Put(c, s, k, <<v>>)[s][k] = <<v>>
         /\ \A s2 \in Scopes, k2 \in Keys :
              <<s2, k2>> # <<s, k>> => Put(c, s, k, <<v>>)[s2][k2] = c[s2][k2]
<1> DEFINE vals == <<v>>
<1>1. vals \in Seq(Values)
  OBVIOUS
<1> HIDE DEF vals
<1>2. /\ Put(c, s, k, vals) \in Config
      /\ Put(c, s, k, vals)[s][k] = vals
      /\ \A s2 \in Scopes, k2 \in Keys :
           <<s2, k2>> # <<s, k>> => Put(c, s, k, vals)[s2][k2] = c[s2][k2]
  BY <1>1, PutOne
<1> QED
  BY <1>2 DEF vals

\* The same, of the two settings that a run stores.
LEMMA PutLocal ==
  ASSUME NEW c \in Config, NEW k \in {"trustAll", "registered"}, NEW v \in {"true", "false"},
         NEW d, d = Put(c, "local", k, <<v>>)
  PROVE  /\ d \in Config /\ d["local"][k] = <<v>>
         /\ \A s2 \in Scopes, k2 \in Keys :
              <<s2, k2>> # <<"local", k>> => d[s2][k2] = c[s2][k2]
<1>0. "local" \in Scopes /\ k \in Keys /\ v \in Values
  BY Constants DEF Scopes, Pref, OtherKey
<1>1. d \in Config
  BY <1>0, PutSingle
<1>2. d["local"][k] = <<v>>
  BY <1>0, PutSingle
<1>3. ASSUME NEW s2 \in Scopes, NEW k2 \in Keys, <<s2, k2>> # <<"local", k>>
      PROVE  d[s2][k2] = c[s2][k2]
  BY <1>0, <1>3, PutSingle
<1> QED
  BY <1>1, <1>2, <1>3

LEMMA ListingType ==
  ASSUME NEW f \in Config
  PROVE  /\ Listing(f) \in Config
         /\ \A s \in Scopes, k \in Keys :
              /\ f[s][k] \in Seq(Values) /\ Included[s][k] \in Seq(Values)
              /\ Listing(f)[s][k] = f[s][k] \o Included[s][k]
<1>1. ASSUME NEW s \in Scopes, NEW k \in Keys
      PROVE  /\ f[s][k] \in Seq(Values) /\ Included[s][k] \in Seq(Values)
             /\ f[s][k] \o Included[s][k] \in Seq(Values)
  <2>1. f[s][k] \in Seq(Values) /\ Included[s][k] \in Seq(Values)
    BY Constants DEF Config
  <2> QED
    BY <2>1, ConcatProperties
<1>2. Listing(f) \in Config
  BY <1>1 DEF Listing, Config
<1> QED
  BY <1>1, <1>2 DEF Listing

\* A sequence of at most one value, overwritten.
LEMMA Single ==
  ASSUME NEW S, NEW seq \in Seq(S), NEW v \in S, Len(seq) <= 1, seq # <<>>
  PROVE  [seq EXCEPT ![1] = v] = <<v>>
<1>1. Len(seq) \in Nat /\ Len(seq) # 0 /\ DOMAIN seq = 1 .. Len(seq)
  BY LenProperties, EmptySeq
<1>2. Len(seq) = 1
  BY <1>1
<1>3. 1 \in 1 .. Len(seq)
  BY <1>2
<1> DEFINE d == [seq EXCEPT ![1] = v]
<1>4. d \in Seq(S) /\ Len(d) = Len(seq)
  BY <1>3, ExceptSeq
<1>5. d[1] = v
  BY <1>1, <1>3
<1>6. <<v>> \in Seq(S) /\ Len(<<v>>) = 1 /\ <<v>>[1] = v
  OBVIOUS
<1> HIDE DEF d
<1>7. d = <<v>>
  BY <1>2, <1>4, <1>5, <1>6, SeqEqual
<1> QED
  BY <1>7 DEF d

\* What setting a key that has at most one value does to cache and file.
LEMMA SetOne ==
  ASSUME NEW c \in Config, NEW s \in Scopes, NEW k \in Keys, NEW v \in Values,
         CanCachedSet(c, s, k)
  PROVE  CachedSet(c, s, k, v) = Put(c, s, k, <<v>>)
<1>1. c[s][k] \in Seq(Values)
  BY DEF Config
<1>2. CASE c[s][k] = <<>>
  <2>1. Append(c[s][k], v) = <<v>>
    BY <1>2
  <2> QED
    BY <1>2, <2>1 DEF CachedSet
<1>3. CASE c[s][k] # <<>>
  <2>1. [c[s][k] EXCEPT ![1] = v] = <<v>>
    BY <1>1, <1>3, Single DEF CanCachedSet
  <2> QED
    BY <1>3, <2>1 DEF CachedSet
<1> QED
  BY <1>2, <1>3
-------------------------------------------------------------------------------
\* The commands.

LEMMA Switched ==
  ASSUME NEW op \in SetUnsetReset, NEW s, NEW k, NEW on, NEW off
  PROVE  /\ Switch(op, s, k, on, off).scope = s
         /\ Switch(op, s, k, on, off).key = k
         /\ Switch(op, s, k, on, off).value \in {on, off}
<1>1. CASE op = "set"
  BY <1>1 DEF Switch
<1>2. CASE op = "unset"
  BY <1>2 DEF Switch
<1>3. CASE op = "reset"
  BY <1>3 DEF Switch
<1> QED
  BY <1>1, <1>2, <1>3 DEF SetUnsetReset

\* What a command of one key may be.
Edits(e, scopes, k) ==
  e.scope \in scopes \cup {None} /\ e.key = k /\ e.value \in Values

LEMMA SwitchEdits ==
  ASSUME NEW op \in SetUnsetReset, NEW scopes, NEW s \in scopes \cup {None}, NEW k,
         NEW on \in Values, NEW off \in Values
  PROVE  Edits(Switch(op, s, k, on, off), scopes, k)
BY Switched DEF Edits

LEMMA FlagScope ==
  ASSUME NEW f
  PROVE  wrapToGitScope(f) \in EditScopes \cup {None}
BY DEF wrapToGitScope, EditScopes

LEMMA EachCommand ==
  ASSUME NEW e
  PROVE  /\ e \in configDisableCmd => Edits(e, EditScopes, "disable")
         /\ e \in configContainerizedHooksEnabledCmd => Edits(e, EditScopes, "containerized")
         /\ e \in configSearchDirCmd => Edits(e, {"global"}, "searchDir")
         /\ e \in configCloneURLCmd => Edits(e, {"global"}, "cloneUrl")
         /\ e \in configCloneBranchCmd => Edits(e, {"global"}, "cloneBranch")
         /\ e \in configTrustAllHooksCmd => Edits(e, {"local"}, "trustAll")
         /\ e \in configUpdateCmd => Edits(e, {"global"}, "autoUpdate")
         /\ e \in configUpdateTimeCmd => Edits(e, {"global"}, "timestamp")
         /\ e \in configSharedCmd => Edits(e, EditScopes, "shared")
         /\ e \in configSkipNonExistingSharedHooks => Edits(e, EditScopes, "skipMissing")
         /\ e \in configDisableSharedHooksUpdate => Edits(e, EditScopes, "sharedUpdateDisabled")
         /\ e \in configFailUntrustedHooks => Edits(e, EditScopes, "skipUntrusted")
         /\ e \in configNonInteractiveRunner => Edits(e, EditScopes, "nonInteractive")
         /\ e \in configDetectedLFSCmd => Edits(e, {"global"}, "lfsAnswer")
<1>a. /\ "true" \in Values /\ "false" \in Values /\ "y" \in Values /\ "n" \in Values
      /\ "arg" \in Values /\ "now" \in Values
  BY Constants
<1>b. \A op \in SetReset : op \in SetUnsetReset
  BY DEF SetReset, SetUnsetReset
<1>c. "set" \in SetUnsetReset /\ "reset" \in SetUnsetReset
  BY DEF SetUnsetReset
<1>d. "local" \in EditScopes /\ "global" \in EditScopes
  BY DEF EditScopes
<1>1. e \in configDisableCmd => Edits(e, EditScopes, "disable")
  BY <1>a, <1>b, <1>c, <1>d, SwitchEdits DEF configDisableCmd, RunDisable
<1>2. e \in configContainerizedHooksEnabledCmd => Edits(e, EditScopes, "containerized")
  BY <1>a, <1>b, <1>c, <1>d, SwitchEdits, FlagScope DEF configContainerizedHooksEnabledCmd, runContainerizedHooksEnable
<1>3. e \in configSearchDirCmd => Edits(e, {"global"}, "searchDir")
  BY <1>a, <1>b, <1>c, <1>d, SwitchEdits DEF configSearchDirCmd, runSearchDir
<1>4. e \in configCloneURLCmd => Edits(e, {"global"}, "cloneUrl")
  BY <1>a, <1>b, <1>c, <1>d, SwitchEdits DEF configCloneURLCmd, SetCloneURL
<1>5. e \in configCloneBranchCmd => Edits(e, {"global"}, "cloneBranch")
  BY <1>a, <1>b, <1>c, <1>d, SwitchEdits DEF configCloneBranchCmd, SetCloneBranch
<1>6. e \in configTrustAllHooksCmd => Edits(e, {"local"}, "trustAll")
  BY <1>a, <1>b, <1>c, <1>d, SwitchEdits DEF configTrustAllHooksCmd, SetTrustAllSetting
<1>7. e \in configUpdateCmd => Edits(e, {"global"}, "autoUpdate")
  BY <1>a, <1>b, <1>c, <1>d, SwitchEdits DEF configUpdateCmd, SetAutomaticUpdateCheckSettings
<1>8. e \in configUpdateTimeCmd => Edits(e, {"global"}, "timestamp")
  BY <1>a, <1>b, <1>c, <1>d, SwitchEdits DEF configUpdateTimeCmd, ResetUpdateCheckTimestamp
<1>9. e \in configSharedCmd => Edits(e, EditScopes, "shared")
  BY <1>a, FlagScope DEF configSharedCmd, runSharedRepos, Edits
<1>10. e \in configSkipNonExistingSharedHooks => Edits(e, EditScopes, "skipMissing")
  BY <1>a, <1>b, <1>c, <1>d, SwitchEdits, FlagScope DEF configSkipNonExistingSharedHooks, SetSkipNonExistingSharedHooks
<1>11. e \in configDisableSharedHooksUpdate => Edits(e, EditScopes, "sharedUpdateDisabled")
  BY <1>a, <1>b, <1>c, <1>d, SwitchEdits, FlagScope DEF configDisableSharedHooksUpdate, SetDisableSharedHooksUpdate
<1>12. e \in configFailUntrustedHooks => Edits(e, EditScopes, "skipUntrusted")
  BY <1>a, <1>b, <1>c, <1>d, SwitchEdits, FlagScope DEF configFailUntrustedHooks, SetSkipUntrustedHooks
<1>13. e \in configNonInteractiveRunner => Edits(e, EditScopes, "nonInteractive")
  BY <1>a, <1>b, <1>c, <1>d, SwitchEdits, FlagScope DEF configNonInteractiveRunner, SetRunnerNonInteractive
<1>14. e \in configDetectedLFSCmd => Edits(e, {"global"}, "lfsAnswer")
  BY <1>a, <1>b, <1>c, <1>d, SwitchEdits DEF configDetectedLFSCmd, runDeleteDetectedLFSHooks
<1> QED
  BY <1>1, <1>2, <1>3, <1>4, <1>5, <1>6, <1>7, <1>8, <1>9, <1>10, <1>11, <1>12, <1>13, <1>14

\* A command writes a key of a scope that the uninstaller's lists contain,
\* githooks.disable of a repository excepted.
\* What an update may write, over all modes.
LEMMA UpdateKeys ==
  /\ UpdateKey = InstallKey \cup {"pathForUseCoreHooksPath", "hooksPath", "initTemplateDir",
                                 "manualTemplateDir", "buildFromSource"}
  /\ \A K \in Installed : K \subseteq UpdateKey
<1>1. UNION ModeKeys = {"pathForUseCoreHooksPath", "hooksPath", "initTemplateDir",
                        "manualTemplateDir"}
  BY DEF ModeKeys
<1>2. ASSUME NEW K \in Installed PROVE K \subseteq UpdateKey
  <2>1. PICK mode \in ModeKeys, built \in {{}, {"buildFromSource"}} :
          K = InstallKey \cup mode \cup built
    BY <1>2 DEF Installed
  <2>2. mode \subseteq UNION ModeKeys
    OBVIOUS
  <2> QED
    BY <2>1, <2>2 DEF UpdateKey
<1> QED
  BY <1>1, <1>2 DEF UpdateKey

LEMMA CommandTypes ==
  ASSUME NEW e \in Commands
  PROVE  /\ e.scope \in EditScopes
         /\ e.key \in Keys
         /\ e.value \in Values
         /\ e.scope = "local" => e.key \in GetLocalGitConfigKeys \cup {"disable"}
         /\ e.scope = "global" => e.key \in GetGlobalGitConfigKeys
<1>0. Pref \cup UpdateKey \cup OtherKey \subseteq Keys
  BY Constants
<1>1. e.scope # None
  BY DEF Commands
<1>2. \/ e \in configDisableCmd \/ e \in configContainerizedHooksEnabledCmd
      \/ e \in configSearchDirCmd \/ e \in configCloneURLCmd \/ e \in configCloneBranchCmd
      \/ e \in configTrustAllHooksCmd \/ e \in configUpdateCmd \/ e \in configUpdateTimeCmd
      \/ e \in configSharedCmd \/ e \in configSkipNonExistingSharedHooks
      \/ e \in configDisableSharedHooksUpdate \/ e \in configFailUntrustedHooks
      \/ e \in configNonInteractiveRunner \/ e \in configDetectedLFSCmd
  BY DEF Commands
<1>3. \/ \E k \in {"disable", "containerized", "shared", "skipMissing",
                   "sharedUpdateDisabled", "skipUntrusted", "nonInteractive"} :
           Edits(e, EditScopes, k)
      \/ \E k \in {"searchDir", "cloneUrl", "cloneBranch", "autoUpdate", "timestamp",
                   "lfsAnswer"} : Edits(e, {"global"}, k)
      \/ Edits(e, {"local"}, "trustAll")
  BY <1>2, EachCommand
<1> QED
  BY <1>0, <1>1, <1>3, UpdateKeys DEF Edits, EditScopes, GetLocalGitConfigKeys,
                                      GetGlobalGitConfigKeys, Pref, InstallKey, OtherKey
-------------------------------------------------------------------------------
\* The inductive invariant.

ConfOK == file \in Config /\ cache \in Config

RunOK ==
  /\ pc \in Steps
  /\ env \in Env
  /\ acts \in [Pref -> {"on", "off", "open"}]

\* What is on its way to Git: trustAll or the mark, in the repository.
PendingOK ==
  /\ pc = "store trust" => \E v \in {"true", "false"} : pending = <<"local", "trustAll", v>>
  /\ pc = "store mark" => pending = <<"local", "registered", "true">>
  /\ pc \notin {"store trust", "store mark"} => pending = Nothing

HistoryOK == apart \subseteq Scopes \X Keys /\ own \subseteq apart /\ stale = {}

CountsOK == edits \in 0 .. MaxEdits /\ runs \in 0 .. MaxRuns

TypeInv == ConfOK /\ RunOK /\ PendingOK /\ HistoryOK /\ CountsOK

\* The run and its update write what the rest of the run does not read.
Written == {"global"} \X (UpdateKey \cup {"timestamp"})

OwnOK ==
  /\ own \subseteq Written
  /\ pc \notin {"idle", "installer", "shared"} => own = {}

\* Values of included files are in the cache as well.
IncludedOK ==
  /\ pc = "settings" => \E f \in Config : cache = Listing(f)
  /\ \A s \in Scopes, k \in Keys : cache[s][k] = <<>> => Included[s][k] = <<>>

\* A key is set in the cache only where no included file has a value.
Free(k) == Included["local"][k] = <<>>

SettingOK ==
  /\ pc \in {"prompt", "store trust"} => Free("trustAll")
  /\ pc = "prompt" => ~TrustAllIsSet(cache)
  /\ pc = "store mark" => Free("registered")
  /\ pending # Nothing => cache[pending[1]][pending[2]] = <<pending[3]>>

\* What the run has still to decide.
OpenOK ==
  /\ pc = "settings" => acts = [p \in Pref |-> "open"]
  /\ pc \in {"prompt", "store trust", "trust"} => acts["trustAll"] = "open" /\ env \in Marked
  /\ pc = "trust" => cache["local"]["trustAll"] \in {<<"true">>, <<"false">>}
  /\ pc \notin {"idle", "shared", "check", "installer"} => acts["autoUpdate"] = "open"
  /\ pc # "idle" => acts["sharedUpdateDisabled"] = "open"

IndInv == TypeInv /\ OwnOK /\ IncludedOK /\ SettingOK /\ OpenOK /\ CacheAgrees

LEMMA TypeParts == TypeInv => TypeOK
<1> SUFFICES ASSUME TypeInv PROVE TypeOK
  OBVIOUS
<1>1. IF pc \in {"store trust", "store mark"}
      THEN pending \in {"local"} \X {"trustAll", "registered"} \X {"true", "false"}
      ELSE pending = Nothing
  <2>1. CASE pc = "store trust"
    <3>1. PICK v \in {"true", "false"} : pending = <<"local", "trustAll", v>>
      BY <2>1 DEF TypeInv, PendingOK
    <3> QED
      BY <2>1, <3>1
  <2>2. CASE pc = "store mark"
    <3>1. pending = <<"local", "registered", "true">>
      BY <2>2 DEF TypeInv, PendingOK
    <3> QED
      BY <2>2, <3>1
  <2>3. CASE pc \notin {"store trust", "store mark"}
    BY <2>3 DEF TypeInv, PendingOK
  <2> QED
    BY <2>1, <2>2, <2>3
<1>2. apart \subseteq Scopes \X Keys /\ own \subseteq apart /\ stale \subseteq own
  BY DEF TypeInv, HistoryOK
<1>3. edits \in 0 .. MaxEdits /\ runs \in 0 .. MaxRuns
  BY DEF TypeInv, CountsOK
<1> QED
  BY <1>1, <1>2, <1>3, Zenon DEF TypeInv, ConfOK, RunOK, TypeOK

LEMMA InitInv == Init => IndInv
<1> SUFFICES ASSUME Init PROVE IndInv
  OBVIOUS
<1>1. file \in Config /\ cache = Listing(file) /\ cache \in Config
  BY Constants, ListingType DEF Init
<1>2. env \in Env
  BY Constants DEF Init
<1>3. TypeInv
  <2>1. CountsOK
    BY Bounds DEF Init, CountsOK
  <2> QED
    BY <1>1, <1>2, <2>1 DEF Init, TypeInv, ConfOK, RunOK, PendingOK, HistoryOK, Steps
<1>4. OwnOK /\ OpenOK
  BY DEF Init, OwnOK, OpenOK
<1>5. IncludedOK
  <2>1. ASSUME NEW s \in Scopes, NEW k \in Keys, cache[s][k] = <<>>
        PROVE  Included[s][k] = <<>>
    <3>1. /\ file[s][k] \in Seq(Values) /\ Included[s][k] \in Seq(Values)
          /\ file[s][k] \o Included[s][k] = <<>>
      BY <1>1, <2>1, ListingType
    <3> QED
      BY <3>1, ConcatEqualIffEmpty
  <2> QED
    BY <2>1 DEF Init, IncludedOK
<1>6. SettingOK
  BY DEF Init, SettingOK
<1>7. CacheAgrees
  BY <1>1, ListingType DEF CacheAgrees
<1> QED
  BY <1>3, <1>4, <1>5, <1>6, <1>7 DEF IndInv

-------------------------------------------------------------------------------
\* Edits of others.

\* They concern the file, and what they change is apart from the cache.
EditFrame ==
  /\ file' \in Config
  /\ apart \subseteq apart' /\ apart' \subseteq Scopes \X Keys
  /\ \A s \in Scopes, k \in Keys : <<s, k>> \notin apart' => file'[s][k] = file[s][k]
  /\ edits' \in 0 .. MaxEdits
  /\ UNCHANGED <<cache, pc, env, acts, pending, own, stale, runs>>

LEMMA EditOne ==
  ASSUME TypeInv, NEW s \in Scopes, NEW k \in Keys, NEW vals \in Seq(Values),
         Foreign(s, k), file' = Put(file, s, k, vals)
  PROVE  EditFrame
<1>1. /\ file' \in Config
      /\ \A s2 \in Scopes, k2 \in Keys : <<s2, k2>> # <<s, k>> => file'[s2][k2] = file[s2][k2]
  BY PutOne DEF TypeInv, ConfOK
<1>2. edits' \in 0 .. MaxEdits
  BY Bounds DEF TypeInv, CountsOK, Foreign
<1>3. apart \subseteq apart' /\ apart' \subseteq Scopes \X Keys /\ <<s, k>> \in apart'
  BY DEF TypeInv, HistoryOK, Foreign
<1> QED
  BY <1>1, <1>2, <1>3 DEF Foreign, EditFrame

LEMMA Cleaned ==
  ASSUME TypeInv, NEW s \in EditScopes, NEW gone \in SUBSET Keys,
         file' = [file EXCEPT ![s] = [k \in Keys |-> IF k \in gone THEN <<>> ELSE file[s][k]]]
  PROVE  /\ file' \in Config
         /\ \A s2 \in Scopes, k2 \in Keys :
              <<s2, k2>> \notin {s} \X gone => file'[s2][k2] = file[s2][k2]
         /\ \A k \in gone : file'[s][k] = <<>>
<1>1. file \in [Scopes -> [Keys -> Seq(Values)]] /\ s \in Scopes
  BY DEF TypeInv, ConfOK, Config, EditScopes, Scopes
<1> DEFINE row == [k \in Keys |-> IF k \in gone THEN <<>> ELSE file[s][k]]
<1>2. row \in [Keys -> Seq(Values)]
  BY <1>1
<1>3. file' = [file EXCEPT ![s] = row]
  OBVIOUS
<1>4. \A k \in Keys : row[k] = IF k \in gone THEN <<>> ELSE file[s][k]
  OBVIOUS
<1> HIDE DEF row
<1>5. file' \in Config
  BY <1>1, <1>2, <1>3 DEF Config
<1>6. file'[s] = row /\ \A s2 \in Scopes : s2 # s => file'[s2] = file[s2]
  BY <1>1, <1>3
<1> QED
  BY <1>4, <1>5, <1>6

LEMMA EditSteps ==
  ASSUME TypeInv, ConfigCommand \/ OtherEdit \/ cleanGitConfigInRepo \/ cleanGitConfig
  PROVE  EditFrame
<1>1. CASE ConfigCommand
  <2>1. PICK e \in Commands :
          /\ Foreign(e.scope, e.key)
          /\ \/ file' = GitSet(file, e.scope, e.key, e.value)
             \/ file' = GitAdd(file, e.scope, e.key, e.value)
             \/ file' = GitUnset(file, e.scope, e.key)
    BY <1>1 DEF ConfigCommand
  <2>2. e.scope \in Scopes /\ e.key \in Keys /\ e.value \in Values
    BY CommandTypes DEF EditScopes, Scopes
  <2>3. file[e.scope][e.key] \in Seq(Values)
    BY <2>2 DEF TypeInv, ConfOK, Config
  <2>a. /\ <<e.value>> \in Seq(Values) /\ <<>> \in Seq(Values)
        /\ Append(file[e.scope][e.key], e.value) \in Seq(Values)
    BY <2>2, <2>3
  <2>4. \E vals \in Seq(Values) : file' = Put(file, e.scope, e.key, vals)
    BY <2>1, <2>a DEF GitSet, GitAdd, GitUnset
  <2> QED
    BY <2>1, <2>2, <2>4, EditOne
<1>2. CASE OtherEdit
  <2>1. PICK x \in OtherEdits : Foreign(x[1], x[2]) /\ file' = Put(file, x[1], x[2], x[3])
    BY <1>2 DEF OtherEdit
  <2>2. x[1] \in Scopes /\ x[2] \in Keys /\ x[3] \in Seq(Values)
    BY Constants
  <2> QED
    BY <2>1, <2>2, EditOne
<1>3. CASE cleanGitConfigInRepo
  <2>1. GetLocalGitConfigKeys \subseteq Keys /\ "local" \in EditScopes /\ "local" \in Scopes
    BY Constants, UpdateKeys DEF GetLocalGitConfigKeys, Pref, InstallKey, OtherKey, EditScopes, Scopes
  <2>2. /\ file' \in Config
        /\ \A s2 \in Scopes, k2 \in Keys :
             <<s2, k2>> \notin {"local"} \X GetLocalGitConfigKeys => file'[s2][k2] = file[s2][k2]
    BY <1>3, <2>1, Cleaned DEF cleanGitConfigInRepo
  <2>3. edits' \in 0 .. MaxEdits
    BY <1>3, Bounds DEF TypeInv, CountsOK, cleanGitConfigInRepo
  <2>4. apart' = apart \cup ({"local"} \X GetLocalGitConfigKeys)
        /\ apart' \subseteq Scopes \X Keys
    BY <1>3, <2>1 DEF cleanGitConfigInRepo, TypeInv, HistoryOK
  <2> QED
    BY <1>3, <2>2, <2>3, <2>4 DEF cleanGitConfigInRepo, EditFrame
<1>4. CASE cleanGitConfig
  <2>0. GetGlobalGitConfigKeys \cup {"hooksPath"} \subseteq Keys
        /\ "global" \in EditScopes /\ "global" \in Scopes
    BY Constants, UpdateKeys DEF GetGlobalGitConfigKeys, Pref, InstallKey, OtherKey, EditScopes, Scopes
  <2>1. PICK gone \in SUBSET Keys :
          /\ file' = [file EXCEPT !["global"] =
                       [k \in Keys |-> IF k \in gone THEN <<>> ELSE file["global"][k]]]
          /\ apart' = apart \cup ({"global"} \X gone)
          /\ edits < MaxEdits /\ edits' = edits + 1
          /\ UNCHANGED <<cache, pc, env, acts, pending, own, stale, runs>>
    BY <1>4, <2>0 DEF cleanGitConfig
  <2>2. /\ file' \in Config
        /\ \A s2 \in Scopes, k2 \in Keys :
             <<s2, k2>> \notin {"global"} \X gone => file'[s2][k2] = file[s2][k2]
    BY <2>0, <2>1, Cleaned
  <2>3. edits' \in 0 .. MaxEdits
    BY <2>1, Bounds DEF TypeInv, CountsOK
  <2>4. apart' \subseteq Scopes \X Keys
    BY <2>0, <2>1 DEF TypeInv, HistoryOK
  <2> QED
    BY <2>1, <2>2, <2>3, <2>4 DEF EditFrame
<1> QED
  BY <1>1, <1>2, <1>3, <1>4

LEMMA EditInv == IndInv /\ EditFrame => IndInv'
<1> SUFFICES ASSUME IndInv, EditFrame PROVE IndInv'
  OBVIOUS
<1>1. TypeInv'
  <2>1. ConfOK' /\ RunOK' /\ PendingOK' /\ HistoryOK'
    BY DEF IndInv, EditFrame, TypeInv, ConfOK, RunOK, PendingOK, HistoryOK
  <2>2. CountsOK'
    BY DEF IndInv, EditFrame, TypeInv, CountsOK
  <2> QED
    BY <2>1, <2>2 DEF TypeInv
<1>2. OwnOK' /\ IncludedOK' /\ SettingOK' /\ OpenOK'
  <2>1. TrustAllIsSet(cache)' <=> TrustAllIsSet(cache)
    BY DEF EditFrame, TrustAllIsSet, Get, SetIn, First
  <2> QED
    BY <2>1 DEF IndInv, EditFrame, OwnOK, IncludedOK, SettingOK, OpenOK, Free
<1>3. CacheAgrees'
  <2>1. UNCHANGED <<cache, pending>>
    BY DEF EditFrame
  <2>2. ASSUME NEW s \in Scopes, NEW k \in Keys, <<s, k>> \notin apart',
               pending = Nothing \/ <<s, k>> # <<pending[1], pending[2]>>
        PROVE  cache[s][k] = file'[s][k] \o Included[s][k]
    <3>1. <<s, k>> \notin apart /\ file'[s][k] = file[s][k]
      BY <2>2 DEF EditFrame
    <3>2. cache[s][k] = file[s][k] \o Included[s][k]
      BY <2>2, <3>1 DEF IndInv, CacheAgrees
    <3> QED
      BY <3>1, <3>2
  <2> QED
    BY <2>1, <2>2 DEF CacheAgrees
<1> QED
  BY <1>1, <1>2, <1>3 DEF IndInv

-------------------------------------------------------------------------------
\* Steps of the run that neither file nor cache notice.

LEMMA QuietStep ==
  ASSUME IndInv, UNCHANGED <<file, cache, env, pending, apart, own, counts>>,
         pc \notin {"store trust", "store mark"},
         pc' \in Steps \ {"settings", "store trust", "store mark"},
         acts' \in [Pref -> {"on", "off", "open"}], stale' = {}
  PROVE  TypeInv' /\ IncludedOK' /\ CacheAgrees'
<1>1. ConfOK' /\ RunOK' /\ PendingOK' /\ HistoryOK'
  BY DEF IndInv, TypeInv, ConfOK, RunOK, PendingOK, HistoryOK
<1>2. CountsOK'
  BY DEF IndInv, TypeInv, CountsOK, counts
<1>3. IncludedOK'
  BY DEF IndInv, IncludedOK
<1>4. CacheAgrees'
  BY DEF IndInv, CacheAgrees
<1> QED
  BY <1>1, <1>2, <1>3, <1>4 DEF TypeInv

LEMMA OnOffType == ASSUME NEW b PROVE OnOff(b) \in {"on", "off"}
BY DEF OnOff

LEMMA LocalGet ==
  ASSUME NEW c, NEW k
  PROVE  Get(c, k, "local") = IF c["local"][k] = <<>> THEN NoValue ELSE Last(c["local"][k])
BY DEF Get, Traverse

\* Without a value that counts there is none in an included file: those come
\* last and are not empty.
LEMMA NoneIncluded ==
  ASSUME NEW f \in Config, ~TrustAllIsSet(Listing(f))
  PROVE  Free("trustAll")
<1> DEFINE a == f["local"]["trustAll"]
           b == Included["local"]["trustAll"]
<1>0. "local" \in Scopes /\ "trustAll" \in Keys
  BY Constants DEF Scopes, Pref
<1>1. a \in Seq(Values) /\ b \in Seq(Values) /\ Listing(f)["local"]["trustAll"] = a \o b
  BY <1>0, ListingType
<1>2. \A i \in 1 .. Len(b) : b[i] # ""
  BY <1>0, SettingsAssumption DEF SettingsAssumption
<1>3. NoValue \notin Values
  BY ConfigAssumption DEF ConfigAssumption
<1> SUFFICES ASSUME b # <<>> PROVE FALSE
  BY DEF Free
<1>4. TrustAllIsSet(Listing(f)) <=>
        (IF a \o b = <<>> THEN NoValue ELSE Last(a \o b)) \notin {NoValue, ""}
  BY <1>1, LocalGet DEF TrustAllIsSet
<1> HIDE DEF a, b
<1>5. Len(b) \in Nat /\ Len(b) > 0 /\ Len(a) \in Nat
  BY <1>1, EmptySeq, LenProperties
<1>6. Len(a \o b) = Len(a) + Len(b) /\ (a \o b)[Len(a) + Len(b)] = b[Len(b)]
  BY <1>1, <1>5, ConcatProperties
<1>7. a \o b # <<>>
  BY <1>1, <1>5, ConcatEqualIffEmpty
<1>8. Last(a \o b) = b[Len(b)]
  BY <1>6 DEF Last
<1>9. b[Len(b)] \in Values /\ b[Len(b)] # ""
  <2>1. Len(b) \in 1 .. Len(b)
    BY <1>5
  <2>2. b[Len(b)] \in Values
    BY <1>1, <2>1
  <2> QED
    BY <1>2, <2>1, <2>2
<1> QED
  BY <1>3, <1>4, <1>7, <1>8, <1>9

\* What a run decides at its start.
Decision ==
  [disable        |-> IsGithooksDisabled(cache, env),
   nonInteractive |-> IsRunnerNonInteractive(cache),
   skipMissing    |-> SkipNonExistingSharedHooks(cache, env),
   skipUntrusted  |-> SkipUntrustedHooks(cache, env),
   containerized  |-> IsContainerizedHooksEnabled(cache, env),
   trustAll       |-> IsRepoTrusted(cache, env)]

Deciding == {"disable", "nonInteractive", "skipMissing", "skipUntrusted",
             "containerized", "trustAll"}

LEMMA SettingsStep == IndInv /\ setupSettings => IndInv'
<1> SUFFICES ASSUME IndInv, setupSettings PROVE IndInv'
  OBVIOUS
<1>1. PICK prompt \in BOOLEAN, decided \in SUBSET Deciding :
        /\ prompt => env \in Marked /\ ~TrustAllIsSet(cache)
        /\ prompt => "trustAll" \notin decided
        /\ acts' = [p \in Pref |-> IF p \in decided THEN OnOff(Decision[p]) ELSE acts[p]]
        /\ pc' = IF prompt THEN "prompt" ELSE "register"
        /\ stale' = stale \cup ((Scopes \X Deciding) \cap own)
  BY DEF setupSettings, Decision, Deciding, Reading
<1>2. pc = "settings" /\ UNCHANGED <<file, cache, env, pending, apart, own, counts>>
  BY DEF setupSettings
<1>3. own = {} /\ stale' = {}
  BY <1>1, <1>2 DEF IndInv, OwnOK, TypeInv, HistoryOK
<1>4. /\ acts' \in [Pref -> {"on", "off", "open"}]
      /\ acts'["autoUpdate"] = "open" /\ acts'["sharedUpdateDisabled"] = "open"
      /\ prompt => acts'["trustAll"] = "open"
  BY <1>1, <1>2, OnOffType DEF IndInv, TypeInv, RunOK, OpenOK, Pref, Deciding
<1>5. TypeInv' /\ IncludedOK' /\ CacheAgrees'
  BY <1>1, <1>2, <1>3, <1>4, QuietStep DEF Steps
<1>6. OwnOK'
  BY <1>2, <1>3, <1>1 DEF OwnOK
<1>7. SettingOK'
  <2>1. PICK f \in Config : cache = Listing(f)
    BY <1>2 DEF IndInv, IncludedOK
  <2>2. prompt => Free("trustAll") /\ ~TrustAllIsSet(cache)
    BY <1>1, <2>1, NoneIncluded
  <2>3. pending = Nothing
    BY <1>2 DEF IndInv, TypeInv, PendingOK
  <2>4. ~TrustAllIsSet(cache) => ~TrustAllIsSet(cache)'
    BY <1>2 DEF TrustAllIsSet, Get, SetIn, First
  <2> QED
    BY <1>1, <1>2, <2>2, <2>3, <2>4 DEF SettingOK, Free
<1>8. OpenOK'
  BY <1>1, <1>2, <1>4 DEF OpenOK
<1> QED
  BY <1>5, <1>6, <1>7, <1>8 DEF IndInv

-------------------------------------------------------------------------------
\* A setting on its way: first the cache, then the file.

\* What the first half of SetConfig does, in terms of the value stored.
LEMMA CacheThenGitPuts ==
  ASSUME IndInv, NEW k \in {"trustAll", "registered"}, NEW v \in {"true", "false"}, NEW next,
         CacheThenGit("local", k, v, next)
  PROVE  /\ cache' = Put(cache, "local", k, <<v>>)
         /\ pending' = <<"local", k, v>> /\ pc' = next
         /\ UNCHANGED <<file, env, acts, apart, own, stale, edits, runs>>
<1>1. "local" \in Scopes /\ k \in Keys /\ v \in Values
  BY Constants DEF Scopes, Pref, OtherKey
<1>2. /\ CanCachedSet(cache, "local", k)
      /\ cache' = CachedSet(cache, "local", k, v)
  BY DEF CacheThenGit
<1>3. cache \in Config
  BY DEF IndInv, TypeInv, ConfOK
<1>4. cache' = Put(cache, "local", k, <<v>>)
  BY <1>1, <1>2, <1>3, SetOne
<1> QED
  BY <1>4 DEF CacheThenGit, counts

LEMMA CacheStep ==
  ASSUME IndInv, NEW k \in {"trustAll", "registered"}, NEW v \in {"true", "false"},
         NEW next \in {"store trust", "store mark"},
         next = "store trust" => k = "trustAll",
         next = "store mark" => k = "registered" /\ v = "true",
         pc \in {"prompt", "register"}, Free(k),
         next = "store trust" => pc = "prompt",
         cache' \in Config, cache'["local"][k] = <<v>>,
         \A s2 \in Scopes, k2 \in Keys : <<s2, k2>> # <<"local", k>> => cache'[s2][k2] = cache[s2][k2],
         pending' # Nothing, pending'[1] = "local", pending'[2] = k, pending'[3] = v,
         PendingOK', pc' = next,
         UNCHANGED <<file, env, acts, apart, own, stale, edits, runs>>
  PROVE  IndInv'
<1>0. "local" \in Scopes /\ k \in Keys /\ v \in Values
  BY Constants DEF Scopes, Pref, OtherKey
<1>1. /\ pending' # Nothing /\ pc' = next
      /\ UNCHANGED <<file, env, acts, apart, own, stale, edits, runs>>
  OBVIOUS
<1>2. file \in Config /\ cache \in Config
  BY DEF IndInv, TypeInv, ConfOK
<1>4. /\ cache' \in Config /\ cache'["local"][k] = <<v>>
      /\ \A s2 \in Scopes, k2 \in Keys : <<s2, k2>> # <<"local", k>> => cache'[s2][k2] = cache[s2][k2]
  OBVIOUS
<1>5. pending'[1] = "local" /\ pending'[2] = k /\ pending'[3] = v
  OBVIOUS
<1>6. TypeInv'
  <2>1. ConfOK' /\ RunOK'
    BY <1>1, <1>2, <1>4 DEF ConfOK, RunOK, IndInv, TypeInv, Steps
  <2>2. PendingOK'
    OBVIOUS
  <2>3. HistoryOK'
    BY <1>1 DEF HistoryOK, IndInv, TypeInv
  <2>4. CountsOK'
    BY <1>1 DEF CountsOK, IndInv, TypeInv
  <2> QED
    BY <2>1, <2>2, <2>3, <2>4 DEF TypeInv
<1>7. OwnOK'
  BY <1>1 DEF IndInv, OwnOK
<1>8. IncludedOK'
  <2>1. ASSUME NEW s2 \in Scopes, NEW k2 \in Keys, cache'[s2][k2] = <<>>
        PROVE  Included[s2][k2] = <<>>
    <3>1. <<v>> # <<>>
      OBVIOUS
    <3>2. CASE <<s2, k2>> = <<"local", k>>
      BY <1>4, <2>1, <3>1, <3>2
    <3>3. CASE <<s2, k2>> # <<"local", k>>
      BY <1>4, <2>1, <3>3 DEF IndInv, IncludedOK
    <3> QED
      BY <3>2, <3>3
  <2> QED
    BY <1>1, <2>1 DEF IncludedOK
<1>9. SettingOK'
  BY <1>1, <1>4, <1>5 DEF SettingOK, Free
<1>10. OpenOK'
  BY <1>1 DEF IndInv, OpenOK
<1>11. CacheAgrees'
  <2>1. ASSUME NEW s2 \in Scopes, NEW k2 \in Keys, <<s2, k2>> \notin apart,
               <<s2, k2>> # <<"local", k>>
        PROVE  cache'[s2][k2] = file[s2][k2] \o Included[s2][k2]
    <3>1. pc \notin {"store trust", "store mark"} /\ pending = Nothing
      BY DEF IndInv, TypeInv, PendingOK
    <3>2. cache[s2][k2] = file[s2][k2] \o Included[s2][k2]
      BY <2>1, <3>1 DEF IndInv, CacheAgrees
    <3> QED
      BY <1>4, <2>1, <3>2
  <2>2. pending' # Nothing
    BY <1>1
  <2>3. file' = file /\ apart' = apart
    BY <1>1
  <2> QED
    BY <1>5, <2>1, <2>2, <2>3 DEF CacheAgrees
<1> QED
  BY <1>6, <1>7, <1>8, <1>9, <1>10, <1>11 DEF IndInv

\* The second half.
LEMMA SetPendingPuts ==
  ASSUME NEW k, NEW v, NEW next, pending = <<"local", k, v>>, SetPending(next)
  PROVE  /\ pending' = Nothing /\ pc' = next
         /\ UNCHANGED <<cache, env, acts, own, stale, edits, runs>>
         /\ \/ file' = Put(file, "local", k, <<v>>) /\ apart' = apart
            \/ file' = file /\ apart' = apart \cup {<<"local", k>>}
<1>1. pending[1] = "local" /\ pending[2] = k /\ pending[3] = v
  OBVIOUS
<1> QED
  BY <1>1 DEF SetPending, GitSet, counts

LEMMA StoreStep ==
  ASSUME IndInv, NEW k \in {"trustAll", "registered"}, NEW v \in {"true", "false"},
         NEW next \in {"trust", "update"}, Free(k),
         pending # Nothing, pending[1] = "local", pending[2] = k, pending[3] = v,
         next = "trust" => pc = "store trust" /\ k = "trustAll",
         next = "update" => pc = "store mark",
         pending' = Nothing, pc' = next,
         UNCHANGED <<cache, env, acts, own, stale, edits, runs>>,
         file' \in Config,
         \A s2 \in Scopes, k2 \in Keys : <<s2, k2>> # <<"local", k>> => file'[s2][k2] = file[s2][k2],
         \/ file'["local"][k] = <<v>> /\ apart' = apart
         \/ file' = file /\ apart' = apart \cup {<<"local", k>>}
  PROVE  IndInv'
<1>0. "local" \in Scopes /\ k \in Keys /\ v \in Values
  BY Constants DEF Scopes, Pref, OtherKey
<1>1. /\ pending' = Nothing /\ pc' = next
      /\ UNCHANGED <<cache, env, acts, own, stale, edits, runs>>
  OBVIOUS
<1>2. pending[1] = "local" /\ pending[2] = k /\ pending[3] = v /\ pending # Nothing
  OBVIOUS
<1>3. \/ file'["local"][k] = <<v>> /\ apart' = apart
      \/ file' = file /\ apart' = apart \cup {<<"local", k>>}
  OBVIOUS
<1>4. file \in Config /\ cache \in Config
  BY DEF IndInv, TypeInv, ConfOK
<1>5. /\ file' \in Config
      /\ \A s2 \in Scopes, k2 \in Keys : <<s2, k2>> # <<"local", k>> => file'[s2][k2] = file[s2][k2]
      /\ file'["local"][k] = <<v>> \/ apart' = apart \cup {<<"local", k>>}
  BY <1>3
<1>6. cache["local"][k] = <<v>>
  BY <1>2 DEF IndInv, SettingOK
<1>7. TypeInv'
  <2>1. ConfOK' /\ RunOK'
    BY <1>1, <1>4, <1>5 DEF ConfOK, RunOK, IndInv, TypeInv, Steps
  <2>2. PendingOK'
    BY <1>1 DEF PendingOK
  <2>3. HistoryOK'
    <3>1. apart \subseteq apart' /\ apart' \subseteq apart \cup {<<"local", k>>}
      BY <1>3
    <3>2. <<"local", k>> \in Scopes \X Keys
      BY <1>0
    <3> QED
      BY <1>1, <3>1, <3>2 DEF HistoryOK, IndInv, TypeInv
  <2>4. CountsOK'
    BY <1>1 DEF CountsOK, IndInv, TypeInv
  <2> QED
    BY <2>1, <2>2, <2>3, <2>4 DEF TypeInv
<1>8. OwnOK' /\ IncludedOK' /\ SettingOK'
  BY <1>1 DEF IndInv, OwnOK, IncludedOK, SettingOK
<1>9. OpenOK'
  BY <1>1, <1>6 DEF IndInv, OpenOK
<1>10. CacheAgrees'
  <2>1. ASSUME NEW s2 \in Scopes, NEW k2 \in Keys, <<s2, k2>> \notin apart'
        PROVE  cache[s2][k2] = file'[s2][k2] \o Included[s2][k2]
    <3>1. CASE s2 = "local" /\ k2 = k
      <4>1. file'["local"][k] = <<v>>
        BY <1>5, <2>1, <3>1
      <4>2. Included["local"][k] = <<>>
        BY DEF Free
      <4>3. <<v>> \o <<>> = <<v>>
        BY SingleConcat
      <4> QED
        BY <1>6, <3>1, <4>1, <4>2, <4>3
    <3>2. CASE <<s2, k2>> # <<"local", k>>
      <4>1. <<s2, k2>> \notin apart
        BY <1>3, <2>1
      <4>2. cache[s2][k2] = file[s2][k2] \o Included[s2][k2]
        BY <1>2, <3>2, <4>1 DEF IndInv, CacheAgrees
      <4> QED
        BY <1>5, <3>2, <4>2
    <3> QED
      BY <3>1, <3>2
  <2> QED
    BY <1>1, <2>1 DEF CacheAgrees
<1> QED
  BY <1>7, <1>8, <1>9, <1>10 DEF IndInv

LEMMA TrustSteps == IndInv /\ (showTrustRepoPrompt \/ storeTrust \/ trustAnswer) => IndInv'
<1>1. ASSUME IndInv, showTrustRepoPrompt PROVE IndInv'
  <2>1. PICK v \in {"true", "false"} : CacheThenGit("local", "trustAll", v, "store trust")
    BY <1>1 DEF showTrustRepoPrompt
  <2>2. pc = "prompt" /\ Free("trustAll")
    BY <1>1 DEF showTrustRepoPrompt, IndInv, SettingOK
  <2>3. /\ cache' = Put(cache, "local", "trustAll", <<v>>)
        /\ pending' = <<"local", "trustAll", v>> /\ pc' = "store trust"
        /\ UNCHANGED <<file, env, acts, apart, own, stale, edits, runs>>
    BY <1>1, <2>1, CacheThenGitPuts
  <2>4. /\ cache' \in Config /\ cache'["local"]["trustAll"] = <<v>>
        /\ \A s2 \in Scopes, k2 \in Keys :
             <<s2, k2>> # <<"local", "trustAll">> => cache'[s2][k2] = cache[s2][k2]
    <3>1. cache \in Config
      BY <1>1 DEF IndInv, TypeInv, ConfOK
    <3>2. cache' = Put(cache, "local", "trustAll", <<v>>)
      BY <2>3
    <3> QED
      BY <3>1, <3>2, PutLocal
  <2>5. /\ pending' # Nothing /\ pending'[1] = "local" /\ pending'[2] = "trustAll"
        /\ pending'[3] = v /\ PendingOK'
    BY <2>3 DEF Nothing, PendingOK
  <2> QED
    BY <1>1, <2>2, <2>3, <2>4, <2>5, CacheStep
<1>2. ASSUME IndInv, storeTrust PROVE IndInv'
  <2>1. pc = "store trust" /\ SetPending("trust") /\ Free("trustAll")
    BY <1>2 DEF storeTrust, IndInv, SettingOK
  <2>2. PICK v \in {"true", "false"} : pending = <<"local", "trustAll", v>>
    BY <1>2, <2>1 DEF IndInv, TypeInv, PendingOK
  <2>3. /\ pending' = Nothing /\ pc' = "trust"
        /\ UNCHANGED <<cache, env, acts, own, stale, edits, runs>>
        /\ \/ file' = Put(file, "local", "trustAll", <<v>>) /\ apart' = apart
           \/ file' = file /\ apart' = apart \cup {<<"local", "trustAll">>}
    BY <2>1, <2>2, SetPendingPuts
  <2>4. pending # Nothing /\ pending[1] = "local" /\ pending[2] = "trustAll" /\ pending[3] = v
    BY <2>2 DEF Nothing
  <2>5. CASE file' = Put(file, "local", "trustAll", <<v>>) /\ apart' = apart
    <3>1. file \in Config
      BY <1>2 DEF IndInv, TypeInv, ConfOK
    <3>2. /\ file' \in Config /\ file'["local"]["trustAll"] = <<v>>
          /\ \A s2 \in Scopes, k2 \in Keys :
               <<s2, k2>> # <<"local", "trustAll">> => file'[s2][k2] = file[s2][k2]
      BY <2>5, <3>1, PutLocal
    <3> QED
      BY <1>2, <2>1, <2>3, <2>4, <2>5, <3>2, StoreStep
  <2>6. CASE file' = file /\ apart' = apart \cup {<<"local", "trustAll">>}
    <3>1. file' \in Config
      BY <1>2, <2>6 DEF IndInv, TypeInv, ConfOK
    <3> QED
      BY <1>2, <2>1, <2>3, <2>4, <2>6, <3>1, StoreStep
  <2> QED
    BY <2>3, <2>5, <2>6
<1>3. ASSUME IndInv, trustAnswer PROVE IndInv'
  <2>1. /\ pc \in {"prompt", "trust"} /\ pc' = "register"
        /\ acts' = [acts EXCEPT !["trustAll"] =
                      OnOff(pc = "trust" /\ IsTrue(Get(cache, "trustAll", "local")))]
        /\ UNCHANGED <<file, cache, env, pending, apart, own, stale, counts>>
    BY <1>3 DEF trustAnswer
  <2>2. acts' \in [Pref -> {"on", "off", "open"}]
    BY <1>3, <2>1, OnOffType DEF IndInv, TypeInv, RunOK
  <2>3. /\ acts'["autoUpdate"] = acts["autoUpdate"]
        /\ acts'["sharedUpdateDisabled"] = acts["sharedUpdateDisabled"]
    BY <1>3, <2>1 DEF IndInv, TypeInv, RunOK, Pref
  <2>4. TypeInv' /\ IncludedOK' /\ CacheAgrees'
    <3>1. stale' = {}
      BY <1>3, <2>1 DEF IndInv, TypeInv, HistoryOK
    <3> QED
      BY <1>3, <2>1, <2>2, <3>1, QuietStep DEF Steps
  <2>5. OwnOK'
    BY <1>3, <2>1 DEF IndInv, OwnOK
  <2>6. SettingOK'
    BY <1>3, <2>1 DEF SettingOK, IndInv, TypeInv, PendingOK
  <2>7. OpenOK'
    BY <1>3, <2>1, <2>3 DEF IndInv, OpenOK
  <2> QED
    BY <2>4, <2>5, <2>6, <2>7 DEF IndInv
<1> QED
  BY <1>1, <1>2, <1>3

LEMMA MarkSteps == IndInv /\ (assertRegistered \/ MarkRepoRegistered \/ storeMark) => IndInv'
<1>1. ASSUME IndInv, assertRegistered PROVE IndInv'
  <2>1. /\ pc = "register" /\ pc' = "update"
        /\ stale' = stale \cup ((Scopes \X {"registered", "hooksPath"}) \cap own)
        /\ UNCHANGED <<file, cache, env, acts, pending, apart, own, counts>>
    BY <1>1 DEF assertRegistered, Reading
  <2>2. own = {} /\ stale' = {}
    BY <1>1, <2>1 DEF IndInv, OwnOK, TypeInv, HistoryOK
  <2>3. acts' \in [Pref -> {"on", "off", "open"}]
    BY <1>1, <2>1 DEF IndInv, TypeInv, RunOK
  <2>4. TypeInv' /\ IncludedOK' /\ CacheAgrees'
    BY <1>1, <2>1, <2>2, <2>3, QuietStep DEF Steps
  <2>5. OwnOK' /\ OpenOK'
    BY <1>1, <2>1, <2>2 DEF IndInv, OwnOK, OpenOK
  <2>6. SettingOK'
    BY <1>1, <2>1 DEF SettingOK, IndInv, TypeInv, PendingOK
  <2> QED
    BY <2>4, <2>5, <2>6 DEF IndInv
<1>2. ASSUME IndInv, MarkRepoRegistered PROVE IndInv'
  <2>1. pc = "register" /\ CacheThenGit("local", "registered", "true", "store mark")
    BY <1>2 DEF MarkRepoRegistered
  <2>2. Free("registered")
    <3>1. ~IsSet(cache, "registered", "local")
      BY <1>2 DEF MarkRepoRegistered, isRegistered
    <3>2. (IF cache["local"]["registered"] = <<>> THEN NoValue
           ELSE Last(cache["local"]["registered"])) = NoValue
      BY <3>1, LocalGet DEF IsSet
    <3>3. cache["local"]["registered"] \in Seq(Values)
          /\ "local" \in Scopes /\ "registered" \in Keys
      BY <1>2, Constants DEF IndInv, TypeInv, ConfOK, Config, Scopes, OtherKey
    <3>4. cache["local"]["registered"] = <<>>
      <4> DEFINE vals == cache["local"]["registered"]
      <4>1. NoValue \notin Values
        BY ConfigAssumption DEF ConfigAssumption
      <4>2. vals \in Seq(Values) /\ (vals # <<>> => Last(vals) = NoValue)
        BY <3>2, <3>3
      <4> HIDE DEF vals
      <4>3. ASSUME vals # <<>> PROVE FALSE
        <5>1. Len(vals) \in Nat /\ Len(vals) # 0
          BY <4>2, <4>3, EmptySeq, LenProperties
        <5>2. vals[Len(vals)] \in Values
          BY <4>2, <5>1
        <5> QED
          BY <4>1, <4>2, <4>3, <5>2 DEF Last
      <4> QED
        BY <4>3 DEF vals
    <3> QED
      BY <1>2, <3>3, <3>4 DEF IndInv, IncludedOK, Free
  <2>3. /\ cache' = Put(cache, "local", "registered", <<"true">>)
        /\ pending' = <<"local", "registered", "true">> /\ pc' = "store mark"
        /\ UNCHANGED <<file, env, acts, apart, own, stale, edits, runs>>
    BY <1>2, <2>1, CacheThenGitPuts
  <2>4. /\ cache' \in Config /\ cache'["local"]["registered"] = <<"true">>
        /\ \A s2 \in Scopes, k2 \in Keys :
             <<s2, k2>> # <<"local", "registered">> => cache'[s2][k2] = cache[s2][k2]
    <3>1. cache \in Config
      BY <1>2 DEF IndInv, TypeInv, ConfOK
    <3>2. cache' = Put(cache, "local", "registered", <<"true">>)
      BY <2>3
    <3> QED
      BY <3>1, <3>2, PutLocal
  <2>5. /\ pending' # Nothing /\ pending'[1] = "local" /\ pending'[2] = "registered"
        /\ pending'[3] = "true" /\ PendingOK'
    BY <2>3 DEF Nothing, PendingOK
  <2> QED
    BY <1>2, <2>1, <2>2, <2>3, <2>4, <2>5, CacheStep
<1>3. ASSUME IndInv, storeMark PROVE IndInv'
  <2>1. pc = "store mark" /\ SetPending("update") /\ Free("registered")
    BY <1>3 DEF storeMark, IndInv, SettingOK
  <2>2. pending = <<"local", "registered", "true">>
    BY <1>3, <2>1 DEF IndInv, TypeInv, PendingOK
  <2>3. /\ pending' = Nothing /\ pc' = "update"
        /\ UNCHANGED <<cache, env, acts, own, stale, edits, runs>>
        /\ \/ file' = Put(file, "local", "registered", <<"true">>) /\ apart' = apart
           \/ file' = file /\ apart' = apart \cup {<<"local", "registered">>}
    BY <2>1, <2>2, SetPendingPuts
  <2>4. pending # Nothing /\ pending[1] = "local" /\ pending[2] = "registered"
        /\ pending[3] = "true"
    BY <2>2 DEF Nothing
  <2>5. CASE file' = Put(file, "local", "registered", <<"true">>) /\ apart' = apart
    <3>1. file \in Config
      BY <1>3 DEF IndInv, TypeInv, ConfOK
    <3>2. /\ file' \in Config /\ file'["local"]["registered"] = <<"true">>
          /\ \A s2 \in Scopes, k2 \in Keys :
               <<s2, k2>> # <<"local", "registered">> => file'[s2][k2] = file[s2][k2]
      BY <2>5, <3>1, PutLocal
    <3> QED
      BY <1>3, <2>1, <2>3, <2>4, <2>5, <3>2, StoreStep
  <2>6. CASE file' = file /\ apart' = apart \cup {<<"local", "registered">>}
    <3>1. file' \in Config
      BY <1>3, <2>6 DEF IndInv, TypeInv, ConfOK
    <3> QED
      BY <1>3, <2>1, <2>3, <2>4, <2>6, <3>1, StoreStep
  <2> QED
    BY <2>3, <2>5, <2>6
<1> QED
  BY <1>1, <1>2, <1>3

-------------------------------------------------------------------------------
\* The update, the shared hooks and the ends of a run.

LEMMA AskSteps ==
  IndInv /\ (disabledRun \/ skipUpdate \/ shouldRunUpdateCheck \/ updateSharedHooks) => IndInv'
<1>1. ASSUME IndInv, disabledRun \/ skipUpdate PROVE IndInv'
  <2>1. /\ pc = "update" /\ pc' \in {"idle", "shared"}
        /\ UNCHANGED <<file, cache, env, acts, pending, apart, own, stale, counts>>
    BY <1>1 DEF disabledRun, skipUpdate
  <2>2. acts' \in [Pref -> {"on", "off", "open"}] /\ stale' = {}
    BY <1>1, <2>1 DEF IndInv, TypeInv, RunOK, HistoryOK
  <2>3. TypeInv' /\ IncludedOK' /\ CacheAgrees'
    BY <1>1, <2>1, <2>2, QuietStep DEF Steps
  <2>4. OwnOK' /\ OpenOK'
    BY <1>1, <2>1 DEF IndInv, OwnOK, OpenOK
  <2>5. SettingOK'
    BY <1>1, <2>1 DEF SettingOK, IndInv, TypeInv, PendingOK
  <2> QED
    BY <2>3, <2>4, <2>5 DEF IndInv
<1>2. ASSUME IndInv, shouldRunUpdateCheck PROVE IndInv'
  <2>1. /\ pc = "update" /\ pc' \in {"check", "shared"}
        /\ \E b : acts' = [acts EXCEPT !["autoUpdate"] = OnOff(b)]
        /\ stale' = stale \cup (({"global"} \X {"autoUpdate", "timestamp", "usePrerelease"}) \cap own)
        /\ UNCHANGED <<file, cache, env, pending, apart, own, counts>>
    BY <1>2 DEF shouldRunUpdateCheck, Reading
  <2>2. own = {} /\ stale' = {}
    BY <1>2, <2>1 DEF IndInv, OwnOK, TypeInv, HistoryOK
  <2>3. acts' \in [Pref -> {"on", "off", "open"}]
        /\ acts'["sharedUpdateDisabled"] = acts["sharedUpdateDisabled"]
    BY <1>2, <2>1, OnOffType DEF IndInv, TypeInv, RunOK, Pref
  <2>4. TypeInv' /\ IncludedOK' /\ CacheAgrees'
    BY <1>2, <2>1, <2>2, <2>3, QuietStep DEF Steps
  <2>5. OwnOK' /\ OpenOK'
    BY <1>2, <2>1, <2>2, <2>3 DEF IndInv, OwnOK, OpenOK
  <2>6. SettingOK'
    BY <1>2, <2>1 DEF SettingOK, IndInv, TypeInv, PendingOK
  <2> QED
    BY <2>4, <2>5, <2>6 DEF IndInv
<1>3. ASSUME IndInv, updateSharedHooks PROVE IndInv'
  <2>1. /\ pc = "shared" /\ pc' = "idle"
        /\ \E b : acts' = [acts EXCEPT !["sharedUpdateDisabled"] = OnOff(b)]
        /\ stale' = stale \cup ((Scopes \X {"sharedUpdateDisabled", "sharedTriggers",
                                            "shared", "numThreads"}) \cap own)
        /\ UNCHANGED <<file, cache, env, pending, apart, own, counts>>
    BY <1>3 DEF updateSharedHooks, Reading
  <2>2. stale' = {}
    <3>1. own \subseteq Written /\ stale = {}
      BY <1>3 DEF IndInv, OwnOK, TypeInv, HistoryOK
    <3> QED
      BY <2>1, <3>1, UpdateKeys DEF Written, InstallKey
  <2>3. acts' \in [Pref -> {"on", "off", "open"}]
    BY <1>3, <2>1, OnOffType DEF IndInv, TypeInv, RunOK, Pref
  <2>4. TypeInv' /\ IncludedOK' /\ CacheAgrees'
    BY <1>3, <2>1, <2>2, <2>3, QuietStep DEF Steps
  <2>5. OwnOK' /\ OpenOK'
    BY <1>3, <2>1 DEF IndInv, OwnOK, OpenOK
  <2>6. SettingOK'
    BY <1>3, <2>1 DEF SettingOK, IndInv, TypeInv, PendingOK
  <2> QED
    BY <2>4, <2>5, <2>6 DEF IndInv
<1> QED
  BY <1>1, <1>2, <1>3

\* A step that writes global keys beside the cache.
LEMMA BesideStep ==
  ASSUME IndInv, NEW K \in SUBSET (UpdateKey \cup {"timestamp"}),
         pc \in {"check", "installer"}, pc' \in {"installer", "shared"},
         file' \in Config,
         \A s \in Scopes, k \in Keys :
           <<s, k>> \notin {"global"} \X K => file'[s][k] = file[s][k],
         apart' = apart \cup ({"global"} \X K), own' = own \cup ({"global"} \X K),
         UNCHANGED <<cache, env, acts, pending, stale, edits, runs>>
  PROVE  IndInv'
<1>1. K \subseteq Keys /\ "global" \in Scopes
  BY Constants DEF OtherKey, Scopes
<1>2. pending = Nothing
  BY DEF IndInv, TypeInv, PendingOK
<1>3. TypeInv'
  <2>1. ConfOK' /\ RunOK' /\ PendingOK'
    BY <1>2 DEF IndInv, TypeInv, ConfOK, RunOK, PendingOK, Steps
  <2>2. HistoryOK'
    BY <1>1 DEF IndInv, TypeInv, HistoryOK
  <2>3. CountsOK'
    BY DEF IndInv, TypeInv, CountsOK
  <2> QED
    BY <2>1, <2>2, <2>3 DEF TypeInv
<1>4. OwnOK'
  BY DEF IndInv, OwnOK, Written
<1>5. IncludedOK' /\ OpenOK'
  BY DEF IndInv, IncludedOK, OpenOK
<1>6. SettingOK'
  BY <1>2 DEF SettingOK
<1>7. CacheAgrees'
  <2>1. ASSUME NEW s \in Scopes, NEW k \in Keys, <<s, k>> \notin apart'
        PROVE  cache[s][k] = file'[s][k] \o Included[s][k]
    <3>1. <<s, k>> \notin apart /\ file'[s][k] = file[s][k]
      BY <2>1
    <3>2. cache[s][k] = file[s][k] \o Included[s][k]
      BY <1>2, <3>1 DEF IndInv, CacheAgrees
    <3> QED
      BY <3>1, <3>2
  <2> QED
    BY <2>1 DEF CacheAgrees
<1> QED
  BY <1>3, <1>4, <1>5, <1>6, <1>7 DEF IndInv

LEMMA UpdateSteps == IndInv /\ (RecordUpdateCheckTimestamp \/ runUpdate) => IndInv'
<1>1. ASSUME IndInv, RecordUpdateCheckTimestamp PROVE IndInv'
  <2>1. CASE /\ Beside({"timestamp"}, GitSet(file, "global", "timestamp", "now"))
             /\ pc' = "installer"
    <3>0. file \in Config /\ "global" \in Scopes /\ "timestamp" \in Keys /\ "now" \in Values
      BY <1>1, Constants DEF IndInv, TypeInv, ConfOK, Scopes, OtherKey
    <3>1. file' = Put(file, "global", "timestamp", <<"now">>)
      BY <2>1 DEF Beside, GitSet
    <3>2. /\ file' \in Config
          /\ \A s \in Scopes, k \in Keys :
               <<s, k>> # <<"global", "timestamp">> => file'[s][k] = file[s][k]
      BY <3>0, <3>1, PutSingle
    <3>3. \A s \in Scopes, k \in Keys :
             <<s, k>> \notin {"global"} \X {"timestamp"} => file'[s][k] = file[s][k]
      BY <3>2
    <3>4. /\ pc = "check" /\ pc' = "installer"
          /\ apart' = apart \cup ({"global"} \X {"timestamp"})
          /\ own' = own \cup ({"global"} \X {"timestamp"})
          /\ UNCHANGED <<cache, env, acts, pending, stale, edits, runs>>
      BY <1>1, <2>1 DEF RecordUpdateCheckTimestamp, Beside, counts
    <3>5. {"timestamp"} \in SUBSET (UpdateKey \cup {"timestamp"})
      OBVIOUS
    <3> QED
      BY <1>1, <3>2, <3>3, <3>4, <3>5, BesideStep
  <2>2. CASE Beside({}, file) /\ pc' = "shared"
    <3>1. /\ pc = "check" /\ pc' = "shared" /\ file' = file
          /\ apart' = apart \cup ({"global"} \X {}) /\ own' = own \cup ({"global"} \X {})
          /\ UNCHANGED <<cache, env, acts, pending, stale, edits, runs>>
      BY <1>1, <2>2 DEF RecordUpdateCheckTimestamp, Beside, counts
    <3>2. file' \in Config /\ {} \in SUBSET (UpdateKey \cup {"timestamp"})
      BY <1>1, <3>1 DEF IndInv, TypeInv, ConfOK
    <3> QED
      BY <1>1, <3>1, <3>2, BesideStep
  <2> QED
    BY <1>1, <2>1, <2>2 DEF RecordUpdateCheckTimestamp
<1>2. ASSUME IndInv, runUpdate PROVE IndInv'
  <2>1. PICK K \in {{}, {"cloneUrl", "cloneBranch"}} \cup Installed :
          Beside(K, [file EXCEPT !["global"] =
                      [k \in Keys |-> IF k \in K THEN <<"arg">> ELSE file["global"][k]]])
    BY <1>2 DEF runUpdate
  <2>2. /\ file' = [file EXCEPT !["global"] =
                      [k \in Keys |-> IF k \in K THEN <<"arg">> ELSE file["global"][k]]]
        /\ apart' = apart \cup ({"global"} \X K) /\ own' = own \cup ({"global"} \X K)
        /\ UNCHANGED <<cache, env, acts, pending, stale, edits, runs>>
    BY <2>1 DEF Beside, counts
  <2>3. K \in SUBSET (UpdateKey \cup {"timestamp"})
    BY <2>1, UpdateKeys DEF InstallKey
  <2>4. /\ file' \in Config
        /\ \A s \in Scopes, k \in Keys :
             <<s, k>> \notin {"global"} \X K => file'[s][k] = file[s][k]
    <3>1. file \in [Scopes -> [Keys -> Seq(Values)]] /\ "global" \in Scopes
      BY <1>2 DEF IndInv, TypeInv, ConfOK, Config, Scopes
    <3> DEFINE row == [k \in Keys |-> IF k \in K THEN <<"arg">> ELSE file["global"][k]]
    <3>2. <<"arg">> \in Seq(Values)
      <4>1. "arg" \in Values
        BY Constants
      <4>2. \A v \in Values : <<v>> \in Seq(Values)
        OBVIOUS
      <4> QED
        BY <4>1, <4>2
    <3>3. row \in [Keys -> Seq(Values)]
      BY <3>1, <3>2
    <3>4. \A k \in Keys : k \notin K => row[k] = file["global"][k]
      OBVIOUS
    <3>5. file' = [file EXCEPT !["global"] = row]
      BY <2>2
    <3> HIDE DEF row
    <3>6. file' \in Config
      BY <3>1, <3>3, <3>5 DEF Config
    <3>7. file'["global"] = row /\ \A s \in Scopes : s # "global" => file'[s] = file[s]
      BY <3>1, <3>5
    <3> QED
      BY <3>4, <3>6, <3>7
  <2>5. pc = "installer" /\ pc' = "shared"
    BY <1>2 DEF runUpdate
  <2> QED
    BY <1>2, <2>2, <2>3, <2>4, <2>5, BesideStep
<1> QED
  BY <1>1, <1>2

LEMMA BeginStep == IndInv /\ InitConfigCache => IndInv'
<1> SUFFICES ASSUME IndInv, InitConfigCache PROVE IndInv'
  OBVIOUS
<1>1. /\ pc = "idle" /\ pc' = "settings" /\ env' \in Env
      /\ cache' = Listing(file) /\ file' = file /\ file \in Config
      /\ acts' = [p \in Pref |-> "open"]
      /\ apart' = {} /\ own' = {} /\ UNCHANGED <<pending, stale, edits>>
  BY DEF InitConfigCache, IndInv, TypeInv, ConfOK
<1>2. pending = Nothing
  BY <1>1 DEF IndInv, TypeInv, PendingOK
<1>3. /\ cache' \in Config
      /\ \A s \in Scopes, k \in Keys :
           /\ file[s][k] \in Seq(Values) /\ Included[s][k] \in Seq(Values)
           /\ cache'[s][k] = file[s][k] \o Included[s][k]
  BY <1>1, ListingType
<1>4. TypeInv'
  <2>1. ConfOK' /\ PendingOK' /\ HistoryOK'
    BY <1>1, <1>2, <1>3 DEF IndInv, TypeInv, ConfOK, PendingOK, HistoryOK
  <2>2. RunOK'
    BY <1>1 DEF RunOK, Steps
  <2>3. CountsOK'
    BY <1>1, Bounds DEF InitConfigCache, IndInv, TypeInv, CountsOK
  <2> QED
    BY <2>1, <2>2, <2>3 DEF TypeInv
<1>5. OwnOK' /\ OpenOK'
  BY <1>1 DEF OwnOK, OpenOK, Pref
<1>6. IncludedOK'
  <2>1. ASSUME NEW s \in Scopes, NEW k \in Keys, cache'[s][k] = <<>>
        PROVE  Included[s][k] = <<>>
    <3>1. /\ file[s][k] \in Seq(Values) /\ Included[s][k] \in Seq(Values)
          /\ file[s][k] \o Included[s][k] = <<>>
      BY <1>3, <2>1
    <3> QED
      BY <3>1, ConcatEqualIffEmpty
  <2> QED
    BY <1>1, <2>1 DEF IncludedOK
<1>7. SettingOK'
  BY <1>1, <1>2 DEF SettingOK
<1>8. CacheAgrees'
  BY <1>1, <1>3 DEF CacheAgrees
<1> QED
  BY <1>4, <1>5, <1>6, <1>7, <1>8 DEF IndInv

LEMMA PendingPlace ==
  ASSUME PendingOK
  PROVE  /\ pc = "store trust" => pending[1] = "local" /\ pending[2] = "trustAll"
         /\ pc = "store mark" => pending[1] = "local" /\ pending[2] = "registered"
<1>1. ASSUME pc = "store trust" PROVE pending[1] = "local" /\ pending[2] = "trustAll"
  <2>1. PICK v \in {"true", "false"} : pending = <<"local", "trustAll", v>>
    BY <1>1 DEF PendingOK
  <2> QED
    BY <2>1
<1>2. ASSUME pc = "store mark" PROVE pending[1] = "local" /\ pending[2] = "registered"
  <2>1. pending = <<"local", "registered", "true">>
    BY <1>2 DEF PendingOK
  <2> QED
    BY <2>1
<1> QED
  BY <1>1, <1>2

LEMMA DieStep == IndInv /\ RunDies => IndInv'
<1> SUFFICES ASSUME IndInv, RunDies PROVE IndInv'
  OBVIOUS
<1>1. /\ pc' = "idle" /\ pending' = Nothing
      /\ apart' = apart \cup IF pending = Nothing THEN {} ELSE {<<pending[1], pending[2]>>}
      /\ UNCHANGED <<file, cache, env, acts, own, stale, edits, runs>>
  BY DEF RunDies, counts
<1>2. pending # Nothing => <<pending[1], pending[2]>> \in Scopes \X Keys
  <2>0. pending # Nothing => pc \in {"store trust", "store mark"}
    BY DEF IndInv, TypeInv, PendingOK
  <2>1. pending # Nothing => pending[1] = "local" /\ pending[2] \in {"trustAll", "registered"}
    <3>1. ASSUME pc = "store trust" PROVE pending[1] = "local" /\ pending[2] = "trustAll"
      BY <3>1, PendingPlace DEF IndInv, TypeInv
    <3>2. ASSUME pc = "store mark" PROVE pending[1] = "local" /\ pending[2] = "registered"
      BY <3>2, PendingPlace DEF IndInv, TypeInv
    <3> QED
      BY <2>0, <3>1, <3>2
  <2>2. "local" \in Scopes /\ "trustAll" \in Keys /\ "registered" \in Keys
    BY Constants DEF Scopes, Pref, OtherKey
  <2> QED
    BY <2>1, <2>2
<1>3. TypeInv'
  <2>1. ConfOK' /\ RunOK' /\ PendingOK'
    BY <1>1 DEF IndInv, TypeInv, ConfOK, RunOK, PendingOK, Steps
  <2>2. HistoryOK'
    BY <1>1, <1>2 DEF IndInv, TypeInv, HistoryOK
  <2>3. CountsOK'
    BY <1>1 DEF IndInv, TypeInv, CountsOK
  <2> QED
    BY <2>1, <2>2, <2>3 DEF TypeInv
<1>4. OwnOK' /\ IncludedOK' /\ OpenOK'
  BY <1>1 DEF IndInv, OwnOK, IncludedOK, OpenOK
<1>5. SettingOK'
  BY <1>1 DEF SettingOK
<1>6. CacheAgrees'
  <2>1. ASSUME NEW s \in Scopes, NEW k \in Keys, <<s, k>> \notin apart'
        PROVE  cache[s][k] = file[s][k] \o Included[s][k]
    <3>1. <<s, k>> \notin apart /\ (pending = Nothing \/ <<s, k>> # <<pending[1], pending[2]>>)
      BY <1>1, <2>1
    <3> QED
      BY <3>1 DEF IndInv, CacheAgrees
  <2> QED
    BY <1>1, <2>1 DEF CacheAgrees
<1> QED
  BY <1>3, <1>4, <1>5, <1>6 DEF IndInv

LEMMA StepInv == IndInv /\ [Next]_vars => IndInv'
<1> SUFFICES ASSUME IndInv, [Next]_vars PROVE IndInv'
  OBVIOUS
<1>1. CASE Next
  <2>1. CASE ConfigCommand \/ OtherEdit \/ cleanGitConfigInRepo \/ cleanGitConfig
    BY <2>1, EditSteps, EditInv DEF IndInv
  <2>2. CASE InitConfigCache
    BY <2>2, BeginStep
  <2>3. CASE setupSettings
    BY <2>3, SettingsStep
  <2>4. CASE showTrustRepoPrompt \/ storeTrust \/ trustAnswer
    BY <2>4, TrustSteps
  <2>5. CASE assertRegistered \/ MarkRepoRegistered \/ storeMark
    BY <2>5, MarkSteps
  <2>6. CASE disabledRun \/ skipUpdate \/ shouldRunUpdateCheck \/ updateSharedHooks
    BY <2>6, AskSteps
  <2>7. CASE RecordUpdateCheckTimestamp \/ runUpdate
    BY <2>7, UpdateSteps
  <2>8. CASE RunDies
    BY <2>8, DieStep
  <2> QED
    BY <1>1, <2>1, <2>2, <2>3, <2>4, <2>5, <2>6, <2>7, <2>8 DEF Next
<1>2. CASE UNCHANGED vars
  <2>1. UNCHANGED <<file, cache, pc, env, acts, pending, apart, own, stale, edits, runs>>
    BY <1>2 DEF vars, run, counts
  <2>2. TypeInv' /\ OwnOK' /\ CacheAgrees'
    BY <2>1 DEF IndInv, TypeInv, ConfOK, RunOK, PendingOK, HistoryOK, CountsOK, OwnOK,
                CacheAgrees
  <2>3. TrustAllIsSet(cache)' <=> TrustAllIsSet(cache)
    BY <2>1 DEF TrustAllIsSet, Get, SetIn, First
  <2>4. IncludedOK' /\ SettingOK' /\ OpenOK'
    BY <2>1, <2>3 DEF IndInv, IncludedOK, SettingOK, OpenOK, Free
  <2> QED
    BY <2>2, <2>4 DEF IndInv
<1> QED
  BY <1>1, <1>2

LEMMA Inductive == Spec => []IndInv
BY InitInv, StepInv, PTL DEF Spec

-------------------------------------------------------------------------------
\* The theorems.

(* Every variable keeps its type, and a value is on its way to Git exactly *)
(* in the steps that store it. *)
THEOREM TypeCorrect == Spec => []TypeOK
<1>1. IndInv => TypeOK
  BY TypeParts DEF IndInv
<1> QED
  BY <1>1, Inductive, PTL

(* What the runner has in its cache of a key that nobody changed beside it *)
(* is what Git lists, whatever is in the files and in those they include.  *)
THEOREM CacheIsCurrent == Spec => []CacheAgrees
<1>1. IndInv => CacheAgrees
  BY DEF IndInv
<1> QED
  BY <1>1, Inductive, PTL

(* A run never reads from its cache what it, or the installer it started,  *)
(* has written beside it. *)
THEOREM ReadsNothingStale == Spec => []NoStaleRead
<1>1. IndInv => NoStaleRead
  BY DEF IndInv, TypeInv, HistoryOK, NoStaleRead
<1> QED
  BY <1>1, Inductive, PTL

(* What a run reads is what Git would list, but for changes by others. *)
THEOREM ReadsAreCurrent == Spec => []ReadsAgree
BY CacheIsCurrent, ReadsNothingStale, PTL DEF ReadsAgree

LEMMA WrittenIsListed ==
  /\ KeysWritten("local") \ Survivors("local") \subseteq GetLocalGitConfigKeys
  /\ KeysWritten("global") \ Survivors("global") \subseteq
       GetGlobalGitConfigKeys \cup {"hooksPath"}
<1>1. ASSUME NEW k \in KeysWritten("local") \ Survivors("local")
      PROVE  k \in GetLocalGitConfigKeys
  <2>1. CASE k \in {"registered", "maintainedHooks"}
    BY <2>1 DEF GetLocalGitConfigKeys
  <2>2. CASE k \notin {"registered", "maintainedHooks"}
    <3>1. PICK e \in Commands : e.scope = "local" /\ e.key = k
      BY <1>1, <2>2 DEF KeysWritten
    <3> QED
      BY <1>1, <3>1, CommandTypes DEF Survivors
  <2> QED
    BY <2>1, <2>2
<1>2. ASSUME NEW k \in KeysWritten("global") \ Survivors("global")
      PROVE  k \in GetGlobalGitConfigKeys \cup {"hooksPath"}
  <2>1. CASE k \in {"timestamp"} \cup UpdateKey
    BY <1>2, <2>1, UpdateKeys DEF GetGlobalGitConfigKeys, InstallKey, Survivors
  <2>2. CASE k \notin {"timestamp"} \cup UpdateKey
    <3>1. PICK e \in Commands : e.scope = "global" /\ e.key = k
      BY <1>2, <2>2 DEF KeysWritten
    <3> QED
      BY <3>1, CommandTypes
  <2> QED
    BY <2>1, <2>2
<1> QED
  BY <1>1, <1>2

(* Of what commands, runs, installations and updates may write, the        *)
(* uninstaller leaves nothing in the scope it cleans but the survivors     *)
(* which are in none of its lists (a repository's githooks.disable, the    *)
(* global init.templateDir) and a core.hooksPath somebody else has set.    *)
THEOREM Forgets == Spec => UninstallForgets
<1> DEFINE gone ==
      /\ cleanGitConfigInRepo =>
           \A k \in KeysWritten("local") \ Survivors("local") : file'["local"][k] = <<>>
      /\ cleanGitConfig =>
           \A k \in KeysWritten("global") \ (Survivors("global") \cup Kept(Listing(file))) :
              file'["global"][k] = <<>>
<1>1. ASSUME TypeInv PROVE gone
  <2>1. ASSUME cleanGitConfigInRepo, NEW k \in KeysWritten("local") \ Survivors("local")
        PROVE  file'["local"][k] = <<>>
    <3>1. GetLocalGitConfigKeys \in SUBSET Keys /\ "local" \in EditScopes
      BY Constants, UpdateKeys DEF GetLocalGitConfigKeys, Pref, InstallKey,
                       OtherKey, EditScopes
    <3>2. \A k2 \in GetLocalGitConfigKeys : file'["local"][k2] = <<>>
      BY <1>1, <2>1, <3>1, Cleaned DEF cleanGitConfigInRepo
    <3> QED
      BY <2>1, <3>2, WrittenIsListed
  <2>2. ASSUME cleanGitConfig,
               NEW k \in KeysWritten("global") \ (Survivors("global") \cup Kept(Listing(file)))
        PROVE  file'["global"][k] = <<>>
    <3>1. GetGlobalGitConfigKeys \cup {"hooksPath"} \subseteq Keys /\ "global" \in EditScopes
      BY Constants, UpdateKeys DEF GetGlobalGitConfigKeys, Pref, InstallKey,
                       OtherKey, EditScopes
    <3>2. PICK away \in SUBSET Keys :
            /\ GetGlobalGitConfigKeys \subseteq away
            /\ Kept(Listing(file)) = {} => "hooksPath" \in away
            /\ file' = [file EXCEPT !["global"] =
                         [k2 \in Keys |-> IF k2 \in away THEN <<>> ELSE file["global"][k2]]]
      BY <2>2, <3>1 DEF cleanGitConfig, Kept
    <3>3. \A k2 \in away : file'["global"][k2] = <<>>
      BY <1>1, <3>1, <3>2, Cleaned
    <3>4. k = "hooksPath" => Kept(Listing(file)) = {}
      BY <2>2 DEF Kept
    <3> QED
      BY <2>2, <3>2, <3>3, <3>4, WrittenIsListed
  <2> QED
    BY <2>1, <2>2
<1>2. IndInv => TypeInv
  BY DEF IndInv
<1> HIDE DEF gone
<1>3. Spec => [][gone]_vars
  BY <1>1, <1>2, Inductive, PTL DEF Spec
<1> QED
  BY <1>3 DEF gone, UninstallForgets

-------------------------------------------------------------------------------
\* What the scopes say, and what the runner makes of it.

Words(c) == [s \in Scopes |-> [p \in Pref |-> Meaning(p, c[s][p])]]

LEMMA MeaningWord == ASSUME NEW p, NEW vals PROVE Meaning(p, vals) \in Word
BY DEF Meaning, OnOff, Word

LEMMA WordsType == ASSUME NEW c PROVE Words(c) \in [Scopes -> [Pref -> Word]]
BY MeaningWord DEF Words

LEMMA SaidKnown == Known = Words(cache) /\ Said = Words(Listing(file))
<1>1. Known = Words(cache)
  BY DEF Known, Words
<1>2. \A s \in Scopes, p \in Pref : Listing(file)[s][p] = file[s][p] \o Included[s][p]
  BY Constants DEF Listing
<1>3. Said = Words(Listing(file))
  BY <1>2 DEF Said, Words
<1> QED
  BY <1>1, <1>3

\* The first place of Precedence with a value is the one that Get returns.
LEMMA FirstIn ==
  ASSUME NEW S \in SUBSET (1 .. 5), S # {}
  PROVE  First(S) \in S
<1>1. \E i \in S : \A j \in S : i <= j
  <2>1. CASE 1 \in S
    BY <2>1
  <2>2. CASE 1 \notin S /\ 2 \in S
    BY <2>2
  <2>3. CASE 1 \notin S /\ 2 \notin S /\ 3 \in S
    BY <2>3
  <2>4. CASE 1 \notin S /\ 2 \notin S /\ 3 \notin S /\ 4 \in S
    BY <2>4
  <2>5. CASE 1 \notin S /\ 2 \notin S /\ 3 \notin S /\ 4 \notin S
    <3>0. \A j \in S : j = 5
      <4> TAKE j \in S
      <4>1. j \in 1 .. 5 /\ j # 1 /\ j # 2 /\ j # 3 /\ j # 4
        BY <2>5
      <4> QED
        BY <4>1
    <3>1. 5 \in S /\ \A j \in S : j = 5
      BY <3>0
    <3> QED
      BY <3>1
  <2> QED
    BY <2>1, <2>2, <2>3, <2>4, <2>5
<1> QED
  BY <1>1 DEF First

LEMMA PrecedenceIn == \A i \in 1 .. 5 : Precedence[i] \in Scopes /\ Precedence[i] # Traverse
BY DEF Precedence, Scopes, Traverse

LEMMA Traversed ==
  ASSUME NEW c, NEW k
  PROVE  /\ SetIn(c, k) = {} => Get(c, k, Traverse) = NoValue
         /\ SetIn(c, k) # {} =>
              /\ First(SetIn(c, k)) \in SetIn(c, k)
              /\ Get(c, k, Traverse) = Last(c[Precedence[First(SetIn(c, k))]][k])
<1>1. SetIn(c, k) \in SUBSET (1 .. 5)
  BY DEF SetIn
<1>2. ASSUME SetIn(c, k) # {}
      PROVE  /\ First(SetIn(c, k)) \in SetIn(c, k)
             /\ Get(c, k, Traverse) = Last(c[Precedence[First(SetIn(c, k))]][k])
  <2> DEFINE i == First(SetIn(c, k))
  <2>1. i \in SetIn(c, k) /\ i \in 1 .. 5
    BY <1>1, <1>2, FirstIn
  <2>2. c[Precedence[i]][k] # <<>>
    BY <2>1 DEF SetIn
  <2> QED
    BY <1>2, <2>1, <2>2, PrecedenceIn DEF Get
<1>3. SetIn(c, k) = {} => Get(c, k, Traverse) = NoValue
  BY DEF Get
<1> QED
  BY <1>2, <1>3

\* A value that turns a preference on.
Turns(p, v) == IsTrue(v) \/ (p = "disable" /\ v \in {"y", "Y"})

Traversing == Pref \ {"trustAll", "autoUpdate"}

LEMMA EffectiveTraversed ==
  ASSUME NEW c, NEW e, NEW p \in Traversing
  PROVE  P!Effective(Words(c), e, p) =
           IF Overrides[e][p] # "unsaid" THEN Overrides[e][p]
           ELSE OnOff(Turns(p, Get(c, p, Traverse)))
<1>1. p \in Pref /\ ScopesOf[p] = Precedence
  BY DEF Traversing, ScopesOf, Pref
<1>2. \A i \in 1 .. 5 :
        /\ Words(c)[Precedence[i]][p] = Meaning(p, c[Precedence[i]][p])
        /\ Words(c)[Precedence[i]][p] # "unsaid" <=> c[Precedence[i]][p] # <<>>
  <2> TAKE i \in 1 .. 5
  <2>1. Precedence[i] \in Scopes
    BY PrecedenceIn
  <2>2. Words(c)[Precedence[i]][p] = Meaning(p, c[Precedence[i]][p])
    BY <1>1, <2>1 DEF Words
  <2>3. Meaning(p, c[Precedence[i]][p]) # "unsaid" <=> c[Precedence[i]][p] # <<>>
    BY DEF Meaning, OnOff, Traversing
  <2> QED
    BY <2>2, <2>3
<1>3. P!Places(Words(c), p) = SetIn(c, p)
  <2>1. DOMAIN Precedence = 1 .. 5
    BY DEF Precedence
  <2>2. P!Places(Words(c), p) =
          {i \in DOMAIN ScopesOf[p] : Words(c)[ScopesOf[p][i]][p] # "unsaid"}
    BY DEF P!Places
  <2> QED
    BY <1>1, <1>2, <2>1, <2>2 DEF SetIn
<1>4. P!Least(SetIn(c, p)) = First(SetIn(c, p))
  BY DEF P!Least, First
<1>5. P!Effective(Words(c), e, p) =
        IF Overrides[e][p] # "unsaid" THEN Overrides[e][p]
        ELSE IF SetIn(c, p) = {} THEN "off"
        ELSE Words(c)[Precedence[First(SetIn(c, p))]][p]
  BY <1>1, <1>3, <1>4 DEF P!Effective
<1>6. CASE SetIn(c, p) = {}
  <2>1. ~Turns(p, NoValue)
    BY DEF Turns, IsTrue, NoValue
  <2> QED
    BY <1>5, <1>6, <2>1, Traversed DEF OnOff
<1>7. CASE SetIn(c, p) # {}
  <2> DEFINE i == First(SetIn(c, p))
  <2>1. i \in SetIn(c, p) /\ Get(c, p, Traverse) = Last(c[Precedence[i]][p])
    BY <1>7, Traversed
  <2>2. i \in 1 .. 5 /\ c[Precedence[i]][p] # <<>>
    BY <2>1 DEF SetIn
  <2>3. Words(c)[Precedence[i]][p] = Meaning(p, c[Precedence[i]][p])
    BY <1>2, <2>2
  <2>4. Meaning(p, c[Precedence[i]][p]) = OnOff(Turns(p, Last(c[Precedence[i]][p])))
    BY <2>2 DEF Meaning, Turns, Traversing
  <2> QED
    BY <1>5, <1>7, <2>1, <2>3, <2>4
<1> QED
  BY <1>6, <1>7

\* A preference of one scope.
LEMMA EffectiveOne ==
  ASSUME NEW c, NEW e, NEW p \in Pref, NEW s \in Scopes, ScopesOf[p] = <<s>>
  PROVE  P!Effective(Words(c), e, p) =
           IF Overrides[e][p] # "unsaid" THEN Overrides[e][p]
           ELSE IF Meaning(p, c[s][p]) = "unsaid" THEN "off" ELSE Meaning(p, c[s][p])
<1>1. Words(c)[s][p] = Meaning(p, c[s][p])
  BY DEF Words
<1>2. DOMAIN <<s>> = {1} /\ <<s>>[1] = s
  OBVIOUS
<1>3. P!Places(Words(c), p) =
        {i \in DOMAIN ScopesOf[p] : Words(c)[ScopesOf[p][i]][p] # "unsaid"}
  BY DEF P!Places
<1>4. P!Places(Words(c), p) = IF Meaning(p, c[s][p]) = "unsaid" THEN {} ELSE {1}
  BY <1>1, <1>2, <1>3
<1>5. P!Least({1}) = 1
  <2>1. \E i \in {1} : \A j \in {1} : i <= j
    OBVIOUS
  <2> QED
    BY <2>1 DEF P!Least
<1>6. {1} # {}
  OBVIOUS
<1>7. CASE Meaning(p, c[s][p]) = "unsaid"
  BY <1>4, <1>7 DEF P!Effective
<1>8. CASE Meaning(p, c[s][p]) # "unsaid"
  BY <1>1, <1>2, <1>4, <1>5, <1>6, <1>8 DEF P!Effective
<1> QED
  BY <1>7, <1>8

LEMMA TrustEffective ==
  ASSUME NEW c, NEW e \in Env
  PROVE  P!Effective(Words(c), e, "trustAll") = OnOff(IsRepoTrusted(c, e))
<1>1. /\ "trustAll" \in Pref /\ "local" \in Scopes /\ ScopesOf["trustAll"] = <<"local">>
  BY DEF Pref, Scopes, ScopesOf
<1>2. Overrides[e]["trustAll"] = IF e \in Marked THEN "unsaid" ELSE "off"
  BY DEF Overrides, Pref
<1> DEFINE vals == c["local"]["trustAll"]
           m == Meaning("trustAll", vals)
<1>3. P!Effective(Words(c), e, "trustAll") =
        IF Overrides[e]["trustAll"] # "unsaid" THEN Overrides[e]["trustAll"]
        ELSE IF m = "unsaid" THEN "off" ELSE m
  BY <1>1, EffectiveOne
<1>4. Get(c, "trustAll", "local") = IF vals = <<>> THEN NoValue ELSE Last(vals)
  BY LocalGet
<1>5. (IF m = "unsaid" THEN "off" ELSE m) = OnOff(IsTrue(Get(c, "trustAll", "local")))
  BY <1>4 DEF Meaning, OnOff, IsTrue, NoValue
<1> QED
  BY <1>2, <1>3, <1>5 DEF IsRepoTrusted, OnOff

LEMMA AutoEffective ==
  ASSUME NEW c, NEW e \in Env
  PROVE  P!Effective(Words(c), e, "autoUpdate") = OnOff(GetAutomaticUpdateCheckSettings(c))
<1>1. /\ "autoUpdate" \in Pref /\ "global" \in Scopes /\ ScopesOf["autoUpdate"] = <<"global">>
  BY DEF Pref, Scopes, ScopesOf
<1>2. Overrides[e]["autoUpdate"] = "unsaid"
  BY DEF Overrides, Pref
<1> DEFINE vals == c["global"]["autoUpdate"]
           m == Meaning("autoUpdate", vals)
<1>3. P!Effective(Words(c), e, "autoUpdate") =
        IF Overrides[e]["autoUpdate"] # "unsaid" THEN Overrides[e]["autoUpdate"]
        ELSE IF m = "unsaid" THEN "off" ELSE m
  BY <1>1, EffectiveOne
<1>4. Get(c, "autoUpdate", "global") = IF vals = <<>> THEN NoValue ELSE Last(vals)
  BY DEF Get, Traverse
<1>5. (IF m = "unsaid" THEN "off" ELSE m) = OnOff(IsTrue(Get(c, "autoUpdate", "global")))
  BY <1>4 DEF Meaning, OnOff, IsTrue, NoValue
<1> QED
  BY <1>2, <1>3, <1>5 DEF GetAutomaticUpdateCheckSettings

LEMMA SharedEffective ==
  ASSUME NEW c, NEW e \in Env
  PROVE  P!Effective(Words(c), e, "sharedUpdateDisabled") = OnOff(IsSharedHooksUpdateDisabled(c))
<1>1. "sharedUpdateDisabled" \in Traversing
  BY DEF Traversing, Pref
<1>2. Overrides[e]["sharedUpdateDisabled"] = "unsaid"
  BY DEF Overrides, Pref
<1>3. P!Effective(Words(c), e, "sharedUpdateDisabled") =
        OnOff(Turns("sharedUpdateDisabled", Get(c, "sharedUpdateDisabled", Traverse)))
  BY <1>1, <1>2, EffectiveTraversed
<1>4. Turns("sharedUpdateDisabled", Get(c, "sharedUpdateDisabled", Traverse))
        <=> IsSharedHooksUpdateDisabled(c)
  BY DEF Turns, IsSharedHooksUpdateDisabled
<1> QED
  BY <1>3, <1>4 DEF OnOff

\* What a run decides at its start is what counts.
LEMMA Decides ==
  ASSUME env \in Env, NEW p \in Deciding
  PROVE  OnOff(Decision[p]) = P!Effective(Words(cache), env, p)
<1>0. \A q \in Pref : EnvOf[env][q] \in Word
  BY Constants
<1>1. CASE p \in {"disable", "containerized"}
  <2>1. p \in Traversing /\ p \in Pref
    BY <1>1 DEF Traversing, Pref
  <2>2. Overrides[env][p] = IF EnvOf[env][p] = "on" THEN "on" ELSE "unsaid"
    BY <1>1, <2>1 DEF Overrides
  <2>3. Decision[p] <=> EnvOf[env][p] = "on" \/ Turns(p, Get(cache, p, Traverse))
    BY <1>1 DEF Decision, IsGithooksDisabled, IsContainerizedHooksEnabled, Turns, IsTrue
  <2>4. P!Effective(Words(cache), env, p) =
          IF Overrides[env][p] # "unsaid" THEN Overrides[env][p]
          ELSE OnOff(Turns(p, Get(cache, p, Traverse)))
    BY <2>1, EffectiveTraversed
  <2> QED
    BY <2>2, <2>3, <2>4 DEF OnOff
<1>2. CASE p \in {"skipMissing", "skipUntrusted"}
  <2>1. p \in Traversing /\ p \in Pref
    BY <1>2 DEF Traversing, Pref
  <2>2. Overrides[env][p] = EnvOf[env][p] /\ EnvOf[env][p] \in {"on", "off", "unsaid"}
    BY <1>0, <1>2, <2>1 DEF Overrides, Word
  <2>3. Decision[p] <=> IF EnvOf[env][p] # "unsaid" THEN EnvOf[env][p] = "on"
                        ELSE Turns(p, Get(cache, p, Traverse))
    <3>1. ASSUME p = "skipMissing"
          PROVE  Decision[p] = SkipNonExistingSharedHooks(cache, env)
      BY <3>1 DEF Decision
    <3>2. ASSUME p = "skipUntrusted"
          PROVE  Decision[p] = SkipUntrustedHooks(cache, env)
      BY <3>2 DEF Decision
    <3>3. Turns(p, Get(cache, p, Traverse)) <=> IsTrue(Get(cache, p, Traverse))
      BY <1>2 DEF Turns
    <3>4. CASE p = "skipMissing"
      BY <3>1, <3>3, <3>4 DEF SkipNonExistingSharedHooks
    <3>5. CASE p = "skipUntrusted"
      BY <3>2, <3>3, <3>5 DEF SkipUntrustedHooks
    <3> QED
      BY <1>2, <3>4, <3>5
  <2>4. P!Effective(Words(cache), env, p) =
          IF Overrides[env][p] # "unsaid" THEN Overrides[env][p]
          ELSE OnOff(Turns(p, Get(cache, p, Traverse)))
    BY <2>1, EffectiveTraversed
  <2> QED
    BY <2>2, <2>3, <2>4 DEF OnOff
<1>3. CASE p = "nonInteractive"
  <2>1. p \in Traversing /\ p \in Pref
    BY <1>3 DEF Traversing, Pref
  <2>2. Overrides[env][p] = "unsaid"
    BY <1>3, <2>1 DEF Overrides
  <2>3. Decision[p] <=> Turns(p, Get(cache, p, Traverse))
    BY <1>3 DEF Decision, IsRunnerNonInteractive, Turns
  <2>4. P!Effective(Words(cache), env, p) =
          IF Overrides[env][p] # "unsaid" THEN Overrides[env][p]
          ELSE OnOff(Turns(p, Get(cache, p, Traverse)))
    BY <2>1, EffectiveTraversed
  <2> QED
    BY <2>2, <2>3, <2>4 DEF OnOff
<1>4. CASE p = "trustAll"
  <2>1. OnOff(Decision[p]) = OnOff(IsRepoTrusted(cache, env))
    BY <1>4 DEF Decision
  <2> QED
    BY <1>4, <2>1, TrustEffective
<1> QED
  BY <1>1, <1>2, <1>3, <1>4 DEF Deciding

-------------------------------------------------------------------------------
\* Every step is one that Preferences allows.

\* Said and Known take their values from file and cache.
LEMMA KnownFollows ==
  /\ cache' = cache => Known' = Known
  /\ file' = file => Said' = Said
  /\ Known' = Words(cache') /\ Said' = Words(Listing(file'))
<1>1. Known' = [s \in Scopes |-> [p \in Pref |-> Meaning(p, cache'[s][p])]]
  BY DEF Known, Meaning, OnOff, IsTrue, Last
<1>2. Said' = [s \in Scopes |-> [p \in Pref |-> Meaning(p, file'[s][p] \o Included[s][p])]]
  BY DEF Said, Meaning, OnOff, IsTrue, Last
<1>3. \A s \in Scopes, p \in Pref : Listing(file')[s][p] = file'[s][p] \o Included[s][p]
  BY Constants DEF Listing
<1>4. Known' = Words(cache') /\ Said' = Words(Listing(file'))
  BY <1>1, <1>2, <1>3 DEF Words
<1> QED
  BY <1>1, <1>2, <1>4 DEF Known, Said

LEMMA SaySteps ==
  ASSUME UNCHANGED <<cache, env, acts>>
  PROVE  P!Next \/ UNCHANGED P!vars
<1>1. Said' \in [Scopes -> [Pref -> Word]] /\ Known' = Known
  BY KnownFollows, WordsType
<1>2. P!Say
  BY <1>1 DEF P!Say, P!Word, Word
<1> QED
  BY <1>2 DEF P!Next

LEMMA ActSteps ==
  ASSUME UNCHANGED <<file, cache, env>>, acts' \in [Pref -> {"on", "off", "open"}],
         \A p \in Pref : acts'[p] # acts[p] =>
           acts[p] = "open" /\ acts'[p] = P!Effective(Words(cache), env, p)
  PROVE  P!Next
<1>1. Said' = Said /\ Known' = Known /\ Known = Words(cache)
  BY KnownFollows, SaidKnown
<1>2. \A p \in Pref : acts'[p] # acts[p] =>
         acts[p] = "open" /\ acts'[p] = P!Effective(Known, env, p)
  BY <1>1
<1>3. acts' \in [Pref -> {"open", "on", "off"}]
  OBVIOUS
<1>4. P!Act
  BY <1>1, <1>2, <1>3, Zenon DEF P!Act
<1> QED
  BY <1>4 DEF P!Next

LEMMA InitMaps == Init => P!Init
<1> SUFFICES ASSUME Init PROVE P!Init
  OBVIOUS
<1>1. Said = Words(Listing(file)) /\ Known = Said
  BY SaidKnown DEF Init
<1>2. Said \in [Scopes -> [Pref -> Word]]
  BY <1>1, WordsType
<1>3. env \in DOMAIN Overrides
  BY Constants DEF Init, Overrides
<1>4. acts = [p \in Pref |-> "open"]
  BY DEF Init
<1> QED
  BY <1>1, <1>2, <1>3, <1>4 DEF P!Init, P!Word, Word

LEMMA BeginMaps == IndInv /\ InitConfigCache => P!Next
<1> SUFFICES ASSUME IndInv, InitConfigCache PROVE P!Next
  OBVIOUS
<1>1. /\ file' = file /\ cache' = Listing(file) /\ env' \in Env
      /\ acts' = [p \in Pref |-> "open"]
  BY DEF InitConfigCache
<1>2. Said' = Said /\ Known' = Said
  BY <1>1, KnownFollows, SaidKnown
<1>3. env' \in DOMAIN Overrides
  BY <1>1 DEF Overrides
<1>4. P!Begin
  BY <1>1, <1>2, <1>3 DEF P!Begin
<1> QED
  BY <1>4 DEF P!Next

LEMMA SettingsMaps == IndInv /\ setupSettings => P!Next
<1> SUFFICES ASSUME IndInv, setupSettings PROVE P!Next
  OBVIOUS
<1>1. PICK decided \in SUBSET Deciding :
        acts' = [p \in Pref |-> IF p \in decided THEN OnOff(Decision[p]) ELSE acts[p]]
  BY DEF setupSettings, Decision, Deciding
<1>2. pc = "settings" /\ UNCHANGED <<file, cache, env>>
  BY DEF setupSettings
<1>3. env \in Env /\ acts \in [Pref -> {"on", "off", "open"}]
  BY DEF IndInv, TypeInv, RunOK
<1>4. acts' \in [Pref -> {"on", "off", "open"}]
  BY <1>1, <1>3, OnOffType
<1>5. ASSUME NEW p \in Pref, acts'[p] # acts[p]
      PROVE  acts[p] = "open" /\ acts'[p] = P!Effective(Words(cache), env, p)
  <2>1. p \in Deciding /\ acts'[p] = OnOff(Decision[p])
    BY <1>1, <1>5
  <2>2. acts[p] = "open"
    BY <1>2 DEF IndInv, OpenOK
  <2> QED
    BY <1>3, <2>1, <2>2, Decides
<1> QED
  BY <1>2, <1>4, <1>5, ActSteps

LEMMA PromptMaps == IndInv /\ showTrustRepoPrompt => P!Next
<1> SUFFICES ASSUME IndInv, showTrustRepoPrompt PROVE P!Next
  OBVIOUS
<1>1. PICK v \in {"true", "false"} : CacheThenGit("local", "trustAll", v, "store trust")
  BY DEF showTrustRepoPrompt
<1>2. /\ cache' = Put(cache, "local", "trustAll", <<v>>)
      /\ UNCHANGED <<file, env, acts>>
  BY <1>1, CacheThenGitPuts
<1>3. "local" \in Scopes /\ "trustAll" \in Pref /\ "trustAll" \in Keys /\ Pref \subseteq Keys
  BY Constants DEF Scopes, Pref
<1>4. /\ cache'["local"]["trustAll"] = <<v>>
      /\ \A s2 \in Scopes, k2 \in Keys :
           <<s2, k2>> # <<"local", "trustAll">> => cache'[s2][k2] = cache[s2][k2]
  <2>1. cache \in Config
    BY DEF IndInv, TypeInv, ConfOK
  <2>2. cache' = Put(cache, "local", "trustAll", <<v>>)
    BY <1>2
  <2> QED
    BY <2>1, <2>2, PutLocal
<1>5. Known = Words(cache) /\ Known' = Words(cache')
  BY SaidKnown, KnownFollows
<1> DEFINE w == OnOff(v = "true")
<1>6. Words(cache)["local"]["trustAll"] = "unsaid"
  <2> DEFINE vals == cache["local"]["trustAll"]
  <2>1. ~TrustAllIsSet(cache)
    BY DEF IndInv, SettingOK, showTrustRepoPrompt
  <2>2. (IF vals = <<>> THEN NoValue ELSE Last(vals)) \in {NoValue, ""}
    BY <2>1, LocalGet DEF TrustAllIsSet
  <2>3. vals \in Seq(Values) /\ NoValue \notin Values
    BY <1>3, ConfigAssumption DEF IndInv, TypeInv, ConfOK, Config, ConfigAssumption
  <2> HIDE DEF vals
  <2>4. vals = <<>> \/ Last(vals) = ""
    <3>1. ASSUME vals # <<>>, Last(vals) = NoValue PROVE FALSE
      <4>1. Len(vals) \in Nat /\ Len(vals) # 0
        BY <2>3, <3>1, EmptySeq, LenProperties
      <4>2. vals[Len(vals)] \in Values
        BY <2>3, <4>1
      <4> QED
        BY <2>3, <3>1, <4>2 DEF Last
    <3> QED
      BY <2>2, <3>1
  <2>5. Meaning("trustAll", vals) = "unsaid"
    BY <2>4 DEF Meaning
  <2> QED
    BY <1>3, <2>5 DEF Words, vals
<1>7. Words(cache')["local"]["trustAll"] = w
  <2>1. Meaning("trustAll", <<v>>) = w
    BY DEF Meaning, Last, IsTrue
  <2> QED
    BY <1>3, <1>4, <2>1 DEF Words
<1>8. ASSUME NEW s \in Scopes, NEW p \in Pref, <<s, p>> # <<"local", "trustAll">>
      PROVE  Words(cache')[s][p] = Words(cache)[s][p]
  <2>1. cache'[s][p] = cache[s][p]
    BY <1>3, <1>4, <1>8
  <2> QED
    BY <2>1 DEF Words
<1> HIDE DEF w
<1>9. Known' = [Known EXCEPT !["local"]["trustAll"] = w]
  <2>1. /\ Words(cache) \in [Scopes -> [Pref -> Word]]
        /\ Words(cache') \in [Scopes -> [Pref -> Word]]
    BY WordsType
  <2> DEFINE a == Words(cache)
             b == Words(cache')
             d == [a EXCEPT !["local"]["trustAll"] = w]
  <2>2. /\ d \in [Scopes -> [Pref -> Word \cup {w}]]
        /\ \A s \in Scopes, p \in Pref :
             d[s][p] = IF s = "local" /\ p = "trustAll" THEN w ELSE a[s][p]
    <3> HIDE DEF a
    <3> QED
      BY <1>3, <2>1 DEF a
  <2>3. \A s \in Scopes, p \in Pref : b[s][p] = d[s][p]
    <3> TAKE s \in Scopes, p \in Pref
    <3>1. CASE s = "local" /\ p = "trustAll"
      BY <1>7, <2>2, <3>1
    <3>2. CASE ~(s = "local" /\ p = "trustAll")
      BY <1>8, <2>2, <3>2
    <3> QED
      BY <3>1, <3>2
  <2> HIDE DEF a, b, d
  <2>4. b = d
    <3>1. b \in [Scopes -> [Pref -> Word]]
      BY <2>1 DEF b
    <3>2. \A s \in Scopes : b[s] = d[s]
      BY <2>2, <2>3, <3>1
    <3> QED
      BY <2>2, <3>1, <3>2
  <2> QED
    BY <1>5, <2>4 DEF a, b, d
<1>10. Said' = Said /\ Known["local"]["trustAll"] = "unsaid" /\ w \in {"on", "off"}
  BY <1>2, <1>5, <1>6, KnownFollows, OnOffType DEF w
<1>11. P!Ask
  BY <1>2, <1>3, <1>9, <1>10 DEF P!Ask
<1> QED
  BY <1>11 DEF P!Next

LEMMA TrustMaps == IndInv /\ trustAnswer => P!Next
<1> SUFFICES ASSUME IndInv, trustAnswer PROVE P!Next
  OBVIOUS
<1>1. /\ pc \in {"prompt", "trust"}
      /\ acts' = [acts EXCEPT !["trustAll"] =
                    OnOff(pc = "trust" /\ IsTrue(Get(cache, "trustAll", "local")))]
      /\ UNCHANGED <<file, cache, env>>
  BY DEF trustAnswer
<1>2. /\ env \in Env /\ env \in Marked /\ acts \in [Pref -> {"on", "off", "open"}]
      /\ acts["trustAll"] = "open"
  BY <1>1 DEF IndInv, TypeInv, RunOK, OpenOK
<1>3. acts' \in [Pref -> {"on", "off", "open"}]
  BY <1>1, <1>2, OnOffType
<1>4. "trustAll" \in Pref
  BY DEF Pref
<1>5. IsRepoTrusted(cache, env) <=> pc = "trust" /\ IsTrue(Get(cache, "trustAll", "local"))
  <2>1. CASE pc = "prompt"
    <3>1. Get(cache, "trustAll", "local") \in {NoValue, ""}
      BY <2>1 DEF IndInv, SettingOK, TrustAllIsSet
    <3>2. ~IsTrue(Get(cache, "trustAll", "local"))
      BY <3>1 DEF IsTrue, NoValue
    <3> QED
      BY <2>1, <3>2 DEF IsRepoTrusted
  <2>2. CASE pc = "trust"
    BY <1>2, <2>2 DEF IsRepoTrusted
  <2> QED
    BY <1>1, <2>1, <2>2
<1>6. acts'["trustAll"] = P!Effective(Words(cache), env, "trustAll")
  <2>1. acts'["trustAll"] =
          OnOff(pc = "trust" /\ IsTrue(Get(cache, "trustAll", "local")))
    BY <1>1, <1>2, <1>4
  <2>2. acts'["trustAll"] = OnOff(IsRepoTrusted(cache, env))
    BY <1>5, <2>1 DEF OnOff
  <2> QED
    BY <1>2, <2>2, TrustEffective
<1>7. \A p \in Pref : p # "trustAll" => acts'[p] = acts[p]
  BY <1>1, <1>2
<1> QED
  BY <1>1, <1>2, <1>3, <1>6, <1>7, ActSteps

LEMMA MarkMaps == IndInv /\ MarkRepoRegistered => UNCHANGED P!vars
<1> SUFFICES ASSUME IndInv, MarkRepoRegistered PROVE UNCHANGED P!vars
  OBVIOUS
<1>1. CacheThenGit("local", "registered", "true", "store mark")
  BY DEF MarkRepoRegistered
<1>2. /\ cache' = Put(cache, "local", "registered", <<"true">>)
      /\ UNCHANGED <<file, env, acts>>
  BY <1>1, CacheThenGitPuts
<1>3. \A s2 \in Scopes, k2 \in Keys :
        <<s2, k2>> # <<"local", "registered">> => cache'[s2][k2] = cache[s2][k2]
  <2>1. cache \in Config
    BY DEF IndInv, TypeInv, ConfOK
  <2>2. cache' = Put(cache, "local", "registered", <<"true">>)
    BY <1>2
  <2> QED
    BY <2>1, <2>2, PutLocal
<1>4. Pref \subseteq Keys /\ "registered" \notin Pref
  BY Constants DEF Pref
<1>5. \A s \in Scopes, p \in Pref : cache'[s][p] = cache[s][p]
  BY <1>3, <1>4
<1>6. Words(cache') = Words(cache)
  BY <1>5 DEF Words
<1>7. Known' = Known /\ Said' = Said
  BY <1>2, <1>6, KnownFollows, SaidKnown
<1> QED
  BY <1>2, <1>7 DEF P!vars

LEMMA UpdateMaps == IndInv /\ shouldRunUpdateCheck => P!Next
<1> SUFFICES ASSUME IndInv, shouldRunUpdateCheck PROVE P!Next
  OBVIOUS
<1>1. /\ pc = "update" /\ UNCHANGED <<file, cache, env>>
      /\ acts' = [acts EXCEPT !["autoUpdate"] = OnOff(GetAutomaticUpdateCheckSettings(cache))]
  BY DEF shouldRunUpdateCheck
<1>2. /\ env \in Env /\ acts \in [Pref -> {"on", "off", "open"}]
      /\ acts["autoUpdate"] = "open" /\ "autoUpdate" \in Pref
  BY <1>1 DEF IndInv, TypeInv, RunOK, OpenOK, Pref
<1>3. acts' \in [Pref -> {"on", "off", "open"}]
  BY <1>1, <1>2, OnOffType
<1>4. acts'["autoUpdate"] = P!Effective(Words(cache), env, "autoUpdate")
  BY <1>1, <1>2, AutoEffective
<1>5. \A p \in Pref : p # "autoUpdate" => acts'[p] = acts[p]
  BY <1>1, <1>2
<1> QED
  BY <1>1, <1>2, <1>3, <1>4, <1>5, ActSteps

LEMMA SharedMaps == IndInv /\ updateSharedHooks => P!Next
<1> SUFFICES ASSUME IndInv, updateSharedHooks PROVE P!Next
  OBVIOUS
<1>1. /\ pc = "shared" /\ UNCHANGED <<file, cache, env>>
      /\ acts' = [acts EXCEPT !["sharedUpdateDisabled"] =
                    OnOff(IsSharedHooksUpdateDisabled(cache))]
  BY DEF updateSharedHooks
<1>2. /\ env \in Env /\ acts \in [Pref -> {"on", "off", "open"}]
      /\ acts["sharedUpdateDisabled"] = "open" /\ "sharedUpdateDisabled" \in Pref
  BY <1>1 DEF IndInv, TypeInv, RunOK, OpenOK, Pref
<1>3. acts' \in [Pref -> {"on", "off", "open"}]
  BY <1>1, <1>2, OnOffType
<1>4. acts'["sharedUpdateDisabled"] = P!Effective(Words(cache), env, "sharedUpdateDisabled")
  BY <1>1, <1>2, SharedEffective
<1>5. \A p \in Pref : p # "sharedUpdateDisabled" => acts'[p] = acts[p]
  BY <1>1, <1>2
<1> QED
  BY <1>1, <1>2, <1>3, <1>4, <1>5, ActSteps

LEMMA StepMaps == IndInv /\ [Next]_vars => [P!Next]_(P!vars)
<1> SUFFICES ASSUME IndInv, [Next]_vars PROVE P!Next \/ UNCHANGED P!vars
  OBVIOUS
<1>1. CASE Next
  <2>1. CASE ConfigCommand \/ OtherEdit \/ cleanGitConfigInRepo \/ cleanGitConfig
    <3>1. UNCHANGED <<cache, env, acts>>
      BY <2>1 DEF ConfigCommand, OtherEdit, cleanGitConfigInRepo, cleanGitConfig, Foreign
    <3> QED
      BY <3>1, SaySteps
  <2>2. CASE InitConfigCache
    BY <2>2, BeginMaps
  <2>3. CASE setupSettings
    BY <2>3, SettingsMaps
  <2>4. CASE showTrustRepoPrompt
    BY <2>4, PromptMaps
  <2>5. CASE trustAnswer
    BY <2>5, TrustMaps
  <2>6. CASE MarkRepoRegistered
    BY <2>6, MarkMaps
  <2>7. CASE shouldRunUpdateCheck
    BY <2>7, UpdateMaps
  <2>8. CASE updateSharedHooks
    BY <2>8, SharedMaps
  <2>9. CASE storeTrust \/ storeMark \/ assertRegistered \/ disabledRun \/ skipUpdate
             \/ RecordUpdateCheckTimestamp \/ runUpdate \/ RunDies
    <3>1. UNCHANGED <<cache, env, acts>>
      BY <2>9 DEF storeTrust, storeMark, SetPending, assertRegistered, disabledRun, skipUpdate,
                  RecordUpdateCheckTimestamp, runUpdate, Beside, RunDies
    <3> QED
      BY <3>1, SaySteps
  <2> QED
    BY <1>1, <2>1, <2>2, <2>3, <2>4, <2>5, <2>6, <2>7, <2>8, <2>9 DEF Next
<1>2. CASE UNCHANGED vars
  <2>1. UNCHANGED <<cache, env, acts>>
    BY <1>2 DEF vars, run
  <2> QED
    BY <2>1, SaySteps
<1> QED
  BY <1>1, <1>2

(* A run acts on what all scopes said when it began, the most specific     *)
(* first, on its environment and on the answer it was given: the commands, *)
(* the cache, and the functions that read the settings implement           *)
(* Preferences. *)
THEOREM Implements == Spec => ImplementsPreferences
BY InitMaps, StepMaps, Inductive, PTL DEF Spec, ImplementsPreferences, P!Spec
===============================================================================
